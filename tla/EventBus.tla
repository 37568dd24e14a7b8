------------------------------ MODULE EventBus ------------------------------
(***************************************************************************)
(* The event bus of core/bus.py: an unbounded priority queue of            *)
(* (priority, timestamp, type, data), the subscribers of each type, and    *)
(* the one coroutine that takes the events and awaits the subscribers'     *)
(* callbacks one after the other.                                          *)
(*                                                                         *)
(* publish() never suspends, so it is one step that any coroutine may take *)
(* between two suspensions of the loop, a callback included.  The loop     *)
(* suspends in sleep(0), in get() and in every callback.                   *)
(*                                                                         *)
(* An event is its publication number.  Publishers leave the timestamp to  *)
(* publish(), which reads the system clock: readings are numbered, and     *)
(* publications close together may get the same one.  The clock does not   *)
(* go back, and it moves between two publications of the same type (their  *)
(* data would be compared next, and dictionaries cannot be).  What the     *)
(* loop compares with 200 ms is the event's age.                           *)
(***************************************************************************)
EXTENDS Naturals, Sequences, FiniteSets, SequencesExt, Ascending

CONSTANTS Types,         \* event types
          PriorityOf,    \* the EventPriority each type is published with
          NameRank,      \* the place of each type's name in the order of strings
          Callbacks,     \* subscribers' callbacks
          Subscriptions, \* bound: the <<type, callback>> pairs that may be subscribed
          StaleAfter,    \* the 0.2 s of the stale check, in ticks
          MaxPublished   \* bound: publications in a behaviour

ASSUME PriorityAssumption == PriorityOf \in [Types -> 0..3]
ASSUME NameRankAssumption ==
           /\ NameRank \in [Types -> Nat]
           /\ \A ty, uy \in Types : ty # uy => NameRank[ty] # NameRank[uy]
ASSUME SubscriptionsAssumption == Subscriptions \subseteq Types \X Callbacks
ASSUME StaleAssumption == StaleAfter \in Nat
ASSUME MaxPublishedAssumption == MaxPublished \in Nat

VARIABLES clock,       \* time.time() as the next publication will read it
          kind,        \* the type of each publication
          stamp,       \* the reading each publication is stamped with
          age,         \* its age in ticks, counted up to just over StaleAfter
          queue,       \* _queue: the publications waiting
          unfinished,  \* the queue's count of tasks not yet done
          subscribers, \* _subscribers
          loop,        \* where process_events is
          current,     \* the event being dispatched, 0 if none
          index,       \* the callback being awaited
          calls,       \* history: <<callback, event>> in the order of the calls
          taken,       \* history: the event taken last
          ended        \* history: who ended the loop, its canceller or a callback

vars == <<clock, kind, stamp, age, queue, unfinished, subscribers, loop, current, index, calls,
          taken, ended>>

Priority(n) == PriorityOf[kind[n]]
Published == 1..Len(kind)
NoEvent == 0

\* Every variable has the shape the loop relies on.
TypeOK ==
    /\ kind \in Seq(Types) /\ Len(kind) <= MaxPublished
    /\ clock \in Nat
    /\ stamp \in Seq(Nat) /\ Len(stamp) = Len(kind)
    /\ age \in Seq(0..StaleAfter + 1) /\ Len(age) = Len(kind)
    /\ queue \subseteq Published
    /\ unfinished \in Nat
    /\ subscribers \in [Types -> Seq(Callbacks)]
    /\ loop \in {"off", "yield", "get", "dispatch", "dead"}
    /\ current \in Published \cup {NoEvent}
    /\ index \in Nat
    /\ calls \in Seq(Callbacks \X Published)
    /\ taken \in Published \cup {NoEvent}
    /\ ended \in {"nobody", "canceller", "callback"}

Init ==
    /\ clock = 0
    /\ kind = <<>>
    /\ stamp = <<>>
    /\ age = <<>>
    /\ queue = {}
    /\ unfinished = 0
    /\ subscribers = [ty \in Types |-> <<>>]
    /\ loop = "off"
    /\ current = NoEvent
    /\ index = 0
    /\ calls = <<>>
    /\ taken = NoEvent
    /\ ended = "nobody"
-----------------------------------------------------------------------------
\* The clock moves before it is read again, or it does not.
NextReadings == {clock, clock + 1}

Publish(ty) ==
    /\ Len(kind) < MaxPublished
    /\ \A n \in Published : kind[n] = ty => stamp[n] # clock
    /\ stamp' = Append(stamp, clock)
    /\ clock' \in NextReadings
    /\ kind' = Append(kind, ty)
    /\ age' = Append(age, 0)
    /\ queue' = queue \cup {Len(kind) + 1}
    /\ unfinished' = unfinished + 1
    /\ UNCHANGED <<subscribers, loop, current, index, calls, taken, ended>>

\* A callback is subscribed to a type once; a second subscription would only call
\* it twice per event.
Subscribe(ty, c) ==
    /\ <<ty, c>> \in Subscriptions
    /\ ~Contains(subscribers[ty], c)
    /\ subscribers' = [subscribers EXCEPT ![ty] = Append(@, c)]
    /\ UNCHANGED <<clock, kind, stamp, age, queue, unfinished, loop, current, index,
                   calls, taken, ended>>

Start ==
    /\ loop = "off"
    /\ loop' = "yield"
    /\ UNCHANGED <<clock, kind, stamp, age, queue, unfinished, subscribers, current,
                   index, calls, taken, ended>>

\* asyncio.sleep(0): the other coroutines get a turn before every event.
Yield ==
    /\ loop = "yield"
    /\ loop' = "get"
    /\ UNCHANGED <<clock, kind, stamp, age, queue, unfinished, subscribers, current,
                   index, calls, taken, ended>>

\* Tuples without a timestamp.
MinWithoutTime(n) ==
    \A m \in queue :
        \/ Priority(n) < Priority(m)
        \/ Priority(n) = Priority(m) /\ NameRank[kind[n]] <= NameRank[kind[m]]

\* The smallest tuple of the heap: the most urgent priority, then the earliest reading,
\* then the name of the type.
IsMin(n) ==
    \A m \in queue :
        \/ Priority(n) < Priority(m)
        \/ Priority(n) = Priority(m) /\ stamp[n] < stamp[m]
        \/ /\ Priority(n) = Priority(m) /\ stamp[n] = stamp[m]
           /\ NameRank[kind[n]] <= NameRank[kind[m]]

TaskNotDone == unfinished' = unfinished

\* task_done() of the event in hand.
TaskDone == unfinished' = unfinished - 1

Stale(n) == age[n] > StaleAfter

\* The end of an event that ends the loop with it.
LoopReturns ==
    /\ loop' = "dead"
    /\ current' = NoEvent
    /\ index' = 0
    /\ calls' = calls

\* The event is over: dropped, or nobody (else) to call.
BackToYield ==
    /\ loop' = "yield"
    /\ current' = NoEvent
    /\ index' = 0
    /\ calls' = calls

Call(n, i) ==
    /\ loop' = "dispatch"
    /\ current' = n
    /\ index' = i
    /\ calls' = Append(calls, <<subscribers[kind[n]][i], n>>)

\* get() returns an event: too old, it is dropped; otherwise its first callback is
\* awaited, if it has one.
Take(n) ==
    /\ loop = "get"
    /\ n \in queue /\ IsMin(n)
    /\ queue' = queue \ {n}
    /\ taken' = n
    /\ \/ /\ Stale(n)
          /\ BackToYield /\ TaskDone
       \/ /\ ~Stale(n) /\ subscribers[kind[n]] = <<>>
          /\ BackToYield /\ TaskDone
       \/ /\ ~Stale(n) /\ subscribers[kind[n]] # <<>>
          /\ Call(n, 1) /\ UNCHANGED unfinished
    /\ UNCHANGED <<clock, kind, stamp, age, subscribers, ended>>

\* The next callback of the list as it is now, or the end of the event.
NextCallback ==
    \/ /\ index < Len(subscribers[kind[current]])
       /\ Call(current, index + 1)
       /\ UNCHANGED unfinished
    \/ /\ index = Len(subscribers[kind[current]])
       /\ BackToYield /\ TaskDone

CallbackReturns ==
    /\ loop = "dispatch"
    /\ NextCallback
    /\ UNCHANGED <<clock, kind, stamp, age, queue, subscribers, taken, ended>>

\* An exception that ends the event for the callbacks still to come.
AbandonEvent == BackToYield /\ TaskDone

\* An exception is logged and the next callback is awaited.
AfterException == NextCallback

CallbackRaises ==
    /\ loop = "dispatch"
    /\ AfterException
    /\ UNCHANGED <<clock, kind, stamp, age, queue, subscribers, taken, ended>>

\* CancelledError is no Exception: whoever raised it, the loop ends, and the event
\* in hand is never marked done.
Die ==
    /\ loop' = "dead"
    /\ UNCHANGED <<clock, kind, stamp, age, queue, unfinished, subscribers, current,
                   index, calls, taken>>

\* A callback awaited something that was cancelled.
CallbackCancelled ==
    /\ loop = "dispatch"
    /\ Die
    /\ ended' = "callback"

\* The loop's own task is cancelled (TradingSystem.shutdown), wherever it is.
CancelLoop ==
    /\ loop # "dead"
    /\ Die
    /\ ended' = "canceller"

\* Time passes: no later publication gets the reading of an earlier one.
Tick ==
    /\ clock' = IF \E n \in Published : stamp[n] = clock THEN clock + 1 ELSE clock
    /\ age' = [n \in Published |-> IF n \in queue \cup {current} /\ age[n] <= StaleAfter
                                   THEN age[n] + 1 ELSE age[n]]
    /\ UNCHANGED <<kind, stamp, queue, unfinished, subscribers, loop, current, index, calls,
                   taken, ended>>
-----------------------------------------------------------------------------
Loop ==
    \/ Yield
    \/ \E n \in queue : Take(n)
    \/ CallbackReturns
    \/ CallbackRaises

Next ==
    \/ \E ty \in Types : Publish(ty)
    \/ \E ty \in Types, c \in Callbacks : Subscribe(ty, c)
    \/ Start
    \/ Loop
    \/ CallbackCancelled
    \/ CancelLoop
    \/ Tick

Spec == Init /\ [][Next]_vars

\* The event loop runs the bus whenever it can proceed, and no callback awaits
\* forever.  Nobody has to publish, subscribe or let time pass.
FairSpec == Spec /\ WF_vars(Start) /\ WF_vars(Loop)
-----------------------------------------------------------------------------
\* Every put is matched by one task_done: only the events still waiting and the one
\* in hand are unfinished, so a join() of the queue waits for exactly those.
JoinBalance ==
    unfinished = Cardinality(queue) + (IF current = NoEvent THEN 0 ELSE 1)

\* When the loop is done with an event, every subscriber of its type has been called
\* with it, once and in the order of the subscriptions, those that raised and those
\* subscribed during the dispatch included; and the calls of an event are never mixed
\* with those of another.
EachCalledOnce ==
    [][current # NoEvent /\ current' = NoEvent =>
           LET called == subscribers[kind[current]]
               before == Len(calls) - Len(called)
           IN  /\ Len(called) <= Len(calls)
               /\ \A i \in 1..Len(called) : calls[before + i] = <<called[i], current>>
               /\ \A i \in 1..before : calls[i][2] # current]_vars

\* No event waits for ever unless a cancellation ends the loop, whatever callbacks raise; the
\* publications are finitely many, so nothing more urgent comes forever.
EveryEventTaken == \A n \in 1..MaxPublished : []<>(n \notin queue \/ ended # "nobody")

\* The heap of tuples behaves as one queue per type.
Fifo == INSTANCE PriorityFifo WITH
            Events <- 1..MaxPublished,
            waiting <- [ty \in Types |-> Ascending({n \in queue : kind[n] = ty})],
            time <- stamp,
            last <- taken

\* The bus implements the abstract queues: the events of a type are taken in the order of
\* their publication; those of one priority in the order of the clock; and where the clock
\* does not tell them apart, by the names of their types, whoever came first.
ImplementsFifo == Fifo!Spec
=============================================================================
