--------------------------- MODULE EventBusProofs ---------------------------
(***************************************************************************)
(* The event bus for every table of types and priorities, every set of     *)
(* callbacks and any number of publications: the count join() waits on,    *)
(* the calls each event gets, and the queues the heap stands for.          *)
(***************************************************************************)
EXTENDS EventBus, FiniteSetTheorems, SequenceTheorems, WellFoundedInduction, TLAPS

\* Where the loop is says whether it has an event in hand, and join() waits for what is
\* on the queue and in hand.
BusInv ==
    /\ TypeOK
    /\ IsFiniteSet(queue) /\ current \notin queue
    /\ loop = "dispatch" => current # NoEvent
    /\ loop \in {"off", "yield", "get"} => current = NoEvent
    /\ JoinBalance

\* What the proofs need to know of the sequences.
LEMMA Shapes ==
    ASSUME TypeOK
    PROVE  /\ Len(kind) \in Nat /\ \A n \in Published : kind[n] \in Types
           /\ \A n \in Published : age[n] \in 0..(StaleAfter + 1)
           /\ \A ty \in Types : Len(subscribers[ty]) \in Nat
           /\ Len(calls) \in Nat /\ NoEvent \notin Published
           /\ clock \in Nat /\ \A n \in Published : stamp[n] \in Nat
<1>1. kind \in Seq(Types) /\ age \in Seq(0..(StaleAfter + 1)) /\ Len(age) = Len(kind)
  BY DEF TypeOK
<1>2. Len(kind) \in Nat /\ \A n \in Published : kind[n] \in Types
  BY <1>1, LenProperties, ElementOfSeq DEF Published
<1>3. \A n \in Published : age[n] \in 0..(StaleAfter + 1)
  BY <1>1, ElementOfSeq DEF Published
<1>4. \A ty \in Types : subscribers[ty] \in Seq(Callbacks)
  BY DEF TypeOK
<1>5. \A ty \in Types : Len(subscribers[ty]) \in Nat
  BY <1>4, LenProperties
<1>6. Len(calls) \in Nat
  BY LenProperties DEF TypeOK
<1>7. NoEvent \notin Published
  BY <1>2 DEF NoEvent, Published
<1>8. clock \in Nat /\ \A n \in Published : stamp[n] \in Nat
  BY <1>2, ElementOfSeq DEF TypeOK, Published
<1> QED BY <1>2, <1>3, <1>5, <1>6, <1>7, <1>8

\* A publication, accepted or dropped by the full queue, keeps the invariant;
LEMMA PublishKept ==
    ASSUME BusInv, NEW ty \in Types, Publish(ty)
    PROVE  BusInv'
<1> DEFINE e == Len(kind) + 1
<1>1. /\ TypeOK /\ Len(kind) \in Nat /\ Len(calls) \in Nat
  BY Shapes DEF BusInv
<1>2. /\ kind' = Append(kind, ty) /\ age' = Append(age, 0) /\ queue' = queue \cup {e}
      /\ unfinished' = unfinished + 1
      /\ UNCHANGED <<subscribers, loop, current, index, calls, taken, ended>>
      /\ Len(kind) < MaxPublished
      /\ stamp' = Append(stamp, clock) /\ clock' \in {clock, clock + 1}
  BY DEF Publish, NextReadings
<1>3. Len(kind') = e /\ Published' = Published \cup {e} /\ e \notin Published
  <2>1. Len(kind') = e
    BY <1>1, <1>2, AppendProperties DEF TypeOK
  <2>2. Published' = 1..e /\ Published = 1..Len(kind)
    BY <2>1 DEF Published
  <2>3. 1..e = 1..Len(kind) \cup {e} /\ e \notin 1..Len(kind)
    BY <1>1
  <2> QED BY <2>1, <2>2, <2>3
<1>4. /\ kind' \in Seq(Types) /\ age' \in Seq(0..(StaleAfter + 1)) /\ Len(age') = Len(kind')
      /\ stamp' \in Seq(Nat) /\ Len(stamp') = Len(kind') /\ clock' \in Nat
  <2>1. kind' \in Seq(Types) /\ age' \in Seq(0..(StaleAfter + 1)) /\ Len(age') = Len(kind')
    BY <1>1, <1>2, <1>3, AppendProperties, StaleAssumption DEF TypeOK
  <2>2. clock \in Nat /\ stamp \in Seq(Nat) /\ Len(stamp) = Len(kind)
    BY <1>1 DEF TypeOK
  <2>3. stamp' \in Seq(Nat) /\ Len(stamp') = Len(kind') /\ clock' \in Nat
    BY <1>2, <1>3, <2>2, AppendProperties
  <2> QED BY <2>1, <2>3
<1>5. calls' \in Seq(Callbacks \X Published')
  <2>1. Callbacks \X Published \subseteq Callbacks \X Published'
    BY <1>3
  <2> QED BY <1>1, <1>2, <2>1, SeqMonotonic DEF TypeOK
<1>6. /\ e \notin queue /\ IsFiniteSet(queue') /\ Cardinality(queue) \in Nat
      /\ Cardinality(queue') = Cardinality(queue) + 1
  BY <1>1, <1>2, <1>3, FS_AddElement, FS_CardinalityType DEF BusInv, TypeOK
<1>7. TypeOK'
  BY <1>1, <1>2, <1>3, <1>4, <1>5, MaxPublishedAssumption DEF TypeOK
<1>8. current # e
  BY <1>1, <1>3 DEF TypeOK, NoEvent
<1>9. JoinBalance'
  BY <1>1, <1>2, <1>6 DEF BusInv, JoinBalance, TypeOK
<1> QED BY <1>2, <1>6, <1>7, <1>8, <1>9 DEF BusInv

\* so does a subscription, made while a list is walked or not;
LEMMA SubscribeKept ==
    ASSUME BusInv, NEW ty \in Types, NEW c \in Callbacks, Subscribe(ty, c)
    PROVE  BusInv'
<1>1. subscribers' = [subscribers EXCEPT ![ty] = Append(@, c)]
      /\ UNCHANGED <<clock, kind, stamp, age, queue, unfinished, loop, current, index, calls, taken, ended>>
  BY DEF Subscribe
<1>2. TypeOK'
  <2>1. subscribers' \in [Types -> Seq(Callbacks)]
    BY <1>1, AppendProperties DEF BusInv, TypeOK
  <2> QED BY <1>1, <2>1 DEF BusInv, TypeOK, Published
<1> QED BY <1>1, <1>2 DEF BusInv, JoinBalance

\* The event that is over leaves the hand of the loop and is marked done.
LEMMA OverKept ==
    ASSUME BusInv, loop = "dispatch", BackToYield, TaskDone,
           UNCHANGED <<clock, kind, stamp, age, queue, subscribers, taken, ended>>
    PROVE  BusInv'
<1>1. /\ loop' = "yield" /\ current' = NoEvent /\ index' = 0 /\ calls' = calls
      /\ unfinished' = unfinished - 1 /\ current # NoEvent
  BY DEF BackToYield, TaskDone, BusInv
<1>2. Cardinality(queue) \in Nat /\ unfinished = Cardinality(queue) + 1
  BY <1>1, FS_CardinalityType DEF BusInv, JoinBalance
<1>3. TypeOK' /\ JoinBalance'
  BY <1>1, <1>2 DEF BusInv, TypeOK, JoinBalance, Published
<1>4. NoEvent \notin queue
  BY Shapes DEF BusInv, TypeOK
<1> QED BY <1>1, <1>3, <1>4 DEF BusInv

\* so does the call of the next callback,
LEMMA NextCallKept ==
    ASSUME BusInv, loop = "dispatch", Call(current, index + 1),
           index < Len(subscribers[kind[current]]),
           UNCHANGED <<clock, kind, stamp, age, queue, subscribers, taken, ended, unfinished>>
    PROVE  BusInv'
<1> DEFINE called == subscribers[kind[current]]
<1>1. /\ loop' = "dispatch" /\ current' = current /\ index' = index + 1
      /\ calls' = Append(calls, <<called[index + 1], current>>)
      /\ current \in Published /\ index \in Nat
  BY DEF Call, BusInv, TypeOK
<1>2. kind[current] \in Types /\ called \in Seq(Callbacks) /\ Len(called) \in Nat
  BY <1>1, Shapes DEF BusInv, TypeOK
<1>3. called[index + 1] \in Callbacks
  <2>1. index + 1 \in 1..Len(called)
    BY <1>1, <1>2
  <2> QED BY <1>2, <2>1, ElementOfSeq
<1>4. calls' \in Seq(Callbacks \X Published)
  BY <1>1, <1>3, AppendProperties DEF BusInv, TypeOK
<1>5. TypeOK'
  BY <1>1, <1>4 DEF BusInv, TypeOK, Published
<1> QED BY <1>1, <1>5 DEF BusInv, JoinBalance

\* the end of an item and the taking of the next,
LEMMA TakeKept ==
    ASSUME BusInv, NEW n \in queue, Take(n)
    PROVE  BusInv'
<1>1. /\ loop = "get" /\ current = NoEvent /\ queue' = queue \ {n} /\ taken' = n
      /\ n \in Published /\ UNCHANGED <<clock, kind, stamp, age, subscribers, ended>>
      /\ Published' = Published
  BY DEF Take, BusInv, TypeOK, Published
<1>2. /\ IsFiniteSet(queue') /\ Cardinality(queue) \in Nat /\ Cardinality(queue') \in Nat
      /\ Cardinality(queue') = Cardinality(queue) - 1
  BY <1>1, FS_RemoveElement, FS_CardinalityType DEF BusInv
<1>3. unfinished = Cardinality(queue) /\ NoEvent \notin queue
  <2>1. unfinished = Cardinality(queue) + 0
    BY <1>1 DEF BusInv, JoinBalance
  <2>2. NoEvent \notin queue
    BY Shapes DEF BusInv, TypeOK
  <2> QED BY <1>2, <2>1, <2>2
<1>4. CASE BackToYield /\ TaskDone
  <2>1. /\ loop' = "yield" /\ current' = NoEvent /\ index' = 0 /\ calls' = calls
        /\ unfinished' = unfinished - 1
    BY <1>4 DEF BackToYield, TaskDone
  <2>2. TypeOK' /\ JoinBalance'
    BY <1>1, <1>2, <1>3, <2>1 DEF BusInv, TypeOK, JoinBalance
  <2> QED BY <1>1, <1>2, <1>3, <2>1, <2>2 DEF BusInv
<1>5. CASE subscribers[kind[n]] # <<>> /\ Call(n, 1) /\ UNCHANGED unfinished
  <2>1. /\ loop' = "dispatch" /\ current' = n /\ index' = 1
        /\ calls' = Append(calls, <<subscribers[kind[n]][1], n>>)
    BY <1>5 DEF Call
  <2>2. kind[n] \in Types /\ subscribers[kind[n]] \in Seq(Callbacks)
    BY <1>1, Shapes DEF BusInv, TypeOK
  <2>3. subscribers[kind[n]][1] \in Callbacks
    BY <1>5, <2>2
  <2>4. calls' \in Seq(Callbacks \X Published)
    BY <1>1, <2>1, <2>3, AppendProperties DEF BusInv, TypeOK
  <2>5. TypeOK'
    BY <1>1, <1>5, <2>1, <2>4 DEF BusInv, TypeOK
  <2>6. JoinBalance'
    BY <1>1, <1>2, <1>3, <1>5, <2>1 DEF JoinBalance
  <2> QED BY <1>1, <1>2, <1>3, <2>1, <2>5, <2>6 DEF BusInv
<1> QED BY <1>4, <1>5 DEF Take

\* the passing of time,
LEMMA TickKept == BusInv /\ Tick => BusInv'
<1> SUFFICES ASSUME BusInv, Tick PROVE BusInv'
  OBVIOUS
<1>1. /\ UNCHANGED <<kind, stamp, queue, unfinished, subscribers, loop, current, index,
                     calls, taken, ended>>
      /\ Published' = Published /\ clock' \in {clock, clock + 1}
  BY DEF Tick, Published
<1>2. \A n \in Published : age'[n] \in 0..(StaleAfter + 1)
  <2> SUFFICES ASSUME NEW n \in Published PROVE age'[n] \in 0..(StaleAfter + 1)
    OBVIOUS
  <2>1. age[n] \in 0..(StaleAfter + 1)
    BY Shapes DEF BusInv
  <2>2. age'[n] = age[n] \/ (age'[n] = age[n] + 1 /\ age[n] <= StaleAfter)
    <3>1. age' = [m \in Published |-> IF m \in queue \cup {current} /\ age[m] <= StaleAfter
                                      THEN age[m] + 1 ELSE age[m]]
      BY DEF Tick
    <3> QED BY <3>1
  <2> QED BY <2>1, <2>2, StaleAssumption
<1>3. age' \in Seq(0..(StaleAfter + 1)) /\ Len(age') = Len(kind)
  <2>1. Len(kind) \in Nat /\ age' = [n \in 1..Len(kind) |-> age'[n]]
    BY Shapes DEF Tick, BusInv, Published
  <2>2. age' \in Seq(0..(StaleAfter + 1))
    <3>1. Len(kind) \in Nat /\ \A n \in 1..Len(kind) : age'[n] \in 0..(StaleAfter + 1)
      BY <1>2, <2>1 DEF Published
    <3>2. [n \in 1..Len(kind) |-> age'[n]] \in Seq(0..(StaleAfter + 1))
      BY <3>1
    <3> QED BY <2>1, <3>2
  <2>3. DOMAIN age' = 1..Len(kind)
    BY <2>1
  <2> QED BY <2>1, <2>2, <2>3, LenProperties
<1>4. TypeOK'
  BY <1>1, <1>3 DEF BusInv, TypeOK
<1> QED BY <1>1, <1>4 DEF BusInv, JoinBalance

\* and everything else, the end of the loop by a cancellation included.
LEMMA OthersKept ==
    ASSUME BusInv, Start \/ Yield \/ CallbackCancelled \/ CancelLoop \/ UNCHANGED vars
    PROVE  BusInv'
<1>1. CASE Start
  BY <1>1 DEF Start, BusInv, TypeOK, JoinBalance, Published
<1>2. CASE Yield
  BY <1>2 DEF Yield, BusInv, TypeOK, JoinBalance, Published
<1>3. CASE CallbackCancelled \/ CancelLoop
  BY <1>3 DEF CallbackCancelled, CancelLoop, Die, BusInv, TypeOK, JoinBalance, Published
<1>4. CASE UNCHANGED vars
  BY <1>4 DEF vars, BusInv, TypeOK, JoinBalance, Published
<1> QED BY <1>1, <1>2, <1>3, <1>4

\* The queue, the loop and the count join() waits for fit together in every state.
THEOREM BusInvariant == Spec => []BusInv
<1>1. Init => BusInv
  <2> SUFFICES ASSUME Init PROVE BusInv
    OBVIOUS
  <2>1. /\ clock = 0 /\ stamp = <<>> /\ kind = <<>> /\ age = <<>> /\ queue = {} /\ unfinished = 0 /\ loop = "off"
        /\ subscribers = [ty \in Types |-> <<>>] /\ current = NoEvent /\ index = 0
        /\ calls = <<>> /\ taken = NoEvent /\ ended = "nobody"
    BY DEF Init
  <2>2. TypeOK
    BY <2>1, MaxPublishedAssumption DEF TypeOK
  <2>3. IsFiniteSet(queue) /\ JoinBalance
    BY <2>1, FS_EmptySet DEF JoinBalance
  <2> QED BY <2>1, <2>2, <2>3 DEF BusInv
<1>2. BusInv /\ [Next]_vars => BusInv'
  <2> SUFFICES ASSUME BusInv, [Next]_vars PROVE BusInv'
    OBVIOUS
  <2>1. CASE CallbackReturns \/ CallbackRaises
    BY <2>1, NextCallKept, OverKept
       DEF CallbackReturns, CallbackRaises, AfterException, NextCallback
  <2> QED
    BY <2>1, PublishKept, SubscribeKept, TakeKept, TickKept, OthersKept DEF Next, Loop
<1> QED BY <1>1, <1>2, PTL DEF Spec

\* The variables of the bus keep their shapes.
THEOREM BusTypeCorrect == Spec => []TypeOK
<1>1. BusInv => TypeOK
  BY DEF BusInv
<1> QED BY <1>1, BusInvariant, PTL

\* Whatever callbacks do and whoever cancels the loop, join() waits for the events on the
\* queue and for the one in hand, and for nothing else.
THEOREM JoinIsBalanced == Spec => []JoinBalance
<1>1. BusInv => JoinBalance
  BY DEF BusInv
<1> QED BY <1>1, BusInvariant, PTL
-----------------------------------------------------------------------------
(***************************************************************************)
(* The calls of an event.                                                  *)
(***************************************************************************)
Called == subscribers[kind[current]]
Before == Len(calls) - index

\* During a dispatch the last calls are those of the event in hand, one for each of the
\* first callbacks of its list, and nobody was called with it earlier; nobody has been
\* called with an event that still waits.
CallInv ==
    /\ loop = "dispatch" =>
           /\ index \in 1..Len(Called) /\ index <= Len(calls)
           /\ \A i \in 1..index : calls[Before + i] = <<Called[i], current>>
           /\ \A i \in 1..Before : calls[i][2] # current
    /\ \A n \in queue, i \in 1..Len(calls) : calls[i][2] # n

\* The list of calls with one more at its end.
LEMMA OneMoreCall ==
    ASSUME TypeOK, NEW x, calls' = Append(calls, x), x \in Callbacks \X Published
    PROVE  /\ Len(calls') = Len(calls) + 1 /\ Len(calls) \in Nat
           /\ calls'[Len(calls) + 1] = x
           /\ \A i \in 1..Len(calls) : calls'[i] = calls[i]
BY AppendProperties, LenProperties DEF TypeOK

\* An event is published with a number nobody was called with, and a subscription adds
\* to the end of a list.
LEMMA InputKeepsCalls ==
    ASSUME BusInv, CallInv,
           (\E ty \in Types : Publish(ty))
               \/ \E ty \in Types, c \in Callbacks : Subscribe(ty, c)
    PROVE  CallInv'
<1>1. /\ kind \in Seq(Types) /\ Len(kind) \in Nat /\ Len(calls) \in Nat
      /\ current \in Published \cup {NoEvent}
  BY Shapes DEF BusInv, TypeOK
<1>2. CASE \E ty \in Types : Publish(ty)
  <2> PICK ty \in Types : Publish(ty)
    BY <1>2
  <2>1. /\ kind' = Append(kind, ty) /\ queue' = queue \cup {Len(kind) + 1}
        /\ UNCHANGED <<subscribers, loop, current, index, calls>>
    BY DEF Publish
  <2>2. loop = "dispatch" => Called' = Called
    <3> SUFFICES ASSUME loop = "dispatch" PROVE kind'[current] = kind[current]
      BY <2>1 DEF Called
    <3>1. current \in 1..Len(kind)
      BY <1>1 DEF BusInv, Published
    <3> QED BY <1>1, <2>1, <3>1, AppendProperties
  <2>3. \A i \in 1..Len(calls) : calls[i][2] # Len(kind) + 1
    <3> SUFFICES ASSUME NEW i \in 1..Len(calls) PROVE calls[i][2] # Len(kind) + 1
      OBVIOUS
    <3>1. calls[i] \in Callbacks \X Published
      BY ElementOfSeq DEF BusInv, TypeOK
    <3> QED BY <1>1, <3>1 DEF Published
  <2> QED BY <2>1, <2>2, <2>3 DEF CallInv, Before
<1>3. CASE \E ty \in Types, c \in Callbacks : Subscribe(ty, c)
  <2> PICK ty \in Types, c \in Callbacks : Subscribe(ty, c)
    BY <1>3
  <2>1. /\ subscribers' = [subscribers EXCEPT ![ty] = Append(@, c)]
        /\ UNCHANGED <<kind, queue, loop, current, index, calls>>
    BY DEF Subscribe
  <2>2. ASSUME loop = "dispatch"
        PROVE  /\ Len(Called) \in Nat /\ Len(Called') >= Len(Called)
               /\ \A i \in 1..Len(Called) : Called'[i] = Called[i]
    <3>1. kind[current] \in Types
      BY <2>2, <1>1, Shapes DEF BusInv
    <3>2. Called \in Seq(Callbacks) /\ Len(Called) \in Nat
      BY <3>1, LenProperties DEF BusInv, TypeOK, Called
    <3>3. Called' = Called \/ Called' = Append(Called, c)
      BY <2>1, <3>1 DEF BusInv, TypeOK, Called
    <3> QED BY <3>2, <3>3, AppendProperties
  <2> QED BY <2>1, <2>2 DEF CallInv, Before
<1> QED BY <1>2, <1>3

\* The first call of an event, and the next one.
LEMMA CallKeepsCalls ==
    ASSUME BusInv, CallInv,
           \/ \E n \in queue : Take(n)
           \/ CallbackReturns \/ CallbackRaises
    PROVE  CallInv'
<1>1. CASE \E n \in queue : Take(n)
  <2> PICK n \in queue : Take(n)
    BY <1>1
  <2>1. /\ queue' = queue \ {n} /\ UNCHANGED <<kind, subscribers>> /\ n \in Published
        /\ kind[n] \in Types
    BY Shapes DEF Take, BusInv, TypeOK
  <2>2. CASE BackToYield
    BY <2>1, <2>2 DEF BackToYield, CallInv
  <2>3. CASE subscribers[kind[n]] # <<>> /\ Call(n, 1)
    <3> DEFINE called == subscribers[kind[n]]
    <3>1. /\ loop' = "dispatch" /\ current' = n /\ index' = 1 /\ Called' = called
          /\ calls' = Append(calls, <<called[1], n>>)
      BY <2>1, <2>3 DEF Call, Called
    <3>2. called \in Seq(Callbacks) /\ Len(called) \in Nat /\ 1 \in 1..Len(called)
          /\ called[1] \in Callbacks
      BY <2>1, <2>3 DEF BusInv, TypeOK
    <3>3. /\ Len(calls') = Len(calls) + 1 /\ Len(calls) \in Nat
          /\ calls'[Len(calls) + 1] = <<called[1], n>>
          /\ \A i \in 1..Len(calls) : calls'[i] = calls[i]
      BY <2>1, <3>1, <3>2, OneMoreCall DEF BusInv
    <3>4. Before' = Len(calls)
      BY <3>1, <3>3 DEF Before
    <3>5. \A i \in 1..Len(calls) : calls'[i][2] # n /\ \A m \in queue : calls'[i][2] # m
      BY <3>3 DEF CallInv
    <3>6. \A i \in 1..Len(calls') : i \in 1..Len(calls) \/ i = Len(calls) + 1
      BY <3>3
    <3> QED BY <2>1, <3>1, <3>2, <3>3, <3>4, <3>5, <3>6 DEF CallInv
  <2> QED BY <2>2, <2>3 DEF Take
<1>2. CASE CallbackReturns \/ CallbackRaises
  <2>1. loop = "dispatch" /\ NextCallback /\ UNCHANGED <<kind, queue, subscribers>>
    BY <1>2 DEF CallbackReturns, CallbackRaises, AfterException
  <2>2. CASE BackToYield
    BY <2>1, <2>2 DEF BackToYield, CallInv
  <2>3. CASE index < Len(Called) /\ Call(current, index + 1)
    <3>1. /\ loop' = "dispatch" /\ current' = current /\ index' = index + 1
          /\ Called' = Called /\ calls' = Append(calls, <<Called[index + 1], current>>)
      BY <2>1, <2>3 DEF Call, Called
    <3>2. /\ current \in Published /\ index \in Nat /\ current \notin queue
          /\ index \in 1..Len(Called) /\ index <= Len(calls)
          /\ \A i \in 1..index : calls[Before + i] = <<Called[i], current>>
          /\ \A i \in 1..Before : calls[i][2] # current
          /\ \A n \in queue, i \in 1..Len(calls) : calls[i][2] # n
      BY <2>1 DEF BusInv, TypeOK, CallInv
    <3>3. Called \in Seq(Callbacks) /\ Len(Called) \in Nat /\ Called[index + 1] \in Callbacks
      <4>1. Called \in Seq(Callbacks)
        BY <3>2, Shapes DEF BusInv, TypeOK, Called
      <4>2. Len(Called) \in Nat /\ index + 1 \in 1..Len(Called)
        BY <2>3, <3>2, <4>1, LenProperties
      <4> QED BY <4>1, <4>2, ElementOfSeq
    <3>4. /\ Len(calls') = Len(calls) + 1 /\ Len(calls) \in Nat
          /\ calls'[Len(calls) + 1] = <<Called[index + 1], current>>
          /\ \A i \in 1..Len(calls) : calls'[i] = calls[i]
      BY <3>1, <3>2, <3>3, OneMoreCall DEF BusInv
    <3>5. Before' = Before /\ Before \in Nat /\ Before + index = Len(calls)
      <4>1. /\ index \in Nat /\ index' = index + 1 /\ index <= Len(calls)
            /\ Len(calls) \in Nat /\ Len(calls') = Len(calls) + 1
        BY <3>1, <3>2, <3>4
      <4> QED BY <4>1 DEF Before
    <3>6. \A i \in 1..(index + 1) : calls'[Before + i] = <<Called[i], current>>
      <4> SUFFICES ASSUME NEW i \in 1..(index + 1)
                   PROVE  calls'[Before + i] = <<Called[i], current>>
        OBVIOUS
      <4>1. CASE i \in 1..index
        <5>1. Before + i \in 1..Len(calls)
          BY <3>2, <3>5, <4>1
        <5> QED BY <3>2, <3>4, <4>1, <5>1
      <4>2. CASE i = index + 1
        <5>1. Before + i = Len(calls) + 1
          <6>1. index \in Nat /\ Before \in Nat /\ Before + index = Len(calls)
            BY <3>2, <3>5
          <6> QED BY <4>2, <6>1
        <5> QED BY <3>4, <4>2, <5>1
      <4> QED BY <3>2, <4>1, <4>2
    <3>7. \A i \in 1..Before : calls'[i][2] # current
      <4>1. \A i \in 1..Before : i \in 1..Len(calls)
        BY <3>2, <3>4, <3>5
      <4> QED BY <3>2, <3>4, <4>1
    <3>8. \A n \in queue, i \in 1..Len(calls') : calls'[i][2] # n
      <4>1. \A i \in 1..Len(calls') : i \in 1..Len(calls) \/ i = Len(calls) + 1
        BY <3>4
      <4> QED BY <3>2, <3>4, <4>1
    <3>9. index' \in 1..Len(Called) /\ index' <= Len(calls')
      BY <2>3, <3>1, <3>2, <3>3, <3>4
    <3> QED BY <2>1, <3>1, <3>5, <3>6, <3>7, <3>8, <3>9 DEF CallInv
  <2> QED BY <2>1, <2>2, <2>3 DEF NextCallback, Called
<1> QED BY <1>1, <1>2

\* The calls made for the current item are the callbacks of its type up to the index.
THEOREM CallsInvariant == Spec => []CallInv
<1>1. Init => CallInv
  BY DEF Init, CallInv
<1>2. BusInv /\ CallInv /\ [Next]_vars => CallInv'
  <2> SUFFICES ASSUME BusInv, CallInv, [Next]_vars PROVE CallInv'
    OBVIOUS
  <2>1. CASE Start \/ Yield \/ CallbackCancelled \/ CancelLoop
    BY <2>1 DEF Start, Yield, CallbackCancelled, CancelLoop, Die, CallInv
  <2>2. CASE Tick \/ UNCHANGED vars
    BY <2>2 DEF Tick, vars, CallInv, Called, Before
  <2> QED BY <2>1, <2>2, InputKeepsCalls, CallKeepsCalls DEF Next, Loop
<1> QED BY <1>1, <1>2, BusInvariant, PTL DEF Spec

\* Whatever the callbacks raise and whoever subscribes in the meantime, an event the loop
\* is done with went to each of its subscribers once, in order.
THEOREM EachIsCalledOnce == Spec => EachCalledOnce
<1> DEFINE P == current # NoEvent /\ current' = NoEvent =>
                    /\ Len(Called) <= Len(calls)
                    /\ \A i \in 1..Len(Called) :
                           calls[Len(calls) - Len(Called) + i] = <<Called[i], current>>
                    /\ \A i \in 1..(Len(calls) - Len(Called)) : calls[i][2] # current
<1>1. BusInv /\ CallInv /\ [Next]_vars => [P]_vars
  <2> SUFFICES ASSUME BusInv, CallInv, Next, current # NoEvent, current' = NoEvent
               PROVE  /\ Len(Called) <= Len(calls)
                      /\ \A i \in 1..Len(Called) :
                             calls[Len(calls) - Len(Called) + i] = <<Called[i], current>>
                      /\ \A i \in 1..(Len(calls) - Len(Called)) : calls[i][2] # current
    OBVIOUS
  <2>1. loop = "dispatch" /\ index = Len(Called)
    <3>1. ASSUME NEW n \in queue, Take(n) PROVE FALSE
      BY <3>1 DEF Take, BusInv
    <3>2. CallbackReturns \/ CallbackRaises
      BY <3>1 DEF Next, Loop, Publish, Subscribe, Start, Yield, CallbackCancelled,
                  CancelLoop, Die, Tick
    <3> QED
      BY <3>2 DEF CallbackReturns, CallbackRaises, AfterException, NextCallback, Call, Called
  <2> QED BY <2>1 DEF CallInv, Before
<1> QED BY <1>1, BusInvariant, CallsInvariant, PTL DEF Spec, EachCalledOnce, Called
-----------------------------------------------------------------------------
(***************************************************************************)
(* The heap as one queue per type.                                         *)
(***************************************************************************)
Below(S, x) == {y \in S : y < x}

\* What is listed at each position.
LEMMA AscendingShape ==
    ASSUME NEW S, IsFiniteSet(S), NEW V,
           \A i \in 1..Cardinality(S) : Chosen(Ranked(S, i)) \in V
    PROVE  /\ Ascending(S) \in Seq(V) /\ Len(Ascending(S)) = Cardinality(S)
           /\ \A i \in 1..Cardinality(S) : Ascending(S)[i] = Chosen(Ranked(S, i))
<1>1. Cardinality(S) \in Nat
  BY FS_CardinalityType
<1>2. Ascending(S) = [i \in 1..Cardinality(S) |-> Chosen(Ranked(S, i))]
  BY DEF Ascending
<1>3. Ascending(S) \in Seq(V) /\ DOMAIN Ascending(S) = 1..Cardinality(S)
  BY <1>1, <1>2
<1>4. Len(Ascending(S)) = Cardinality(S)
  BY <1>1, <1>3, LenProperties
<1> QED BY <1>2, <1>3, <1>4

\* A number larger than all of a set comes last.
LEMMA AscendingAppend ==
    ASSUME NEW S \in SUBSET Nat, IsFiniteSet(S), NEW e \in Nat, \A x \in S : x < e
    PROVE  Ascending(S \cup {e}) = Append(Ascending(S), e)
<1> DEFINE n == Cardinality(S)
           T == S \cup {e}
           V == {Chosen(Ranked(T, i)) : i \in 1..(n + 1)}
<1>1. n \in Nat /\ e \notin S /\ IsFiniteSet(T) /\ Cardinality(T) = n + 1
  <2>1. e \notin S
    OBVIOUS
  <2> QED BY <2>1, FS_CardinalityType, FS_AddElement
<1>2. Below(T, e) = S
  <2>1. \A y \in T : y < e <=> y \in S
    OBVIOUS
  <2> QED BY <2>1 DEF Below
<1>3. \A x \in S : Below(T, x) = Below(S, x)
  <2>1. \A x \in S : ~(e < x)
    OBVIOUS
  <2> QED BY <2>1 DEF Below
<1>4. ASSUME NEW x \in S PROVE Cardinality(Below(S, x)) \in 0..(n - 1)
  <2>1. Below(S, x) \in SUBSET S /\ x \notin Below(S, x)
    BY DEF Below
  <2>2. /\ Cardinality(Below(S, x)) <= n /\ Cardinality(Below(S, x)) # n
        /\ Cardinality(Below(S, x)) \in Nat
    BY <2>1, FS_Subset, FS_CardinalityType
  <2> QED BY <1>1, <2>2
<1>5. ASSUME NEW i \in 1..n PROVE Ranked(T, i) = Ranked(S, i)
  <2>1. Cardinality(Below(T, e)) # i - 1
    BY <1>1, <1>2
  <2>2. \A x \in T : Cardinality(Below(T, x)) = i - 1
                         <=> x \in S /\ Cardinality(Below(S, x)) = i - 1
    <3> HIDE DEF n
    <3> QED BY <1>3, <2>1
  <2>3. /\ Ranked(T, i) = {x \in T : Cardinality(Below(T, x)) = i - 1}
        /\ Ranked(S, i) = {x \in S : Cardinality(Below(S, x)) = i - 1}
    BY DEF Ranked, Below
  <2> QED BY <2>2, <2>3
<1>6. Ranked(T, n + 1) = {e}
  <2>1. Cardinality(Below(T, e)) = (n + 1) - 1
    BY <1>1, <1>2
  <2>2. \A x \in S : Cardinality(Below(T, x)) # (n + 1) - 1
    BY <1>1, <1>3, <1>4
  <2>3. Ranked(T, n + 1) = {x \in T : Cardinality(Below(T, x)) = (n + 1) - 1}
    BY DEF Ranked, Below
  <2> QED BY <2>1, <2>2, <2>3
<1>7. Chosen(Ranked(T, n + 1)) = e
  BY <1>6 DEF Chosen
<1>8. /\ Ascending(T) \in Seq(V) /\ Len(Ascending(T)) = n + 1
      /\ \A i \in 1..(n + 1) : Ascending(T)[i] = Chosen(Ranked(T, i))
  <2>1. \A i \in 1..Cardinality(T) : Chosen(Ranked(T, i)) \in V
    BY <1>1
  <2> HIDE DEF V, T, n
  <2> QED BY <1>1, <2>1, AscendingShape
<1>9. /\ Ascending(S) \in Seq(V) /\ Len(Ascending(S)) = n
      /\ \A i \in 1..n : Ascending(S)[i] = Chosen(Ranked(T, i))
  <2>1. \A i \in 1..n : Chosen(Ranked(S, i)) = Chosen(Ranked(T, i))
    BY <1>5
  <2>2. \A i \in 1..n : Chosen(Ranked(T, i)) \in V
    BY <1>1
  <2>3. \A i \in 1..Cardinality(S) : Chosen(Ranked(S, i)) \in V
    BY <2>1, <2>2
  <2> HIDE DEF V, T
  <2> QED BY <2>1, <2>3, AscendingShape
<1>10. e \in V
  BY <1>1, <1>7
<1> HIDE DEF V, T, n
<1>11. /\ Append(Ascending(S), e) \in Seq(V) /\ Len(Append(Ascending(S), e)) = n + 1
       /\ \A i \in 1..n : Append(Ascending(S), e)[i] = Ascending(S)[i]
       /\ Append(Ascending(S), e)[n + 1] = e
  BY <1>9, <1>10, AppendProperties
<1>12. \A i \in 1..(n + 1) : Ascending(T)[i] = Append(Ascending(S), e)[i]
  <2> SUFFICES ASSUME NEW i \in 1..(n + 1)
               PROVE  Ascending(T)[i] = Append(Ascending(S), e)[i]
    OBVIOUS
  <2>1. i \in 1..n \/ i = n + 1
    BY <1>1
  <2> QED BY <1>7, <1>8, <1>9, <1>11, <2>1
<1>13. Ascending(T) = Append(Ascending(S), e)
  BY <1>8, <1>11, <1>12, SeqEqual
<1> QED BY <1>13 DEF T

\* The smallest number of a set comes first, and the others follow as they are.
LEMMA AscendingHead ==
    ASSUME NEW S \in SUBSET Nat, IsFiniteSet(S), NEW e \in S, \A x \in S : e <= x
    PROVE  /\ Ascending(S) # <<>>
           /\ Head(Ascending(S)) = e
           /\ Tail(Ascending(S)) = Ascending(S \ {e})
<1> DEFINE n == Cardinality(S)
           T == S \ {e}
           V == {Chosen(Ranked(S, i)) : i \in 1..n}
<1>1. n \in Nat \ {0} /\ Cardinality(T) = n - 1 /\ IsFiniteSet(T)
  BY FS_CardinalityType, FS_RemoveElement, FS_EmptySet
<1>2. Cardinality(Below(S, e)) = 0
  <2>1. Below(S, e) = {}
    <3>1. \A y \in S : ~(y < e)
      OBVIOUS
    <3> QED BY <3>1 DEF Below
  <2> QED BY <2>1, FS_EmptySet
<1>3. ASSUME NEW x \in T
      PROVE  /\ Cardinality(Below(S, x)) = Cardinality(Below(T, x)) + 1
             /\ Cardinality(Below(T, x)) \in Nat
  <2>1. e < x
    OBVIOUS
  <2>2. Below(S, x) = Below(T, x) \cup {e} /\ e \notin Below(T, x)
    BY <2>1 DEF Below
  <2>3. IsFiniteSet(Below(T, x))
    <3>1. Below(T, x) \in SUBSET T
      BY DEF Below
    <3> HIDE DEF T
    <3> QED BY <1>1, <3>1, FS_Subset
  <2> QED BY <2>2, <2>3, FS_AddElement, FS_CardinalityType
<1>4. Ranked(S, 1) = {e}
  <2>1. \A x \in S : x # e => Cardinality(Below(S, x)) # 0
    BY <1>3
  <2>2. Ranked(S, 1) = {x \in S : Cardinality(Below(S, x)) = 0}
    BY DEF Ranked, Below
  <2> QED BY <1>2, <2>1, <2>2
<1>5. ASSUME NEW i \in 1..(n - 1) PROVE Ranked(S, i + 1) = Ranked(T, i)
  <2>1. i \in Nat /\ i > 0 /\ (i + 1) - 1 = i
    BY <1>1
  <2>2. \A x \in T : Cardinality(Below(S, x)) = i <=> Cardinality(Below(T, x)) = i - 1
    BY <1>3, <2>1
  <2>3. /\ Ranked(S, i + 1) = {x \in S : Cardinality(Below(S, x)) = i}
        /\ Ranked(T, i) = {x \in T : Cardinality(Below(T, x)) = i - 1}
    BY <2>1 DEF Ranked, Below
  <2>4. Cardinality(Below(S, e)) # i
    BY <1>2, <2>1
  <2> QED BY <2>2, <2>3, <2>4
<1>6. Chosen(Ranked(S, 1)) = e
  BY <1>4 DEF Chosen
<1>7. /\ Ascending(S) \in Seq(V) /\ Len(Ascending(S)) = n
      /\ \A i \in 1..n : Ascending(S)[i] = Chosen(Ranked(S, i))
  <2>1. \A i \in 1..Cardinality(S) : Chosen(Ranked(S, i)) \in V
    OBVIOUS
  <2> HIDE DEF V
  <2> QED BY <2>1, AscendingShape
<1>8. /\ Ascending(T) \in Seq(V) /\ Len(Ascending(T)) = n - 1
      /\ \A i \in 1..(n - 1) : Ascending(T)[i] = Chosen(Ranked(S, i + 1))
  <2>1. \A i \in 1..(n - 1) : Chosen(Ranked(T, i)) = Chosen(Ranked(S, i + 1))
    BY <1>5
  <2>2. \A i \in 1..(n - 1) : Chosen(Ranked(S, i + 1)) \in V
    <3>1. \A i \in 1..(n - 1) : i + 1 \in 1..n
      BY <1>1
    <3> QED BY <3>1
  <2>3. \A i \in 1..Cardinality(T) : Chosen(Ranked(T, i)) \in V
    BY <1>1, <2>1, <2>2
  <2> HIDE DEF V, T, n
  <2> QED BY <1>1, <2>1, <2>3, AscendingShape
<1> HIDE DEF V, T, n
<1>9. Ascending(S) # <<>>
  BY <1>1, <1>7
<1>10. /\ Tail(Ascending(S)) \in Seq(V) /\ Len(Tail(Ascending(S))) = n - 1
       /\ \A i \in 1..(n - 1) : Tail(Ascending(S))[i] = Ascending(S)[i + 1]
  BY <1>7, <1>9, HeadTailProperties
<1>11. \A i \in 1..(n - 1) : Tail(Ascending(S))[i] = Ascending(T)[i]
  <2>1. \A i \in 1..(n - 1) : i + 1 \in 1..n
    BY <1>1
  <2> QED BY <1>7, <1>8, <1>10, <2>1
<1>12. Tail(Ascending(S)) = Ascending(T)
  BY <1>8, <1>10, <1>11, SeqEqual
<1>13. Head(Ascending(S)) = e
  <2>1. Head(Ascending(S)) = Ascending(S)[1] /\ 1 \in 1..n
    BY <1>1, <1>7, <1>9
  <2> QED BY <1>6, <1>7, <2>1
<1> QED BY <1>9, <1>12, <1>13 DEF T

\* A set with something in it starts with its smallest number.
LEMMA AscendingFirst ==
    ASSUME NEW S \in SUBSET Nat, IsFiniteSet(S), S # {}
    PROVE  Head(Ascending(S)) \in S
<1> DEFINE R == {ss \in Nat \X Nat : ss[1] < ss[2]}
<1>0. IsWellFoundedOn(R, Nat)
  BY NatLessThanWellFounded DEF OpToRel
<1>1. PICK x \in S : \A y \in S : ~(<<y, x>> \in R)
  <2> HIDE DEF R
  <2> QED BY <1>0, WFMin
<1>2. \A y \in S : x <= y
  <2> SUFFICES ASSUME NEW y \in S PROVE x <= y
    OBVIOUS
  <2>1. y \in Nat /\ x \in Nat /\ ~(y < x)
    BY <1>1
  <2> QED BY <2>1
<1> QED BY <1>2, AscendingHead

\* The clock does not go back, and it moves between two publications of one type.
StampInv ==
    /\ \A n \in Published : stamp[n] <= clock
    /\ \A m, n \in Published : m < n => stamp[m] <= stamp[n]
    /\ \A m, n \in Published : m # n /\ kind[m] = kind[n] => stamp[m] # stamp[n]

\* The stamps of the publications are in their order.
THEOREM StampsInvariant == Spec => []StampInv
<1>1. Init => StampInv
  BY DEF Init, StampInv, Published
<1>2. BusInv /\ StampInv /\ [Next]_vars => StampInv'
  <2> SUFFICES ASSUME BusInv, StampInv, [Next]_vars PROVE StampInv'
    OBVIOUS
  <2>0. clock \in Nat /\ \A n \in Published : stamp[n] \in Nat
    BY Shapes DEF BusInv
  <2>1. ASSUME NEW ty \in Types, Publish(ty) PROVE StampInv'
    <3> PICK e \in Nat : e = Len(kind) + 1
      BY Shapes DEF BusInv
    <3>1. /\ kind' = Append(kind, ty) /\ stamp' = Append(stamp, clock)
          /\ clock' \in {clock, clock + 1}
          /\ \A n \in Published : kind[n] = ty => stamp[n] # clock
      BY <2>1 DEF Publish, NextReadings
    <3>2. /\ kind \in Seq(Types) /\ stamp \in Seq(Nat) /\ Len(stamp) = Len(kind)
          /\ Len(kind) \in Nat
      BY Shapes DEF BusInv, TypeOK
    <3>3. Published' = Published \cup {e} /\ \A n \in Published : n < e /\ n \in Nat
      <4>1. Len(kind') = e
        BY <3>1, <3>2, AppendProperties
      <4> QED BY <3>2, <4>1 DEF Published
    <3>4. /\ kind'[e] = ty /\ stamp'[e] = clock
          /\ \A n \in Published : kind'[n] = kind[n] /\ stamp'[n] = stamp[n]
      BY <3>1, <3>2, AppendProperties DEF Published
    <3>5. \A n \in Published' : stamp'[n] <= clock'
      <4>1. clock' \in Nat /\ clock <= clock'
        BY <2>0, <3>1
      <4>2. \A n \in Published : stamp[n] \in Nat /\ stamp[n] <= clock
        BY <2>0 DEF StampInv
      <4> QED BY <2>0, <3>3, <3>4, <4>1, <4>2
    <3>6. \A m, n \in Published' : m < n => stamp'[m] <= stamp'[n]
      BY <2>0, <3>3, <3>4 DEF StampInv
    <3>7. \A m, n \in Published' : m # n /\ kind'[m] = kind'[n] => stamp'[m] # stamp'[n]
      <4> SUFFICES ASSUME NEW m \in Published', NEW n \in Published', m # n,
                          kind'[m] = kind'[n]
                   PROVE  stamp'[m] # stamp'[n]
        OBVIOUS
      <4>1. CASE m \in Published /\ n \in Published
        BY <3>4, <4>1 DEF StampInv
      <4>2. CASE m = e /\ n \in Published
        BY <3>1, <3>4, <4>2
      <4>3. CASE n = e /\ m \in Published
        BY <3>1, <3>4, <4>3
      <4> QED BY <3>3, <4>1, <4>2, <4>3
    <3> QED BY <3>5, <3>6, <3>7 DEF StampInv
  <2>2. CASE Tick
    <3>1. UNCHANGED <<kind, stamp>> /\ Published' = Published /\ clock' \in {clock, clock + 1}
      BY <2>2 DEF Tick, Published
    <3> QED BY <2>0, <3>1 DEF StampInv
  <2>3. CASE UNCHANGED <<clock, kind, stamp>>
    BY <2>3 DEF StampInv, Published
  <2> QED
    BY <2>1, <2>2, <2>3
       DEF Next, Loop, vars, Subscribe, Start, Yield, Take, CallbackReturns, CallbackRaises,
           CallbackCancelled, CancelLoop, Die
<1> QED BY <1>1, <1>2, BusInvariant, PTL DEF Spec

\* The publications of one type that wait.
Waiting(ty) == {n \in queue : kind[n] = ty}

\* They are finitely many numbers.
LEMMA WaitingShape ==
    ASSUME BusInv
    PROVE  /\ \A ty : Waiting(ty) \in SUBSET Nat /\ IsFiniteSet(Waiting(ty))
           /\ \A n \in queue : n \in Published /\ n \in Nat /\ kind[n] \in Types
<1>1. queue \subseteq Published /\ IsFiniteSet(queue)
  BY DEF BusInv, TypeOK
<1>2. \A ty : Waiting(ty) \in SUBSET queue
  BY DEF Waiting
<1>3. \A ty : IsFiniteSet(Waiting(ty))
  BY <1>1, <1>2, FS_Subset
<1>4. Published \subseteq Nat /\ \A n \in Published : kind[n] \in Types
  BY Shapes DEF BusInv, Published
<1> QED BY <1>1, <1>2, <1>3, <1>4

\* Publishing puts the event at the end of the queue of its type.
LEMMA PublishIsPut ==
    ASSUME BusInv, NEW ty \in Types, Publish(ty)
    PROVE  Fifo!Next
<1> PICK e \in Nat : e = Len(kind) + 1
  BY Shapes DEF BusInv
<1>1. /\ kind' = Append(kind, ty) /\ queue' = queue \cup {e} /\ taken' = taken
      /\ stamp' = Append(stamp, clock) /\ clock' \in {clock, clock + 1} /\ clock \in Nat
      /\ kind \in Seq(Types) /\ Len(kind) \in Nat /\ Len(kind) < MaxPublished
      /\ Len(stamp) + 1 = e
  BY DEF Publish, NextReadings, BusInv, TypeOK
<1>2. e \in 1..MaxPublished
  BY <1>1, MaxPublishedAssumption
<1>3. /\ \A n \in queue : n \in 1..Len(kind) /\ n < e /\ kind'[n] = kind[n]
      /\ kind'[e] = ty
  <2>1. queue \subseteq 1..Len(kind)
    BY DEF BusInv, TypeOK, Published
  <2>2. \A n \in 1..Len(kind) : n < e /\ kind'[n] = kind[n]
    BY <1>1, AppendProperties
  <2>3. kind'[e] = ty
    BY <1>1, AppendProperties
  <2> QED BY <2>1, <2>2, <2>3
<1>4. \A uy : {n \in queue' : kind'[n] = uy}
                  = IF uy = ty THEN Waiting(uy) \cup {e} ELSE Waiting(uy)
  BY <1>1, <1>3 DEF Waiting
<1>5. Ascending(Waiting(ty) \cup {e}) = Append(Ascending(Waiting(ty)), e)
  <2>1. \A x \in Waiting(ty) : x < e
    BY <1>3 DEF Waiting
  <2> QED BY <2>1, WaitingShape, AscendingAppend
<1>6. [uy \in Types |-> Ascending({n \in queue' : kind'[n] = uy})]
          = [[uy \in Types |-> Ascending(Waiting(uy))] EXCEPT ![ty] = Append(@, e)]
  BY <1>4, <1>5
<1>7. Fifo!ClockGoesOn
  BY <1>1 DEF Fifo!ClockGoesOn
<1>8. Fifo!Put(ty)
  BY <1>1, <1>2, <1>6, <1>7 DEF Fifo!Put, Waiting
<1> QED BY <1>8 DEF Fifo!Next

\* Taking takes the first event of the queue whose turn it is.
LEMMA TakeIsGet ==
    ASSUME BusInv, StampInv, NEW n \in queue, Take(n)
    PROVE  Fifo!Next
<1> DEFINE ty == kind[n]
           W == [uy \in Types |-> Ascending(Waiting(uy))]
<1>1. queue' = queue \ {n} /\ taken' = n /\ UNCHANGED <<clock, kind, stamp>> /\ IsMin(n)
  BY DEF Take
<1>2. /\ ty \in Types /\ n \in Nat
      /\ \A m \in queue : m \in Published /\ m \in Nat /\ kind[m] \in Types
      /\ \A m \in queue : stamp[m] \in Nat /\ Priority(m) \in Nat
      /\ \A m \in queue : NameRank[kind[m]] \in Nat
  <2>1. \A m \in queue : m \in Published /\ m \in Nat /\ kind[m] \in Types
    BY WaitingShape
  <2>2. \A m \in queue : stamp[m] \in Nat
    BY <2>1, Shapes DEF BusInv
  <2>3. \A m \in queue : Priority(m) \in Nat /\ NameRank[kind[m]] \in Nat
    BY <2>1, PriorityAssumption, NameRankAssumption DEF Priority
  <2> QED BY <2>1, <2>2, <2>3
<1>3. n \in Waiting(ty) /\ \A m \in Waiting(ty) : n <= m
  <2>1. ASSUME NEW m \in queue, kind[m] = kind[n], m < n PROVE FALSE
    <3>1. stamp[m] < stamp[n]
      <4>1. m \in Published /\ n \in Published /\ m # n
        BY <1>2, <2>1
      <4>2. stamp[m] <= stamp[n] /\ stamp[m] # stamp[n]
        BY <2>1, <4>1 DEF StampInv
      <4>3. stamp[m] \in Nat /\ stamp[n] \in Nat
        BY <1>2
      <4> QED BY <4>2, <4>3
    <3>2. Priority(m) = Priority(n)
      BY <2>1 DEF Priority
    <3> QED BY <1>1, <1>2, <3>1, <3>2 DEF IsMin
  <2> QED BY <1>2, <2>1 DEF Waiting
<1>4. \A uy : {m \in queue' : kind'[m] = uy}
                 = IF uy = ty THEN Waiting(uy) \ {n} ELSE Waiting(uy)
  BY <1>1 DEF Waiting
<1>5. /\ Ascending(Waiting(ty)) # <<>> /\ Head(Ascending(Waiting(ty))) = n
      /\ Tail(Ascending(Waiting(ty))) = Ascending(Waiting(ty) \ {n})
  <2> HIDE DEF ty
  <2> QED BY <1>3, WaitingShape, AscendingHead
<1>6. ASSUME NEW uy \in Types, uy # ty, W[uy] # <<>>
      PROVE  \/ PriorityOf[ty] < PriorityOf[uy]
             \/ /\ PriorityOf[ty] = PriorityOf[uy]
                /\ \/ stamp[Head(W[ty])] < stamp[Head(W[uy])]
                   \/ /\ stamp[Head(W[ty])] = stamp[Head(W[uy])]
                      /\ NameRank[ty] < NameRank[uy]
  <2>1. Waiting(uy) # {}
    <3>1. Ascending({}) = <<>>
      BY FS_EmptySet DEF Ascending
    <3> QED BY <1>6, <3>1
  <2>2. PICK m \in queue : m = Head(W[uy]) /\ kind[m] = uy
    <3>1. Head(Ascending(Waiting(uy))) \in Waiting(uy)
      BY <2>1, WaitingShape, AscendingFirst
    <3> QED BY <3>1 DEF Waiting
  <2>3. Head(W[ty]) = n
    BY <1>2, <1>5
  <2>4. /\ Priority(n) = PriorityOf[ty] /\ Priority(m) = PriorityOf[uy]
        /\ NameRank[kind[m]] = NameRank[uy] /\ NameRank[ty] # NameRank[uy]
    BY <1>2, <1>6, <2>2, NameRankAssumption DEF Priority
  <2>5. \/ Priority(n) < Priority(m)
        \/ Priority(n) = Priority(m) /\ stamp[n] < stamp[m]
        \/ /\ Priority(n) = Priority(m) /\ stamp[n] = stamp[m]
           /\ NameRank[kind[n]] <= NameRank[kind[m]]
    BY <1>1 DEF IsMin
  <2>6. NameRank[ty] \in Nat /\ NameRank[uy] \in Nat
    BY <1>2, NameRankAssumption
  <2> HIDE DEF W
  <2> QED BY <2>2, <2>3, <2>4, <2>5, <2>6
<1>7. [uy \in Types |-> Ascending({m \in queue' : kind'[m] = uy})]
          = [W EXCEPT ![ty] = Tail(@)]
  BY <1>2, <1>4, <1>5
<1>8. Fifo!Get(ty)
  BY <1>1, <1>2, <1>5, <1>6, <1>7 DEF Fifo!Get, Fifo!Precedes, Waiting
<1> QED BY <1>2, <1>8 DEF Fifo!Next

\* The heap that compares priorities, times and names behaves as one first-in first-out
\* queue per type, served in the order of urgency and, within a priority, of the clock.
THEOREM HeapIsFifo == Spec => ImplementsFifo
<1>1. Init => Fifo!Init
  <2> SUFFICES ASSUME Init PROVE Fifo!Init
    OBVIOUS
  <2>1. queue = {} /\ taken = 0 /\ clock = 0 /\ stamp = <<>>
    BY DEF Init, NoEvent
  <2>2. \A ty : {n \in queue : kind[n] = ty} = {}
    BY <2>1
  <2>3. Ascending({}) = <<>>
    BY FS_EmptySet DEF Ascending
  <2>4. taken \notin 1..MaxPublished
    BY <2>1, MaxPublishedAssumption
  <2> QED BY <2>1, <2>2, <2>3, <2>4 DEF Fifo!Init
<1>2. BusInv /\ StampInv /\ [Next]_vars => [Fifo!Next]_Fifo!vars
  <2> SUFFICES ASSUME BusInv, StampInv, [Next]_vars PROVE Fifo!Next \/ UNCHANGED Fifo!vars
    OBVIOUS
  <2>1. CASE UNCHANGED <<clock, kind, stamp, queue, taken>>
    BY <2>1 DEF Fifo!vars
  <2>2. CASE Tick
    <3>1. UNCHANGED <<kind, stamp, queue, taken>> /\ clock' \in {clock, clock + 1}
      BY <2>2 DEF Tick
    <3>2. Fifo!ClockGoesOn
      BY <3>1, Shapes DEF Fifo!ClockGoesOn, BusInv
    <3> QED BY <3>1, <3>2 DEF Fifo!Next
  <2>3. CASE \/ \E ty \in Types, c \in Callbacks : Subscribe(ty, c)
             \/ Start \/ Yield \/ CallbackReturns \/ CallbackRaises
             \/ CallbackCancelled \/ CancelLoop \/ UNCHANGED vars
    BY <2>1, <2>3 DEF Subscribe, Start, Yield, CallbackReturns, CallbackRaises,
                      CallbackCancelled, CancelLoop, Die, vars
  <2> QED BY <2>2, <2>3, PublishIsPut, TakeIsGet DEF Next, Loop
<1> QED BY <1>1, <1>2, BusInvariant, StampsInvariant, PTL DEF Spec, ImplementsFifo, Fifo!Spec
=============================================================================
