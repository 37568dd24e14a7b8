---------------------------- MODULE OrderDispatch ----------------------------
(***************************************************************************)
(* Sending an order: ExecutionAgent.execute_order (exchange/execution.py)  *)
(* retries a broker adapter, which may retry on its own.                   *)
(*                                                                         *)
(*   "mock"  MockBrokerAdapter.send_order: an answer, a delay, or the      *)
(*           chaos monkey's timeout, raised before anything is filled      *)
(*   "real"  RealBrokerAdapter.send_order_to_krx: up to PostRetries posts, *)
(*           repeated while the exchange answers 429 or 500                *)
(*                                                                         *)
(* What the exchange does with a post is its own affair: it may have       *)
(* booked the order whatever it answers, and even when no answer arrives.  *)
(* The delays between attempts are left open; several orders are under way *)
(* at once, and the operator may halt the system meanwhile.                *)
(***************************************************************************)
EXTENDS Integers, PanicHalt

CONSTANTS Orders,
          Adapters,     \* of "mock" and "real", the ones in use
          MaxRetries,   \* self.max_retries
          PostRetries   \* max_retries of send_order_to_krx

ASSUME RetriesAssumption ==
    /\ MaxRetries \in Nat
    /\ PostRetries \in Nat \ {0}
    /\ Adapters \subseteq {"mock", "real"}

VARIABLES states,   \* OmsFsm.states
          halted,   \* ManualCommandController._is_halted
          pc,       \* where the order's execute_order call is
          adapter,  \* the adapter it was given
          attempt,  \* adapter calls that have failed
          tries,    \* posts of the present adapter call that were answered 429 or 500
          posts,    \* history: requests sent to the exchange
          booked,   \* history: times the exchange has booked the order
          unheard   \* history: bookings no successful answer told the agent of

vars == <<states, halted, pc, adapter, attempt, tries, posts, booked, unheard>>

Fsm == INSTANCE OmsFsm

\* "posted": a request is out.  "resting": the adapter waits before it posts again.
\* "backoff": execute_order waits before it calls the adapter again.
Active == {"posted", "resting", "backoff"}
Over == {"sent", "gaveUp", "cancelled"}

TypeOK ==
    /\ states \in [Orders -> Fsm!Statuses \cup {Fsm!Absent}]
    /\ halted \in BOOLEAN
    /\ pc \in [Orders -> Active \cup Over \cup {"idle"}]
    /\ adapter \in [Orders -> {"mock", "real"}]
    /\ attempt \in [Orders -> 0..MaxRetries]
    /\ tries \in [Orders -> 0..(PostRetries - 1)]
    /\ posts \in [Orders -> Nat]
    /\ booked \in [Orders -> Nat]
    /\ unheard \in [Orders -> Nat]

Init ==
    /\ states = [o \in Orders |-> "VALIDATED"]
    /\ halted = FALSE
    /\ pc = [o \in Orders |-> "idle"]
    /\ adapter \in [Orders -> Adapters]
    /\ attempt = [o \in Orders |-> 0]
    /\ tries = [o \in Orders |-> 0]
    /\ posts = [o \in Orders |-> 0]
    /\ booked = [o \in Orders |-> 0]
    /\ unheard = [o \in Orders |-> 0]
-----------------------------------------------------------------------------
\* A request leaves for the exchange.
Post(o) ==
    /\ pc' = [pc EXCEPT ![o] = "posted"]
    /\ posts' = [posts EXCEPT ![o] = @ + 1]

\* execute_order is called; with max_retries 0 it returns at once.
ExecuteOrder(o) ==
    /\ pc[o] = "idle"
    /\ IF 0 < MaxRetries
       THEN Post(o)
       ELSE pc' = [pc EXCEPT ![o] = "gaveUp"] /\ UNCHANGED posts
    /\ UNCHANGED <<states, halted, adapter, attempt, tries, booked, unheard>>

\* What the exchange did with the post that ends: `took` says whether it booked the
\* order, `told` whether the agent hears of it.
Settle(o, took, told) ==
    /\ booked' = [booked EXCEPT ![o] = IF took THEN @ + 1 ELSE @]
    /\ unheard' = [unheard EXCEPT ![o] = IF took /\ ~told THEN @ + 1 ELSE @]

\* A loop that forgets to return after a successful send.
SucceededOnce(o) ==
    IF attempt[o] + 1 < MaxRetries
    THEN /\ attempt' = [attempt EXCEPT ![o] = @ + 1]
         /\ pc' = [pc EXCEPT ![o] = "backoff"]
         /\ tries' = [tries EXCEPT ![o] = 0]
    ELSE /\ pc' = [pc EXCEPT ![o] = "sent"]
         /\ UNCHANGED <<attempt, tries>>

\* The adapter returned a report, which is true whatever it says.
Succeeded(o) ==
    /\ pc' = [pc EXCEPT ![o] = "sent"]
    /\ UNCHANGED <<attempt, tries>>

\* A loop that counts the attempts that return False, but not the ones that raise.
FailedUncounted(o) ==
    /\ attempt' = attempt
    /\ tries' = [tries EXCEPT ![o] = 0]
    /\ pc' = [pc EXCEPT ![o] = "backoff"]

\* The adapter raised: the attempt is counted, and repeated while there are any left.
Failed(o) ==
    /\ attempt' = [attempt EXCEPT ![o] = @ + 1]
    /\ tries' = [tries EXCEPT ![o] = 0]
    /\ pc' = [pc EXCEPT ![o] = IF attempt[o] + 1 < MaxRetries THEN "backoff" ELSE "gaveUp"]

\* An answer of the exchange that the real adapter takes for a success: status 200
\* and a JSON body.  A refusal of the order (rt_cd not "0") is one, too.
PostSucceeds(o, took) ==
    /\ pc[o] = "posted"
    /\ adapter[o] = "mock" => took
    /\ Settle(o, took, TRUE)
    /\ Succeeded(o)
    /\ UNCHANGED <<states, halted, adapter, posts>>

\* The mock's timeout; or, of the real exchange, a body that is not JSON, any other
\* status, or no answer at all: the adapter raises.
PostRaises(o, took) ==
    /\ pc[o] = "posted"
    /\ adapter[o] = "mock" => ~took
    /\ Settle(o, took, FALSE)
    /\ Failed(o)
    /\ UNCHANGED <<states, halted, adapter, posts>>

TriesLeft(o) == tries[o] < PostRetries - 1

\* 429 or 500: the real adapter waits and posts again, and raises on its last try.
PostBusy(o, took) ==
    /\ pc[o] = "posted" /\ adapter[o] = "real"
    /\ Settle(o, took, FALSE)
    /\ \/ /\ TriesLeft(o)
          /\ tries' = [tries EXCEPT ![o] = @ + 1]
          /\ pc' = [pc EXCEPT ![o] = "resting"]
          /\ UNCHANGED attempt
       \/ /\ ~TriesLeft(o)
          /\ Failed(o)
    /\ UNCHANGED <<states, halted, adapter, posts>>

\* An execute_order that does not come back from its backoff.
WakesInAdapter == {"resting"}

\* Where asyncio.sleep() ends, in the adapter or in execute_order.
Wakes == {"resting", "backoff"}

PostAgain(o) ==
    /\ pc[o] \in Wakes
    /\ Post(o)
    /\ UNCHANGED <<states, halted, adapter, attempt, tries, booked, unheard>>

\* The task that runs execute_order is cancelled: no except clause there stops a
\* CancelledError.  A request that is out may be booked all the same.
CallCancelled(o, took) ==
    /\ pc[o] \in Active
    /\ took => pc[o] = "posted" /\ adapter[o] = "real"
    /\ Settle(o, took, FALSE)
    /\ pc' = [pc EXCEPT ![o] = "cancelled"]
    /\ UNCHANGED <<states, halted, adapter, attempt, tries, posts>>

\* trigger_panic_halt (interface/controllers.py); a second halt is ignored.
TriggerPanicHalt(ids) ==
    /\ ~halted
    /\ halted' = TRUE
    /\ states' = HaltOrders(states, ids)
    /\ UNCHANGED <<pc, adapter, attempt, tries, posts, booked, unheard>>

\* The exchange reports the fill of an order it has booked.
Filled(o) ==
    /\ booked[o] > 0
    /\ Fsm!Transition(o, "FILLED")
    /\ UNCHANGED <<halted, pc, adapter, attempt, tries, posts, booked, unheard>>

Step(o) ==
    \/ ExecuteOrder(o)
    \/ \E took \in BOOLEAN :
           PostSucceeds(o, took) \/ PostRaises(o, took) \/ PostBusy(o, took)
    \/ PostAgain(o)
    \/ \E took \in BOOLEAN : CallCancelled(o, took)
    \/ Filled(o)

Next ==
    \/ \E o \in Orders : Step(o)
    \/ \E ids \in SUBSET Orders : TriggerPanicHalt(ids)

\* The event loop wakes up whoever sleeps.  Nothing makes the exchange answer, and
\* no post has a timeout.
Fairness == \A o \in Orders : WF_vars(PostAgain(o))

Spec == Init /\ [][Next]_vars /\ Fairness
-----------------------------------------------------------------------------
\* The two retry loops multiply, but no further: one execute_order sends at most
\* MaxRetries times PostRetries requests.
PostsBounded == \A o \in Orders : posts[o] <= MaxRetries * PostRetries

\* The exchange holds an order twice only if the answer to an earlier post of it was
\* lost or bad: a post the agent knows to have succeeded is never repeated.
DuplicatesAreUnheard == \A o \in Orders : booked[o] <= unheard[o] + 1

\* If the exchange answers every post, or the call is cancelled, every call of
\* execute_order comes to its end.
EveryCallEnds ==
    (\A o \in Orders : pc[o] = "posted" ~> pc[o] # "posted") =>
    (\A o \in Orders : pc[o] \in Active ~> pc[o] \in Over)

\* A panic halt stops the trading at once: an order it has cancelled is not sent again.
HaltStopsSending ==
    [][\A o \in Orders : PostAgain(o) => states[o] # "CANCELLED"]_vars
=============================================================================
