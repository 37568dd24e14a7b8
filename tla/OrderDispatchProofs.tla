------------------------- MODULE OrderDispatchProofs -------------------------
(***************************************************************************)
(* The retries of execute_order, for any orders and any numbers of retries *)
(* of the agent and of its adapter.                                        *)
(***************************************************************************)
EXTENDS OrderDispatch, TLAPS

\* A halt leaves an order table.
LEMMA HaltTyped ==
    ASSUME NEW ids \in SUBSET Orders, states \in [Orders -> Fsm!Statuses \cup {Fsm!Absent}]
    PROVE  HaltOrders(states, ids) \in [Orders -> Fsm!Statuses \cup {Fsm!Absent}]
BY DEF HaltOrders, Pass, Fsm!Statuses

\* While a call is under way there are attempts left, and only an adapter call that
\* is under way has been answered "busy".
Running ==
    \A o \in Orders :
        /\ pc[o] \in Active => attempt[o] < MaxRetries
        /\ pc[o] \in {"idle", "backoff"} => tries[o] = 0
        /\ pc[o] = "idle" => attempt[o] = 0

\* The states of one dispatch: its type and the shape of its retry loops.
LEMMA WellFormed == Spec => [](TypeOK /\ Running)
<1> USE RetriesAssumption
<1>1. Init => TypeOK /\ Running
  <2>1. Init => adapter \in [Orders -> {"mock", "real"}]
    BY DEF Init
  <2>2. Init => states \in [Orders -> Fsm!Statuses \cup {Fsm!Absent}]
    BY DEF Init, Fsm!Statuses
  <2>3. Init => tries \in [Orders -> 0..(PostRetries - 1)]
    BY DEF Init
  <2>4. Init => Running
    BY DEF Init, Running, Active
  <2>5. Init => pc \in [Orders -> Active \cup Over \cup {"idle"}]
    BY DEF Init
  <2>6. Init => /\ attempt \in [Orders -> 0..MaxRetries]
                /\ posts \in [Orders -> Nat]
                /\ booked \in [Orders -> Nat]
                /\ unheard \in [Orders -> Nat]
    BY DEF Init
  <2>7. Init => halted \in BOOLEAN
    BY DEF Init
  <2> QED BY <2>1, <2>2, <2>3, <2>4, <2>5, <2>6, <2>7, Zenon DEF TypeOK
<1>2. TypeOK /\ Running /\ [Next]_vars => TypeOK' /\ Running'
  <2> SUFFICES ASSUME TypeOK, Running, [Next]_vars PROVE TypeOK' /\ Running'
    OBVIOUS
  <2> USE DEF TypeOK, Running, Active, Over
  <2>1. ASSUME NEW o \in Orders, ExecuteOrder(o) PROVE TypeOK' /\ Running'
    BY <2>1 DEF ExecuteOrder, Post
  <2>2. ASSUME NEW o \in Orders, NEW took \in BOOLEAN, PostSucceeds(o, took)
        PROVE  TypeOK' /\ Running'
    BY <2>2 DEF PostSucceeds, Settle, Succeeded
  <2>3. ASSUME NEW o \in Orders, NEW took \in BOOLEAN, PostRaises(o, took)
        PROVE  TypeOK' /\ Running'
    BY <2>3 DEF PostRaises, Settle, Failed
  <2>4. ASSUME NEW o \in Orders, NEW took \in BOOLEAN, PostBusy(o, took)
        PROVE  TypeOK' /\ Running'
    BY <2>4 DEF PostBusy, Settle, Failed, TriesLeft
  <2>5. ASSUME NEW o \in Orders, PostAgain(o) PROVE TypeOK' /\ Running'
    BY <2>5 DEF PostAgain, Wakes, Post
  <2>6. ASSUME NEW o \in Orders, NEW took \in BOOLEAN, CallCancelled(o, took)
        PROVE  TypeOK' /\ Running'
    BY <2>6 DEF CallCancelled, Settle
  <2>7. ASSUME NEW o \in Orders, Filled(o) PROVE TypeOK' /\ Running'
    BY <2>7 DEF Filled, Fsm!Transition, Fsm!Statuses
  <2>8. ASSUME NEW ids \in SUBSET Orders, TriggerPanicHalt(ids) PROVE TypeOK' /\ Running'
    BY <2>8, HaltTyped DEF TriggerPanicHalt
  <2>9. CASE UNCHANGED vars
    BY <2>9 DEF vars
  <2> QED BY <2>1, <2>2, <2>3, <2>4, <2>5, <2>6, <2>7, <2>8, <2>9 DEF Next, Step
<1> QED BY <1>1, <1>2, PTL DEF Spec

\* Every variable of the dispatch keeps its type; the counters of the two retry loops
\* stay within their bounds.
THEOREM TypeCorrect == Spec => []TypeOK
BY WellFormed, PTL

(***************************************************************************)
(* The bound on the requests is inductive once it is spread over the two   *)
(* loops: a failed attempt pays for PostRetries requests, the present one  *)
(* for those answered "busy" and the one that is out.                      *)
(***************************************************************************)
Paid(o) == attempt[o] * PostRetries + tries[o]

AccountOf(o) ==
    /\ pc[o] = "posted" => posts[o] <= Paid(o) + 1
    /\ pc[o] \in Over => posts[o] <= MaxRetries * PostRetries
    /\ pc[o] \in {"idle", "resting", "backoff"} => posts[o] <= Paid(o)

Accounted == \A o \in Orders : AccountOf(o)

\* What is left of the retries covers what the present attempt may still send.
LEMMA AttemptFits ==
    ASSUME TypeOK, Running, NEW o \in Orders, pc[o] \in Active
    PROVE  /\ Paid(o) \in Nat
           /\ attempt[o] * PostRetries \in Nat
           /\ (attempt[o] + 1) * PostRetries = attempt[o] * PostRetries + PostRetries
           /\ (attempt[o] + 1) * PostRetries <= MaxRetries * PostRetries
           /\ Paid(o) + 1 <= (attempt[o] + 1) * PostRetries
<1> USE RetriesAssumption
<1>1. /\ attempt[o] \in Nat /\ attempt[o] + 1 <= MaxRetries
      /\ tries[o] \in Nat /\ tries[o] + 1 <= PostRetries
  BY DEF TypeOK, Running
<1>2. attempt[o] * PostRetries \in Nat
  BY <1>1
<1>3. (attempt[o] + 1) * PostRetries = attempt[o] * PostRetries + PostRetries
  BY <1>1
<1>4. \A a, b, c \in Nat : a <= b => a * c <= b * c
  OBVIOUS
<1>5. (attempt[o] + 1) * PostRetries <= MaxRetries * PostRetries
  BY <1>1, <1>4
<1> QED BY <1>1, <1>2, <1>3, <1>5 DEF Paid

\* A call that has not begun has nothing to pay for.
LEMMA NothingPaid ==
    ASSUME TypeOK, Running, NEW o \in Orders, pc[o] = "idle"
    PROVE  Paid(o) = 0
<1>1. attempt[o] = 0 /\ tries[o] = 0
  BY DEF Running
<1>2. 0 * PostRetries = 0
  BY RetriesAssumption
<1> QED BY <1>1, <1>2 DEF Paid

\* The account is kept by every step.
LEMMA AccountKept ==
    ASSUME TypeOK, Running, Accounted, [Next]_vars
    PROVE  Accounted'
<1> USE RetriesAssumption
<1>0. /\ \A x \in Orders : posts[x] \in Nat
      /\ MaxRetries * PostRetries \in Nat
  BY DEF TypeOK
<1>1. ASSUME NEW o \in Orders, Step(o), AccountOf(o)' PROVE Accounted'
  <2>1. ASSUME NEW x \in Orders, x # o
        PROVE  /\ pc'[x] = pc[x] /\ posts'[x] = posts[x]
               /\ attempt'[x] = attempt[x] /\ tries'[x] = tries[x]
    BY <1>1, <2>1
       DEF Step, ExecuteOrder, Post, PostSucceeds, PostRaises, PostBusy, PostAgain,
           CallCancelled, Filled, Settle, Succeeded, Failed, TypeOK
  <2> QED BY <1>1, <2>1 DEF Accounted, AccountOf, Paid
<1>2. ASSUME NEW o \in Orders, Step(o) PROVE AccountOf(o)'
  <2> USE <1>0, <1>2 DEF TypeOK, Over, AccountOf
  <2>1. CASE ExecuteOrder(o)
    <3>1. pc[o] = "idle" /\ Paid(o) = 0 /\ Paid(o)' = Paid(o)
      BY <2>1, NothingPaid DEF ExecuteOrder, Paid
    <3>2. posts[o] <= 0
      BY <3>1 DEF Accounted
    <3>3. \/ pc'[o] = "posted" /\ posts'[o] = posts[o] + 1
          \/ pc'[o] = "gaveUp" /\ posts'[o] = posts[o]
      BY <2>1 DEF ExecuteOrder, Post
    <3> QED BY <3>1, <3>2, <3>3
  <2>2. ASSUME NEW took \in BOOLEAN, PostSucceeds(o, took) \/ CallCancelled(o, took)
        PROVE  pc'[o] \in Over /\ posts'[o] <= MaxRetries * PostRetries
    <3>1. pc[o] \in Active /\ pc'[o] \in Over /\ posts'[o] = posts[o]
      BY <2>2 DEF PostSucceeds, CallCancelled, Succeeded, Active
    <3> QED BY <3>1, AttemptFits DEF Accounted, Active
  <2>3. ASSUME NEW took \in BOOLEAN, PostRaises(o, took) \/ PostBusy(o, took), Failed(o)
        PROVE  /\ pc'[o] = "backoff" => posts'[o] <= Paid(o)'
               /\ pc'[o] \in Over => posts'[o] <= MaxRetries * PostRetries
               /\ pc'[o] \in {"backoff", "gaveUp"}
    <3>1. /\ pc[o] = "posted" /\ pc'[o] \in {"backoff", "gaveUp"} /\ posts'[o] = posts[o]
          /\ attempt'[o] = attempt[o] + 1 /\ tries'[o] = 0
      BY <2>3 DEF PostRaises, PostBusy, Failed
    <3>2. posts[o] <= (attempt[o] + 1) * PostRetries
      BY <3>1, AttemptFits DEF Accounted, Active
    <3>3. Paid(o)' = (attempt[o] + 1) * PostRetries
      BY <3>1, AttemptFits DEF Paid, Active
    <3> QED BY <3>1, <3>2, <3>3, AttemptFits DEF Active
  <2>4. ASSUME NEW took \in BOOLEAN, PostBusy(o, took), ~Failed(o)
        PROVE  pc'[o] = "resting" /\ posts'[o] <= Paid(o)'
    <3>1. /\ pc[o] = "posted" /\ pc'[o] = "resting" /\ posts'[o] = posts[o]
          /\ attempt'[o] = attempt[o] /\ tries'[o] = tries[o] + 1
      BY <2>4 DEF PostBusy
    <3>2. Paid(o)' = Paid(o) + 1
      BY <3>1, AttemptFits DEF Paid, Active
    <3> QED BY <3>1, <3>2 DEF Accounted
  <2>5. CASE PostAgain(o)
    <3>1. /\ pc[o] \in {"resting", "backoff"} /\ pc'[o] = "posted"
          /\ posts'[o] = posts[o] + 1 /\ Paid(o)' = Paid(o)
      BY <2>5 DEF PostAgain, Wakes, Post, Paid
    <3> QED BY <3>1, AttemptFits DEF Accounted, Active
  <2>6. CASE Filled(o)
    BY <2>6 DEF Filled, Accounted, Paid
  <2>7. ASSUME NEW took \in BOOLEAN, PostRaises(o, took) PROVE Failed(o)
    BY <2>7 DEF PostRaises
  <2> QED BY <2>1, <2>2, <2>3, <2>4, <2>5, <2>6, <2>7 DEF Step
<1>3. ASSUME UNCHANGED <<pc, posts, attempt, tries>> PROVE Accounted'
  BY <1>3 DEF Accounted, AccountOf, Paid
<1> QED BY <1>1, <1>2, <1>3 DEF Next, TriggerPanicHalt, vars

\* One execute_order never sends more than MaxRetries times PostRetries requests.
THEOREM RequestsBounded == Spec => []PostsBounded
<1>1. Init => Accounted
  BY RetriesAssumption DEF Init, Accounted, AccountOf, Paid, Over
<1>2. TypeOK /\ Running /\ Accounted /\ [Next]_vars => Accounted'
  BY AccountKept
<1>3. TypeOK /\ Running /\ Accounted => PostsBounded
  <2> SUFFICES ASSUME TypeOK, Running, Accounted, NEW o \in Orders
               PROVE  posts[o] <= MaxRetries * PostRetries
    BY DEF PostsBounded
  <2>1. MaxRetries * PostRetries \in Nat /\ posts[o] \in Nat
    BY RetriesAssumption DEF TypeOK
  <2>2. CASE pc[o] \in Active
    BY <2>1, <2>2, RetriesAssumption, AttemptFits DEF Accounted, AccountOf, Active, Over, TypeOK
  <2>3. CASE pc[o] = "idle"
    BY <2>1, <2>3, NothingPaid DEF Accounted, AccountOf
  <2> QED BY <2>2, <2>3 DEF Accounted, AccountOf, Active, Over, TypeOK
<1> QED BY <1>1, <1>2, <1>3, WellFormed, PTL DEF Spec

\* Until a call is over, every booking of its order is one the agent has not heard of.
Unheard ==
    \A o \in Orders :
        /\ pc[o] \notin Over => booked[o] = unheard[o]
        /\ booked[o] <= unheard[o] + 1

\* The exchange holds an order twice only if an answer was lost or bad.
THEOREM NoNeedlessDuplicate == Spec => []DuplicatesAreUnheard
<1>1. Init => Unheard
  BY DEF Init, Unheard
<1>2. TypeOK /\ Running /\ Unheard /\ [Next]_vars => Unheard'
  <2> SUFFICES ASSUME TypeOK, Unheard, [Next]_vars PROVE Unheard'
    OBVIOUS
  <2> USE DEF TypeOK, Unheard, Over, Active
  <2>1. ASSUME NEW o \in Orders, ExecuteOrder(o) \/ PostAgain(o) \/ Filled(o)
        PROVE  Unheard'
    BY <2>1 DEF ExecuteOrder, PostAgain, Wakes, Filled, Post
  <2>2. ASSUME NEW o \in Orders, NEW took \in BOOLEAN, PostSucceeds(o, took)
        PROVE  Unheard'
    BY <2>2 DEF PostSucceeds, Settle, Succeeded
  <2>3. ASSUME NEW o \in Orders, NEW took \in BOOLEAN,
               PostRaises(o, took) \/ PostBusy(o, took) \/ CallCancelled(o, took)
        PROVE  Unheard'
    BY <2>3 DEF PostRaises, PostBusy, CallCancelled, Settle, Failed
  <2>4. ASSUME UNCHANGED <<pc, booked, unheard>> PROVE Unheard'
    BY <2>4
  <2> QED BY <2>1, <2>2, <2>3, <2>4 DEF Next, Step, TriggerPanicHalt, vars
<1>3. Unheard => DuplicatesAreUnheard
  BY DEF Unheard, DuplicatesAreUnheard
<1> QED BY <1>1, <1>2, <1>3, WellFormed, PTL DEF Spec
=============================================================================
