--------------------------- MODULE StrategyProofs ---------------------------
(***************************************************************************)
(* What the strategies guarantee.  On the way of their orders, for every   *)
(* set of orders, every limit and every market: types, the position limit  *)
(* of orders validated one at a time, and the second leg of a pair.  In    *)
(* hedging, for every delta: rounding half away from zero, the dead band   *)
(* and the clamp together never let a hedge overshoot, and Track1's reach  *)
(* the dead band in one step.                                              *)
(***************************************************************************)
EXTENDS TradingPath, HedgeLoop, TLAPS

\* Every variable keeps the shape its handlers rely on.
LEMMA TypeStep == TypeOK /\ [Next]_vars => TypeOK'
<1> SUFFICES ASSUME TypeOK, [Next]_vars PROVE TypeOK'
  OBVIOUS
<1> USE PathAssumption
<1>1. ASSUME NEW o \in Orders, Make(o) PROVE TypeOK'
  BY <1>1 DEF TypeOK, Make
<1>2. ASSUME NEW o \in Orders, ReadPosition(o) PROVE TypeOK'
  BY <1>2 DEF TypeOK, ReadPosition
<1>3. ASSUME NEW o \in Orders, Fill(o) PROVE TypeOK'
  <2>0. Request[o].qty \in Nat
    OBVIOUS
  <2>1. PICK n \in 1..(Request[o].qty - filled[o]) :
            /\ filled' = [filled EXCEPT ![o] = @ + n]
            /\ position' = IF Request[o].side = "BUY" THEN position + n ELSE position - n
    BY <1>3 DEF Fill
  <2>2. n \in Nat
    BY <2>0 DEF TypeOK
  <2>3. filled' \in [Orders -> Nat] /\ position' \in Int
    BY <2>1, <2>2 DEF TypeOK
  <2>4. wire' \subseteq Reports /\ working' \subseteq Orders
    BY <1>3 DEF Fill, TypeOK, Reports
  <2> QED BY <1>3, <2>3, <2>4 DEF Fill, TypeOK
<1>4. ASSUME NEW o \in Orders, Cancel(o) PROVE TypeOK'
  BY <1>4 DEF TypeOK, Cancel, Reports
<1>5. ASSUME NEW o \in Orders, NEW m \in Markets, Validate(o, m) PROVE TypeOK'
  <2>1. states' \in [Orders -> Fsm!Statuses \cup {Fsm!Absent}]
    BY <1>5 DEF TypeOK, Validate, Fsm!RegisterOrder, Fsm!Transition, Fsm!Statuses
  <2>2. working' \subseteq Orders /\ raced' \in BOOLEAN
    BY <1>5 DEF TypeOK, Validate
  <2> QED BY <1>5, <2>1, <2>2 DEF TypeOK, Validate
<1>6. ASSUME NEW r \in Reports, Deliver(r) PROVE TypeOK'
  <2>1. r[1] \in Orders /\ r[2] \in Fsm!Statuses
    BY DEF Reports, Fsm!Statuses
  <2> QED BY <1>6, <2>1 DEF TypeOK, Deliver, Fsm!Transition
<1>7. ASSUME NEW r \in Reports, OnLegFilled(r) PROVE TypeOK'
  <2>1. CASE Strikes(r)
    <3>1. r[1] \in FirstLegs /\ SecondOf[r[1]] \in Orders
      BY <2>1 DEF Strikes, TypeOK, Orders
    <3> QED BY <1>7, <2>1, <3>1 DEF TypeOK, OnLegFilled, StillPending
  <2>2. CASE ~Strikes(r)
    BY <1>7, <2>2 DEF TypeOK, OnLegFilled, StillPending
  <2> QED BY <2>1, <2>2
<1>8. ASSUME NEW r \in Reports, GoesStale(r) PROVE TypeOK'
  BY <1>8 DEF TypeOK, GoesStale
<1>9. CASE UNCHANGED vars
  BY <1>9 DEF TypeOK, vars
<1> QED BY <1>1, <1>2, <1>3, <1>4, <1>5, <1>6, <1>7, <1>8, <1>9 DEF Next

\* The variables start in their shapes,
LEMMA TypeInit == Init => TypeOK
<1> SUFFICES ASSUME Init PROVE TypeOK
  OBVIOUS
<1>1. states \in [Orders -> Fsm!Statuses \cup {Fsm!Absent}]
  BY DEF Init, Fsm!Init
<1>2. Unread \in Int
  BY PathAssumption DEF Unread
<1>3. read \in [Orders -> Int]
  BY <1>2 DEF Init
<1>4. /\ made \subseteq Orders /\ working \subseteq Orders
      /\ pending \subseteq FirstLegs /\ missed \subseteq FirstLegs
      /\ wire \subseteq Reports /\ events \subseteq Reports
  BY DEF Init
<1>5. filled \in [Orders -> Nat] /\ struck \in [FirstLegs -> Nat] /\ position \in Int
  BY DEF Init
<1>6. raced \in BOOLEAN
  BY DEF Init
<1> QED BY <1>1, <1>3, <1>4, <1>5, <1>6 DEF TypeOK

\* Every variable has the shape its handlers rely on.
THEOREM TypeCorrect == Spec => []TypeOK
BY TypeInit, TypeStep, PTL DEF Spec
-----------------------------------------------------------------------------
(***************************************************************************)
(* The position limit.                                                     *)
(***************************************************************************)

\* While no approval has raced, at most one order is open, and the limit has room for all
\* that is still to be bought of it.
RoomLeft ==
    ~raced =>
        /\ position <= MaxQty
        /\ \A o, p \in working : o = p
        /\ \A o \in working :
               Request[o].side = "BUY" => position + Request[o].qty - filled[o] <= MaxQty

\* and with room below the limit;
LEMMA RoomInit == Init => RoomLeft
BY PathAssumption DEF Init, RoomLeft

\* A fill takes its quantity from the room that was left for it.
LEMMA RoomFill ==
    ASSUME TypeOK, RoomLeft, NEW o \in Orders, Fill(o)
    PROVE  RoomLeft'
<1> SUFFICES ASSUME ~raced PROVE RoomLeft'
  BY DEF Fill, RoomLeft
<1>1. Request[o].qty \in Nat /\ filled[o] \in Nat /\ position \in Int /\ MaxQty \in Nat
  BY PathAssumption DEF TypeOK
<1>2. PICK n \in 1..(Request[o].qty - filled[o]) :
          /\ filled' = [filled EXCEPT ![o] = @ + n]
          /\ position' = IF Request[o].side = "BUY" THEN position + n ELSE position - n
  BY DEF Fill
<1>3. n \in Nat /\ filled'[o] = filled[o] + n /\ n + filled[o] <= Request[o].qty
  BY <1>1, <1>2 DEF TypeOK
<1>4. /\ o \in working /\ working' \subseteq working /\ position <= MaxQty
      /\ \A p \in working : p = o
      /\ Request[o].side = "BUY" => position + Request[o].qty - filled[o] <= MaxQty
  BY DEF Fill, RoomLeft
<1>5. CASE Request[o].side = "BUY"
  <2>1. position' = position + n
    BY <1>2, <1>5
  <2>2. position' <= MaxQty /\ position' + Request[o].qty - filled'[o] <= MaxQty
    BY <1>1, <1>3, <1>4, <1>5, <2>1
  <2> QED BY <1>4, <2>2 DEF RoomLeft
<1>6. CASE Request[o].side # "BUY"
  <2>1. position' = position - n
    BY <1>2, <1>6
  <2>2. position' <= MaxQty
    BY <1>1, <1>3, <1>4, <2>1
  <2> QED BY <1>4, <1>6, <2>2 DEF RoomLeft
<1> QED BY <1>5, <1>6

\* An approval on the position of the moment, with no other order open, leaves room for
\* the whole order.
LEMMA RoomValidate ==
    ASSUME TypeOK, RoomLeft, NEW o \in Orders, NEW m \in Markets, Validate(o, m)
    PROVE  RoomLeft'
<1> SUFFICES ASSUME ~raced' PROVE RoomLeft'
  BY DEF RoomLeft
<1>0. Request[o].qty \in Nat /\ filled[o] \in Nat /\ position \in Int /\ MaxQty \in Nat
  BY PathAssumption DEF TypeOK
<1>1. position' = position /\ filled' = filled
  BY DEF Validate
<1>2. CASE Approves(Order(o), m, read[o])
  <2>1. working = {} /\ read[o] = position /\ ~raced /\ working' = {o}
    BY <1>2 DEF Validate
  <2>2. Order(o).qty = Request[o].qty
    BY DEF Order
  <2>3. position + Request[o].qty <= MaxQty
    BY <1>2, <2>1, <2>2 DEF Approves, WithinLimit
  <2>4. position <= MaxQty
    BY <2>1 DEF RoomLeft
  <2>5. position + Request[o].qty - filled[o] <= MaxQty
    BY <1>0, <2>3
  <2> QED BY <1>1, <2>1, <2>4, <2>5 DEF RoomLeft
<1>3. CASE ~Approves(Order(o), m, read[o])
  BY <1>1, <1>3 DEF Validate, RoomLeft
<1> QED BY <1>2, <1>3

\* every step leaves it there.
LEMMA RoomStep == TypeOK /\ RoomLeft /\ [Next]_vars => RoomLeft'
<1> SUFFICES ASSUME TypeOK, RoomLeft, [Next]_vars PROVE RoomLeft'
  OBVIOUS
<1>1. ASSUME NEW o \in Orders, Fill(o) PROVE RoomLeft'
  BY <1>1, RoomFill
<1>2. ASSUME NEW o \in Orders, NEW m \in Markets, Validate(o, m) PROVE RoomLeft'
  BY <1>2, RoomValidate
<1>3. ASSUME NEW o \in Orders, Make(o) \/ ReadPosition(o) PROVE RoomLeft'
  BY <1>3 DEF Make, ReadPosition, RoomLeft
<1>4. ASSUME NEW o \in Orders, Cancel(o) PROVE RoomLeft'
  BY <1>4 DEF Cancel, RoomLeft
<1>5. ASSUME NEW r \in Reports, Deliver(r) \/ OnLegFilled(r) \/ GoesStale(r)
      PROVE  RoomLeft'
  BY <1>5 DEF Deliver, OnLegFilled, GoesStale, RoomLeft
<1>6. CASE UNCHANGED vars
  BY <1>6 DEF vars, RoomLeft
<1> QED BY <1>1, <1>2, <1>3, <1>4, <1>5, <1>6 DEF Next

\* The limit holds for orders validated one at a time.
THEOREM LimitHolds == Spec => []LimitUnlessRaced
<1>1. RoomLeft => LimitUnlessRaced
  BY DEF RoomLeft, LimitUnlessRaced
<1> QED BY <1>1, TypeInit, TypeStep, RoomInit, RoomStep, PTL DEF Spec
-----------------------------------------------------------------------------
(***************************************************************************)
(* The second leg.                                                         *)
(***************************************************************************)

\* A report of a whole fill tells the truth, wherever it has got to.
FilledIsTrue ==
    /\ \A r \in wire : r[2] = "FILLED" => filled[r[1]] = Request[r[1]].qty
    /\ events \subseteq wire

\* A pair still waited for, or not made yet, has no second leg; a second leg is the only
\* one, and its first leg is filled.
PairInv ==
    /\ pending \subseteq made
    /\ \A f \in FirstLegs :
           /\ f \in pending \/ f \notin made => struck[f] = 0
           /\ struck[f] \in {0, 1}
           /\ struck[f] = 1 => filled[f] = Request[f].qty

\* What a fill does to an order that is wholly filled: it cannot happen.
LEMMA FilledStays ==
    ASSUME TypeOK, NEW o \in Orders, Fill(o)
    PROVE  \A p \in Orders : filled[p] = Request[p].qty => filled'[p] = Request[p].qty
<1>1. Request[o].qty \in Nat /\ filled[o] \in Nat
  BY PathAssumption DEF TypeOK
<1>2. PICK n \in 1..(Request[o].qty - filled[o]) : filled' = [filled EXCEPT ![o] = @ + n]
  BY DEF Fill
<1>3. filled[o] # Request[o].qty
  BY <1>1, <1>2
<1> QED BY <1>2, <1>3 DEF TypeOK

\* A FILLED report is sent, and stays, only for an order the exchange filled whole.
LEMMA FilledIsTrueStep == TypeOK /\ FilledIsTrue /\ [Next]_vars => FilledIsTrue'
<1> SUFFICES ASSUME TypeOK, FilledIsTrue, [Next]_vars PROVE FilledIsTrue'
  OBVIOUS
<1>1. ASSUME NEW o \in Orders, Fill(o) PROVE FilledIsTrue'
  <2>1. \A p \in Orders : filled[p] = Request[p].qty => filled'[p] = Request[p].qty
    BY <1>1, FilledStays
  <2>2. \A r \in wire : r[1] \in Orders
    BY DEF TypeOK, Reports
  <2>3. \A r \in wire : r[2] = "FILLED" => filled'[r[1]] = Request[r[1]].qty
    BY <2>1, <2>2 DEF FilledIsTrue
  <2>4. events' = events /\ wire \subseteq wire'
    BY <1>1 DEF Fill
  <2>5. CASE filled'[o] = Request[o].qty
    <3>1. wire' = wire \cup {<<o, "FILLED">>}
      BY <1>1, <2>5 DEF Fill
    <3> QED BY <2>3, <2>4, <2>5, <3>1 DEF FilledIsTrue
  <2>6. CASE filled'[o] # Request[o].qty
    <3>1. wire' = wire \cup {<<o, "PARTIAL">>}
      BY <1>1, <2>6 DEF Fill
    <3> QED BY <2>3, <2>4, <3>1 DEF FilledIsTrue
  <2> QED BY <2>5, <2>6
<1>2. ASSUME NEW o \in Orders, Cancel(o) PROVE FilledIsTrue'
  BY <1>2 DEF Cancel, FilledIsTrue
<1>3. ASSUME NEW o \in Orders, Make(o) \/ ReadPosition(o) PROVE FilledIsTrue'
  BY <1>3 DEF Make, ReadPosition, FilledIsTrue
<1>4. ASSUME NEW o \in Orders, NEW m \in Markets, Validate(o, m) PROVE FilledIsTrue'
  BY <1>4 DEF Validate, FilledIsTrue
<1>5. ASSUME NEW r \in Reports, Deliver(r) \/ OnLegFilled(r) \/ GoesStale(r)
      PROVE  FilledIsTrue'
  BY <1>5 DEF Deliver, OnLegFilled, GoesStale, FilledIsTrue
<1>6. CASE UNCHANGED vars
  BY <1>6 DEF vars, FilledIsTrue
<1> QED BY <1>1, <1>2, <1>3, <1>4, <1>5, <1>6 DEF Next

\* No step strikes a second leg twice, or before its first leg is filled.
LEMMA PairStep == TypeOK /\ FilledIsTrue /\ PairInv /\ [Next]_vars => PairInv'
<1> SUFFICES ASSUME TypeOK, FilledIsTrue, PairInv, [Next]_vars PROVE PairInv'
  OBVIOUS
<1>1. ASSUME NEW o \in Orders, Fill(o) PROVE PairInv'
  <2>1. \A p \in Orders : filled[p] = Request[p].qty => filled'[p] = Request[p].qty
    BY <1>1, FilledStays
  <2>2. FirstLegs \subseteq Orders
    BY DEF Orders
  <2>3. pending' = pending /\ made' = made /\ struck' = struck
    BY <1>1 DEF Fill
  <2> QED BY <2>1, <2>2, <2>3 DEF PairInv
<1>2. ASSUME NEW o \in Orders, Make(o) PROVE PairInv'
  BY <1>2 DEF Make, PairInv
<1>3. ASSUME NEW o \in Orders, ReadPosition(o) \/ Cancel(o) PROVE PairInv'
  BY <1>3 DEF ReadPosition, Cancel, PairInv
<1>4. ASSUME NEW o \in Orders, NEW m \in Markets, Validate(o, m) PROVE PairInv'
  BY <1>4 DEF Validate, PairInv
<1>5. ASSUME NEW r \in Reports, OnLegFilled(r) PROVE PairInv'
  <2>1. filled' = filled
    BY <1>5 DEF OnLegFilled
  <2>2. CASE ~Strikes(r)
    BY <1>5, <2>1, <2>2 DEF OnLegFilled, StillPending, PairInv
  <2>3. CASE Strikes(r)
    <3>1. /\ r[1] \in FirstLegs /\ r[1] \in pending /\ struck[r[1]] = 0
          /\ filled[r[1]] = Request[r[1]].qty
      BY <1>5, <2>3 DEF Strikes, OnLegFilled, TypeOK, FilledIsTrue, PairInv
    <3>2. pending' = pending \ {r[1]}
      BY <1>5, <2>3 DEF OnLegFilled, StillPending
    <3>3. made \subseteq made'
      BY <1>5 DEF OnLegFilled
    <3>4. \/ struck' = [struck EXCEPT ![r[1]] = @ + 1] /\ made' = made \cup {SecondOf[r[1]]}
          \/ struck' = struck
      BY <1>5 DEF OnLegFilled
    <3>5. r[1] \in made /\ pending' \subseteq made'
      BY <3>1, <3>2, <3>3 DEF PairInv
    <3>6. SecondOf[r[1]] \notin FirstLegs
      BY <3>1, PathAssumption
    <3> QED BY <2>1, <3>1, <3>2, <3>3, <3>4, <3>5 DEF PairInv, TypeOK
  <2> QED BY <2>2, <2>3
<1>6. ASSUME NEW r \in Reports, Deliver(r) \/ GoesStale(r) PROVE PairInv'
  BY <1>6 DEF Deliver, GoesStale, PairInv
<1>7. CASE UNCHANGED vars
  BY <1>7 DEF vars, PairInv
<1> QED BY <1>1, <1>2, <1>3, <1>4, <1>5, <1>6, <1>7 DEF Next

\* A pair gets at most one second leg, and only when its first is wholly filled.
THEOREM OneSecondLeg == Spec => []SecondLegOnce
<1>1. Init => FilledIsTrue /\ PairInv
  BY DEF Init, FilledIsTrue, PairInv
<1>2. PairInv => SecondLegOnce
  BY DEF PairInv, SecondLegOnce
<1> QED
  BY <1>1, <1>2, TypeInit, TypeStep, FilledIsTrueStep, PairStep, PTL DEF Spec
-----------------------------------------------------------------------------
(***************************************************************************)
(* Hedging: the hedges the engines may have under way.                     *)
(***************************************************************************)
\* What either engine may have under way: its own formula of the delta it saw, not zero.
Hedges ==
    {h \in [engine : {"Track1", "Track4"}, qty : Int, basis : Int] :
        /\ h.qty # 0
        /\ h.engine = "Track1" => h.qty = HedgeQty(h.basis)
        /\ h.engine = "Track4" => h.qty = Clamped(Rounded(-h.basis))}

HedgeInv == delta \in Int /\ inflight \in Seq(Hedges)
-----------------------------------------------------------------------------
(***************************************************************************)
(* The arithmetic.                                                         *)
(***************************************************************************)

\* Rounding leaves at most half a future of a delta.
LEMMA RoundedLeaves ==
    ASSUME NEW d \in Int
    PROVE  /\ Rounded(-d) \in Int
           /\ -5 <= d + 10 * Rounded(-d) /\ d + 10 * Rounded(-d) <= 5
<1>1. \A x \in Int : (x \div 10) \in Int /\ 10 * (x \div 10) <= x /\ x < 10 * (x \div 10) + 10
  OBVIOUS
<1>2. CASE -d < 0
  <2>1. Rounded(-d) = -((5 + d) \div 10)
    BY <1>2 DEF Rounded
  <2>2. /\ (5 + d) \div 10 \in Int /\ 10 * ((5 + d) \div 10) <= 5 + d
        /\ 5 + d < 10 * ((5 + d) \div 10) + 10
    BY <1>1
  <2> QED BY <2>1, <2>2
<1>3. CASE ~(-d < 0)
  <2>1. Rounded(-d) = (5 - d) \div 10
    BY <1>3 DEF Rounded
  <2>2. /\ (5 - d) \div 10 \in Int /\ 10 * ((5 - d) \div 10) <= 5 - d
        /\ 5 - d < 10 * ((5 - d) \div 10) + 10
    BY <1>1
  <2> QED BY <2>1, <2>2
<1> QED BY <1>2, <1>3

\* Whatever rounds to something is at least half a future.
LEMMA RoundedIsSomething ==
    ASSUME NEW d \in Int, Rounded(-d) # 0
    PROVE  Size(d) >= 5
<1> SUFFICES ASSUME Size(d) < 5 PROVE Rounded(-d) = 0
  BY DEF Size
<1>1. d > -5 /\ d < 5
  BY DEF Size
<1>2. \A x \in 0..9 : x \div 10 = 0
  OBVIOUS
<1>3. CASE -d < 0
  <2>1. Rounded(-d) = -((5 + d) \div 10)
    BY <1>3 DEF Rounded
  <2>2. 5 + d \in 0..9
    BY <1>1
  <2> QED BY <1>2, <2>1, <2>2
<1>4. CASE ~(-d < 0)
  <2>1. Rounded(-d) = (5 - d) \div 10
    BY <1>4 DEF Rounded
  <2>2. 5 - d \in 0..9
    BY <1>1
  <2> QED BY <1>2, <2>1, <2>2
<1> QED BY <1>3, <1>4

\* A hedge of Track1 takes the delta into the dead band.
LEMMA Track1Helps ==
    ASSUME NEW d \in Int, HedgeQty(d) # 0
    PROVE  /\ Size(d + 10 * HedgeQty(d)) <= Deadband
           /\ Size(d + 10 * HedgeQty(d)) <= Size(d)
<1>1. HedgeQty(d) = Rounded(-d) /\ Size(d) > 5
  BY DEF HedgeQty, Deadband, Size
<1>2. Rounded(-d) \in Int /\ Size(d + 10 * Rounded(-d)) <= 5
  BY RoundedLeaves DEF Size
<1>3. Size(d) \in Int /\ Size(d + 10 * Rounded(-d)) \in Int
  BY <1>2 DEF Size
<1> QED BY <1>1, <1>2, <1>3 DEF Deadband

\* A hedge of Track4, clamped or not, takes the delta no further from zero.
LEMMA Track4Helps ==
    ASSUME NEW d \in Int, Clamped(Rounded(-d)) # 0
    PROVE  Size(d + 10 * Clamped(Rounded(-d))) <= Size(d)
<1>1. /\ Rounded(-d) \in Int
      /\ -5 <= d + 10 * Rounded(-d) /\ d + 10 * Rounded(-d) <= 5
  BY RoundedLeaves
<1>2. CASE Rounded(-d) > 100
  BY <1>1, <1>2 DEF Clamped, Size
<1>3. CASE Rounded(-d) < -100
  BY <1>1, <1>3 DEF Clamped, Size
<1>4. CASE ~(Rounded(-d) > 100) /\ ~(Rounded(-d) < -100)
  <2>1. Clamped(Rounded(-d)) = Rounded(-d)
    BY <1>4 DEF Clamped
  <2>2. Size(d) >= 5
    BY <2>1, RoundedIsSomething
  <2>3. Size(d + 10 * Rounded(-d)) <= 5
    BY <1>1 DEF Size
  <2> QED BY <1>1, <2>1, <2>2, <2>3 DEF Size
<1> QED BY <1>2, <1>3, <1>4
-----------------------------------------------------------------------------
(***************************************************************************)
(* The hedges under way.                                                   *)
(***************************************************************************)

\* What Send adds is the engine's formula of the delta of the moment.
LEMMA SendKeeps ==
    ASSUME HedgeInv, NEW engine \in {"Track1", "Track4"}, NEW h, Send(engine, h),
           delta' = delta, h.qty \in Int,
           h.qty # 0 => /\ engine = "Track1" => h.qty = HedgeQty(delta)
                        /\ engine = "Track4" => h.qty = Clamped(Rounded(-delta))
    PROVE  HedgeInv'
<1> DEFINE new == [engine |-> engine, qty |-> h.qty, basis |-> delta]
<1>1. inflight' = inflight \/ (h.qty # 0 /\ inflight' = Append(inflight, new))
  BY DEF Send
<1>2. CASE inflight' = inflight
  BY <1>2 DEF HedgeInv
<1>3. CASE h.qty # 0 /\ inflight' = Append(inflight, new)
  <2>1. new \in Hedges
    BY <1>3 DEF Hedges, HedgeInv
  <2> QED BY <1>3, <2>1 DEF HedgeInv
<1> QED BY <1>1, <1>2, <1>3

\* Sequences stay sequences without one of their elements.
LEMMA RemoveAtKeeps ==
    ASSUME NEW T, NEW s \in Seq(T), NEW i \in 1..Len(s)
    PROVE  RemoveAt(s, i) \in Seq(T)
<1>1. SubSeq(s, 1, i - 1) \in Seq(T) /\ SubSeq(s, i + 1, Len(s)) \in Seq(T)
  OBVIOUS
<1> QED BY <1>1 DEF RemoveAt

\* Whatever delta does, the hedges under way are those of their formulas.
LEMMA HedgeStep == HedgeInv /\ [HedgeNext]_hedgeVars => HedgeInv'
<1> SUFFICES ASSUME HedgeInv, [HedgeNext]_hedgeVars PROVE HedgeInv'
  OBVIOUS
<1>1. CASE Move
  BY <1>1, HedgeAssumption DEF Move, HedgeInv
<1>2. CASE Track1Tick
  <2>1. delta' = delta
    BY <1>2 DEF Track1Tick, market
  <2>2. CASE inflight' = inflight
    BY <2>1, <2>2 DEF HedgeInv
  <2>3. CASE Send("Track1", Track1Hedge(delta))
    <3>1. Track1Hedge(delta).qty = HedgeQty(delta)
      BY DEF Track1Hedge
    <3>2. HedgeQty(delta) \in Int
      BY RoundedLeaves DEF HedgeQty, HedgeInv
    <3> QED BY <2>1, <2>3, <3>1, <3>2, SendKeeps
  <2> QED BY <1>2, <2>2, <2>3 DEF Track1Tick
<1>3. CASE Track4Tick
  <2>1. delta' = delta
    BY <1>3 DEF Track4Tick, market
  <2>2. CASE inflight' = inflight
    BY <2>1, <2>2 DEF HedgeInv
  <2>3. CASE Send("Track4", Track4Hedge(delta, history'))
    <3>1. Track4Hedge(delta, history').qty = Track4Qty(delta, history')
      BY DEF Track4Hedge
    <3>2. \/ Track4Qty(delta, history') = 0
          \/ Track4Qty(delta, history') = Clamped(Rounded(-delta))
      BY DEF Track4Qty
    <3>3. Clamped(Rounded(-delta)) \in Int
      BY RoundedLeaves DEF Clamped, HedgeInv
    <3> QED BY <2>1, <2>3, <3>1, <3>2, <3>3, SendKeeps
  <2> QED BY <1>3, <2>2, <2>3 DEF Track4Tick
<1>4. CASE Land
  <2>1. PICK i \in 1..Len(inflight) : Lands(i) /\ inflight' = RemoveAt(inflight, i)
    BY <1>4 DEF Land
  <2>2. inflight[i] \in Hedges
    BY DEF HedgeInv
  <2>3. delta' \in Int
    BY <2>1, <2>2 DEF Lands, Hedges, HedgeInv
  <2>4. inflight' \in Seq(Hedges)
    BY <2>1, RemoveAtKeeps DEF HedgeInv
  <2> QED BY <2>3, <2>4 DEF HedgeInv
<1>5. CASE UNCHANGED hedgeVars
  BY <1>5 DEF hedgeVars, HedgeInv
<1> QED BY <1>1, <1>2, <1>3, <1>4, <1>5 DEF HedgeNext

\* A hedge that lands on the delta it was computed from never takes it further from zero,
\* and one of Track1's takes it into the dead band.
THEOREM FreshHedgesHelp == HedgeSpec => FreshHedgeHelps
<1>1. HedgeInit => HedgeInv
  BY DEF HedgeInit, HedgeInv
<1>2. ASSUME HedgeInv, NEW i \in 1..Len(inflight), Lands(i), inflight[i].basis = delta
      PROVE  /\ Size(delta') <= Size(delta)
             /\ inflight[i].engine = "Track1" => Size(delta') <= Deadband
  <2>1. inflight[i] \in Hedges /\ delta \in Int
    BY <1>2 DEF HedgeInv
  <2>2. delta' = delta + 10 * inflight[i].qty
    BY <1>2 DEF Lands
  <2>3. CASE inflight[i].engine = "Track1"
    <3>1. inflight[i].qty = HedgeQty(delta) /\ HedgeQty(delta) # 0
      BY <1>2, <2>1, <2>3 DEF Hedges
    <3> QED BY <2>1, <2>2, <2>3, <3>1, Track1Helps
  <2>4. CASE inflight[i].engine = "Track4"
    <3>1. inflight[i].qty = Clamped(Rounded(-delta)) /\ Clamped(Rounded(-delta)) # 0
      BY <1>2, <2>1, <2>4 DEF Hedges
    <3> QED BY <2>1, <2>2, <2>4, <3>1, Track4Helps
  <2> QED BY <2>1, <2>3, <2>4 DEF Hedges
<1>3. HedgeInv =>
        \A i \in 1..Len(inflight) :
           (Lands(i) /\ inflight' = RemoveAt(inflight, i) /\ inflight[i].basis = delta)
               => /\ Size(delta') <= Size(delta)
                  /\ inflight[i].engine = "Track1" => Size(delta') <= Deadband
  BY <1>2
<1> QED BY <1>1, <1>3, HedgeStep, PTL DEF HedgeSpec, FreshHedgeHelps
=============================================================================
