--------------------------- MODULE AgentHostProofs ---------------------------
(***************************************************************************)
(* The program with its agents, for every bound, capacity and timetable:   *)
(* the rate of the throttle, the account of the recorder, the order of the *)
(* remote commands, the shutdown, and the summary of the day.  Each agent  *)
(* has variables of its own, so each argument looks at the steps of one    *)
(* agent and at what the others leave alone.                               *)
(***************************************************************************)
EXTENDS AgentHost, FiniteSetTheorems, FunctionTheorems, SequenceTheorems,
        WellFoundedInduction, TLAPS

(***************************************************************************)
(* The throttle: the rate the bucket enforces, for every capacity, fill    *)
(* rate and cost.                                                          *)
(***************************************************************************)
\* What a refill yields: a number of units the bucket can hold, no more than what
\* was there plus what dripped in.
LEMMA RefilledBounds ==
    ASSUME TypeOK
    PROVE  /\ Refilled \in 0..Capacity
           /\ Refilled <= tokens + FillRate * (now - lastUpdate)
<1>1. /\ (now - lastUpdate) * FillRate \in Nat
      /\ (now - lastUpdate) * FillRate = FillRate * (now - lastUpdate)
  BY BucketAssumption DEF TypeOK
<1> QED BY <1>1, BucketAssumption DEF Refilled, Dripped, TypeOK

\* The bucket is never overdrawn nor fuller than its capacity.
THEOREM BucketTypeCorrect == Spec => []TypeOK
<1> USE BucketAssumption
<1>1. Init => TypeOK
  BY DEF Init, TypeOK
<1>2. TypeOK /\ [Next]_vars => TypeOK'
  <2> SUFFICES ASSUME TypeOK, [Next]_vars PROVE TypeOK'
    OBVIOUS
  <2>1. CASE SendPayload
    BY <2>1, RefilledBounds DEF SendPayload, Enough, TypeOK
  <2>2. CASE Tick
    BY <2>2 DEF Tick, TypeOK
  <2>3. CASE OpenWindow
    BY <2>3 DEF OpenWindow, TypeOK
  <2>4. CASE UNCHANGED vars
    BY <2>4 DEF vars, TypeOK
  <2> QED BY <2>1, <2>2, <2>3, <2>4 DEF Next
<1> QED BY <1>1, <1>2, PTL DEF Spec

(***************************************************************************)
(* The bound becomes inductive when it charges the window with the tokens  *)
(* still in the bucket and credits it only with what has dripped in up to  *)
(* the last call; before the first call of the window nothing is charged.  *)
(***************************************************************************)
Charge == Cost * (granted - atMark)

ChargeInv ==
    IF lastUpdate < mark
    THEN granted = atMark
    ELSE Charge + tokens <= Capacity + FillRate * (lastUpdate - mark)

\* A call keeps the account of the window.
LEMMA SendKeepsCharge ==
    ASSUME TypeOK, ChargeInv, SendPayload
    PROVE  ChargeInv'
<1> USE BucketAssumption
<1>1. /\ lastUpdate' = now /\ mark' = mark /\ atMark' = atMark /\ mark <= now
      /\ \/ granted' = granted /\ tokens' = Refilled
         \/ granted' = granted + 1 /\ tokens' = Refilled - Cost
  BY DEF SendPayload, TypeOK
<1>2. Charge \in Nat /\ Refilled \in Nat /\ FillRate * (now - mark) \in Nat
  BY RefilledBounds DEF Charge, TypeOK
<1>3. Charge' + tokens' = Charge + Refilled
  <2>1. CASE granted' = granted /\ tokens' = Refilled
    BY <1>1, <2>1 DEF Charge
  <2>2. CASE granted' = granted + 1 /\ tokens' = Refilled - Cost
    <3>1. Cost * (granted + 1 - atMark) = Cost * (granted - atMark) + Cost
      BY DEF TypeOK
    <3>2. Charge' = Cost * (granted + 1 - atMark)
      <4>1. granted' - atMark' = granted + 1 - atMark
        BY <1>1, <2>2 DEF TypeOK
      <4>2. Charge' = Cost * (granted' - atMark')
        BY Zenon DEF Charge
      <4> QED BY <4>1, <4>2, Zenon
    <3>3. Charge' = Charge + Cost
      BY <3>1, <3>2 DEF Charge
    <3> QED BY <1>2, <2>2, <3>3
  <2> QED BY <1>1, <2>1, <2>2
<1>4. Charge + Refilled <= Capacity + FillRate * (now - mark)
  <2>1. CASE lastUpdate < mark
    <3>1. Charge = 0
      BY <2>1 DEF ChargeInv, Charge, TypeOK
    <3> QED BY <1>2, <3>1, RefilledBounds
  <2>2. CASE mark <= lastUpdate
    <3>1. Charge + tokens <= Capacity + FillRate * (lastUpdate - mark)
      BY <2>2 DEF ChargeInv, TypeOK
    <3>2. FillRate * (lastUpdate - mark) + FillRate * (now - lastUpdate)
              = FillRate * (now - mark)
      BY DEF TypeOK
    <3>3. /\ FillRate * (lastUpdate - mark) \in Nat
          /\ FillRate * (now - lastUpdate) \in Nat
          /\ tokens \in Nat
      BY <2>2 DEF TypeOK
    <3> QED BY <1>2, <3>1, <3>2, <3>3, RefilledBounds
  <2> QED BY <2>1, <2>2 DEF TypeOK
<1> QED BY <1>1, <1>3, <1>4 DEF ChargeInv, TypeOK

\* No window of time lets through more than a full bucket and what drips in.
THEOREM BucketRateBounded == Spec => []RateBound
<1> USE BucketAssumption
<1>1. Init => ChargeInv
  BY DEF Init, ChargeInv, Charge
<1>2. TypeOK /\ ChargeInv /\ [Next]_vars => ChargeInv'
  <2> SUFFICES ASSUME TypeOK, ChargeInv, [Next]_vars PROVE ChargeInv'
    OBVIOUS
  <2>1. CASE OpenWindow
    BY <2>1 DEF OpenWindow, ChargeInv, Charge, TypeOK
  <2>2. CASE Tick
    BY <2>2 DEF Tick, ChargeInv, Charge
  <2>3. CASE UNCHANGED vars
    BY <2>3 DEF vars, ChargeInv, Charge
  <2> QED BY <2>1, <2>2, <2>3, SendKeepsCharge DEF Next
<1>3. TypeOK /\ ChargeInv => RateBound
  <2> SUFFICES ASSUME TypeOK, ChargeInv PROVE RateBound
    OBVIOUS
  <2>1. /\ Charge \in Nat /\ tokens \in Nat
        /\ FillRate * (now - mark) \in Nat
    BY DEF Charge, TypeOK
  <2>2. CASE lastUpdate < mark
    BY <2>1, <2>2 DEF ChargeInv, RateBound, Charge, TypeOK
  <2>3. CASE mark <= lastUpdate
    <3>1. FillRate * (now - mark)
              = FillRate * (lastUpdate - mark) + FillRate * (now - lastUpdate)
      BY DEF TypeOK
    <3>2. /\ FillRate * (now - lastUpdate) \in Nat
          /\ FillRate * (lastUpdate - mark) \in Nat
      BY <2>3 DEF TypeOK
    <3>3. Charge + tokens <= Capacity + FillRate * (lastUpdate - mark)
      BY <2>3 DEF ChargeInv, TypeOK
    <3> QED BY <2>1, <3>1, <3>2, <3>3 DEF RateBound, Charge
  <2> QED BY <2>2, <2>3 DEF TypeOK
<1> QED BY <1>1, <1>2, <1>3, BucketTypeCorrect, PTL DEF Spec

\* Nothing but a call of the throttle touches its bucket.
THEOREM HostRefinesBucket == HostSpec => Spec
<1>1. HostInit => Init
  BY DEF HostInit
<1>2. [HostNext]_hostVars => [Next]_vars
  BY DEF HostNext, Recording, Reporting, Polling, Sending, Conducting, OnLoop, Calls,
         agentVars, hostVars
<1> QED BY <1>1, <1>2, PTL DEF HostSpec, HostSteps, Spec

\* In the program, too, no window of time lets more calls through than the bucket pays for.
THEOREM RateBounded == HostSpec => []RateBound
BY HostRefinesBucket, BucketRateBounded, PTL
-----------------------------------------------------------------------------
(***************************************************************************)
(* The recorder.                                                           *)
(***************************************************************************)

\* A sequence and its continuation: what is listed first stays smaller.
LEMMA IncreasingConcat ==
    ASSUME NEW s \in Seq(Nat), NEW t \in Seq(Nat)
    PROVE  /\ s \o t \in Seq(Nat)
           /\ Increasing(s \o t) <=>
                 /\ Increasing(s) /\ Increasing(t)
                 /\ \A x \in Items(s), y \in Items(t) : x < y
           /\ Items(s \o t) = Items(s) \cup Items(t)
<1>1. /\ s \o t \in Seq(Nat) /\ DOMAIN (s \o t) = 1..(Len(s) + Len(t))
      /\ Len(s) \in Nat /\ Len(t) \in Nat
      /\ DOMAIN s = 1..Len(s) /\ DOMAIN t = 1..Len(t)
      /\ Len(s \o t) = Len(s) + Len(t)
  BY ConcatProperties, LenProperties
<1>2. /\ \A i \in 1..Len(s) : (s \o t)[i] = s[i]
      /\ \A i \in 1..Len(t) : (s \o t)[Len(s) + i] = t[i]
  BY <1>1
<1>b. /\ \A i \in 1..Len(s) : i \in 1..(Len(s) + Len(t))
      /\ \A j \in 1..Len(t) : Len(s) + j \in 1..(Len(s) + Len(t))
      /\ \A i \in 1..Len(s), j \in 1..Len(t) : i < Len(s) + j
      /\ \A i, j \in 1..Len(t) : i < j => Len(s) + i < Len(s) + j
  BY <1>1
<1>3. \A k \in 1..(Len(s) + Len(t)) :
          k \in 1..Len(s) \/ \E i \in 1..Len(t) : k = Len(s) + i
  <2> SUFFICES ASSUME NEW k \in 1..(Len(s) + Len(t)), k \notin 1..Len(s)
               PROVE  \E i \in 1..Len(t) : k = Len(s) + i
    OBVIOUS
  <2>1. k - Len(s) \in 1..Len(t) /\ k = Len(s) + (k - Len(s))
    BY <1>1
  <2> QED BY <2>1
<1>4. ASSUME Increasing(s \o t)
      PROVE  /\ Increasing(s) /\ Increasing(t)
             /\ \A i \in 1..Len(s), j \in 1..Len(t) : s[i] < t[j]
  <2>1. \A i, j \in 1..(Len(s) + Len(t)) : i < j => (s \o t)[i] < (s \o t)[j]
    BY <1>1, <1>4 DEF Increasing
  <2>2. Increasing(s)
    <3> SUFFICES ASSUME NEW i \in 1..Len(s), NEW j \in 1..Len(s), i < j PROVE s[i] < s[j]
      BY <1>1 DEF Increasing
    <3>1. (s \o t)[i] < (s \o t)[j]
      BY <1>b, <2>1
    <3> QED BY <1>2, <3>1
  <2>3. Increasing(t)
    <3> SUFFICES ASSUME NEW i \in 1..Len(t), NEW j \in 1..Len(t), i < j PROVE t[i] < t[j]
      BY <1>1 DEF Increasing
    <3>1. (s \o t)[Len(s) + i] < (s \o t)[Len(s) + j]
      BY <1>b, <2>1
    <3> QED BY <1>2, <3>1
  <2>4. ASSUME NEW i \in 1..Len(s), NEW j \in 1..Len(t) PROVE s[i] < t[j]
    <3>1. (s \o t)[i] < (s \o t)[Len(s) + j]
      BY <1>b, <2>1
    <3> QED BY <1>2, <3>1
  <2> QED BY <2>2, <2>3, <2>4
<1>5. ASSUME Increasing(s), Increasing(t),
             \A i \in 1..Len(s), j \in 1..Len(t) : s[i] < t[j]
      PROVE  Increasing(s \o t)
  <2> SUFFICES ASSUME NEW k \in 1..(Len(s) + Len(t)), NEW l \in 1..(Len(s) + Len(t)), k < l
               PROVE  (s \o t)[k] < (s \o t)[l]
    BY <1>1 DEF Increasing
  <2>1. CASE l \in 1..Len(s)
    <3>1. k \in 1..Len(s)
      BY <1>1, <2>1
    <3> QED BY <1>1, <1>2, <1>5, <2>1, <3>1 DEF Increasing
  <2>2. ASSUME NEW j \in 1..Len(t), l = Len(s) + j PROVE (s \o t)[k] < (s \o t)[l]
    <3>1. CASE k \in 1..Len(s)
      BY <1>2, <1>5, <2>2, <3>1
    <3>2. ASSUME NEW i \in 1..Len(t), k = Len(s) + i PROVE (s \o t)[k] < (s \o t)[l]
      <4>1. i < j
        BY <1>1, <2>2, <3>2
      <4> QED BY <1>1, <1>2, <1>5, <2>2, <3>2, <4>1 DEF Increasing
    <3> QED BY <1>3, <3>1, <3>2
  <2> QED BY <1>3, <2>1, <2>2
<1>6. Items(s \o t) = Items(s) \cup Items(t)
  <2>1. Items(s \o t) \subseteq Items(s) \cup Items(t)
    <3> SUFFICES ASSUME NEW k \in 1..(Len(s) + Len(t))
                 PROVE  (s \o t)[k] \in Items(s) \cup Items(t)
      BY <1>1 DEF Items
    <3> QED BY <1>2, <1>3 DEF Items
  <2>2. Items(s) \subseteq Items(s \o t)
    BY <1>1, <1>2 DEF Items
  <2>3. Items(t) \subseteq Items(s \o t)
    <3> SUFFICES ASSUME NEW i \in 1..Len(t) PROVE t[i] \in Items(s \o t)
      BY DEF Items
    <3>1. Len(s) + i \in 1..(Len(s) + Len(t))
      BY <1>1
    <3> QED BY <1>1, <1>2, <3>1 DEF Items
  <2> QED BY <2>1, <2>2, <2>3
<1>7. (\A i \in 1..Len(s), j \in 1..Len(t) : s[i] < t[j])
          <=> \A x \in Items(s), y \in Items(t) : x < y
  BY DEF Items
<1> QED BY <1>1, <1>4, <1>5, <1>6, <1>7

\* A sequence of one number.
LEMMA OneItem ==
    ASSUME NEW e \in Nat
    PROVE  <<e>> \in Seq(Nat) /\ Increasing(<<e>>) /\ Items(<<e>>) = {e}
BY DEF Increasing, Items

\* A sequence is its first n elements and the rest.
LEMMA Split ==
    ASSUME NEW s \in Seq(Nat), NEW n \in 0..Len(s)
    PROVE  /\ SubSeq(s, 1, n) \in Seq(Nat) /\ SubSeq(s, n + 1, Len(s)) \in Seq(Nat)
           /\ Len(SubSeq(s, 1, n)) = n /\ Len(SubSeq(s, n + 1, Len(s))) = Len(s) - n
           /\ \A i \in 1..n : SubSeq(s, 1, n)[i] = s[i]
           /\ \A i \in 1..(Len(s) - n) : SubSeq(s, n + 1, Len(s))[i] = s[n + i]
           /\ s = SubSeq(s, 1, n) \o SubSeq(s, n + 1, Len(s))
<1>1. Len(s) \in Nat /\ \A i \in 1..Len(s) : s[i] \in Nat
  BY ElementOfSeq, LenProperties
<1>2. /\ SubSeq(s, 1, n) \in Seq(Nat)
      /\ Len(SubSeq(s, 1, n)) = n
      /\ \A i \in 1..n : SubSeq(s, 1, n)[i] = s[i]
  <2>1. \A i \in 1..n : s[i] \in Nat
    BY <1>1
  <2> QED BY <1>1, <2>1, SubSeqProperties
<1>3. /\ SubSeq(s, n + 1, Len(s)) \in Seq(Nat)
      /\ Len(SubSeq(s, n + 1, Len(s))) = Len(s) - n
      /\ \A i \in 1..(Len(s) - n) : SubSeq(s, n + 1, Len(s))[i] = s[n + i]
  <2>1. \A i \in (n + 1)..Len(s) : s[i] \in Nat
    BY <1>1
  <2> QED BY <1>1, <2>1, SubSeqProperties
<1>4. SubSeq(s, 1, n) \o SubSeq(s, n + 1, Len(s)) = SubSeq(s, 1, Len(s))
  <2>1. 1 \in 1..(Len(s) + 1) /\ n \in (1 - 1)..Len(s) /\ Len(s) \in n..Len(s)
    BY <1>1
  <2> QED BY <2>1, ConcatAdjacentSubSeq
<1> QED BY <1>2, <1>3, <1>4, SubSeqFull

\* What the recorder's variables hold.
RecorderTypeOK ==
    /\ rFile \in Seq(Nat) /\ rQueue \in Seq(Nat)
    /\ rUnfinished \in Nat /\ rArrived \in Nat
    /\ rLost \subseteq Nat \X Nat

Lost == {l[1] : l \in rLost}
Behind(e) == {l \in rLost : l[2] = e}

\* RecorderAccounts with what makes it inductive: the event a batch broke on is lost with
\* the rest of it, so no later batch breaks on the same event; and what is not marked
\* done never falls below what waits.
RecorderInv ==
    /\ RecorderTypeOK
    /\ Increasing(rFile \o rQueue)
    /\ Items(rFile \o rQueue) \cup Lost \cup rDropped = 1..rArrived
    /\ Items(rFile \o rQueue) \cap (Lost \cup rDropped) = {}
    /\ Lost \cap rDropped = {}
    /\ \A l \in rLost :
           l[2] <= l[1] /\ l[2] \in Lost /\ Cardinality(Behind(l[2])) <= MaxBatch
    /\ rUnfinished >= Len(rQueue)
    /\ (rUnfinished = Len(rQueue)) <=> (rLost = {})

\* The batch is a prefix of the queue no longer than MaxBatch.
LEMMA TakenIsPrefix ==
    ASSUME RecorderInv
    PROVE  /\ Len(Taken) \in 0..Len(rQueue) /\ Len(Taken) <= MaxBatch
           /\ Taken = SubSeq(rQueue, 1, Len(Taken))
<1> DEFINE n == IF Len(rQueue) < MaxBatch THEN Len(rQueue) ELSE MaxBatch
<1>1. rQueue \in Seq(Nat) /\ Len(rQueue) \in Nat
  BY DEF RecorderInv, RecorderTypeOK
<1>2. n \in 0..Len(rQueue) /\ n <= MaxBatch
  BY <1>1, RecorderAssumption
<1>3. Taken = SubSeq(rQueue, 1, n)
  BY DEF Taken
<1>4. Len(Taken) = n
  BY <1>1, <1>2, <1>3, Split
<1> QED BY <1>2, <1>3, <1>4

\* Three sequences put together in either order.
LEMMA Regroup ==
    ASSUME NEW s \in Seq(Nat), NEW t \in Seq(Nat), NEW u \in Seq(Nat)
    PROVE  (s \o t) \o u = s \o (t \o u)
BY ConcatAssociative, SMTT(30)

\* An event that arrives is the youngest: it goes behind all others or is dropped.
LEMMA EventKept == RecorderInv /\ OnEvent => RecorderInv'
<1> SUFFICES ASSUME RecorderInv, OnEvent PROVE RecorderInv'
  OBVIOUS
<1> DEFINE e == rArrived + 1
<1>1. /\ rFile \in Seq(Nat) /\ rQueue \in Seq(Nat) /\ rArrived \in Nat /\ e \in Nat
      /\ rUnfinished \in Nat /\ Len(rQueue) \in Nat /\ e \notin 1..rArrived
      /\ 1..e = 1..rArrived \cup {e}
  BY DEF RecorderInv, RecorderTypeOK
<1>2. /\ rFile' = rFile /\ rLost' = rLost /\ rArrived' = e
      /\ Lost' = Lost /\ \A x : Behind(x)' = Behind(x)
  BY DEF OnEvent, Lost, Behind
<1>3. CASE rQueue' = Append(rQueue, e) /\ rUnfinished' = rUnfinished + 1
           /\ rDropped' = rDropped
  <2> DEFINE kept == rFile \o rQueue
  <2>1. rFile' \o rQueue' = kept \o <<e>>
    <3>1. rQueue' = rQueue \o <<e>>
      BY <1>1, <1>3, AppendIsConcat
    <3> QED BY <1>1, <1>2, <3>1, OneItem, Regroup
  <2>2. kept \in Seq(Nat)
    BY <1>1, ConcatProperties
  <2>3. Increasing(kept) /\ Items(kept) \subseteq 1..rArrived
    BY DEF RecorderInv
  <2>4. /\ Increasing(kept \o <<e>>)
        /\ Items(kept \o <<e>>) = Items(kept) \cup {e}
    <3>1. \A x \in Items(kept), y \in Items(<<e>>) : x < y
      BY <1>1, <2>3, OneItem
    <3>2. /\ Increasing(kept \o <<e>>)
              <=> /\ Increasing(kept) /\ Increasing(<<e>>)
                  /\ \A x \in Items(kept), y \in Items(<<e>>) : x < y
          /\ Items(kept \o <<e>>) = Items(kept) \cup Items(<<e>>)
      BY <1>1, <2>2, OneItem, IncreasingConcat
    <3> QED BY <1>1, <2>3, <3>1, <3>2, OneItem
  <2>5. RecorderTypeOK' /\ Len(rQueue') = Len(rQueue) + 1
    BY <1>1, <1>2, <1>3, AppendProperties DEF RecorderInv, RecorderTypeOK
  <2>6. /\ Items(kept) \cup Lost \cup rDropped = 1..rArrived
        /\ Items(kept) \cap (Lost \cup rDropped) = {}
        /\ Lost \cap rDropped = {}
    BY DEF RecorderInv
  <2>7. /\ rUnfinished >= Len(rQueue)
        /\ (rUnfinished = Len(rQueue)) <=> (rLost = {})
        /\ \A l \in rLost :
               l[2] <= l[1] /\ l[2] \in Lost /\ Cardinality(Behind(l[2])) <= MaxBatch
    BY DEF RecorderInv
  <2>8. /\ rUnfinished' >= Len(rQueue')
        /\ (rUnfinished' = Len(rQueue')) <=> (rLost' = {})
    BY <1>1, <1>2, <1>3, <2>5, <2>7
  <2>9. /\ Items(rFile' \o rQueue') \cup Lost' \cup rDropped' = 1..rArrived'
        /\ Items(rFile' \o rQueue') \cap (Lost' \cup rDropped') = {}
        /\ Lost' \cap rDropped' = {}
    <3>1. Items(rFile' \o rQueue') = Items(kept) \cup {e}
      BY <2>1, <2>4
    <3>2. rArrived' = e /\ rDropped' = rDropped /\ Lost' = Lost
      BY <1>2, <1>3
    <3> HIDE DEF kept, e
    <3> QED BY <1>1, <2>6, <3>1, <3>2
  <2>10. \A l \in rLost' :
             l[2] <= l[1] /\ l[2] \in Lost' /\ Cardinality(Behind(l[2])') <= MaxBatch
    BY <1>2, <2>7
  <2> QED BY <2>1, <2>4, <2>3, <2>5, <2>8, <2>9, <2>10 DEF RecorderInv
<1>4. CASE rDropped' = rDropped \cup {e} /\ UNCHANGED <<rQueue, rUnfinished>>
  <2>1. RecorderTypeOK' /\ rFile' \o rQueue' = rFile \o rQueue
    BY <1>1, <1>2, <1>4 DEF RecorderInv, RecorderTypeOK
  <2>2. /\ Items(rFile \o rQueue) \cup Lost \cup rDropped = 1..rArrived
        /\ Items(rFile \o rQueue) \cap (Lost \cup rDropped) = {}
        /\ Lost \cap rDropped = {}
    BY DEF RecorderInv
  <2>3. /\ Items(rFile' \o rQueue') \cup Lost' \cup rDropped' = 1..rArrived'
        /\ Items(rFile' \o rQueue') \cap (Lost' \cup rDropped') = {}
        /\ Lost' \cap rDropped' = {}
    <3> HIDE DEF e
    <3> QED BY <1>1, <1>2, <1>4, <2>1, <2>2
  <2> QED BY <1>2, <1>4, <2>1, <2>3 DEF RecorderInv
<1> QED BY <1>1, <1>3, <1>4 DEF OnEvent

\* A batch written to the end moves from the head of the queue to the end of the file.
LEMMA WrittenKept ==
    ASSUME RecorderInv, BatchWritten, UNCHANGED <<rArrived, rDropped>>,
           rQueue' = SubSeq(rQueue, Len(Taken) + 1, Len(rQueue))
    PROVE  RecorderInv'
<1>1. /\ rFile \in Seq(Nat) /\ rQueue \in Seq(Nat) /\ rUnfinished \in Nat
      /\ Len(rQueue) \in Nat
  BY DEF RecorderInv, RecorderTypeOK
<1>2. /\ Taken \in Seq(Nat) /\ rQueue' \in Seq(Nat)
      /\ Len(rQueue') = Len(rQueue) - Len(Taken) /\ Len(Taken) \in 0..Len(rQueue)
      /\ rQueue = Taken \o rQueue'
  BY <1>1, TakenIsPrefix, Split
<1>3. rFile' = rFile \o Taken /\ rUnfinished' = rUnfinished - Len(Taken) /\ rLost' = rLost
  BY DEF BatchWritten
<1>4. rFile' \o rQueue' = rFile \o rQueue
  <2>1. (rFile \o Taken) \o rQueue' = rFile \o (Taken \o rQueue')
    <3>1. rFile \in Seq(Nat) /\ Taken \in Seq(Nat) /\ rQueue' \in Seq(Nat)
      BY <1>1, <1>2
    <3> QED BY <3>1, Regroup
  <2> QED BY <1>2, <1>3, <2>1
<1>5. rFile' \in Seq(Nat)
  BY <1>1, <1>2, <1>3, ConcatProperties
<1>6. /\ rUnfinished >= Len(rQueue)
      /\ (rUnfinished = Len(rQueue)) <=> (rLost = {})
  BY DEF RecorderInv
<1>7. /\ rUnfinished' \in Nat /\ rUnfinished' >= Len(rQueue')
      /\ (rUnfinished' = Len(rQueue')) <=> (rLost' = {})
  BY <1>1, <1>2, <1>3, <1>6
<1>8. Lost' = Lost /\ \A x : Behind(x)' = Behind(x)
  BY <1>3 DEF Lost, Behind
<1> QED
  BY <1>2, <1>3, <1>4, <1>5, <1>7, <1>8 DEF RecorderInv, RecorderTypeOK

\* The events lost with the k-th of a batch are at most as many as the batch holds.
LEMMA BatchBound ==
    ASSUME NEW s, NEW n \in Nat, NEW k \in 1..n
    PROVE  /\ IsFiniteSet({<<s[i], s[k]>> : i \in k..n})
           /\ Cardinality({<<s[i], s[k]>> : i \in k..n}) <= n
<1> DEFINE B == {<<s[i], s[k]>> : i \in k..n}
           f == [i \in k..n |-> <<s[i], s[k]>>]
<1>1. f \in Surjection(k..n, B)
  BY DEF Surjection
<1>2. IsFiniteSet(k..n) /\ Cardinality(k..n) <= n
  BY FS_Interval
<1>3. Cardinality(B) <= Cardinality(k..n) /\ IsFiniteSet(B)
  <2> HIDE DEF f, B
  <2> QED BY <1>1, <1>2, FS_Surjection
<1>4. Cardinality(B) \in Nat /\ Cardinality(k..n) \in Nat
  <2> HIDE DEF B
  <2> QED BY <1>2, <1>3, FS_CardinalityType
<1> QED BY <1>2, <1>3, <1>4

\* A batch that breaks is written up to the event it breaks on; that one and those
\* behind it are lost, and nobody marks the batch done.
LEMMA BrokenKept ==
    ASSUME RecorderInv, NEW k \in 1..Len(Taken), BatchBreaks(k),
           UNCHANGED <<rArrived, rDropped>>,
           rQueue' = SubSeq(rQueue, Len(Taken) + 1, Len(rQueue))
    PROVE  RecorderInv'
<1> DEFINE n == Len(Taken)
           p == SubSeq(Taken, 1, k - 1)
           r == SubSeq(Taken, k, n)
           b == rQueue'
<1>1. /\ rFile \in Seq(Nat) /\ rQueue \in Seq(Nat) /\ rUnfinished \in Nat
      /\ Len(rQueue) \in Nat /\ rArrived \in Nat
  BY DEF RecorderInv, RecorderTypeOK
<1>2. /\ Taken \in Seq(Nat) /\ b \in Seq(Nat)
      /\ Len(b) = Len(rQueue) - n /\ n \in 0..Len(rQueue) /\ n <= MaxBatch
      /\ rQueue = Taken \o b
  BY <1>1, TakenIsPrefix, Split
<1>3. /\ k - 1 \in 0..n /\ (k - 1) + 1 = k /\ n \in Nat /\ k \in 1..n /\ k \in k..n
      /\ 1 \in 1..(n - (k - 1)) /\ (k - 1) + 1 = k
  BY <1>1, <1>2
<1>4. /\ p \in Seq(Nat) /\ r \in Seq(Nat) /\ Len(r) = n - (k - 1)
      /\ \A i \in 1..(n - (k - 1)) : r[i] = Taken[(k - 1) + i]
      /\ Taken = p \o r
  <2> DEFINE q == SubSeq(Taken, (k - 1) + 1, n)
  <2>1. /\ p \in Seq(Nat) /\ q \in Seq(Nat) /\ Len(q) = n - (k - 1)
        /\ \A i \in 1..(n - (k - 1)) : q[i] = Taken[(k - 1) + i]
        /\ Taken = p \o q
    <3>1. Taken \in Seq(Nat) /\ k - 1 \in 0..Len(Taken)
      BY <1>2, <1>3
    <3> QED BY <3>1, Split
  <2>2. q = r
    BY <1>3
  <2> HIDE DEF q, r, p
  <2> QED BY <2>1, <2>2
<1>5. /\ rFile' = rFile \o p /\ rUnfinished' = rUnfinished
      /\ rLost' = rLost \cup {<<Taken[i], Taken[k]>> : i \in k..n}
  BY DEF BatchBreaks
<1>6. Items(r) = {Taken[i] : i \in k..n}
  <2>1. \A i \in 1..(n - (k - 1)) : (k - 1) + i \in k..n
    BY <1>3
  <2>2. \A j \in k..n : j - (k - 1) \in 1..(n - (k - 1)) /\ (k - 1) + (j - (k - 1)) = j
    BY <1>3
  <2>3. Items(r) \subseteq {Taken[i] : i \in k..n}
    BY <1>4, <2>1 DEF Items
  <2>4. ASSUME NEW j \in k..n PROVE Taken[j] \in Items(r)
    <3>1. r[j - (k - 1)] = Taken[j]
      BY <1>4, <2>2
    <3> QED BY <1>4, <2>2, <3>1 DEF Items
  <2> QED BY <2>3, <2>4
<1>7. Taken[k] \in Items(r) /\ \A i \in k..n : Taken[i] \in Nat /\ Taken[k] <= Taken[i]
  <2>1. \A i \in 1..n : Taken[i] \in Nat
    BY <1>2, ElementOfSeq
  <2>2. Increasing(Taken)
    <3> HIDE DEF b, n
    <3>1. Increasing(rQueue)
      BY <1>1, IncreasingConcat DEF RecorderInv
    <3>2. Increasing(Taken \o b) /\ Taken \in Seq(Nat) /\ b \in Seq(Nat)
      BY <1>2, <3>1
    <3> QED BY <3>2, IncreasingConcat
  <2>3. \A i \in k..n : i \in 1..n /\ (i = k \/ k < i)
    BY <1>3
  <2>4. \A i, j \in 1..n : i < j => Taken[i] < Taken[j]
    BY <1>2, <2>2, LenProperties DEF Increasing
  <2> QED BY <1>3, <1>6, <2>1, <2>3, <2>4
<1> HIDE DEF p, r, b, n
<1>8. /\ Increasing(rFile) /\ Increasing(p) /\ Increasing(b)
      /\ Items(rFile \o rQueue) = Items(rFile) \cup Items(p) \cup Items(r) \cup Items(b)
      /\ \A x \in Items(rFile), y \in Items(p) \cup Items(r) \cup Items(b) : x < y
      /\ \A x \in Items(p), y \in Items(r) \cup Items(b) : x < y
      /\ \A x \in Items(r), y \in Items(b) : x < y
  <2>1. Increasing(rFile \o rQueue)
    BY DEF RecorderInv
  <2>2. /\ Increasing(rFile) /\ Increasing(rQueue)
        /\ \A x \in Items(rFile), y \in Items(rQueue) : x < y
        /\ Items(rFile \o rQueue) = Items(rFile) \cup Items(rQueue)
    BY <1>1, <2>1, IncreasingConcat
  <2>3. /\ Increasing(Taken) /\ Increasing(b)
        /\ \A x \in Items(Taken), y \in Items(b) : x < y
        /\ Items(rQueue) = Items(Taken) \cup Items(b)
    BY <1>2, <2>2, IncreasingConcat
  <2>4. /\ Increasing(p) /\ Increasing(r)
        /\ \A x \in Items(p), y \in Items(r) : x < y
        /\ Items(Taken) = Items(p) \cup Items(r)
    BY <1>4, <2>3, IncreasingConcat
  <2> QED BY <2>2, <2>3, <2>4
<1>9. /\ rFile' \in Seq(Nat)
      /\ Increasing(rFile' \o b)
      /\ Items(rFile' \o b) = Items(rFile) \cup Items(p) \cup Items(b)
  <2>1. /\ rFile' \in Seq(Nat) /\ Increasing(rFile')
        /\ Items(rFile') = Items(rFile) \cup Items(p)
    BY <1>1, <1>4, <1>5, <1>8, IncreasingConcat
  <2>2. \A x \in Items(rFile'), y \in Items(b) : x < y
    BY <1>8, <2>1
  <2>3. b \in Seq(Nat) /\ Increasing(b)
    BY <1>2, <1>8
  <2>4. Increasing(rFile' \o b) /\ Items(rFile' \o b) = Items(rFile') \cup Items(b)
    BY <2>1, <2>2, <2>3, IncreasingConcat
  <2> QED BY <2>1, <2>4
<1>10. Lost' = Lost \cup Items(r)
  <2>1. Lost' = Lost \cup {l[1] : l \in {<<Taken[i], Taken[k]>> : i \in k..n}}
    BY <1>5 DEF Lost
  <2>2. {l[1] : l \in {<<Taken[i], Taken[k]>> : i \in k..n}} = {Taken[i] : i \in k..n}
    <3> DEFINE L == {<<Taken[i], Taken[k]>> : i \in k..n}
               T == {Taken[i] : i \in k..n}
    <3>1. ASSUME NEW l \in L PROVE l[1] \in T
      OBVIOUS
    <3>2. ASSUME NEW i \in k..n PROVE <<Taken[i], Taken[k]>> \in L
      OBVIOUS
    <3>3. ASSUME NEW i \in k..n PROVE Taken[i] \in {l[1] : l \in L}
      <4>1. <<Taken[i], Taken[k]>>[1] = Taken[i]
        OBVIOUS
      <4> HIDE DEF L
      <4> QED BY <3>2, <4>1
    <3> HIDE DEF L
    <3>4. {l[1] : l \in L} \subseteq T
      BY <3>1
    <3>5. T \subseteq {l[1] : l \in L}
      BY <3>3
    <3> QED BY <3>4, <3>5 DEF L
  <2> QED BY <1>6, <2>1, <2>2
<1>11. /\ Items(rFile \o rQueue) \cup Lost \cup rDropped = 1..rArrived
       /\ Items(rFile \o rQueue) \cap (Lost \cup rDropped) = {}
       /\ Lost \cap rDropped = {}
  BY DEF RecorderInv
<1>12. /\ Items(r) \cap (Items(rFile) \cup Items(p) \cup Items(b)) = {}
       /\ Items(r) \cap (Lost \cup rDropped) = {}
       /\ Items(r) \cup Items(rFile) \cup Items(p) \cup Items(b) \subseteq Nat
  <2>1. Items(r) \cup Items(rFile) \cup Items(p) \cup Items(b) \subseteq 1..rArrived
    BY <1>8, <1>11
  <2>2. \A x \in 1..rArrived : x \in Nat /\ ~(x < x)
    BY <1>1
  <2> QED BY <1>8, <1>11, <2>1, <2>2
<1>13. /\ Items(rFile' \o b) \cup Lost' \cup rDropped' = 1..rArrived'
       /\ Items(rFile' \o b) \cap (Lost' \cup rDropped') = {}
       /\ Lost' \cap rDropped' = {}
  BY <1>8, <1>9, <1>10, <1>11, <1>12
<1>14. \A l \in rLost' :
           l[2] <= l[1] /\ l[2] \in Lost' /\ Cardinality(Behind(l[2])') <= MaxBatch
  <2>1. \A l \in rLost :
            l[2] <= l[1] /\ l[2] \in Lost /\ Cardinality(Behind(l[2])) <= MaxBatch
    BY DEF RecorderInv
  <2>2. ASSUME NEW l \in rLost
        PROVE  l[2] <= l[1] /\ l[2] \in Lost' /\ Cardinality(Behind(l[2])') <= MaxBatch
    <3>1. l[2] # Taken[k]
      BY <1>7, <1>12, <2>1
    <3>2. Behind(l[2])' = Behind(l[2])
      BY <1>5, <3>1 DEF Behind
    <3> QED BY <1>10, <2>1, <3>2
  <2>3. ASSUME NEW l \in {<<Taken[i], Taken[k]>> : i \in k..n}
        PROVE  l[2] <= l[1] /\ l[2] \in Lost' /\ Cardinality(Behind(l[2])') <= MaxBatch
    <3>1. l[2] = Taken[k] /\ l[2] <= l[1] /\ l[2] \in Lost'
      BY <1>7, <1>10
    <3>2. Behind(l[2])' = {<<Taken[j], Taken[k]>> : j \in k..n}
      <4>1. \A m \in rLost : m[2] # Taken[k]
        BY <1>7, <1>12, <2>1
      <4> QED BY <1>5, <3>1, <4>1 DEF Behind
    <3>3. /\ Cardinality(Behind(l[2])') <= n
          /\ Cardinality(Behind(l[2])') \in Nat
      <4>1. /\ IsFiniteSet({<<Taken[j], Taken[k]>> : j \in k..n})
            /\ Cardinality({<<Taken[j], Taken[k]>> : j \in k..n}) <= n
        <5>1. n \in Nat /\ k \in 1..n
          BY <1>3
        <5> QED BY <5>1, BatchBound
      <4> QED BY <3>2, <4>1, FS_CardinalityType
    <3> QED BY <1>2, <1>3, <3>1, <3>3, RecorderAssumption
  <2> QED BY <1>5, <2>2, <2>3
<1>15. /\ rUnfinished' >= Len(b)
       /\ (rUnfinished' = Len(b)) <=> (rLost' = {})
  <2>1. rLost' # {}
    BY <1>3, <1>5
  <2>2. rUnfinished >= Len(rQueue)
    BY DEF RecorderInv
  <2>3. Len(b) = Len(rQueue) - n /\ n \in Nat /\ n # 0
    BY <1>2, <1>3
  <2>4. rUnfinished' \in Nat /\ Len(rQueue) \in Nat /\ rUnfinished' >= Len(rQueue)
    BY <1>1, <1>5, <2>2
  <2>5. rUnfinished' > Len(b)
    BY <2>3, <2>4
  <2> QED BY <2>1, <2>3, <2>4, <2>5
<1>16. rLost' \subseteq Nat \X Nat
  BY <1>3, <1>5, <1>7 DEF RecorderInv, RecorderTypeOK
<1> QED
  BY <1>1, <1>2, <1>5, <1>9, <1>13, <1>14, <1>15, <1>16 DEF RecorderInv, RecorderTypeOK, b

\* What the recorder remembers is untouched by every other step of the program.
LEMMA RecorderUntouched ==
    ASSUME RecorderInv,
           UNCHANGED <<rQueue, rUnfinished, rFile, rArrived, rDropped, rLost>>
    PROVE  RecorderInv'
BY DEF RecorderInv, RecorderTypeOK, Lost, Behind

\* The recorder's books balance in every state, whatever the other agents do.
THEOREM RecorderInvariant == HostSpec => []RecorderInv
<1>1. HostInit => RecorderInv
  <2> SUFFICES ASSUME HostInit PROVE RecorderInv
    OBVIOUS
  <2>1. /\ rQueue = <<>> /\ rFile = <<>> /\ rUnfinished = 0 /\ rArrived = 0
        /\ rDropped = {} /\ rLost = {}
    BY DEF HostInit, RecorderInit
  <2>2. rFile \o rQueue = <<>> /\ Len(rQueue) = 0 /\ 1..rArrived = {}
    BY <2>1
  <2> QED BY <2>1, <2>2 DEF RecorderInv, RecorderTypeOK, Increasing, Items, Lost, Behind
<1>2. RecorderInv /\ [HostNext]_hostVars => RecorderInv'
  <2> SUFFICES ASSUME RecorderInv, [HostNext]_hostVars PROVE RecorderInv'
    OBVIOUS
  <2>1. CASE Recording(Calls(RecorderStart \/ RecorderStop))
    BY <2>1, RecorderUntouched DEF Recording, OnLoop, Calls, RecorderStart, RecorderStop, books
  <2>2. ASSUME NEW t \in RecorderTasks, Recording(RecorderStep(t)) PROVE RecorderInv'
    <3>1. CASE RecorderWorks(t)
      <4>1. /\ UNCHANGED <<rArrived, rDropped>>
            /\ rQueue' = SubSeq(rQueue, Len(Taken) + 1, Len(rQueue))
            /\ BatchWritten \/ \E k \in 1..Len(Taken) : BatchBreaks(k)
        BY <3>1 DEF RecorderWorks
      <4> QED BY <4>1, WrittenKept, BrokenKept
    <3>2. CASE RecorderEnds(t)
      BY <3>2, RecorderUntouched DEF RecorderEnds, books
    <3> QED BY <2>2, <3>1, <3>2 DEF Recording, OnLoop, RecorderStep
  <2>3. CASE Recording(Calls(OnEvent))
    BY <2>3, EventKept DEF Recording, OnLoop, Calls
  <2>4. CASE UNCHANGED rVars
    BY <2>4, RecorderUntouched DEF rVars, books
  <2> QED
    BY <2>1, <2>2, <2>3, <2>4 DEF HostNext, Reporting, Polling, Sending, Conducting, agentVars,
                            hostVars
<1> QED BY <1>1, <1>2, PTL DEF HostSpec, HostSteps

\* Whatever breaks, every event the recorder saw is written, waits, was lost behind the
\* event its batch broke on or was refused by a full queue: one of the four, in order.
THEOREM EventsAccountedFor == HostSpec => []RecorderAccounts
<1>1. RecorderInv => RecorderAccounts
  <2> SUFFICES ASSUME RecorderInv PROVE RecorderAccounts
    OBVIOUS
  <2> DEFINE kept == rFile \o rQueue
  <2>1. kept \in Seq(Nat)
    BY ConcatProperties DEF RecorderInv, RecorderTypeOK
  <2>2. \A i, j \in 1..Len(kept) : i < j => kept[i] < kept[j]
    <3>1. DOMAIN kept = 1..Len(kept)
      BY <2>1, LenProperties
    <3> QED BY <3>1 DEF RecorderInv, Increasing
  <2>3. \A l \in rLost :
            l[2] <= l[1] /\ Cardinality({m \in rLost : m[2] = l[2]}) <= MaxBatch
    BY DEF RecorderInv, Behind
  <2> QED BY <2>2, <2>3 DEF RecorderInv, RecorderAccounts, Lost
<1> QED BY <1>1, RecorderInvariant, PTL
-----------------------------------------------------------------------------
(***************************************************************************)
(* The elements of a finite set of numbers in ascending order.             *)
(***************************************************************************)
Below(S, x) == {y \in S : y < x}

\* Counting the smaller elements numbers the elements of a finite set from 0, upwards.
LEMMA RankMonotone ==
    ASSUME NEW S \in SUBSET Int, IsFiniteSet(S)
    PROVE  /\ \A x \in S : Cardinality(Below(S, x)) \in 0..(Cardinality(S) - 1)
           /\ \A x, y \in S :
                  x < y => Cardinality(Below(S, x)) < Cardinality(Below(S, y))
<1>1. \A x \in S : /\ IsFiniteSet(Below(S, x)) /\ Below(S, x) \in SUBSET S
                   /\ Cardinality(Below(S, x)) \in Nat
  BY FS_Subset, FS_CardinalityType DEF Below
<1>2. Cardinality(S) \in Nat
  BY FS_CardinalityType
<1>3. ASSUME NEW x \in S PROVE Cardinality(Below(S, x)) \in 0..(Cardinality(S) - 1)
  <2>1. x \notin Below(S, x)
    BY DEF Below
  <2>2. Cardinality(Below(S, x)) <= Cardinality(S) /\ Cardinality(Below(S, x)) # Cardinality(S)
    BY <1>1, <2>1, FS_Subset
  <2> QED BY <1>1, <1>2, <2>2
<1>4. ASSUME NEW x \in S, NEW y \in S, x < y
      PROVE  Cardinality(Below(S, x)) < Cardinality(Below(S, y))
  <2>1. Below(S, x) \in SUBSET Below(S, y)
    <3> SUFFICES ASSUME NEW z \in S, z < x PROVE z < y
      BY DEF Below
    <3> QED BY <1>4
  <2>2. x \in Below(S, y) /\ x \notin Below(S, x)
    BY <1>4 DEF Below
  <2>3. /\ Cardinality(Below(S, x)) <= Cardinality(Below(S, y))
        /\ Cardinality(Below(S, x)) # Cardinality(Below(S, y))
    BY <1>1, <2>1, <2>2, FS_Subset
  <2> QED BY <1>1, <2>3
<1> QED BY <1>3, <1>4

\* Every number up to the size of the set, less one, counts the smaller of one element.
LEMMA RankOnto ==
    ASSUME NEW S \in SUBSET Int, IsFiniteSet(S),
           NEW k \in 0..(Cardinality(S) - 1)
    PROVE  \E x \in S : Cardinality(Below(S, x)) = k
<1> DEFINE N == 0..(Cardinality(S) - 1)
           f == [x \in S |-> Cardinality(Below(S, x))]
<1>1. Cardinality(S) \in Nat
  BY FS_CardinalityType
<1>2. IsFiniteSet(N) /\ Cardinality(N) = Cardinality(S)
  BY <1>1, FS_Interval
<1>3. f \in [S -> N]
  BY RankMonotone
<1>4. ASSUME NEW x \in S, NEW y \in S, f[x] = f[y] PROVE x = y
  <2>1. Cardinality(Below(S, x)) = Cardinality(Below(S, y))
    BY <1>4
  <2>2. x \in Int /\ y \in Int /\ Cardinality(Below(S, x)) \in Int
    BY RankMonotone
  <2>3. ~(x < y) /\ ~(y < x)
    BY <2>1, <2>2, RankMonotone
  <2> QED BY <2>2, <2>3
<1>5. f \in Injection(S, N)
  <2> HIDE DEF f, N
  <2> QED BY <1>3, <1>4, Fun_IsInj
<1>6. f \in Surjection(S, N)
  <2> HIDE DEF f, N
  <2> QED BY <1>2, <1>5, FS_Injection
<1>7. \A t \in N : \E s \in S : f[s] = t
  <2> HIDE DEF f, N
  <2> QED BY <1>6, Fun_SurjectionProperties
<1> QED BY <1>7

\* A finite set of numbers that is not empty has a largest element.
LEMMA MaxProperties ==
    ASSUME NEW S \in SUBSET Int, IsFiniteSet(S), S # {}
    PROVE  Max(S) \in S /\ \A y \in S : y <= Max(S)
<1>1. Cardinality(S) \in Nat /\ Cardinality(S) # 0
  BY FS_CardinalityType, FS_EmptySet
<1>2. PICK x \in S : Cardinality(Below(S, x)) = Cardinality(S) - 1
  BY <1>1, RankOnto
<1>3. \A y \in S : x >= y
  <2> SUFFICES ASSUME NEW y \in S, ~(x >= y) PROVE FALSE
    OBVIOUS
  <2>1. x < y
    OBVIOUS
  <2>2. /\ Cardinality(Below(S, x)) < Cardinality(Below(S, y))
        /\ Cardinality(Below(S, y)) \in 0..(Cardinality(S) - 1)
    BY <2>1, RankMonotone
  <2> QED BY <1>1, <1>2, <2>2
<1>4. Max(S) \in S /\ \A y \in S : Max(S) >= y
  BY <1>3 DEF Max
<1> QED BY <1>4

\* Ascending lists elements of the set, in ascending order.
LEMMA AscendingSorted ==
    ASSUME NEW S \in SUBSET Nat, IsFiniteSet(S)
    PROVE  /\ Ascending(S) \in Seq(Nat) /\ Increasing(Ascending(S))
           /\ Items(Ascending(S)) \subseteq S
<1> DEFINE n == Cardinality(S)
<1>1. n \in Nat
  BY FS_CardinalityType
<1>2. ASSUME NEW i \in 1..n
      PROVE  /\ Ascending(S)[i] \in S
             /\ Cardinality(Below(S, Ascending(S)[i])) = i - 1
  <2>1. i - 1 \in 0..(n - 1)
    BY <1>1
  <2>2. \E x \in S : Cardinality(Below(S, x)) = i - 1
    BY <2>1, RankOnto
  <2>3. Ranked(S, i) # {} /\ Ranked(S, i) = {x \in S : Cardinality(Below(S, x)) = i - 1}
    BY <2>2 DEF Ranked, Below
  <2>4. Ascending(S)[i] = Chosen(Ranked(S, i)) /\ Chosen(Ranked(S, i)) \in Ranked(S, i)
    BY <2>3 DEF Ascending, Chosen
  <2> QED BY <2>3, <2>4
<1>3. /\ Ascending(S) \in Seq(Nat) /\ DOMAIN Ascending(S) = 1..n
      /\ Len(Ascending(S)) = n
  <2>1. DOMAIN Ascending(S) = 1..n /\ Ascending(S) = [i \in 1..n |-> Ascending(S)[i]]
    BY DEF Ascending
  <2>2. Ascending(S) \in Seq(Nat)
    BY <1>1, <1>2, <2>1
  <2> QED BY <1>1, <2>1, <2>2, LenProperties
<1>4. Increasing(Ascending(S))
  <2> SUFFICES ASSUME NEW i \in 1..n, NEW j \in 1..n, i < j
               PROVE  Ascending(S)[i] < Ascending(S)[j]
    BY <1>3 DEF Increasing
  <2> DEFINE x == Ascending(S)[i]
             y == Ascending(S)[j]
  <2>1. /\ x \in S /\ y \in S /\ x \in Nat /\ y \in Nat
        /\ Cardinality(Below(S, x)) < Cardinality(Below(S, y))
    <3>1. /\ x \in S /\ Cardinality(Below(S, x)) = i - 1
          /\ y \in S /\ Cardinality(Below(S, y)) = j - 1
      BY <1>2
    <3>2. i - 1 < j - 1
      BY <1>1
    <3> HIDE DEF x, y
    <3> QED BY <3>1, <3>2
  <2>2. ~(y < x) /\ x # y
    <3> HIDE DEF x, y
    <3>1. Cardinality(Below(S, x)) \in Int /\ Cardinality(Below(S, y)) \in Int
      BY <2>1, RankMonotone
    <3> QED BY <2>1, <3>1, RankMonotone
  <2> QED BY <2>1, <2>2
<1> QED BY <1>2, <1>3, <1>4 DEF Items
-----------------------------------------------------------------------------
(***************************************************************************)
(* The shutdown.                                                           *)
(***************************************************************************)

\* What the loop's variables hold; a task of a handler belongs to a signal received.
LoopTypeOK ==
    /\ phase \in [Tasks -> Phases] /\ mWaits \in [Shutdowns -> SUBSET Tasks]
    /\ mSignals \subseteq Signals /\ IsFiniteSet(mSignals) /\ (mSignals # {} => mHandlers)
    /\ \A s \in Signals : ~IsDone(phase[s]) => s \in mSignals

\* Where main() is when it waits for a task of its own.
MainInv ==
    /\ ~IsDone(phase["final"]) => mPc = "final"
    /\ mPc = "boot" => mEvent = "none" /\ IsDone(phase["loop"])
    /\ mHandlers /\ mPc \in {"final", "closed", "crashed"} => IsDone(phase["loop"])

\* It takes a signal to end a main loop that ran, and another to cancel the shutdown that
\* main() starts after it.
CancelledInv ==
    /\ mHandlers /\ mEvent # "none" /\ phase["loop"] # "sleeping"
           => \E s \in mSignals : phase[s] # "created"
    /\ phase["final"] \in {"cancelling", "aborted"} /\ mEvent # "none"
           => Cardinality(mSignals) > 1

\* No agent starts any more while the last shutdown waits for those it found.
WaitInv ==
    phase["final"] = "sleeping" =>
        mEvent # "clear" /\ AllTasks \ Signals \subseteq mWaits["final"] \cup {"final"}

\* CleanExit with what makes it inductive.
ExitInv == LoopTypeOK /\ MainInv /\ CancelledInv /\ WaitInv /\ CleanExit

\* The names of the tasks are different, whatever the handlers' tasks are called.
LEMMA TaskNames ==
    /\ Signals \subseteq Tasks /\ AgentTasks \subseteq Tasks /\ Shutdowns \subseteq Tasks
    /\ "loop" \in Tasks /\ "final" \in Tasks /\ "final" \in Shutdowns
    /\ "loop" \notin Signals \cup AgentTasks /\ "final" \notin Signals \cup AgentTasks
    /\ Signals \cap AgentTasks = {}
    /\ AgentTasks = RecorderTasks \cup ReportTasks \cup TelegramTasks
    /\ RecorderTasks \cap ReportTasks = {} /\ RecorderTasks \cap TelegramTasks = {}
    /\ ReportTasks \cap TelegramTasks = {}
BY SignalsAssumption
   DEF Tasks, Shutdowns, AgentTasks, RecorderTasks, ReportTasks, TelegramTasks

\* Go moves one task and leaves the others.
LEMMA GoChanges ==
    ASSUME phase \in [Tasks -> Phases], NEW t \in Tasks, NEW p \in Phases, Go(t, p)
    PROVE  /\ phase' \in [Tasks -> Phases] /\ phase'[t] = p
           /\ \A u \in Tasks : u # t => phase'[u] = phase[u]
BY DEF Go

\* An agent ends, or goes on; only a call that finds the main loop waiting starts one.
LEMMA AgentKeepsExit ==
    ASSUME ExitInv, UNCHANGED mVars, mPc \notin {"closed", "crashed"},
           NEW a \in AgentTasks, NEW p \in Phases, Go(a, p),
           IsDone(phase[a]) => IsDone(p) \/ mEvent = "clear"
    PROVE  ExitInv'
<1>1. /\ phase' \in [Tasks -> Phases] /\ phase'[a] = p
      /\ \A u \in Tasks : u # a => phase'[u] = phase[u]
  BY TaskNames, GoChanges DEF ExitInv, LoopTypeOK
<1>2. /\ phase'["loop"] = phase["loop"] /\ phase'["final"] = phase["final"]
      /\ \A s \in Signals : phase'[s] = phase[s]
  BY <1>1, TaskNames
<1>3. LoopTypeOK' /\ MainInv'
  BY <1>1, <1>2 DEF ExitInv, LoopTypeOK, MainInv, mVars
<1>4. CancelledInv'
  BY <1>2 DEF ExitInv, CancelledInv, LoopTypeOK, mVars
<1>5. WaitInv'
  <2> SUFFICES ASSUME phase["final"] = "sleeping",
                      NEW t \in Tasks, ~IsDone(phase'[t]), t \notin Signals, t # "final"
               PROVE  t \in mWaits["final"]
    BY <1>2 DEF ExitInv, WaitInv, AllTasks, mVars
  <2>1. mEvent # "clear" /\ (~IsDone(phase[t]) => t \in mWaits["final"])
    BY DEF ExitInv, WaitInv, AllTasks
  <2>2. CASE t = a
    BY <1>1, <2>1, <2>2
  <2> QED BY <1>1, <2>1, <2>2
<1>6. CleanExit'
  BY DEF ExitInv, CleanExit, mVars
<1> QED BY <1>3, <1>4, <1>5, <1>6 DEF ExitInv

\* A step that moves no task and leaves main() alone keeps the invariant of the exit.
LEMMA ExitUntouched ==
    ASSUME ExitInv, UNCHANGED <<phase, mVars>>
    PROVE  ExitInv'
BY DEF ExitInv, LoopTypeOK, MainInv, CancelledInv, WaitInv, CleanExit, AllTasks, mVars

\* Boot, the signals and the main loop.
LEMMA MainKeepsExit ==
    ASSUME ExitInv, mPc \notin {"closed", "crashed"},
           MainStep \/ Interrupt \/ \E s \in Signals : Signal(s)
    PROVE  ExitInv'
<1> USE TaskNames
<1>t. phase \in [Tasks -> Phases] /\ LoopTypeOK /\ MainInv /\ CancelledInv /\ WaitInv
  BY DEF ExitInv, LoopTypeOK
<1>1. CASE Initialize
  <2>1. /\ mPc = "boot" /\ mPc' \in {"running", "final"} /\ mEvent' = "none"
        /\ phase["final"] = "done" /\ phase' \in [Tasks -> Phases]
        /\ \A u \in Tasks : u \notin {"loop", "final"} => phase'[u] = phase[u]
        /\ phase'["final"] = IF mPc' = "final" THEN "created" ELSE "done"
        /\ mPc' = "final" => phase'["loop"] = phase["loop"]
        /\ UNCHANGED <<mHandlers, mWaits, mSignals>>
    BY <1>1, <1>t, GoChanges DEF Initialize, MainInv, IsDone, Phases
  <2>2. LoopTypeOK' /\ MainInv'
    BY <1>t, <2>1 DEF LoopTypeOK, MainInv, IsDone
  <2>3. CancelledInv' /\ WaitInv' /\ CleanExit'
    BY <2>1 DEF CancelledInv, WaitInv, CleanExit
  <2> QED BY <2>2, <2>3 DEF ExitInv
<1>2. CASE \E s \in Signals : Signal(s)
  <2> PICK s \in Signals : Signal(s)
    BY <1>2
  <2>1. /\ s \notin mSignals /\ mSignals' = mSignals \cup {s} /\ mHandlers
        /\ phase' \in [Tasks -> Phases] /\ phase[s] = "done" /\ phase'[s] = "created"
        /\ \A u \in Tasks : u # s => phase'[u] = phase[u]
        /\ UNCHANGED <<mPc, mHandlers, mEvent, mWaits>>
    BY <1>t, GoChanges DEF Signal, Create, IsDone, Phases
  <2>2. IsFiniteSet(mSignals') /\ Cardinality(mSignals') = Cardinality(mSignals) + 1
        /\ Cardinality(mSignals) \in Nat
    BY <1>t, <2>1, FS_AddElement, FS_CardinalityType DEF LoopTypeOK
  <2>3. phase'["loop"] = phase["loop"] /\ phase'["final"] = phase["final"]
    BY <2>1
  <2>4. LoopTypeOK' /\ MainInv'
    BY <1>t, <2>1, <2>2, <2>3 DEF LoopTypeOK, MainInv, IsDone
  <2>5. CancelledInv'
    <3>1. \A u \in mSignals : u # s /\ u \in mSignals' /\ phase'[u] = phase[u]
      BY <1>t, <2>1 DEF LoopTypeOK
    <3> QED BY <1>t, <2>1, <2>2, <2>3, <3>1 DEF CancelledInv
  <2>6. WaitInv'
    BY <1>t, <2>1, <2>3 DEF WaitInv, AllTasks
  <2>7. CleanExit'
    BY <2>1 DEF CleanExit
  <2> QED BY <2>4, <2>5, <2>6, <2>7 DEF ExitInv
<1>3. CASE Interrupt
  <2>1. /\ ~mHandlers /\ phase["final"] = "done" /\ mPc' = "final"
        /\ phase' \in [Tasks -> Phases] /\ phase'["final"] = "created"
        /\ \A u \in Tasks : u # "final" => phase'[u] = phase[u]
        /\ UNCHANGED <<mHandlers, mEvent, mWaits, mSignals>>
    BY <1>3, <1>t, GoChanges DEF Interrupt, MainInv, IsDone, Phases
  <2>2. LoopTypeOK' /\ MainInv'
    BY <1>t, <2>1 DEF LoopTypeOK, MainInv
  <2>3. CancelledInv' /\ WaitInv' /\ CleanExit'
    BY <2>1 DEF CancelledInv, WaitInv, CleanExit
  <2> QED BY <2>2, <2>3 DEF ExitInv
<1>4. CASE LoopStarts
  <2>1. /\ mPc = "running" /\ phase["final"] = "done" /\ phase'["final"] = "done"
        /\ phase' \in [Tasks -> Phases] /\ phase'["loop"] = "sleeping"
        /\ \A u \in Tasks : u # "loop" => phase'[u] = phase[u]
        /\ UNCHANGED <<mPc, mHandlers, mWaits, mSignals>>
    BY <1>4, <1>t, GoChanges DEF LoopStarts, MainInv, IsDone, Phases
  <2>2. LoopTypeOK' /\ MainInv'
    BY <1>t, <2>1 DEF LoopTypeOK, MainInv
  <2>3. CancelledInv' /\ WaitInv' /\ CleanExit'
    BY <2>1 DEF CancelledInv, WaitInv, CleanExit
  <2> QED BY <2>2, <2>3 DEF ExitInv
<1>5. CASE LoopEnds
  <2>1. /\ phase["loop"] \in {"cancelling", "aborted"} /\ phase'["loop"] = "done"
        /\ phase' \in [Tasks -> Phases] /\ UNCHANGED mVars
        /\ \A u \in Tasks : u # "loop" => phase'[u] = phase[u]
    BY <1>5, <1>t, GoChanges DEF LoopEnds, Ends, Phases
  <2>2. LoopTypeOK' /\ MainInv'
    BY <1>t, <2>1 DEF LoopTypeOK, MainInv, mVars, IsDone
  <2>3. CancelledInv'
    <3>1. \A u \in mSignals : phase'[u] = phase[u]
      BY <1>t, <2>1 DEF LoopTypeOK
    <3> QED BY <1>t, <2>1, <3>1 DEF CancelledInv, mVars
  <2>4. WaitInv' /\ CleanExit'
    BY <1>t, <2>1 DEF WaitInv, CleanExit, AllTasks, IsDone, mVars, ExitInv
  <2> QED BY <2>2, <2>3, <2>4 DEF ExitInv
<1>6. CASE EnterFinal
  <2>1. /\ mPc = "running" /\ mPc' = "final" /\ phase["loop"] = "done"
        /\ phase' \in [Tasks -> Phases] /\ phase'["final"] = "created"
        /\ \A u \in Tasks : u # "final" => phase'[u] = phase[u]
        /\ UNCHANGED <<mHandlers, mEvent, mWaits, mSignals>>
    BY <1>6, <1>t, GoChanges DEF EnterFinal, MainInv, IsDone, Phases
  <2>2. LoopTypeOK' /\ MainInv'
    BY <1>t, <2>1 DEF LoopTypeOK, MainInv, IsDone
  <2>3. CancelledInv'
    <3>1. \A u \in mSignals : phase'[u] = phase[u]
      BY <1>t, <2>1 DEF LoopTypeOK
    <3> QED BY <1>t, <2>1, <3>1 DEF CancelledInv
  <2>4. WaitInv' /\ CleanExit'
    BY <2>1 DEF WaitInv, CleanExit
  <2> QED BY <2>2, <2>3, <2>4 DEF ExitInv
<1> QED BY <1>1, <1>2, <1>3, <1>4, <1>5, <1>6 DEF MainStep

\* A finite set with two different members has more than one.
LEMMA TwoMembers ==
    ASSUME NEW S, IsFiniteSet(S), NEW x \in S, NEW y \in S, x # y
    PROVE  Cardinality(S) > 1
<1>1. Cardinality(S) \in Nat /\ Cardinality(S) # 0 /\ Cardinality(S) # 1
  BY FS_CardinalityType, FS_EmptySet, FS_Singleton
<1> QED BY <1>1

\* A shutdown cancels every other task that is not done: none of them starts afresh, and
\* the last one is cancelled by the second signal at the earliest.
LEMMA ShutdownKeepsExit ==
    ASSUME ExitInv, mPc \notin {"closed", "crashed"}, NEW s \in Shutdowns, ShutdownStep(s)
    PROVE  ExitInv'
<1> USE TaskNames
<1>t. /\ phase \in [Tasks -> Phases] /\ mWaits \in [Shutdowns -> SUBSET Tasks]
      /\ s \in Tasks /\ s # "loop" /\ s \notin AgentTasks /\ (s = "final" \/ s \in Signals)
      /\ LoopTypeOK /\ MainInv /\ CancelledInv /\ WaitInv
  BY DEF ExitInv, LoopTypeOK, Shutdowns
<1>1. CASE ShutdownBegins(s)
  <2>1. /\ phase[s] = "created" /\ phase'[s] = "sleeping"
        /\ \A u \in Tasks : u # s => phase'[u] = AfterCancel(phase[u])
        /\ phase' \in [Tasks -> Phases] /\ mWaits' = [mWaits EXCEPT ![s] = Others(s)]
        /\ mEvent' = (IF mEvent = "none" THEN "none" ELSE "set")
        /\ UNCHANGED <<mPc, mHandlers, mSignals>>
    BY <1>1, <1>t DEF ShutdownBegins, SetEvent, WaitsFor, Others, AllTasks, AfterCancel,
                      IsDone, Phases
  <2>2. \A u \in Tasks : phase[u] = "done" <=> phase'[u] = "done"
    BY <1>t, <2>1 DEF AfterCancel, Phases
  <2>3. \A u \in Tasks : u # s => phase'[u] \notin {"created", "sleeping"}
    BY <1>t, <2>1 DEF AfterCancel, Phases
  <2>4. LoopTypeOK'
    <3>1. Others(s) \in SUBSET Tasks
      BY DEF Others, AllTasks
    <3>2. mWaits' \in [Shutdowns -> SUBSET Tasks]
      BY <1>t, <2>1, <3>1
    <3> QED BY <1>t, <2>1, <2>2, <3>2 DEF LoopTypeOK, IsDone
  <2>5. MainInv'
    BY <1>t, <2>1, <2>2 DEF MainInv, IsDone
  <2>6. CancelledInv'
    <3>1. ASSUME mHandlers, mEvent # "none"
          PROVE  \E u \in mSignals : phase'[u] # "created"
      <4>1. CASE s \in Signals
        <5>1. s \in mSignals
          BY <1>t, <2>1, <4>1 DEF LoopTypeOK, IsDone
        <5> QED BY <2>1, <5>1
      <4>2. CASE s = "final"
        <5>1. phase["loop"] = "done"
          BY <1>t, <2>1, <3>1, <4>2 DEF MainInv, IsDone
        <5>2. PICK u \in mSignals : phase[u] # "created"
          BY <1>t, <3>1, <5>1 DEF CancelledInv
        <5>3. u \in Tasks /\ phase'[u] # "created"
          BY <1>t, <2>1, <2>3, <5>2 DEF LoopTypeOK
        <5> QED BY <5>3
      <4> QED BY <1>t, <4>1, <4>2
    <3>2. ASSUME phase'["final"] \in {"cancelling", "aborted"}, mEvent # "none"
          PROVE  Cardinality(mSignals) > 1
      <4>1. s # "final" /\ s \in Signals
        BY <1>t, <2>1, <3>2
      <4>2. CASE phase["final"] \in {"cancelling", "aborted"}
        BY <1>t, <3>2, <4>2 DEF CancelledInv
      <4>3. CASE phase["final"] \notin {"cancelling", "aborted"}
        <5>1. phase["final"] # "done"
          BY <2>2, <3>2
        <5>2. s \in mSignals /\ mHandlers
          BY <1>t, <2>1, <4>1 DEF LoopTypeOK, IsDone
        <5>3. phase["loop"] = "done"
          BY <1>t, <5>1, <5>2 DEF MainInv, IsDone
        <5>4. PICK u \in mSignals : phase[u] # "created"
          BY <1>t, <3>2, <5>2, <5>3 DEF CancelledInv
        <5>5. s \in mSignals /\ u \in mSignals /\ s # u /\ IsFiniteSet(mSignals)
          BY <1>t, <2>1, <5>2, <5>4 DEF LoopTypeOK
        <5> QED BY <5>5, TwoMembers
      <4> QED BY <4>2, <4>3
    <3>3. mEvent' # "none" => mEvent # "none"
      BY <2>1
    <3> QED BY <2>1, <3>1, <3>2, <3>3 DEF CancelledInv
  <2>7. WaitInv'
    <3> SUFFICES ASSUME phase'["final"] = "sleeping"
                 PROVE  /\ mEvent' # "clear"
                        /\ AllTasks' \ Signals \subseteq mWaits'["final"] \cup {"final"}
      BY DEF WaitInv
    <3>1. s = "final" /\ mEvent' # "clear"
      BY <2>1, <2>3
    <3>2. AllTasks' = AllTasks
      BY <2>2 DEF AllTasks, IsDone
    <3>3. mWaits'["final"] = AllTasks \ {"final"}
      BY <1>t, <2>1, <3>1 DEF Others
    <3> QED BY <3>1, <3>2, <3>3
  <2>8. CleanExit'
    BY <2>1 DEF CleanExit
  <2> QED BY <2>4, <2>5, <2>6, <2>7, <2>8 DEF ExitInv
<1>2. CASE ShutdownEnds(s) \/ ShutdownAborted(s)
  <2>1. /\ phase[s] # "done" /\ phase'[s] = "done" /\ phase' \in [Tasks -> Phases]
        /\ \A u \in Tasks : u # s => phase'[u] = phase[u]
        /\ mWaits' = [mWaits EXCEPT ![s] = {}]
        /\ UNCHANGED <<mHandlers, mSignals>>
    BY <1>2, <1>t, GoChanges DEF ShutdownEnds, ShutdownAborted, Ends, Phases
  <2>2. /\ mPc' # mPc => s = "final" /\ mPc' \in {"closed", "crashed"}
        /\ mEvent' = "none" <=> mEvent = "none"
        /\ mEvent' = mEvent \/ mEvent' \in {"none", "set"}
    BY <1>2 DEF ShutdownEnds, ShutdownAborted, MainAfter, SetEvent
  <2>3. mPc' # mPc => mPc = "final"
    BY <1>t, <2>1, <2>2 DEF MainInv, IsDone
  <2>4. LoopTypeOK' /\ MainInv'
    BY <1>t, <2>1, <2>2, <2>3 DEF LoopTypeOK, MainInv, IsDone
  <2>5. CancelledInv'
    <3>1. \A u \in mSignals : phase[u] # "created" => phase'[u] # "created"
      BY <1>t, <2>1 DEF LoopTypeOK
    <3>2. phase'["loop"] = phase["loop"]
          /\ (phase'["final"] = phase["final"] \/ phase'["final"] = "done")
      BY <1>t, <2>1
    <3> QED BY <1>t, <2>1, <2>2, <3>1, <3>2 DEF CancelledInv
  <2>6. WaitInv'
    <3> SUFFICES ASSUME phase'["final"] = "sleeping"
                 PROVE  /\ mEvent' # "clear"
                        /\ \A u \in Tasks \ Signals :
                               phase'[u] # "done" /\ u # "final" => u \in mWaits'["final"]
      BY DEF WaitInv, AllTasks, IsDone
    <3>1. s # "final" /\ phase["final"] = "sleeping" /\ mWaits'["final"] = mWaits["final"]
      BY <1>t, <2>1
    <3>2. \A u \in Tasks : phase'[u] # "done" => phase[u] # "done"
      BY <2>1
    <3> QED BY <1>t, <2>2, <3>1, <3>2 DEF WaitInv, AllTasks, IsDone
  <2>7. CleanExit'
    <3>1. CASE mPc' = "crashed"
      <4>1. /\ s = "final" /\ mEvent' = mEvent /\ phase["final"] \in {"cancelling", "aborted"}
        BY <1>2, <3>1 DEF ShutdownEnds, ShutdownAborted, MainAfter, Ends
      <4> QED BY <1>t, <2>1, <3>1, <4>1 DEF CancelledInv, CleanExit
    <3>2. CASE mPc' = "closed"
      <4>1. s = "final" /\ ShutdownEnds(s) /\ ~mGcOff'
        BY <1>2, <3>2 DEF ShutdownEnds, ShutdownAborted, MainAfter
      <4>2. CASE phase[s] = "sleeping" /\ Waited(s)
        BY <1>t, <2>1, <3>2, <4>1, <4>2 DEF WaitInv, Waited, CleanExit, AllTasks, IsDone
      <4>3. CASE Others(s) = {}
        BY <2>1, <3>2, <4>1, <4>3 DEF Others, CleanExit, AllTasks, IsDone
      <4> QED BY <4>1, <4>2, <4>3 DEF ShutdownEnds
    <3>3. CASE mPc' \notin {"crashed", "closed"}
      BY <3>3 DEF CleanExit
    <3> QED BY <3>1, <3>2, <3>3
  <2> QED BY <2>4, <2>5, <2>6, <2>7 DEF ExitInv
<1> QED BY <1>1, <1>2 DEF ShutdownStep

\* A step of an agent: its tasks stay as they are, one of them goes on or ends, or a call
\* that found the main loop waiting starts one.
AgentMoves(A) ==
    \/ UNCHANGED phase
    \/ \E t \in A, p \in Phases :
           Go(t, p) /\ (IsDone(phase[t]) => IsDone(p) \/ mEvent = "clear")

\* start() takes a free name,
LEMMA StartMoves ==
    ASSUME NEW A, NEW t \in A, Calls(Create(t))
    PROVE  AgentMoves(A)
BY DEF Calls, Create, AgentMoves, Phases

\* stop() cancels the task it holds,
LEMMA StopMoves ==
    ASSUME phase \in [Tasks -> Phases], NEW A, A \subseteq Tasks, NEW t \in A,
           Go(t, AfterCancel(phase[t]))
    PROVE  AgentMoves(A)
<1>1. AfterCancel(phase[t]) \in Phases
      /\ (IsDone(phase[t]) => IsDone(AfterCancel(phase[t])))
  BY DEF AfterCancel, IsDone, Phases
<1> QED BY <1>1 DEF AgentMoves

\* and a task at work sleeps or ends.
LEMMA StepMoves ==
    ASSUME NEW A, NEW t \in A, NEW p \in {"sleeping", "done"}, Go(t, p),
           IsDone(p) \/ ~IsDone(phase[t])
    PROVE  AgentMoves(A)
BY DEF AgentMoves, Phases, IsDone

\* Each agent holds on to a task of its own.
HandlesInv == rTask \in RecorderTasks /\ sTask \in ReportTasks /\ tTask \in TelegramTasks

LEMMA HandlesInvariant == HostSpec => []HandlesInv
<1>1. HostInit => HandlesInv
  BY DEF HostInit, RecorderInit, ReportInit, TelegramInit, HandlesInv, RecorderTasks,
         ReportTasks, TelegramTasks
<1>2. HandlesInv /\ [HostNext]_hostVars => HandlesInv'
  <2> SUFFICES ASSUME HandlesInv, [HostNext]_hostVars PROVE HandlesInv'
    OBVIOUS
  <2>1. CASE Recording(Calls(RecorderStart \/ RecorderStop)) \/ Recording(Calls(OnEvent))
    BY <2>1 DEF Recording, OnLoop, Calls, RecorderStart, RecorderStop, OnEvent, HandlesInv,
                sVars, tVars
  <2>2. ASSUME NEW t \in RecorderTasks, Recording(RecorderStep(t)) PROVE HandlesInv'
    BY <2>2 DEF Recording, OnLoop, RecorderStep, RecorderWorks, RecorderEnds, HandlesInv,
                sVars, tVars
  <2>3. CASE Reporting(Calls(ReportCalls))
    BY <2>3 DEF Reporting, OnLoop, Calls, ReportCalls, ReportStart, ReportStop,
                ProcessMessage, ReportTick, SetClockBack, HandlesInv, rVars, tVars
  <2>4. ASSUME NEW t \in ReportTasks, Reporting(ReportStep(t)) PROVE HandlesInv'
    BY <2>4 DEF Reporting, OnLoop, ReportStep, ScheduleCloseTrigger, ReportEnds, HandlesInv,
                rVars, tVars
  <2>5. CASE Polling(Calls(TelegramCalls))
    BY <2>5 DEF Polling, OnLoop, Calls, TelegramCalls, TelegramStart, TelegramStop,
                SendUpdate, HandlesInv, rVars, sVars
  <2>6. ASSUME NEW t \in TelegramTasks, Polling(TelegramStep(t) \/ FetchFails(t))
        PROVE  HandlesInv'
    BY <2>6 DEF Polling, OnLoop, TelegramStep, NextRequest, Answered, HandleUpdates,
                TelegramEnds, FetchFails, HandlesInv, rVars, sVars
  <2>7. CASE UNCHANGED <<rVars, sVars, tVars>>
    BY <2>7 DEF HandlesInv, rVars, sVars, tVars
  <2> QED
    BY <2>1, <2>2, <2>3, <2>4, <2>5, <2>6, <2>7
       DEF HostNext, Sending, Conducting, agentVars, hostVars
<1> QED BY <1>1, <1>2, PTL DEF HostSpec, HostSteps

\* The recorder's calls and steps move its own tasks only,
LEMMA RecorderMoves ==
    ASSUME phase \in [Tasks -> Phases], HandlesInv,
           \/ Recording(Calls(RecorderStart \/ RecorderStop)) \/ Recording(Calls(OnEvent))
           \/ \E t \in RecorderTasks : Recording(RecorderStep(t))
    PROVE  AgentMoves(RecorderTasks)
<1>t. RecorderTasks \subseteq Tasks /\ rTask \in RecorderTasks
  BY TaskNames DEF HandlesInv
<1>1. CASE Calls(RecorderStart)
  BY <1>1, StartMoves DEF Calls, RecorderStart
<1>2. CASE RecorderStop
  BY <1>t, <1>2, StopMoves DEF RecorderStop
<1>3. CASE OnEvent
  BY <1>3 DEF OnEvent, AgentMoves
<1>4. ASSUME NEW t \in RecorderTasks, RecorderWorks(t) PROVE AgentMoves(RecorderTasks)
  <2>1. ~IsDone(phase[t])
    BY <1>4 DEF RecorderWorks, Works, AtHead, IsDone
  <2>2. Go(t, "sleeping") \/ Go(t, "done")
    BY <1>4 DEF RecorderWorks
  <2> QED BY <2>1, <2>2, StepMoves
<1>5. ASSUME NEW t \in RecorderTasks, RecorderEnds(t) PROVE AgentMoves(RecorderTasks)
  BY <1>5, StepMoves DEF RecorderEnds, Ends, IsDone
<1> QED
  BY <1>1, <1>2, <1>3, <1>4, <1>5 DEF Recording, OnLoop, Calls, RecorderStep

\* so do the report agent's,
LEMMA ReportMoves ==
    ASSUME phase \in [Tasks -> Phases], HandlesInv,
           \/ Reporting(Calls(ReportCalls))
           \/ \E t \in ReportTasks : Reporting(ReportStep(t))
    PROVE  AgentMoves(ReportTasks)
<1>t. ReportTasks \subseteq Tasks /\ sTask \in ReportTasks
  BY TaskNames DEF HandlesInv
<1>1. CASE Calls(ReportStart)
  BY <1>1, StartMoves DEF Calls, ReportStart
<1>2. CASE ReportStop
  BY <1>t, <1>2, StopMoves DEF ReportStop
<1>3. CASE ProcessMessage \/ ReportTick \/ SetClockBack
  BY <1>3 DEF ProcessMessage, ReportTick, SetClockBack, AgentMoves
<1>4. ASSUME NEW t \in ReportTasks, ScheduleCloseTrigger(t) PROVE AgentMoves(ReportTasks)
  <2>1. ~IsDone(phase[t]) /\ (Go(t, "sleeping") \/ Go(t, "done"))
    BY <1>4 DEF ScheduleCloseTrigger, IsDone
  <2> QED BY <2>1, StepMoves
<1>5. ASSUME NEW t \in ReportTasks, ReportEnds(t) PROVE AgentMoves(ReportTasks)
  BY <1>5, StepMoves DEF ReportEnds, Ends, IsDone
<1> QED
  BY <1>1, <1>2, <1>3, <1>4, <1>5 DEF Reporting, OnLoop, Calls, ReportCalls, ReportStep

\* and the remote control's.
LEMMA TelegramMoves ==
    ASSUME phase \in [Tasks -> Phases], HandlesInv,
           \/ Polling(Calls(TelegramCalls))
           \/ \E t \in TelegramTasks : Polling(TelegramStep(t) \/ FetchFails(t))
    PROVE  AgentMoves(TelegramTasks)
<1>t. TelegramTasks \subseteq Tasks /\ tTask \in TelegramTasks
  BY TaskNames DEF HandlesInv
<1>1. CASE Calls(TelegramStart)
  BY <1>1, StartMoves DEF Calls, TelegramStart
<1>2. CASE TelegramStop
  BY <1>t, <1>2, StopMoves DEF TelegramStop
<1>3. CASE SendUpdate
  BY <1>3 DEF SendUpdate, AgentMoves
<1>4. ASSUME NEW t \in TelegramTasks, NextRequest(t) \/ Answered(t)
      PROVE  AgentMoves(TelegramTasks)
  <2>1. ~IsDone(phase[t]) /\ (Go(t, "sleeping") \/ Go(t, "done"))
    BY <1>4 DEF NextRequest, Answered, AtLoopHead, IsDone
  <2> QED BY <2>1, StepMoves
<1>5. ASSUME NEW t \in TelegramTasks, TelegramEnds(t) \/ FetchFails(t)
      PROVE  AgentMoves(TelegramTasks)
  BY <1>5, StepMoves DEF TelegramEnds, FetchFails, Ends, IsDone
<1> QED
  BY <1>1, <1>2, <1>3, <1>4, <1>5 DEF Polling, OnLoop, Calls, TelegramCalls, TelegramStep

\* The tasks of the other agents stay where they are,
LEMMA OthersStay ==
    ASSUME phase \in [Tasks -> Phases], NEW A, AgentMoves(A), NEW t \in Tasks, t \notin A
    PROVE  phase'[t] = phase[t]
BY DEF AgentMoves, Go

\* and the conductor wakes nobody: it leaves an agent's task alone or cancels it.
LEMMA ConductorWakesNobody ==
    ASSUME phase \in [Tasks -> Phases], ConductorNext, NEW a \in AgentTasks
    PROVE  phase'[a] = phase[a] \/ phase'[a] \in {"cancelling", "aborted"}
<1>1. a \in Tasks /\ a \notin Signals /\ a # "loop" /\ a # "final"
  BY TaskNames
<1>2. ASSUME NEW t \in Tasks, t # a, NEW p, Go(t, p)
      PROVE  phase'[a] = phase[a]
  BY <1>1, <1>2 DEF Go
<1>3. CASE MainStep \/ Interrupt
  BY <1>1, <1>2, <1>3, TaskNames
     DEF MainStep, Initialize, LoopStarts, LoopEnds, EnterFinal, Interrupt, Ends
<1>4. CASE \E s \in Signals : Signal(s)
  BY <1>1, <1>2, <1>4, TaskNames DEF Signal, Create
<1>5. CASE \E s \in Shutdowns : ShutdownStep(s)
  <2> PICK s \in Shutdowns : ShutdownStep(s)
    BY <1>5
  <2>1. s \in Tasks /\ s # a
    BY <1>1, TaskNames DEF Shutdowns
  <2>2. CASE ShutdownBegins(s)
    <3>1. phase'[a] = phase[a] \/ phase'[a] = AfterCancel(phase[a])
      BY <1>1, <2>1, <2>2 DEF ShutdownBegins
    <3> QED BY <1>1, <3>1 DEF AfterCancel, Phases
  <2>3. CASE ShutdownEnds(s) \/ ShutdownAborted(s)
    BY <1>2, <2>1, <2>3 DEF ShutdownEnds, ShutdownAborted, Ends
  <2> QED BY <2>2, <2>3 DEF ShutdownStep
<1> QED BY <1>3, <1>4, <1>5 DEF ConductorNext

\* main() and the tasks it waits for stay in step, in every state of the process.
THEOREM ExitInvariant == HostSpec => []ExitInv
<1>1. HostInit => ExitInv
  <2> SUFFICES ASSUME HostInit PROVE ExitInv
    OBVIOUS
  <2>1. /\ phase = [t \in Tasks |-> "done"] /\ mPc = "boot" /\ mHandlers \in BOOLEAN
        /\ mEvent = "none" /\ mWaits = [s \in Shutdowns |-> {}] /\ mSignals = {}
        /\ IsFiniteSet(mSignals) /\ "done" \in Phases
    BY FS_EmptySet DEF HostInit, LoopInit, ConductorInit, Phases
  <2>2. LoopTypeOK /\ MainInv
    BY <2>1, TaskNames DEF LoopTypeOK, MainInv, IsDone
  <2>3. CancelledInv /\ WaitInv /\ CleanExit
    BY <2>1, TaskNames DEF CancelledInv, WaitInv, CleanExit
  <2> QED BY <2>2, <2>3 DEF ExitInv
<1>2. ExitInv /\ HandlesInv /\ [HostNext]_hostVars => ExitInv'
  <2> SUFFICES ASSUME ExitInv, HandlesInv, [HostNext]_hostVars PROVE ExitInv'
    OBVIOUS
  <2>1. phase \in [Tasks -> Phases]
    BY DEF ExitInv, LoopTypeOK
  <2>2. ASSUME AgentMoves(RecorderTasks) \/ AgentMoves(ReportTasks) \/ AgentMoves(TelegramTasks),
               UNCHANGED mVars, mPc \notin {"closed", "crashed"}
        PROVE  ExitInv'
    <3>1. CASE UNCHANGED phase
      BY <2>2, <3>1, ExitUntouched
    <3>2. ASSUME NEW t \in AgentTasks, NEW p \in Phases, Go(t, p),
                 IsDone(phase[t]) => IsDone(p) \/ mEvent = "clear"
          PROVE  ExitInv'
      BY <2>2, <3>2, AgentKeepsExit
    <3> QED BY <2>2, <3>1, <3>2, TaskNames DEF AgentMoves
  <2>3. CASE \/ Recording(Calls(RecorderStart \/ RecorderStop)) \/ Recording(Calls(OnEvent))
             \/ \E t \in RecorderTasks : Recording(RecorderStep(t))
    BY <2>1, <2>2, <2>3, RecorderMoves DEF Recording, OnLoop
  <2>4. CASE \/ Reporting(Calls(ReportCalls))
             \/ \E t \in ReportTasks : Reporting(ReportStep(t))
    BY <2>1, <2>2, <2>4, ReportMoves DEF Reporting, OnLoop
  <2>5. CASE \/ Polling(Calls(TelegramCalls))
             \/ \E t \in TelegramTasks : Polling(TelegramStep(t) \/ FetchFails(t))
    BY <2>1, <2>2, <2>5, TelegramMoves DEF Polling, OnLoop
  <2>6. CASE Sending(Calls(Next)) \/ UNCHANGED hostVars
    BY <2>6, ExitUntouched DEF Sending, OnLoop, hostVars
  <2>7. CASE Conducting(ConductorNext)
    BY <2>7, MainKeepsExit, ShutdownKeepsExit DEF Conducting, OnLoop, ConductorNext
  <2> QED BY <2>3, <2>4, <2>5, <2>6, <2>7 DEF HostNext
<1> QED BY <1>1, <1>2, HandlesInvariant, PTL DEF HostSpec, HostSteps

\* However the signals and the shutdowns overtake one another and whatever an agent is
\* doing, one signal never keeps main() from closing its loop, and when the
\* loop is closed the collector is on again and nobody is left in the loop but the handlers
\* of later signals.
THEOREM ExitIsClean == HostSpec => []CleanExit
<1>1. ExitInv => CleanExit
  BY DEF ExitInv
<1> QED BY <1>1, ExitInvariant, PTL
-----------------------------------------------------------------------------
(***************************************************************************)
(* The remote commands.                                                    *)
(***************************************************************************)

\* As long as the bot was never started while it polled, one poller at most is at work, its
\* request carries the last number, and that number is at least that of every command run.
OnePoller ==
    /\ Increasing(tRan)
    /\ \A u \in Items(tRan) : u <= tLast
    /\ \A t, u \in TelegramTasks : Live(phase[t]) /\ Live(phase[u]) => t = u
    /\ \A t \in TelegramTasks :
           Live(phase[t]) /\ tOffset[t] # NoRequest => tOffset[t] = tLast

\* CommandsRunOnce with what makes it inductive.
TelegramInv ==
    /\ tRan \in Seq(Nat) /\ tLast \in Nat /\ tSent \in Seq(Kinds)
    /\ tOffset \in [TelegramTasks -> Nat \cup {NoRequest}]
    /\ \A t \in TelegramTasks : IsDone(phase[t]) => tOffset[t] = NoRequest
    /\ ~tOverlapped => OnePoller

\* The answers to a request hold newer updates only: finitely many numbers, and the last
\* number written is one of them or stays.
LEMMA AnswerBounds ==
    ASSUME tLast \in Nat, tRan \in Seq(Nat), tSent \in Seq(Kinds), NEW o \in Nat,
           HandleUpdates(o)
    PROVE  /\ tLast' \in Nat /\ tRan' \in Seq(Nat)
           /\ Commands(o) \in SUBSET Nat /\ IsFiniteSet(Commands(o))
           /\ \A u \in Commands(o) : u > o /\ u <= tLast'
           /\ tLast' = tLast \/ tLast' > o
<1>1. Len(tSent) \in Nat
  BY LenProperties
<1>2. /\ IsFiniteSet((o + 1)..Len(tSent)) /\ (o + 1)..Len(tSent) \subseteq Nat
      /\ \A u \in (o + 1)..Len(tSent) : u \in Nat /\ u > o
  <2>1. \A i, j \in Int : IsFiniteSet(i..j)
    BY FS_Interval
  <2> QED BY <1>1, <2>1
<1>3. /\ Handled(o) \subseteq (o + 1)..Len(tSent)
      /\ Passed(o) \in SUBSET ((o + 1)..Len(tSent))
      /\ Commands(o) \in SUBSET ((o + 1)..Len(tSent)) /\ Commands(o) \subseteq Passed(o)
  BY DEF Handled, Fetched, Passed, Commands, Advances
<1>4. IsFiniteSet(Passed(o)) /\ IsFiniteSet(Commands(o))
  BY <1>2, <1>3, FS_Subset
<1>5. /\ tLast' = (IF Passed(o) = {} THEN tLast ELSE Max(Passed(o)))
      /\ tRan' = tRan \o Ascending(Commands(o))
  BY DEF HandleUpdates
<1>6. Passed(o) # {} =>
          Max(Passed(o)) \in Passed(o) /\ \A u \in Passed(o) : u <= Max(Passed(o))
  <2>1. Passed(o) \in SUBSET Int
    BY <1>2, <1>3
  <2> QED BY <1>4, <2>1, MaxProperties
<1>7. Commands(o) \in SUBSET Nat /\ Ascending(Commands(o)) \in Seq(Nat)
  <2>1. Commands(o) \in SUBSET Nat
    BY <1>2, <1>3
  <2> QED BY <1>4, <2>1, AscendingSorted
<1>8. tRan' \in Seq(Nat)
  BY <1>5, <1>7, ConcatProperties
<1>9. tLast' \in Nat /\ (tLast' = tLast \/ tLast' > o)
  BY <1>2, <1>3, <1>5, <1>6
<1>10. ASSUME NEW u \in Commands(o) PROVE u > o /\ u <= tLast'
  BY <1>2, <1>3, <1>5, <1>6, <1>10
<1> QED BY <1>4, <1>7, <1>8, <1>9, <1>10

\* A poller whose request carries the last number runs newer commands only, in order, and
\* moves past every one of them.
LEMMA HandledKept ==
    ASSUME tLast \in Nat, tRan \in Seq(Nat), tSent \in Seq(Kinds), Increasing(tRan),
           \A u \in Items(tRan) : u <= tLast,
           HandleUpdates(tLast)
    PROVE  Increasing(tRan') /\ \A u \in Items(tRan') : u <= tLast'
<1> DEFINE a == Ascending(Commands(tLast))
<1>1. /\ Commands(tLast) \in SUBSET Nat /\ IsFiniteSet(Commands(tLast))
      /\ \A u \in Commands(tLast) : u > tLast /\ u <= tLast'
      /\ tLast' \in Nat /\ (tLast' = tLast \/ tLast' > tLast)
  BY AnswerBounds
<1>2. a \in Seq(Nat) /\ Increasing(a) /\ Items(a) \subseteq Commands(tLast)
  BY <1>1, AscendingSorted
<1>3. tRan' = tRan \o a
  BY DEF HandleUpdates
<1> HIDE DEF a
<1>4. \A x \in Items(tRan) : x \in Nat /\ x <= tLast
  BY ElementOfSeq DEF Items
<1>5. \A x \in Items(tRan), y \in Items(a) : x < y
  <2> SUFFICES ASSUME NEW x \in Items(tRan), NEW y \in Items(a) PROVE x < y
    OBVIOUS
  <2>1. x \in Nat /\ x <= tLast /\ y \in Nat /\ y > tLast
    BY <1>1, <1>2, <1>4
  <2> QED BY <2>1
<1>6. Increasing(tRan \o a) /\ Items(tRan \o a) = Items(tRan) \cup Items(a)
  BY <1>2, <1>5, IncreasingConcat
<1>7. \A x \in Items(tRan) \cup Items(a) : x <= tLast'
  <2>1. ASSUME NEW x \in Items(tRan) PROVE x <= tLast'
    BY <1>1, <1>4, <2>1
  <2>2. ASSUME NEW x \in Items(a) PROVE x <= tLast'
    BY <1>1, <1>2, <2>2
  <2> QED BY <2>1, <2>2
<1> QED BY <1>3, <1>6, <1>7

\* Nobody but the bot starts a poller.
LEMMA TelegramUntouched ==
    ASSUME TelegramInv, UNCHANGED tVars,
           \A t \in TelegramTasks :
               phase'[t] = phase[t] \/ phase'[t] \in {"cancelling", "aborted"}
    PROVE  TelegramInv'
<1>1. \A t \in TelegramTasks : /\ Live(phase'[t]) => Live(phase[t])
                               /\ IsDone(phase'[t]) => IsDone(phase[t])
  BY DEF Live, IsDone
<1> QED BY <1>1 DEF TelegramInv, OnePoller, tVars

\* A step of one poller.
LEMMA PollerKept ==
    ASSUME TelegramInv, phase \in [Tasks -> Phases], NEW t \in TelegramTasks,
           TelegramStep(t) \/ FetchFails(t)
    PROVE  TelegramInv'
<1>t. t \in Tasks /\ TelegramTasks \subseteq Tasks
  BY TaskNames
<1>1. ASSUME NEW p, Go(t, p)
      PROVE  phase'[t] = p /\ \A u \in TelegramTasks : u # t => phase'[u] = phase[u]
  BY <1>t, <1>1 DEF Go
<1>2. ASSUME NEW o, Requests(t, o), o \in Nat \cup {NoRequest}
      PROVE  /\ tOffset' \in [TelegramTasks -> Nat \cup {NoRequest}] /\ tOffset'[t] = o
             /\ \A u \in TelegramTasks : u # t => tOffset'[u] = tOffset[u]
  BY <1>2 DEF Requests, TelegramInv
<1>3. CASE NextRequest(t)
  <2>1. /\ Live(phase[t]) /\ Go(t, "sleeping") /\ Requests(t, tLast) /\ tLast \in Nat
        /\ UNCHANGED <<tLast, tSent, tRan, tOverlapped>>
    BY <1>3 DEF NextRequest, AtLoopHead, Live, TelegramInv
  <2>2. \A u \in TelegramTasks :
            /\ Live(phase'[u]) => Live(phase[u])
            /\ IsDone(phase'[u]) => IsDone(phase[u]) /\ u # t
    BY <1>1, <2>1 DEF IsDone
  <2>3. /\ tOffset' \in [TelegramTasks -> Nat \cup {NoRequest}] /\ tOffset'[t] = tLast
        /\ \A u \in TelegramTasks : u # t => tOffset'[u] = tOffset[u]
    BY <1>2, <2>1
  <2> QED BY <2>1, <2>2, <2>3 DEF TelegramInv, OnePoller
<1>4. CASE TelegramEnds(t) \/ FetchFails(t)
  <2>1. /\ Go(t, "done") /\ Requests(t, NoRequest)
        /\ UNCHANGED <<tLast, tSent, tRan, tOverlapped>>
    BY <1>4 DEF TelegramEnds, FetchFails, Ends
  <2>2. \A u \in TelegramTasks :
            /\ Live(phase'[u]) => u # t /\ Live(phase[u])
            /\ u # t => phase'[u] = phase[u]
    BY <1>1, <2>1 DEF Live
  <2>3. /\ tOffset' \in [TelegramTasks -> Nat \cup {NoRequest}] /\ tOffset'[t] = NoRequest
        /\ \A u \in TelegramTasks : u # t => tOffset'[u] = tOffset[u]
    BY <1>2, <2>1
  <2> QED BY <2>1, <2>2, <2>3 DEF TelegramInv, OnePoller
<1>5. CASE Answered(t)
  <2>1. /\ phase[t] = "sleeping" /\ tOffset[t] \in Nat /\ HandleUpdates(tOffset[t])
        /\ Requests(t, NoRequest) /\ (Go(t, "sleeping") \/ Go(t, "done"))
        /\ UNCHANGED <<tSent, tOverlapped>>
    BY <1>5 DEF Answered, HandleUpdates, TelegramInv
  <2>2. tLast' \in Nat /\ tRan' \in Seq(Nat)
    BY <2>1, AnswerBounds DEF TelegramInv
  <2>3. /\ tOffset' \in [TelegramTasks -> Nat \cup {NoRequest}] /\ tOffset'[t] = NoRequest
        /\ \A u \in TelegramTasks : u # t => tOffset'[u] = tOffset[u]
    BY <1>2, <2>1
  <2>4. /\ Live(phase[t]) /\ \A u \in TelegramTasks : Live(phase'[u]) => Live(phase[u])
        /\ \A u \in TelegramTasks : u # t => phase'[u] = phase[u]
    BY <1>1, <2>1 DEF Live
  <2>5. ASSUME ~tOverlapped PROVE OnePoller'
    <3>1. OnePoller /\ tOffset[t] = tLast
      BY <2>1, <2>4, <2>5 DEF TelegramInv, OnePoller, NoRequest
    <3>2. Increasing(tRan') /\ \A u \in Items(tRan') : u <= tLast'
      BY <2>1, <3>1, HandledKept DEF TelegramInv, OnePoller
    <3>3. \A u \in TelegramTasks : Live(phase'[u]) => u = t
      BY <2>4, <3>1 DEF OnePoller
    <3>4. \A u \in TelegramTasks : Live(phase'[u]) => tOffset'[u] = NoRequest
      BY <2>3, <3>3
    <3>5. Increasing(tRan)' /\ (\A u \in Items(tRan) : u <= tLast)'
      BY <3>2 DEF Items, Increasing
    <3> QED BY <3>3, <3>4, <3>5 DEF OnePoller
  <2> QED BY <2>1, <2>2, <2>3, <2>4, <2>5 DEF TelegramInv
<1> QED BY <1>3, <1>4, <1>5 DEF TelegramStep

\* The pollers, their requests and the commands run fit together in every state.
THEOREM TelegramInvariant == HostSpec => []TelegramInv
<1>1. HostInit => TelegramInv
  <2> SUFFICES ASSUME HostInit PROVE TelegramInv
    OBVIOUS
  <2>1. /\ tRan = <<>> /\ tLast = 0 /\ tSent = <<>>
        /\ tOffset = [t \in TelegramTasks |-> NoRequest]
    BY DEF HostInit, TelegramInit
  <2>2. \A t \in TelegramTasks : phase[t] = "done"
    BY TaskNames DEF HostInit, LoopInit
  <2> QED BY <2>1, <2>2 DEF TelegramInv, OnePoller, Increasing, Items, Live
<1>2. TelegramInv /\ ExitInv /\ HandlesInv /\ [HostNext]_hostVars => TelegramInv'
  <2> SUFFICES ASSUME TelegramInv, ExitInv, HandlesInv, [HostNext]_hostVars
               PROVE  TelegramInv'
    OBVIOUS
  <2>1. phase \in [Tasks -> Phases] /\ TelegramTasks \subseteq Tasks
    BY TaskNames DEF ExitInv, LoopTypeOK
  <2>2. ASSUME AgentMoves(RecorderTasks) \/ AgentMoves(ReportTasks), UNCHANGED tVars
        PROVE  TelegramInv'
    <3>1. \A t \in TelegramTasks : phase'[t] = phase[t]
      BY <2>1, <2>2, OthersStay, TaskNames
    <3> QED BY <2>2, <3>1, TelegramUntouched
  <2>3. CASE \/ Recording(Calls(RecorderStart \/ RecorderStop)) \/ Recording(Calls(OnEvent))
             \/ \E t \in RecorderTasks : Recording(RecorderStep(t))
    BY <2>1, <2>2, <2>3, RecorderMoves DEF Recording
  <2>4. CASE \/ Reporting(Calls(ReportCalls))
             \/ \E t \in ReportTasks : Reporting(ReportStep(t))
    BY <2>1, <2>2, <2>4, ReportMoves DEF Reporting
  <2>5. CASE Sending(Calls(Next)) \/ UNCHANGED hostVars
    BY <2>5, TelegramUntouched DEF Sending, hostVars, agentVars
  <2>6. CASE Conducting(ConductorNext)
    <3>1. \A t \in TelegramTasks :
              phase'[t] = phase[t] \/ phase'[t] \in {"cancelling", "aborted"}
      BY <2>1, <2>6, ConductorWakesNobody, TaskNames DEF Conducting, OnLoop
    <3> QED BY <2>6, <3>1, TelegramUntouched DEF Conducting, OnLoop, agentVars
  <2>7. CASE Polling(Calls(TelegramCalls))
    <3>1. CASE TelegramStart
      <4>1. PICK t \in TelegramTasks : Create(t)
        BY <3>1 DEF TelegramStart
      <4>2. /\ \A u \in TelegramTasks : u # t => phase'[u] = phase[u]
            /\ IsDone(phase[t]) /\ ~IsDone(phase'[t])
        BY <2>1, <4>1 DEF Create, Go, IsDone
      <4>3. UNCHANGED <<tOffset, tLast, tSent, tRan>>
        BY <3>1 DEF TelegramStart
      <4>4. ASSUME ~tOverlapped' PROVE OnePoller'
        <5>1. ~tOverlapped /\ \A u \in TelegramTasks : ~Live(phase[u])
          BY <3>1, <4>4 DEF TelegramStart
        <5>2. \A u \in TelegramTasks : Live(phase'[u]) => u = t
          BY <4>2, <5>1
        <5>3. OnePoller
          BY <5>1 DEF TelegramInv
        <5>4. tOffset[t] = NoRequest
          BY <4>2 DEF TelegramInv
        <5> QED BY <4>3, <5>2, <5>3, <5>4 DEF OnePoller
      <4> QED BY <4>2, <4>3, <4>4 DEF TelegramInv
    <3>2. CASE TelegramStop
      <4>1. \A u \in TelegramTasks :
                phase'[u] = phase[u] \/ phase'[u] \in {"cancelling", "aborted"}
        BY <2>1, <3>2 DEF TelegramStop, Go, AfterCancel, Phases, HandlesInv
      <4>2. \A u \in TelegramTasks : /\ Live(phase'[u]) => Live(phase[u])
                                     /\ IsDone(phase'[u]) => IsDone(phase[u])
        BY <4>1 DEF Live, IsDone
      <4> QED BY <3>2, <4>2 DEF TelegramStop, TelegramInv, OnePoller
    <3>3. CASE SendUpdate
      <4>1. tSent' \in Seq(Kinds)
        BY <3>3, AppendProperties DEF SendUpdate, TelegramInv
      <4> QED BY <3>3, <4>1 DEF SendUpdate, TelegramInv, OnePoller
    <3> QED BY <2>7, <3>1, <3>2, <3>3 DEF Polling, OnLoop, Calls, TelegramCalls
  <2>8. ASSUME NEW t \in TelegramTasks, Polling(TelegramStep(t) \/ FetchFails(t))
        PROVE  TelegramInv'
    BY <2>1, <2>8, PollerKept DEF Polling, OnLoop
  <2> QED BY <2>3, <2>4, <2>5, <2>6, <2>7, <2>8 DEF HostNext
<1> QED
  BY <1>1, <1>2, ExitInvariant, HandlesInvariant, PTL DEF HostSpec, HostSteps

\* However often the server repeats an update and the bot is stopped and started again,
\* commands are carried out in the order they were sent and none of them twice, unless the
\* bot was started while it polled.
THEOREM CommandsOnce == HostSpec => []CommandsRunOnce
<1>1. TelegramInv => CommandsRunOnce
  BY DEF TelegramInv, OnePoller, CommandsRunOnce
<1> QED BY <1>1, TelegramInvariant, PTL
-----------------------------------------------------------------------------
(***************************************************************************)
(* The summary of the day.                                                 *)
(***************************************************************************)

\* f is computed along 0..N from v, one step of G at a time.
Computes(f, N, v, G) == f[0] = v /\ \A i \in 1..N : f[i] = G[<<i, f[i - 1]>>]

\* A set of numbers has a smallest one.
LEMMA Smallest ==
    ASSUME NEW T \in SUBSET Nat, T # {}
    PROVE  \E x \in T : \A y \in T : ~(y < x)
<1>1. \E x \in T : \A y \in T : ~(<<y, x>> \in OpToRel(<, Nat))
  BY NatLessThanWellFounded, WFMin
<1>2. \A x, y \in T : y < x => <<y, x>> \in OpToRel(<, Nat)
  BY DEF OpToRel
<1> QED BY <1>1, <1>2

\* What a step at a time computes exists, and stays where every step stays.
LEMMA ComputedExists ==
    ASSUME NEW N \in Nat, NEW V, NEW v \in V, NEW G \in [(1..N) \X V -> V]
    PROVE  \E f \in [0..N -> V] : Computes(f, N, v, G)
<1> DEFINE Good(k) == \E f \in [0..k -> V] : Computes(f, k, v, G)
           Bad == {k \in 0..N : ~Good(k)}
<1>1. Good(0)
  <2> DEFINE f == [i \in 0..0 |-> v]
  <2>1. f \in [0..0 -> V] /\ Computes(f, 0, v, G)
    BY DEF Computes
  <2> QED BY <2>1
<1>2. ASSUME NEW k \in 1..N, Good(k - 1) PROVE Good(k)
  <2> PICK f \in [0..(k - 1) -> V] : Computes(f, k - 1, v, G)
    BY <1>2
  <2> DEFINE g == [i \in 0..k |-> IF i = k THEN G[<<k, f[k - 1]>>] ELSE f[i]]
  <2>1. k - 1 \in 0..(k - 1) /\ \A i \in 0..k : i # k => i \in 0..(k - 1)
    OBVIOUS
  <2>2. g \in [0..k -> V]
    <3>1. G[<<k, f[k - 1]>>] \in V
      BY <2>1
    <3> QED BY <2>1, <3>1
  <2>3. g[0] = v
    BY DEF Computes
  <2>4. ASSUME NEW i \in 1..k PROVE g[i] = G[<<i, g[i - 1]>>]
    <3>1. i - 1 \in 0..k /\ i - 1 # k /\ g[i - 1] = f[i - 1]
      BY <2>1
    <3>2. CASE i = k
      BY <3>1, <3>2
    <3>3. CASE i # k
      <4>1. i \in 1..(k - 1) /\ i \in 0..k
        BY <3>3
      <4>2. f[i] = G[<<i, f[i - 1]>>]
        BY <4>1 DEF Computes
      <4> QED BY <3>1, <3>3, <4>1, <4>2
    <3> QED BY <3>2, <3>3
  <2>5. Computes(g, k, v, G)
    BY <2>3, <2>4 DEF Computes
  <2> QED BY <2>2, <2>5
<1>3. Bad = {}
  <2> SUFFICES ASSUME Bad # {} PROVE FALSE
    OBVIOUS
  <2>1. PICK k \in Bad : \A j \in Bad : ~(j < k)
    <3>1. Bad \in SUBSET Nat
      OBVIOUS
    <3> HIDE DEF Bad
    <3> QED BY <3>1, Smallest
  <2>2. k \in 0..N /\ ~Good(k) /\ k # 0
    BY <1>1
  <2>3. k - 1 \in 0..N /\ k - 1 < k /\ k \in 1..N
    BY <2>2
  <2>4. Good(k - 1)
    BY <2>1, <2>3
  <2> QED BY <1>2, <2>2, <2>3, <2>4
<1> QED BY <1>3

\* A function whose every step stays in V, from a value in V, has all its values in V.
LEMMA StaysIn ==
    ASSUME NEW N \in Nat, NEW V, NEW f, f[0] \in V,
           \A i \in 1..N : f[i - 1] \in V => f[i] \in V
    PROVE  \A i \in 0..N : f[i] \in V
<1> DEFINE Bad == {i \in 0..N : f[i] \notin V}
<1>1. ASSUME Bad # {} PROVE FALSE
  <2>1. PICK k \in Bad : \A j \in Bad : ~(j < k)
    <3>1. Bad \in SUBSET Nat
      OBVIOUS
    <3> HIDE DEF Bad
    <3> QED BY <1>1, <3>1, Smallest
  <2>2. k \in 0..N /\ f[k] \notin V /\ k # 0
    OBVIOUS
  <2>3. k - 1 \in 0..N /\ k - 1 < k /\ k \in 1..N
    BY <2>2
  <2>4. f[k - 1] \in V
    BY <2>1, <2>3
  <2> QED BY <2>2, <2>3, <2>4
<1> QED BY <1>1

Record == [timestamp : Int, pnl : Int]

\* The sum after each record is a number.
LEMMA CumulativeType ==
    ASSUME NEW h \in Seq(Record)
    PROVE  \A i \in 0..Len(h) : Cumulative(h)[i] \in Int
<1> DEFINE N == Len(h)
           G == [x \in (1..N) \X Int |-> x[2] + h[x[1]].pnl]
           c == Cumulative(h)
<1>1. N \in Nat /\ \A i \in 1..N : h[i].pnl \in Int
  <2>1. \A i \in 1..N : h[i] \in Record
    BY ElementOfSeq
  <2> QED BY <2>1, LenProperties DEF Record
<1>2. G \in [(1..N) \X Int -> Int] /\ 0 \in Int
  BY <1>1
<1> HIDE DEF N
<1>3. PICK f \in [0..N -> Int] : Computes(f, N, 0, G)
  <2> HIDE DEF G
  <2> QED BY <1>1, <1>2, ComputedExists
<1>4. f = [i \in 0..N |-> IF i = 0 THEN 0 ELSE f[i - 1] + h[i].pnl]
  <2>1. \A i \in 0..N : f[i] = IF i = 0 THEN 0 ELSE f[i - 1] + h[i].pnl
    <3> SUFFICES ASSUME NEW i \in 1..N PROVE f[i] = f[i - 1] + h[i].pnl
      BY <1>1, <1>3 DEF Computes
    <3>1. i - 1 \in 0..N
      BY <1>1
    <3>2. f[i - 1] \in Int
      BY <3>1
    <3>3. f[i] = G[<<i, f[i - 1]>>]
      BY <1>3 DEF Computes
    <3> QED BY <3>2, <3>3
  <2> QED BY <2>1
<1>5. c = [i \in 0..N |-> IF i = 0 THEN 0 ELSE c[i - 1] + h[i].pnl]
  BY <1>4 DEF Cumulative, N
<1>6. c[0] \in Int /\ \A i \in 1..N : c[i - 1] \in Int => c[i] \in Int
  <2> HIDE DEF c
  <2>1. 0 \in 0..N /\ \A i \in 1..N : i \in 0..N /\ i # 0
    BY <1>1
  <2>2. c[0] = 0 /\ \A i \in 1..N : c[i] = c[i - 1] + h[i].pnl
    BY <1>5, <2>1
  <2>3. ASSUME NEW i \in 1..N, c[i - 1] \in Int PROVE c[i] \in Int
    <3>1. h[i].pnl \in Int /\ c[i] = c[i - 1] + h[i].pnl
      BY <1>1, <2>2
    <3> QED BY <2>3, <3>1
  <2> QED BY <2>2, <2>3
<1>7. \A i \in 0..N : c[i] \in Int
  <2> HIDE DEF c
  <2> QED BY <1>1, <1>6, StaysIn
<1> QED BY <1>7 DEF N

\* The records at some positions of a list of records are a list of records.
LEMMA AtType ==
    ASSUME NEW h \in Seq(Record), NEW S
    PROVE  At(h, S) \in Seq(Record)
<1> DEFINE N == Len(h)
           V == Seq(Record)
           G == [x \in (1..N) \X V |-> IF x[1] \in S THEN Append(x[2], h[x[1]]) ELSE x[2]]
           Kept == CHOOSE g : g = [i \in 0..N |->
                       IF i = 0 THEN <<>>
                       ELSE IF i \in S THEN Append(g[i - 1], h[i]) ELSE g[i - 1]]
<1>1. N \in Nat /\ \A i \in 1..N : h[i] \in Record
  BY ElementOfSeq, LenProperties
<1>2. G \in [(1..N) \X V -> V] /\ <<>> \in V
  <2>1. \A i \in 1..N, v \in V : Append(v, h[i]) \in V
    BY <1>1, AppendProperties
  <2> HIDE DEF V
  <2>2. \A x \in (1..N) \X V : x[1] \in 1..N /\ x[2] \in V
    OBVIOUS
  <2>3. \A x \in (1..N) \X V :
            (IF x[1] \in S THEN Append(x[2], h[x[1]]) ELSE x[2]) \in V
    BY <2>1, <2>2
  <2> QED BY <2>3 DEF V
<1> HIDE DEF N, V
<1>3. PICK f \in [0..N -> V] : Computes(f, N, <<>>, G)
  <2> HIDE DEF G
  <2> QED BY <1>1, <1>2, ComputedExists
<1>4. f = [i \in 0..N |-> IF i = 0 THEN <<>>
                          ELSE IF i \in S THEN Append(f[i - 1], h[i]) ELSE f[i - 1]]
  <2>1. \A i \in 0..N : f[i] = IF i = 0 THEN <<>>
                               ELSE IF i \in S THEN Append(f[i - 1], h[i]) ELSE f[i - 1]
    <3> SUFFICES ASSUME NEW i \in 1..N
                 PROVE  f[i] = IF i \in S THEN Append(f[i - 1], h[i]) ELSE f[i - 1]
      BY <1>1, <1>3 DEF Computes
    <3>1. i - 1 \in 0..N
      BY <1>1
    <3>2. f[i - 1] \in V
      BY <3>1
    <3>3. f[i] = G[<<i, f[i - 1]>>]
      BY <1>3 DEF Computes
    <3> QED BY <3>2, <3>3
  <2> QED BY <2>1
<1>5. Kept = [i \in 0..N |-> IF i = 0 THEN <<>>
                             ELSE IF i \in S THEN Append(Kept[i - 1], h[i]) ELSE Kept[i - 1]]
  BY <1>4
<1>6. At(h, S) = Kept[N]
  BY DEF At, N
<1>7. Kept[0] \in V /\ \A i \in 1..N : Kept[i - 1] \in V => Kept[i] \in V
  <2> HIDE DEF Kept
  <2>1. 0 \in 0..N /\ \A i \in 1..N : i \in 0..N /\ i # 0
    BY <1>1
  <2>2. /\ Kept[0] = <<>>
        /\ \A i \in 1..N : Kept[i] = IF i \in S THEN Append(Kept[i - 1], h[i]) ELSE Kept[i - 1]
    BY <1>5, <2>1
  <2>3. ASSUME NEW i \in 1..N, Kept[i - 1] \in V PROVE Kept[i] \in V
    <3>1. Append(Kept[i - 1], h[i]) \in V
      BY <1>1, <2>3, AppendProperties DEF V
    <3>2. Kept[i] = IF i \in S THEN Append(Kept[i - 1], h[i]) ELSE Kept[i - 1]
      BY <2>2
    <3> QED BY <2>3, <3>1, <3>2
  <2> QED BY <1>2, <2>2, <2>3
<1>8. \A i \in 0..N : Kept[i] \in V
  <2> HIDE DEF Kept
  <2> QED BY <1>1, <1>7, StaysIn
<1>9. N \in 0..N
  BY <1>1
<1>10. Kept[N] \in V
  BY <1>8, <1>9
<1> HIDE DEF Kept
<1> QED BY <1>6, <1>10 DEF V

\* A function takes finitely many values on a finite set.
LEMMA ValuesFinite ==
    ASSUME NEW D, IsFiniteSet(D), NEW f, DOMAIN f = D
    PROVE  IsFiniteSet({f[x] : x \in D})
<1> DEFINE R == {f[x] : x \in D}
           g == [x \in D |-> f[x]]
<1>1. g \in [D -> R] /\ \A t \in R : \E x \in D : g[x] = t
  OBVIOUS
<1>2. g \in Surjection(D, R)
  <2> HIDE DEF g, R
  <2> QED BY <1>1, Fun_IsSurj
<1>3. IsFiniteSet(R)
  <2> HIDE DEF g, R
  <2> QED BY <1>2, FS_Surjection
<1> QED BY <1>3

\* The largest distance below the highest sum so far is the largest loss between two
\* records: the peak before a record is the sum after one of those before it.
LEMMA DrawdownIsWorstFall ==
    ASSUME NEW h \in Seq(Record)
    PROVE  Max({RunningMax(Cumulative(h), Len(h))[i] - Cumulative(h)[i] : i \in 1..Len(h)}
                   \cup {0})
               = WorstFall(h)
<1> DEFINE n == Len(h)
           c == Cumulative(h)
           peak == RunningMax(c, n)
           pairs == {q \in (1..n) \X (1..n) : q[1] <= q[2]}
           A == {peak[i] - c[i] : i \in 1..n} \cup {0}
           B == {c[p[1]] - c[p[2]] : p \in pairs} \cup {0}
<1>1. n \in Nat
  BY LenProperties
<1>2. \A i \in 1..n : c[i] \in Int
  <2> HIDE DEF c
  <2>1. \A i \in 0..n : c[i] \in Int
    BY CumulativeType DEF c
  <2> QED BY <2>1
<1> HIDE DEF c, n
<1>3. ASSUME NEW i \in 1..n
      PROVE  /\ peak[i] \in {c[k] : k \in 1..i}
             /\ \A k \in 1..i : c[k] <= peak[i]
  <2> DEFINE V == {c[k] : k \in 1..i}
  <2>1. V \in SUBSET Int /\ V # {}
    <3>1. \A k \in 1..i : k \in 1..n
      BY <1>1
    <3> QED BY <1>2, <3>1
  <2>2. IsFiniteSet(V)
    <3> DEFINE g == [k \in 1..i |-> c[k]]
    <3>1. IsFiniteSet(1..i)
      BY FS_Interval
    <3>2. IsFiniteSet({g[k] : k \in 1..i})
      <4>1. DOMAIN g = 1..i
        OBVIOUS
      <4> HIDE DEF g
      <4> QED BY <3>1, <4>1, ValuesFinite
    <3>3. {g[k] : k \in 1..i} = V
      OBVIOUS
    <3> QED BY <3>2, <3>3
  <2>3. peak[i] = Max(V)
    BY DEF RunningMax
  <2>4. Max(V) \in V /\ \A y \in V : y <= Max(V)
    <3> HIDE DEF V
    <3> QED BY <2>1, <2>2, MaxProperties
  <2> QED BY <2>3, <2>4
<1> HIDE DEF peak
<1>4. A \in SUBSET Int /\ IsFiniteSet(A) /\ A # {}
  <2> DEFINE g == [i \in 1..n |-> peak[i] - c[i]]
  <2>1. \A i \in 1..n : peak[i] \in Int
    <3> SUFFICES ASSUME NEW i \in 1..n PROVE peak[i] \in Int
      OBVIOUS
    <3>1. PICK k \in 1..i : peak[i] = c[k]
      BY <1>3
    <3> QED BY <1>1, <1>2, <3>1
  <2>2. IsFiniteSet({g[i] : i \in 1..n})
    <3>1. IsFiniteSet(1..n) /\ DOMAIN g = 1..n
      BY <1>1, FS_Interval
    <3> HIDE DEF g
    <3> QED BY <3>1, ValuesFinite
  <2>3. A = {g[i] : i \in 1..n} \cup {0}
    OBVIOUS
  <2>4. IsFiniteSet(A)
    <3> HIDE DEF g, A
    <3> QED BY <2>2, <2>3, FS_AddElement
  <2> QED BY <1>2, <2>1, <2>4
<1>5. B \in SUBSET Int /\ IsFiniteSet(B) /\ B # {}
  <2> DEFINE g == [p \in pairs |-> c[p[1]] - c[p[2]]]
  <2>1. IsFiniteSet(pairs)
    <3>1. IsFiniteSet(1..n)
      BY <1>1, FS_Interval
    <3>2. IsFiniteSet((1..n) \X (1..n))
      BY <3>1, FS_Product
    <3>3. pairs \in SUBSET ((1..n) \X (1..n))
      OBVIOUS
    <3> HIDE DEF pairs
    <3> QED BY <3>2, <3>3, FS_Subset
  <2>2. IsFiniteSet({g[p] : p \in pairs})
    <3>1. DOMAIN g = pairs
      OBVIOUS
    <3> HIDE DEF g, pairs
    <3> QED BY <2>1, <3>1, ValuesFinite
  <2>3. B = {g[p] : p \in pairs} \cup {0}
    OBVIOUS
  <2>4. IsFiniteSet(B)
    <3> HIDE DEF g, B
    <3> QED BY <2>2, <2>3, FS_AddElement
  <2> QED BY <1>2, <2>4
<1>6. A \subseteq B
  <2> SUFFICES ASSUME NEW i \in 1..n PROVE peak[i] - c[i] \in B
    OBVIOUS
  <2>1. PICK k \in 1..i : peak[i] = c[k]
    BY <1>3
  <2>2. <<k, i>> \in pairs
    BY <1>1
  <2>3. peak[i] - c[i] = c[<<k, i>>[1]] - c[<<k, i>>[2]]
    BY <2>1
  <2> QED BY <2>2, <2>3
<1>7. \A b \in B : \E a \in A : b <= a
  <2> SUFFICES ASSUME NEW p \in pairs PROVE \E a \in A : c[p[1]] - c[p[2]] <= a
    OBVIOUS
  <2>1. p[1] \in 1..p[2] /\ p[2] \in 1..n /\ p[1] \in 1..n
    OBVIOUS
  <2>2. c[p[1]] <= peak[p[2]] /\ c[p[1]] \in Int /\ c[p[2]] \in Int
    BY <1>2, <1>3, <2>1
  <2>3. peak[p[2]] - c[p[2]] \in A
    BY <2>1
  <2>4. peak[p[2]] \in Int
    <3>1. PICK k \in 1..p[2] : peak[p[2]] = c[k]
      BY <1>3, <2>1
    <3>2. k \in 1..n
      BY <1>1, <2>1
    <3> QED BY <1>2, <3>1, <3>2
  <2>5. c[p[1]] - c[p[2]] <= peak[p[2]] - c[p[2]]
    BY <2>2, <2>4
  <2> QED BY <2>3, <2>5
<1> HIDE DEF A, B
<1>8. /\ Max(A) \in A /\ \A y \in A : y <= Max(A)
      /\ Max(B) \in B /\ \A y \in B : y <= Max(B)
  BY <1>4, <1>5, MaxProperties
<1>9. Max(A) = Max(B)
  <2>1. Max(A) \in Int /\ Max(B) \in Int /\ Max(A) <= Max(B)
    BY <1>4, <1>5, <1>6, <1>8
  <2>2. PICK a \in A : Max(B) <= a
    BY <1>7, <1>8
  <2>3. a \in Int /\ a <= Max(A)
    BY <1>4, <1>8
  <2> QED BY <2>1, <2>2, <2>3
<1> QED BY <1>9 DEF A, B, WorstFall, c, n, peak

\* What is written at a time of day, by what Valid keeps at that time.
LEMMA SummaryIsWhole ==
    ASSUME NEW h \in Seq(Record), NEW t
    PROVE  LET report == GenerateSummary(h, t)
               valid == Valid(h, t)
           IN  /\ report.trades = Len(valid)
               /\ report.total_pnl = Cumulative(valid)[Len(valid)]
               /\ report.mdd = WorstFall(valid)
<1> DEFINE valid == Valid(h, t)
<1>1. valid \in Seq(Record)
  BY AtType DEF Valid
<1>2. GenerateSummary(h, t)
          = [total_pnl |-> Cumulative(valid)[Len(valid)],
             mdd |-> Max({RunningMax(Cumulative(valid), Len(valid))[i] - Cumulative(valid)[i]
                              : i \in 1..Len(valid)} \cup {0}),
             trades |-> Len(valid)]
  BY DEF GenerateSummary
<1> HIDE DEF valid
<1>3. Max({RunningMax(Cumulative(valid), Len(valid))[i] - Cumulative(valid)[i]
               : i \in 1..Len(valid)} \cup {0}) = WorstFall(valid)
  BY <1>1, DrawdownIsWorstFall
<1>4. /\ GenerateSummary(h, t).trades = Len(valid)
      /\ GenerateSummary(h, t).total_pnl = Cumulative(valid)[Len(valid)]
      /\ GenerateSummary(h, t).mdd = WorstFall(valid)
  BY <1>2, <1>3
<1> QED BY <1>4 DEF valid

\* ReportIsWhole with what makes it inductive, as long as the clock runs forward: no
\* scheduler wakes up before the close, and nothing is recorded after it.
ReportInv ==
    /\ sHistory \in Seq(Record) /\ sClock \in 0..EndOfDay /\ sWrittenAt \in 0..EndOfDay
    /\ sTimer \in [ReportTasks -> Nat] /\ sSetBack \in BOOLEAN
    /\ ~sSetBack =>
           /\ \A t \in ReportTasks : phase[t] = "sleeping" => sClock + sTimer[t] >= Close
           /\ sReport # <<>> =>
                  /\ Close <= sWrittenAt /\ sWrittenAt <= sClock
                  /\ sReport = <<GenerateSummary(sHistory, sWrittenAt)>>

\* Nobody but the report agent puts a scheduler to sleep.
LEMMA ReportUntouched ==
    ASSUME ReportInv, UNCHANGED sVars,
           \A t \in ReportTasks : phase'[t] = "sleeping" => phase[t] = "sleeping"
    PROVE  ReportInv'
BY DEF ReportInv, sVars, summary

\* By day a record joins the others; none is written down yet.
LEMMA RecordKept == ReportInv /\ ProcessMessage => ReportInv'
<1> SUFFICES ASSUME ReportInv, ProcessMessage PROVE ReportInv'
  OBVIOUS
<1> PICK ts \in NoStamp..(EndOfDay + 1) :
        sHistory' = Append(sHistory, [timestamp |-> ts, pnl |-> Amounts[Len(sHistory) + 1]])
  BY DEF ProcessMessage
<1>1. /\ Len(sHistory) < Len(Amounts) /\ sClock < Close
      /\ UNCHANGED <<phase, sRunning, sClock, sTimer, sReport, sWrittenAt, sSetBack>>
  BY DEF ProcessMessage, ByDay, summary
<1>2. /\ sHistory \in Seq(Record) /\ Len(sHistory) \in Nat /\ sClock \in 0..EndOfDay
      /\ EndOfDay \in Nat /\ Close \in Nat /\ sWrittenAt \in 0..EndOfDay
  BY ReportAssumption, LenProperties DEF ReportInv
<1>3. Amounts[Len(sHistory) + 1] \in Int
  <2>1. Len(sHistory) + 1 \in 1..Len(Amounts)
    BY <1>1, <1>2, ReportAssumption, LenProperties
  <2> QED BY <2>1, ReportAssumption, ElementOfSeq
<1>4. [timestamp |-> ts, pnl |-> Amounts[Len(sHistory) + 1]] \in Record
  BY <1>2, <1>3 DEF Record, NoStamp
<1>5. sHistory' \in Seq(Record)
  BY <1>2, <1>4, AppendProperties
<1>6. ~sSetBack => sReport = <<>>
  BY <1>1, <1>2 DEF ReportInv
<1> QED BY <1>1, <1>5, <1>6 DEF ReportInv

\* A summary is written after the close, of every record dated by then.
LEMMA ScheduleKept ==
    ASSUME ReportInv, phase \in [Tasks -> Phases], NEW t \in ReportTasks,
           ScheduleCloseTrigger(t)
    PROVE  ReportInv'
<1>1. /\ UNCHANGED <<sClock, sHistory, sSetBack>> /\ sClock \in 0..EndOfDay
      /\ sTimer \in [ReportTasks -> Nat] /\ sWrittenAt \in 0..EndOfDay
      /\ t \in Tasks /\ ReportTasks \subseteq Tasks /\ Close \in Nat /\ EndOfDay \in Nat
  BY ReportAssumption, TaskNames DEF ScheduleCloseTrigger, ReportInv
<1>2. CASE /\ sClock < Close /\ sTimer' = [sTimer EXCEPT ![t] = Close - sClock]
           /\ Go(t, "sleeping") /\ UNCHANGED <<sRunning, summary>>
  <2>1. /\ sTimer' \in [ReportTasks -> Nat] /\ sClock + sTimer'[t] = Close
        /\ \A u \in ReportTasks :
               u # t => sTimer'[u] = sTimer[u] /\ phase'[u] = phase[u]
    <3>1. Close - sClock \in Nat
      BY <1>1, <1>2
    <3> QED BY <1>1, <1>2, <3>1 DEF Go
  <2>2. ASSUME ~sSetBack, NEW u \in ReportTasks, phase'[u] = "sleeping"
        PROVE  sClock + sTimer'[u] >= Close
    BY <1>1, <2>1, <2>2 DEF ReportInv
  <2> QED BY <1>1, <1>2, <2>1, <2>2 DEF ReportInv, summary
<1>3. CASE /\ \/ phase[t] = "created" /\ (sRunning => sClock >= Close)
              \/ phase[t] = "sleeping" /\ Due(t)
           /\ IF sRunning THEN CloseOfDay ELSE UNCHANGED <<sRunning, summary>>
           /\ Go(t, "done") /\ sTimer' = sTimer
  <2>1. \A u \in ReportTasks : phase'[u] = "sleeping" => phase[u] = "sleeping"
    BY <1>1, <1>3 DEF Go
  <2>2. ~sSetBack /\ sRunning => sClock >= Close
    BY <1>1, <1>3 DEF ReportInv, Due
  <2>3. \/ UNCHANGED <<sReport, sWrittenAt>>
        \/ /\ sRunning /\ sWrittenAt' = sClock
           /\ sReport' = <<GenerateSummary(sHistory, sClock)>>
    BY <1>3 DEF CloseOfDay, summary
  <2>4. CASE UNCHANGED <<sReport, sWrittenAt>>
    BY <1>1, <1>3, <2>1, <2>4 DEF ReportInv
  <2>5. CASE /\ sRunning /\ sWrittenAt' = sClock
             /\ sReport' = <<GenerateSummary(sHistory, sClock)>>
    BY <1>1, <1>3, <2>1, <2>2, <2>5 DEF ReportInv
  <2> QED BY <2>3, <2>4, <2>5
<1> QED BY <1>2, <1>3 DEF ScheduleCloseTrigger

\* The calls of the report agent.
LEMMA ReportCallsKept ==
    ASSUME ReportInv, HandlesInv, phase \in [Tasks -> Phases], ReportCalls
    PROVE  ReportInv'
<1>t. ReportTasks \subseteq Tasks
  BY TaskNames
<1>1. CASE ReportStart
  <2>1. \A t \in ReportTasks : phase'[t] = "sleeping" => phase[t] = "sleeping"
    BY <1>t, <1>1 DEF ReportStart, Create, Go
  <2> QED BY <1>1, <2>1 DEF ReportStart, ReportInv, summary
<1>2. CASE ReportStop
  <2>1. \A t \in ReportTasks : phase'[t] = "sleeping" => phase[t] = "sleeping"
    BY <1>t, <1>2 DEF ReportStop, Go, AfterCancel, Phases, HandlesInv
  <2> QED BY <1>2, <2>1 DEF ReportStop, ReportInv, summary
<1>3. CASE ReportTick
  <2>1. /\ sClock' \in 0..EndOfDay /\ sClock' = sClock + 1 /\ sClock \in Nat /\ Close \in Nat
        /\ sWrittenAt \in 0..EndOfDay
        /\ UNCHANGED <<phase, sHistory, sReport, sWrittenAt, sSetBack>>
    BY <1>3, ReportAssumption DEF ReportTick, ReportInv, summary
  <2>2. /\ sTimer' \in [ReportTasks -> Nat]
        /\ \A t \in ReportTasks : sTimer[t] \in Nat /\ sTimer'[t] >= sTimer[t] - 1
    BY <1>3 DEF ReportTick, ReportInv
  <2>3. \A t \in ReportTasks :
            sClock + sTimer[t] >= Close => sClock' + sTimer'[t] >= Close
    BY <2>1, <2>2
  <2> QED BY <2>1, <2>2, <2>3 DEF ReportInv
<1>4. CASE SetClockBack
  <2>1. sClock' \in 0..EndOfDay
    BY <1>4, ReportAssumption DEF SetClockBack, ReportInv
  <2> QED BY <1>4, <2>1 DEF SetClockBack, ReportInv, summary
<1> QED BY <1>1, <1>2, <1>3, <1>4, RecordKept DEF ReportCalls

\* The report's records, clocks and summary fit together in every state.
THEOREM ReportInvariant == HostSpec => []ReportInv
<1>1. HostInit => ReportInv
  <2> SUFFICES ASSUME HostInit PROVE ReportInv
    OBVIOUS
  <2>1. /\ sClock = 0 /\ sTimer = [t \in ReportTasks |-> 0] /\ sHistory = <<>>
        /\ sReport = <<>> /\ sWrittenAt = 0 /\ sSetBack = FALSE
    BY DEF HostInit, ReportInit
  <2>2. \A t \in ReportTasks : phase[t] # "sleeping"
    BY TaskNames DEF HostInit, LoopInit
  <2>3. 0 \in 0..EndOfDay
    BY ReportAssumption
  <2>4. sHistory \in Seq(Record) /\ sTimer \in [ReportTasks -> Nat]
    BY <2>1
  <2> QED BY <2>1, <2>2, <2>3, <2>4 DEF ReportInv
<1>2. ReportInv /\ ExitInv /\ HandlesInv /\ [HostNext]_hostVars => ReportInv'
  <2> SUFFICES ASSUME ReportInv, ExitInv, HandlesInv, [HostNext]_hostVars
               PROVE  ReportInv'
    OBVIOUS
  <2>1. phase \in [Tasks -> Phases] /\ ReportTasks \subseteq Tasks
    BY TaskNames DEF ExitInv, LoopTypeOK
  <2>2. ASSUME AgentMoves(RecorderTasks) \/ AgentMoves(TelegramTasks), UNCHANGED sVars
        PROVE  ReportInv'
    <3>1. \A t \in ReportTasks : phase'[t] = phase[t]
      BY <2>1, <2>2, OthersStay, TaskNames
    <3> QED BY <2>2, <3>1, ReportUntouched
  <2>3. CASE \/ Recording(Calls(RecorderStart \/ RecorderStop)) \/ Recording(Calls(OnEvent))
             \/ \E t \in RecorderTasks : Recording(RecorderStep(t))
    BY <2>1, <2>2, <2>3, RecorderMoves DEF Recording
  <2>4. CASE \/ Polling(Calls(TelegramCalls))
             \/ \E t \in TelegramTasks : Polling(TelegramStep(t) \/ FetchFails(t))
    BY <2>1, <2>2, <2>4, TelegramMoves DEF Polling
  <2>5. CASE Sending(Calls(Next)) \/ UNCHANGED hostVars
    BY <2>5, ReportUntouched DEF Sending, hostVars, agentVars
  <2>6. CASE Conducting(ConductorNext)
    <3>1. \A t \in ReportTasks :
              phase'[t] = phase[t] \/ phase'[t] \in {"cancelling", "aborted"}
      BY <2>1, <2>6, ConductorWakesNobody, TaskNames DEF Conducting, OnLoop
    <3> QED BY <2>6, <3>1, ReportUntouched DEF Conducting, OnLoop, agentVars
  <2>7. CASE Reporting(Calls(ReportCalls))
    BY <2>1, <2>7, ReportCallsKept DEF Reporting, OnLoop, Calls
  <2>8. ASSUME NEW t \in ReportTasks, Reporting(ReportStep(t)) PROVE ReportInv'
    <3>1. CASE ScheduleCloseTrigger(t)
      BY <2>1, <3>1, ScheduleKept
    <3>2. CASE ReportEnds(t)
      <4>1. \A u \in ReportTasks : phase'[u] = "sleeping" => phase[u] = "sleeping" /\ u # t
        BY <2>1, <3>2 DEF ReportEnds, Ends, Go
      <4>2. /\ sTimer' \in [ReportTasks -> Nat]
            /\ \A u \in ReportTasks : u # t => sTimer'[u] = sTimer[u]
        BY <3>2 DEF ReportEnds, ReportInv
      <4> QED BY <3>2, <4>1, <4>2 DEF ReportEnds, ReportInv, summary
    <3> QED BY <2>8, <3>1, <3>2 DEF Reporting, OnLoop, ReportStep
  <2> QED BY <2>3, <2>4, <2>5, <2>6, <2>7, <2>8 DEF HostNext
<1> QED
  BY <1>1, <1>2, ExitInvariant, HandlesInvariant, PTL DEF HostSpec, HostSteps

\* As long as nobody sets the clock back, a summary is written at the close or later and
\* covers every record kept that is not dated later than the summary itself, whoever wrote
\* it and however late; its drawdown is the largest fall between two of them.
THEOREM SummaryCoversTheDay == HostSpec => []ReportIsWhole
<1>1. ReportInv => ReportIsWhole
  <2> SUFFICES ASSUME ReportInv, sReport # <<>>, ~sSetBack
               PROVE  LET report == sReport[1]
                          valid == Valid(sHistory, sWrittenAt)
                      IN  /\ sWrittenAt >= Close
                          /\ report.trades = Len(valid)
                          /\ report.total_pnl = Cumulative(valid)[Len(valid)]
                          /\ report.mdd = WorstFall(valid)
    BY DEF ReportIsWhole
  <2>1. /\ sHistory \in Seq(Record)
        /\ sReport[1] = GenerateSummary(sHistory, sWrittenAt)
        /\ sWrittenAt >= Close
    BY ReportAssumption DEF ReportInv
  <2> QED BY <2>1, SummaryIsWhole
<1> QED BY <1>1, ReportInvariant, PTL
=============================================================================
