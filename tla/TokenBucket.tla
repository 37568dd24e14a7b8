---------------------------- MODULE TokenBucket ----------------------------
(***************************************************************************)
(* The API throttle of exchange/network.py: NetworkAgent.send_payload      *)
(* spends a token of the bucket or is refused.                             *)
(*                                                                         *)
(* consume() has no suspension point, so the lock-free bucket is atomic on *)
(* one event loop.  Tokens are counted in units small enough for the fill  *)
(* rate to be a whole number of units per tick; one call costs Cost units. *)
(* The floating-point rounding of the counter is abstracted away.          *)
(***************************************************************************)
EXTENDS Integers

CONSTANTS Capacity,  \* units the bucket holds when full
          FillRate,  \* units that drip in per tick
          Cost,      \* units one call spends
          MaxTime    \* bound: the clock

ASSUME BucketAssumption ==
    /\ Capacity \in Nat
    /\ FillRate \in Nat
    /\ Cost \in Nat \ {0}
    /\ MaxTime \in Nat

VARIABLES now,         \* time.monotonic()
          tokens,      \* self.tokens
          lastUpdate,  \* self.last_update
          granted,     \* history: calls let through
          mark,        \* history: the start of an arbitrary window of time
          atMark       \* history: calls let through before that window

vars == <<now, tokens, lastUpdate, granted, mark, atMark>>

\* The bucket is never overdrawn nor fuller than its capacity.
TypeOK ==
    /\ now \in Nat
    /\ tokens \in 0..Capacity
    /\ lastUpdate \in 0..now
    /\ granted \in Nat
    /\ mark \in 0..now
    /\ atMark \in 0..granted

Init ==
    /\ now = 0
    /\ tokens = Capacity
    /\ lastUpdate = 0
    /\ granted = 0
    /\ mark = 0
    /\ atMark = 0

Dripped == tokens + (now - lastUpdate) * FillRate

\* A refill that lets tokens pile up while nobody calls.
RefillUnclamped == Dripped

\* What the bucket holds once the time since the last call is accounted for.
Refilled == IF Dripped < Capacity THEN Dripped ELSE Capacity

Enough == Refilled >= Cost

\* send_payload: whether the payload can then be serialised makes no difference to
\* the bucket, the token is spent.
SendPayload ==
    /\ lastUpdate' = now
    /\ \/ /\ Enough
          /\ tokens' = Refilled - Cost
          /\ granted' = granted + 1
       \/ /\ ~Enough
          /\ tokens' = Refilled
          /\ granted' = granted
    /\ UNCHANGED <<now, mark, atMark>>

Tick ==
    /\ now < MaxTime
    /\ now' = now + 1
    /\ UNCHANGED <<tokens, lastUpdate, granted, mark, atMark>>

\* Any instant may be the start of the window the bound is about.
OpenWindow ==
    /\ mark' = now
    /\ atMark' = granted
    /\ UNCHANGED <<now, tokens, lastUpdate, granted>>

Next == SendPayload \/ Tick \/ OpenWindow

Spec == Init /\ [][Next]_vars
-----------------------------------------------------------------------------
\* In every window of time, however it falls, the calls let through cost no more
\* than one full bucket plus what drips in during the window.
RateBound == Cost * (granted - atMark) <= Capacity + FillRate * (now - mark)
=============================================================================
