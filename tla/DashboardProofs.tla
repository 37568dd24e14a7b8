-------------------------- MODULE DashboardProofs --------------------------
(***************************************************************************)
(* What holds of the dashboard for any number of sockets, timers, payloads *)
(* and queue sizes.                                                        *)
(***************************************************************************)
EXTENDS Dashboard, SequenceTheorems, TLAPS

\* Only a live worker's session has a queue, and only a worker that sends holds a
\* payload.
WorkersOwn ==
    \A c \in Sockets :
        /\ c \notin sessions => queue[c] = <<>>
        /\ worker[c] \in {"created", "ping", "get", "send", "close"} => c \in sessions
        /\ worker[c] = "send" <=> inHand[c] # 0

\* What a worker is sending is older than what its queue holds.
HandBeforeQueue ==
    \A c \in Sockets : inHand[c] + Len(queue[c]) <= published

\* What an open socket can still be sent is no older than what the store has.
NothingOlderComes ==
    /\ latest <= published
    /\ \A s \in Sockets : socket[s] = "open" =>
           /\ latest + Len(queue[s]) <= published
           /\ inHand[s] # 0 => latest <= inHand[s]

SessionInv == SessionTypeOK /\ WorkersOwn /\ QueueIsLatest /\ HandBeforeQueue

ClientInv == ClientTypeOK /\ LiveIsCurrent /\ NeverStranded

IInv == ClientInv /\ SessionInv /\ NothingOlderComes
-----------------------------------------------------------------------------
(***************************************************************************)
(* The broadcaster.                                                        *)
(***************************************************************************)

\* The queue q ends with payload p, and misses none behind its first.
Consecutive(q, p) == \A i \in 1..Len(q) : q[i] = p - Len(q) + i

\* Without its head, a queue is still consecutive.
LEMMA TailConsecutive ==
    ASSUME NEW T, NEW q \in Seq(T), q # <<>>, NEW p \in Nat, Consecutive(q, p)
    PROVE  /\ Tail(q) \in Seq(T) /\ Len(Tail(q)) = Len(q) - 1
           /\ Consecutive(Tail(q), p)
<1>1. Len(q) \in Nat \ {0}
  BY EmptySeq
<1>2. /\ Tail(q) \in Seq(T) /\ Len(Tail(q)) = Len(q) - 1
      /\ \A i \in 1..Len(Tail(q)) : Tail(q)[i] = q[i+1]
  BY HeadTailProperties
<1>3. ASSUME NEW i \in 1..Len(Tail(q))
      PROVE  Tail(q)[i] = p - Len(Tail(q)) + i
  <2>1. i \in Nat /\ i + 1 \in 1..Len(q)
    BY <1>1, <1>2
  <2>2. q[i+1] = p - Len(q) + (i + 1)
    BY <2>1 DEF Consecutive
  <2>3. Tail(q)[i] = q[i+1]
    BY <1>2
  <2> QED BY <1>1, <1>2, <2>1, <2>2, <2>3
<1> QED BY <1>2, <1>3 DEF Consecutive

\* The next payload continues it.
LEMMA AppendConsecutive ==
    ASSUME NEW T, NEW q \in Seq(T), NEW p \in T, p \in Nat, Consecutive(q, p - 1)
    PROVE  /\ Append(q, p) \in Seq(T) /\ Len(Append(q, p)) = Len(q) + 1
           /\ Consecutive(Append(q, p), p)
<1>1. Len(q) \in Nat
  BY LenProperties
<1>2. /\ Append(q, p) \in Seq(T) /\ Len(Append(q, p)) = Len(q) + 1
      /\ \A i \in 1..Len(q) : Append(q, p)[i] = q[i]
      /\ Append(q, p)[Len(q)+1] = p
  BY AppendProperties
<1>3. ASSUME NEW i \in 1..(Len(q)+1)
      PROVE  Append(q, p)[i] = p - (Len(q)+1) + i
  <2>1. CASE i \in 1..Len(q)
    <3>1. q[i] = p - 1 - Len(q) + i
      BY <2>1 DEF Consecutive
    <3>2. Append(q, p)[i] = q[i]
      BY <1>2, <2>1
    <3> QED BY <1>1, <3>1, <3>2
  <2>2. CASE i = Len(q) + 1
    BY <1>1, <1>2, <2>2
  <2> QED BY <1>1, <2>1, <2>2
<1> QED BY <1>2, <1>3 DEF Consecutive

\* A push keeps a queue of consecutive payloads one, within its size.
LEMMA PushKeepsLatest ==
    ASSUME NEW T, NEW q \in Seq(T), Len(q) <= QueueSize, NEW p \in T, p \in Nat \ {0},
           Consecutive(q, p - 1)
    PROVE  /\ Pushed(q, p) \in Seq(T)
           /\ Len(Pushed(q, p)) <= QueueSize
           /\ Len(Pushed(q, p)) <= Len(q) + 1
           /\ Consecutive(Pushed(q, p), p)
<1>1. QueueSize \in Nat \ {0} /\ Len(q) \in Nat
  BY QueueAssumption, LenProperties
<1>2. CASE Len(q) < QueueSize
  <2>1. Pushed(q, p) = Append(q, p)
    BY <1>2 DEF Pushed
  <2> QED BY <1>1, <1>2, <2>1, AppendConsecutive
<1>3. CASE ~(Len(q) < QueueSize)
  <2>1. Pushed(q, p) = Append(Tail(q), p)
    BY <1>3 DEF Pushed
  <2>2. Len(q) = QueueSize /\ q # <<>>
    BY <1>1, <1>3
  <2>3. /\ Tail(q) \in Seq(T) /\ Len(Tail(q)) = Len(q) - 1
        /\ Consecutive(Tail(q), p - 1)
    BY <2>2, TailConsecutive
  <2>4. /\ Append(Tail(q), p) \in Seq(T)
        /\ Len(Append(Tail(q), p)) = Len(Tail(q)) + 1
        /\ Consecutive(Append(Tail(q), p), p)
    BY <2>3, AppendConsecutive
  <2> QED BY <1>1, <2>1, <2>2, <2>3, <2>4
<1> QED BY <1>2, <1>3

\* QueueIsLatest, session by session.
LEMMA LatestIsConsecutive ==
    ASSUME SessionTypeOK
    PROVE  QueueIsLatest <=> \A c \in sessions : Consecutive(queue[c], published)
<1>1. \A c \in sessions : DOMAIN queue[c] = 1..Len(queue[c])
  BY LenProperties DEF SessionTypeOK
<1> QED BY <1>1 DEF QueueIsLatest, Consecutive

\* The broadcast.
LEMMA BroadcastKeeps ==
    ASSUME SessionInv, BroadcastEvent
    PROVE  /\ SessionInv' /\ published' = published + 1 /\ inHand' = inHand
           /\ \A c \in Sockets : Len(queue'[c]) <= Len(queue[c]) + 1
<1> USE ClientsAssumption, PublishedAssumption
<1>1. /\ published' = published + 1 /\ published' \in 1..MaxPublished
      /\ published \in Nat
      /\ UNCHANGED <<sessions, worker, inHand>>
      /\ queue' = [c \in Sockets |-> IF c \in sessions THEN Pushed(queue[c], published')
                                                    ELSE queue[c]]
  BY DEF SessionInv, SessionTypeOK, BroadcastEvent
<1>2. ASSUME NEW c \in Sockets
      PROVE  /\ queue'[c] \in Seq(1..MaxPublished)
             /\ Len(queue'[c]) <= QueueSize
             /\ Len(queue'[c]) <= Len(queue[c]) + 1
             /\ c \notin sessions => queue'[c] = queue[c]
             /\ c \in sessions => Consecutive(queue'[c], published')
  <2>1. queue[c] \in Seq(1..MaxPublished) /\ Len(queue[c]) <= QueueSize /\ Len(queue[c]) \in Nat
    BY LenProperties DEF SessionInv, SessionTypeOK
  <2>2. CASE c \in sessions
    <3>1. published = published' - 1 /\ published' \in Nat \ {0}
      BY <1>1
    <3>2. Consecutive(queue[c], published' - 1)
      BY <2>2, <3>1, LatestIsConsecutive DEF SessionInv
    <3>3. queue'[c] = Pushed(queue[c], published')
      BY <1>1, <2>2
    <3> QED BY <1>1, <2>1, <2>2, <3>1, <3>2, <3>3, PushKeepsLatest
  <2>3. CASE c \notin sessions
    BY <1>1, <2>1, <2>3
  <2> QED BY <2>2, <2>3
<1>3. SessionTypeOK'
  BY <1>1, <1>2 DEF SessionInv, SessionTypeOK
<1>4. WorkersOwn'
  BY <1>1, <1>2 DEF SessionInv, WorkersOwn
<1>5. QueueIsLatest'
  <2>1. sessions' \subseteq Sockets
    BY <1>3 DEF SessionTypeOK
  <2>2. \A c \in sessions' : Consecutive(queue'[c], published')
    BY <1>1, <1>2, <2>1
  <2>3. QueueIsLatest' <=> \A c \in sessions' : Consecutive(queue'[c], published')
    <3>1. \A c \in sessions' : DOMAIN queue'[c] = 1..Len(queue'[c])
      BY <1>3, LenProperties DEF SessionTypeOK
    <3> QED BY <3>1 DEF QueueIsLatest, Consecutive
  <2> QED BY <2>2, <2>3
<1>6. HandBeforeQueue'
  <2> SUFFICES ASSUME NEW c \in Sockets
               PROVE  inHand[c] + Len(queue'[c]) <= published'
    BY <1>1 DEF HandBeforeQueue
  <2>1. /\ inHand[c] \in Nat /\ Len(queue[c]) \in Nat
        /\ inHand[c] + Len(queue[c]) <= published
    BY LenProperties DEF SessionInv, SessionTypeOK, HandBeforeQueue
  <2>2. Len(queue'[c]) \in Nat
    BY <1>2, LenProperties
  <2> QED BY <1>1, <1>2, <2>1, <2>2
<1> QED BY <1>1, <1>2, <1>3, <1>4, <1>5, <1>6 DEF SessionInv

\* What the steps of a worker and the registration of its session do not touch.
LEMMA QuietSession ==
    ASSUME SessionInv, NEW c \in Sockets,
           \/ RegisterConnection(c) \/ WorkerStarts(c) \/ PingReturns(c)
           \/ PingTimesOut(c) \/ GetTimesOut(c) \/ SendReturns(c) \/ SendTimesOut(c)
           \/ CallRaises(c) \/ CloseEnds(c)
    PROVE  /\ SessionInv' /\ published' = published
           /\ \A x \in Sockets : /\ queue'[x] \in {queue[x], <<>>}
                                 /\ inHand'[x] \in {inHand[x], 0}
<1> USE ClientsAssumption, PublishedAssumption, QueueAssumption
<1>0. /\ queue \in [Sockets -> Seq(1..MaxPublished)] /\ <<>> \in Seq(1..MaxPublished)
      /\ Len(<<>>) = 0
      /\ \A x \in Sockets : Len(queue[x]) \in Nat /\ Len(queue[x]) <= QueueSize
      /\ inHand \in [Sockets -> 0..MaxPublished]
      /\ worker \in [Sockets -> Phase]
      /\ sessions \subseteq Sockets /\ published \in 0..MaxPublished
  BY EmptySeq, LenProperties DEF SessionInv, SessionTypeOK
<1>1. /\ published' = published
      /\ queue' \in [Sockets -> Seq(1..MaxPublished)]
      /\ \A x \in Sockets : queue'[x] \in {queue[x], <<>>}
      /\ inHand' \in [Sockets -> 0..MaxPublished]
      /\ \A x \in Sockets : inHand'[x] \in {inHand[x], 0}
      /\ worker' \in [Sockets -> Phase]
      /\ sessions' \subseteq Sockets
      /\ WorkersOwn'
  <2> USE <1>0 DEF SessionInv, WorkersOwn, Phase
  <2>1. CASE RegisterConnection(c)
    BY <2>1 DEF RegisterConnection
  <2>2. CASE WorkerStarts(c) \/ PingReturns(c) \/ PingTimesOut(c) \/ GetTimesOut(c)
    BY <2>2 DEF WorkerStarts, PingReturns, PingTimesOut, GetTimesOut, Goes
  <2>3. CASE SendReturns(c) \/ SendTimesOut(c)
    <3>1. \E w \in {"get", "ping"} :
              /\ worker[c] = "send" /\ worker' = [worker EXCEPT ![c] = w]
              /\ inHand' = [inHand EXCEPT ![c] = 0]
              /\ UNCHANGED <<published, sessions, queue>>
      BY <2>3 DEF SendReturns, SendTimesOut, Goes
    <3> QED BY <3>1
  <2>4. CASE CallRaises(c) \/ CloseEnds(c)
    <3>1. /\ worker' = [worker EXCEPT ![c] = "done"]
          /\ sessions' = sessions \ {c}
          /\ queue' = [queue EXCEPT ![c] = <<>>]
          /\ inHand' = [inHand EXCEPT ![c] = 0]
          /\ published' = published
      BY <2>4 DEF CallRaises, CloseEnds, Ends, Goes, Without
    <3>2. /\ queue'[c] = <<>> /\ inHand'[c] = 0 /\ worker'[c] = "done"
          /\ \A x \in Sockets \ {c} : /\ queue'[x] = queue[x] /\ inHand'[x] = inHand[x]
                                      /\ worker'[x] = worker[x]
      BY <3>1
    <3>3. WorkersOwn'
      BY <3>1, <3>2
    <3> QED BY <3>1, <3>2, <3>3
  <2> QED BY <2>1, <2>2, <2>3, <2>4
<1>2. SessionTypeOK'
  <2>1. \A x \in Sockets : Len(queue'[x]) <= QueueSize
    <3>1. ASSUME NEW x \in Sockets PROVE Len(queue'[x]) <= QueueSize
      <4>1. CASE queue'[x] = queue[x]
        BY <1>0, <4>1
      <4>2. CASE queue'[x] = <<>>
        BY <1>0, <4>2
      <4> QED BY <1>1, <4>1, <4>2
    <3> QED BY <3>1
  <2> QED BY <1>0, <1>1, <2>1 DEF SessionTypeOK
<1>3. WorkersOwn'
  BY <1>1
<1>4. QueueIsLatest'
  <2> SUFFICES ASSUME NEW x \in sessions', NEW i \in DOMAIN queue'[x]
               PROVE  queue'[x][i] = published' - Len(queue'[x]) + i
    BY DEF QueueIsLatest
  <2>1. x \in Sockets
    BY <1>2 DEF SessionTypeOK
  <2>2. queue'[x] = queue[x] /\ queue[x] # <<>>
    BY <1>1, <2>1, EmptySeq
  <2>3. x \in sessions
    BY <2>1, <2>2 DEF SessionInv, WorkersOwn
  <2> QED BY <1>1, <2>2, <2>3 DEF SessionInv, QueueIsLatest
<1>5. HandBeforeQueue'
  <2> SUFFICES ASSUME NEW x \in Sockets
               PROVE  inHand'[x] + Len(queue'[x]) <= published'
    BY DEF HandBeforeQueue
  <2>1. /\ inHand[x] \in Nat /\ Len(queue[x]) \in Nat
        /\ inHand[x] + Len(queue[x]) <= published
        /\ published \in Nat
    BY <1>0 DEF SessionInv, HandBeforeQueue
  <2>2. Len(queue'[x]) \in {Len(queue[x]), 0}
    BY <1>0, <1>1
  <2>3. inHand'[x] \in {inHand[x], 0}
    BY <1>1
  <2> QED BY <1>1, <2>1, <2>2, <2>3
<1> QED BY <1>1, <1>2, <1>3, <1>4, <1>5 DEF SessionInv

\* A worker takes the oldest payload of its queue.
LEMMA TakeKeeps ==
    ASSUME SessionInv, NEW c \in Sockets, TakePayload(c)
    PROVE  /\ SessionInv' /\ published' = published
           /\ \A x \in Sockets \ {c} : queue'[x] = queue[x] /\ inHand'[x] = inHand[x]
           /\ Len(queue'[c]) = Len(queue[c]) - 1
           /\ inHand'[c] = published - Len(queue'[c])
<1> USE ClientsAssumption, PublishedAssumption, QueueAssumption
<1>1. /\ published' = published /\ sessions' = sessions
      /\ queue' = [queue EXCEPT ![c] = Tail(queue[c])]
      /\ inHand' = [inHand EXCEPT ![c] = Head(queue[c])]
      /\ worker' = [worker EXCEPT ![c] = "send"]
      /\ worker[c] = "get" /\ queue[c] # <<>>
  BY DEF TakePayload, Goes
<1>2. c \in sessions
  BY <1>1 DEF SessionInv, WorkersOwn
<1>3. /\ queue[c] \in Seq(1..MaxPublished) /\ Len(queue[c]) \in Nat \ {0}
      /\ Len(queue[c]) <= QueueSize
      /\ published \in Nat
      /\ Consecutive(queue[c], published)
  <2>1. queue[c] \in Seq(1..MaxPublished) /\ Len(queue[c]) <= QueueSize /\ published \in Nat
    BY DEF SessionInv, SessionTypeOK
  <2>2. Len(queue[c]) \in Nat \ {0}
    BY <1>1, <2>1, EmptySeq
  <2>3. Consecutive(queue[c], published)
    BY <1>2, LatestIsConsecutive DEF SessionInv
  <2> QED BY <2>1, <2>2, <2>3
<1>4. /\ Head(queue[c]) \in 1..MaxPublished /\ Head(queue[c]) = queue[c][1]
      /\ Tail(queue[c]) \in Seq(1..MaxPublished)
      /\ Len(Tail(queue[c])) = Len(queue[c]) - 1
  <2>1. Head(queue[c]) = queue[c][1]
    BY <1>1, <1>3
  <2> QED BY <1>1, <1>3, <2>1, HeadTailProperties
<1>5. Consecutive(Tail(queue[c]), published)
  BY <1>1, <1>3, TailConsecutive
<1>6. queue'[c] = Tail(queue[c]) /\ inHand'[c] = Head(queue[c])
  BY <1>1 DEF SessionInv, SessionTypeOK
<1>7. \A x \in Sockets \ {c} : queue'[x] = queue[x] /\ inHand'[x] = inHand[x]
  BY <1>1 DEF SessionInv, SessionTypeOK
<1>8. Head(queue[c]) = published - Len(Tail(queue[c]))
  <2>1. queue[c][1] = published - Len(queue[c]) + 1
    <3>1. \A n \in Nat \ {0} : 1 \in 1..n
      OBVIOUS
    <3>2. 1 \in 1..Len(queue[c])
      BY <1>3, <3>1
    <3>3. \A i \in 1..Len(queue[c]) : queue[c][i] = published - Len(queue[c]) + i
      BY <1>3 DEF Consecutive
    <3> QED BY <3>2, <3>3
  <2>2. /\ Len(queue[c]) \in Nat /\ published \in Nat
        /\ Len(Tail(queue[c])) = Len(queue[c]) - 1 /\ Head(queue[c]) = queue[c][1]
    BY <1>3, <1>4
  <2>3. \A n, p \in Nat : p - n + 1 = p - (n - 1)
    OBVIOUS
  <2> QED BY <2>1, <2>2, <2>3
<1>9. SessionTypeOK'
  BY <1>1, <1>3, <1>4 DEF SessionInv, SessionTypeOK, Phase
<1>10. WorkersOwn'
  BY <1>1, <1>2, <1>4 DEF SessionInv, SessionTypeOK, WorkersOwn
<1>11. QueueIsLatest'
  <2>1. sessions \subseteq Sockets /\ \A x \in sessions : Consecutive(queue[x], published)
    BY LatestIsConsecutive DEF SessionInv, SessionTypeOK
  <2>2. \A x \in sessions' : Consecutive(queue'[x], published')
    BY <1>1, <1>5, <1>6, <1>7, <2>1
  <2>3. \A x \in sessions' : DOMAIN queue'[x] = 1..Len(queue'[x])
    BY <1>9, LenProperties DEF SessionTypeOK
  <2> QED BY <2>2, <2>3 DEF QueueIsLatest, Consecutive
<1>12. HandBeforeQueue'
  <2>1. inHand'[c] + Len(queue'[c]) <= published'
    <3>1. published \in Nat /\ Len(queue[c]) \in Nat
      BY <1>3
    <3>2. /\ inHand'[c] = published - (Len(queue[c]) - 1)
          /\ Len(queue'[c]) = Len(queue[c]) - 1
      BY <1>4, <1>6, <1>8
    <3>3. \A n, p \in Nat : p - (n - 1) + (n - 1) <= p
      OBVIOUS
    <3> QED BY <1>1, <3>1, <3>2, <3>3
  <2>2. ASSUME NEW x \in Sockets \ {c}
        PROVE  inHand'[x] + Len(queue'[x]) <= published'
    BY <1>1, <1>7 DEF SessionInv, HandBeforeQueue
  <2> QED BY <2>1, <2>2 DEF HandBeforeQueue
<1> QED BY <1>1, <1>3, <1>4, <1>6, <1>7, <1>8, <1>9, <1>10, <1>11, <1>12 DEF SessionInv
-----------------------------------------------------------------------------
(***************************************************************************)
(* The client.                                                             *)
(***************************************************************************)

\* Closing a socket opens none, and leaves those alone that are not live.
LEMMA ClosingCloses ==
    ASSUME NEW S \in [Sockets -> Live \cup {"unused", "closing", "closed"}], NEW s
    PROVE  /\ Closing(S, s) \in [Sockets -> Live \cup {"unused", "closing", "closed"}]
           /\ \A x \in Sockets : Closing(S, s)[x] = S[x] \/ Closing(S, s)[x] = "closing"
           /\ \A x \in Sockets : Closing(S, s)[x] \in Live => S[x] \in Live /\ x # s
BY DEF Closing, Live

\* connect() leaves one live socket, the one it refers to.
LEMMA ConnectLeavesOne ==
    ASSUME NEW S \in [Sockets -> Live \cup {"unused", "closing", "closed"}],
           NEW A \in SUBSET Timers, NEW s \in Sockets,
           \A x \in Sockets : S[x] \in Live => x = current,
           Connect(s, S, A)
    PROVE  /\ socket' \in [Sockets -> Live \cup {"unused", "closing", "closed"}]
           /\ current' = s /\ timerRef' = NoTimer /\ armed' \subseteq Timers
           /\ socket'[s] = "connecting"
           /\ \A x \in Sockets \ {s} : socket'[x] \notin Live
<1> DEFINE R == Closing(S, current)
<1>1. socket' = [R EXCEPT ![s] = "connecting"]
  BY DEF Connect, Replaced
<1>2. /\ R \in [Sockets -> Live \cup {"unused", "closing", "closed"}]
      /\ \A x \in Sockets : R[x] \notin Live
  BY ClosingCloses
<1> QED BY <1>1, <1>2 DEF Connect, Live

\* The steps of the client alone.
LEMMA ClientKeeps ==
    ASSUME ClientInv, ClientStep
    PROVE  /\ ClientInv' /\ latest' = latest
           /\ \A s \in Sockets : socket'[s] = "open" => socket[s] = "open"
<1> USE EffectAssumption
<1>0. /\ socket \in [Sockets -> Live \cup {"unused", "closing", "closed"}]
      /\ armed \in SUBSET Timers
      /\ \A x \in Sockets : socket[x] \in Live => x = current
  BY DEF ClientInv, ClientTypeOK, LiveIsCurrent
<1>1. ASSUME NEW s \in Sockets, Mount(s) \/ ChangeUrl(s) \/ (\E t \in Timers : TimerFires(t, s))
      PROVE  /\ ClientInv' /\ latest' = latest
             /\ \A x \in Sockets : socket'[x] = "open" => socket[x] = "open"
  <2>1. /\ socket' \in [Sockets -> Live \cup {"unused", "closing", "closed"}]
        /\ current' = s /\ timerRef' = NoTimer /\ armed' \subseteq Timers
        /\ socket'[s] = "connecting"
        /\ \A x \in Sockets \ {s} : socket'[x] \notin Live
    <3>1. CASE Mount(s)
      BY <1>0, <3>1, ConnectLeavesOne DEF Mount
    <3>2. CASE ChangeUrl(s)
      <4> DEFINE C == Closing(socket, first)
      <4>1. /\ C \in [Sockets -> Live \cup {"unused", "closing", "closed"}]
            /\ \A x \in Sockets : C[x] \in Live => x = current
        BY <1>0, ClosingCloses
      <4>2. Connect(s, C, armed \ {timerRef}) /\ armed \ {timerRef} \in SUBSET Timers
        BY <1>0, <3>2 DEF ChangeUrl
      <4> HIDE DEF C
      <4> QED BY <4>1, <4>2, ConnectLeavesOne
    <3>3. ASSUME NEW t \in Timers, TimerFires(t, s)
          PROVE  /\ socket' \in [Sockets -> Live \cup {"unused", "closing", "closed"}]
                 /\ current' = s /\ timerRef' = NoTimer /\ armed' \subseteq Timers
                 /\ socket'[s] = "connecting"
                 /\ \A x \in Sockets \ {s} : socket'[x] \notin Live
      <4>1. Connect(s, socket, armed \ {t}) /\ armed \ {t} \in SUBSET Timers
        BY <1>0, <3>3 DEF TimerFires
      <4> QED BY <1>0, <4>1, ConnectLeavesOne
    <3> QED BY <1>1, <3>1, <3>2, <3>3
  <2>2. /\ mounted' \in BOOLEAN /\ effect' \in 0..MaxEffects
        /\ first' \in Sockets \cup {NoSocket}
        /\ latest' = latest /\ pending' \in Nat /\ throttleRef' \in BOOLEAN
        /\ throttleArmed' \in BOOLEAN /\ shown' \in Nat
    <3> USE DEF ClientInv, ClientTypeOK, dataVars
    <3>1. CASE Mount(s)
      BY <3>1 DEF Mount
    <3>2. CASE ChangeUrl(s)
      <4>1. effect \in 0..MaxEffects /\ effect < MaxEffects /\ effect' = effect + 1
        BY <3>2 DEF ChangeUrl
      <4>2. effect' \in 0..MaxEffects
        BY <4>1
      <4> QED BY <3>2, <4>2 DEF ChangeUrl, StopThrottle
    <3>3. CASE \E t \in Timers : TimerFires(t, s)
      BY <3>3 DEF TimerFires
    <3> QED BY <1>1, <3>1, <3>2, <3>3
  <2>3. ClientTypeOK'
    BY <2>1, <2>2 DEF ClientInv, ClientTypeOK
  <2>4. LiveIsCurrent' /\ NeverStranded'
    BY <2>1 DEF LiveIsCurrent, NeverStranded, Live
  <2> QED BY <2>1, <2>2, <2>3, <2>4 DEF ClientInv, Live
<1>2. CASE Unmount
  <2>1. /\ mounted' = FALSE /\ socket' = Closing(socket, first)
        /\ armed' \subseteq Timers
        /\ UNCHANGED <<effect, first, current, timerRef, latest, pending, throttleRef, shown>>
        /\ throttleArmed' = FALSE
    BY <1>0, <1>2 DEF Unmount, StopThrottle
  <2>2. ClientTypeOK'
    BY <1>0, <2>1, ClosingCloses DEF ClientInv, ClientTypeOK
  <2> QED BY <1>0, <2>1, <2>2, ClosingCloses DEF ClientInv, LiveIsCurrent, NeverStranded, Live
<1>3. ASSUME NEW s \in Sockets, Breaks(s)
      PROVE  /\ ClientInv' /\ latest' = latest
             /\ \A x \in Sockets : socket'[x] = "open" => socket[x] = "open"
  <2>1. /\ socket' = Closing(socket, s) /\ socket[s] \in Live
        /\ UNCHANGED <<mounted, effect, first, current, timerRef, armed>>
        /\ UNCHANGED dataVars
    BY <1>3 DEF Breaks
  <2>2. ClientTypeOK'
    BY <1>0, <2>1, ClosingCloses DEF ClientInv, ClientTypeOK, dataVars
  <2>3. socket'[s] = "closing"
    BY <2>1 DEF Closing
  <2> QED BY <1>0, <2>1, <2>2, <2>3, ClosingCloses
          DEF ClientInv, LiveIsCurrent, NeverStranded, dataVars, Live
<1>4. ASSUME NEW s \in Sockets, OnClose(s)
      PROVE  /\ ClientInv' /\ latest' = latest
             /\ \A x \in Sockets : socket'[x] = "open" => socket[x] = "open"
  <2>1. /\ socket[s] = "closing" /\ socket' = [socket EXCEPT ![s] = "closed"]
        /\ current' = IF current = s THEN NoSocket ELSE current
        /\ timerRef' \in Timers /\ armed' \subseteq Timers /\ armed' # {}
        /\ UNCHANGED <<mounted, effect, first>> /\ UNCHANGED dataVars
    BY <1>0, <1>4 DEF OnClose, Reconnect
  <2>2. ClientTypeOK'
    BY <2>1 DEF ClientInv, ClientTypeOK, dataVars
  <2> QED BY <1>0, <2>1, <2>2 DEF ClientInv, LiveIsCurrent, NeverStranded, dataVars, Live
<1>5. CASE ThrottleFires
  BY <1>5 DEF ClientInv, ClientTypeOK, LiveIsCurrent, NeverStranded, ThrottleFires,
     RefAfterFiring, socketVars
<1> QED BY <1>1, <1>2, <1>3, <1>4, <1>5 DEF ClientStep

\* A connection that is accepted, and a payload that arrives.
LEMMA ArrivalKeeps ==
    ASSUME ClientInv, NEW s \in Sockets, NEW n \in Nat, Opened(s) \/ Message(s, n)
    PROVE  ClientInv'
<1>1. CASE Opened(s)
  BY <1>1 DEF Opened, ClientInv, ClientTypeOK, LiveIsCurrent, NeverStranded, Live, dataVars
<1>2. CASE Message(s, n)
  BY <1>2 DEF Message, ClientInv, ClientTypeOK, LiveIsCurrent, NeverStranded, socketVars
<1> QED BY <1>1, <1>2
-----------------------------------------------------------------------------
(***************************************************************************)
(* Both ends.                                                              *)
(***************************************************************************)

\* Numbers the two ends' types give.
LEMMA Numbers ==
    ASSUME IInv, NEW s \in Sockets
    PROVE  /\ latest \in Nat /\ published \in Nat
           /\ Len(queue[s]) \in Nat /\ inHand[s] \in Nat
BY ClientsAssumption, PublishedAssumption, LenProperties
   DEF IInv, ClientInv, ClientTypeOK, SessionInv, SessionTypeOK

\* While the store keeps its payload and the sockets that were open, a worker's queue
\* and hand may only lose something.
LEMMA OlderStays ==
    ASSUME IInv, latest' = latest, published' = published,
           \A x \in Sockets : socket'[x] = "open" => socket[x] = "open",
           \A x \in Sockets : /\ queue'[x] \in {queue[x], <<>>}
                              /\ inHand'[x] \in {inHand[x], 0}
    PROVE  NothingOlderComes'
<1>1. latest' <= published'
  BY DEF IInv, NothingOlderComes
<1>2. ASSUME NEW x \in Sockets, socket'[x] = "open"
      PROVE  /\ latest' + Len(queue'[x]) <= published'
             /\ inHand'[x] # 0 => latest' <= inHand'[x]
  <2>1. /\ latest + Len(queue[x]) <= published /\ latest <= published
        /\ inHand[x] # 0 => latest <= inHand[x]
    BY <1>2 DEF IInv, NothingOlderComes
  <2>2. Len(queue'[x]) \in {Len(queue[x]), 0}
    BY EmptySeq
  <2>3. latest \in Nat /\ published \in Nat /\ Len(queue[x]) \in Nat
    BY Numbers
  <2>4. inHand'[x] # 0 => latest' <= inHand'[x]
    BY <2>1
  <2> QED BY <2>1, <2>2, <2>3, <2>4
<1> QED BY <1>1, <1>2 DEF NothingOlderComes

\* Every step of the dashboard keeps the invariant.
LEMMA StepKeeps == IInv /\ [Next]_vars => IInv' /\ (latest' >= latest)
<1> SUFFICES ASSUME IInv, [Next]_vars PROVE IInv' /\ latest' >= latest
  OBVIOUS
<1>0. ClientInv /\ SessionInv /\ NothingOlderComes /\ latest \in Nat
  BY DEF IInv, ClientInv, ClientTypeOK
<1>1. CASE ClientStep
  <2>1. /\ ClientInv' /\ latest' = latest
        /\ \A s \in Sockets : socket'[s] = "open" => socket[s] = "open"
    BY <1>0, <1>1, ClientKeeps
  <2>2. SessionInv' /\ published' = published /\ queue' = queue /\ inHand' = inHand
    BY <1>0, <1>1 DEF ClientStep, SessionInv, sessionVars, SessionTypeOK, WorkersOwn, QueueIsLatest,
       HandBeforeQueue
  <2>3. NothingOlderComes'
    BY <2>1, <2>2, OlderStays
  <2> QED BY <1>0, <2>1, <2>2, <2>3 DEF IInv
<1>2. CASE Broadcast
  <2>1. /\ SessionInv' /\ published' = published + 1 /\ inHand' = inHand
        /\ \A c \in Sockets : Len(queue'[c]) <= Len(queue[c]) + 1
    BY <1>0, <1>2, BroadcastKeeps DEF Broadcast
  <2>2. ClientInv' /\ latest' = latest /\ socket' = socket
    BY <1>0, <1>2 DEF Broadcast, clientVars, ClientInv, ClientTypeOK, LiveIsCurrent,
       NeverStranded
  <2>3. published \in Nat /\ latest <= published
    BY <1>0, PublishedAssumption DEF SessionInv, SessionTypeOK, NothingOlderComes
  <2>4. ASSUME NEW x \in Sockets, socket'[x] = "open"
        PROVE  /\ latest' + Len(queue'[x]) <= published'
               /\ inHand'[x] # 0 => latest' <= inHand'[x]
    <3>1. /\ latest + Len(queue[x]) <= published
          /\ inHand[x] # 0 => latest <= inHand[x]
      BY <1>0, <2>2, <2>4 DEF NothingOlderComes
    <3>2. Len(queue[x]) \in Nat /\ Len(queue'[x]) \in Nat
      BY <1>0, <2>1, ClientsAssumption, LenProperties DEF SessionInv, SessionTypeOK
    <3>3. Len(queue'[x]) <= Len(queue[x]) + 1
      BY <2>1
    <3> QED BY <1>0, <2>1, <2>2, <2>3, <3>1, <3>2, <3>3
  <2>5. latest' <= published'
    BY <1>0, <2>1, <2>2, <2>3
  <2> QED BY <1>0, <2>1, <2>2, <2>4, <2>5 DEF IInv, NothingOlderComes
<1>3. ASSUME NEW s \in Sockets, Accept(s)
      PROVE  IInv' /\ latest' >= latest
  <2>1. /\ SessionInv' /\ published' = published
        /\ \A x \in Sockets : /\ queue'[x] \in {queue[x], <<>>}
                              /\ inHand'[x] \in {inHand[x], 0}
    BY <1>0, <1>3, QuietSession DEF Accept
  <2>2. ClientInv' /\ latest' = latest
    <3>1. CASE Opened(s)
      BY <1>0, <3>1, ArrivalKeeps DEF Opened, dataVars
    <3>2. CASE UNCHANGED clientVars
      BY <1>0, <3>2 DEF clientVars, ClientInv, ClientTypeOK, LiveIsCurrent, NeverStranded
    <3> QED BY <1>3, <3>1, <3>2 DEF Accept
  <2>3. queue'[s] = <<>> /\ inHand'[s] = 0
    BY <1>0, <1>3, ClientsAssumption
    DEF Accept, RegisterConnection, SessionInv, SessionTypeOK, WorkersOwn
  <2>4. \A x \in Sockets \ {s} : socket'[x] = socket[x]
    BY <1>0, <1>3 DEF Accept, Opened, clientVars, ClientInv, ClientTypeOK
  <2>5. NothingOlderComes'
    <3>1. ASSUME NEW x \in Sockets, socket'[x] = "open"
          PROVE  /\ latest' + Len(queue'[x]) <= published'
                 /\ inHand'[x] # 0 => latest' <= inHand'[x]
      <4>1. CASE x = s
        <5>1. Len(queue'[x]) = 0 /\ inHand'[x] = 0
          BY <2>3, <4>1
        <5> QED BY <1>0, <2>1, <2>2, <5>1 DEF NothingOlderComes
      <4>2. CASE x # s
        <5>1. /\ latest + Len(queue[x]) <= published /\ latest <= published
              /\ inHand[x] # 0 => latest <= inHand[x]
          BY <1>0, <2>4, <3>1, <4>2 DEF NothingOlderComes
        <5>2. Len(queue'[x]) \in {Len(queue[x]), 0}
          BY <2>1, EmptySeq
        <5>3. latest \in Nat /\ published \in Nat /\ Len(queue[x]) \in Nat
          BY Numbers
        <5>4. inHand'[x] # 0 => latest' <= inHand'[x]
          BY <2>1, <2>2, <5>1
        <5> QED BY <2>1, <2>2, <5>1, <5>2, <5>3, <5>4
      <4> QED BY <4>1, <4>2
    <3> QED BY <1>0, <2>1, <2>2, <3>1 DEF NothingOlderComes
  <2> QED BY <1>0, <2>1, <2>2, <2>5 DEF IInv
<1>4. ASSUME NEW s \in Sockets, Delivered(s)
      PROVE  IInv' /\ latest' >= latest
  <2>1. /\ SessionInv' /\ published' = published
        /\ \A x \in Sockets : /\ queue'[x] \in {queue[x], <<>>}
                              /\ inHand'[x] \in {inHand[x], 0}
    BY <1>0, <1>4, QuietSession DEF Delivered
  <2>2. CASE Message(s, inHand[s])
    <3>1. /\ latest' = inHand[s] /\ socket' = socket /\ current' = current
          /\ socket[s] = "open"
      BY <2>2 DEF Message, socketVars
    <3>2. inHand[s] # 0 /\ inHand'[s] = 0 /\ queue' = queue
      BY <1>0, <1>4, ClientsAssumption
      DEF Delivered, SendReturns, Goes, SessionInv, SessionTypeOK, WorkersOwn
    <3>3. /\ inHand[s] \in Nat /\ Len(queue[s]) \in Nat /\ published \in Nat
          /\ inHand[s] + Len(queue[s]) <= published
      BY <1>0, Numbers DEF SessionInv, HandBeforeQueue
    <3>4. latest <= inHand[s]
      BY <1>0, <3>1, <3>2 DEF NothingOlderComes
    <3>5. ClientInv'
      BY <1>0, <2>2, <3>3, ArrivalKeeps
    <3>6. \A x \in Sockets : socket'[x] = "open" => x = s
      BY <1>0, <3>1 DEF ClientInv, LiveIsCurrent, Live
    <3>7. NothingOlderComes'
      BY <2>1, <3>1, <3>2, <3>3, <3>6 DEF NothingOlderComes
    <3> QED BY <1>0, <2>1, <3>1, <3>3, <3>4, <3>5, <3>7 DEF IInv
  <2>3. CASE UNCHANGED clientVars
    <3>1. ClientInv' /\ latest' = latest /\ socket' = socket
      BY <1>0, <2>3 DEF clientVars, ClientInv, ClientTypeOK, LiveIsCurrent, NeverStranded
    <3>2. NothingOlderComes'
      BY <2>1, <3>1, OlderStays
    <3> QED BY <1>0, <2>1, <3>1, <3>2 DEF IInv
  <2> QED BY <1>4, <2>2, <2>3 DEF Delivered
<1>5. ASSUME NEW s \in Sockets, TakePayload(s), UNCHANGED clientVars
      PROVE  IInv' /\ latest' >= latest
  <2>1. /\ SessionInv' /\ published' = published
        /\ \A x \in Sockets \ {s} : queue'[x] = queue[x] /\ inHand'[x] = inHand[x]
        /\ Len(queue'[s]) = Len(queue[s]) - 1
        /\ inHand'[s] = published - Len(queue'[s])
    BY <1>0, <1>5, TakeKeeps
  <2>2. ClientInv' /\ latest' = latest /\ socket' = socket
    BY <1>0, <1>5 DEF clientVars, ClientInv, ClientTypeOK, LiveIsCurrent, NeverStranded
  <2>3. ASSUME NEW x \in Sockets, socket'[x] = "open"
        PROVE  /\ latest' + Len(queue'[x]) <= published'
               /\ inHand'[x] # 0 => latest' <= inHand'[x]
    <3>1. /\ latest + Len(queue[x]) <= published
          /\ inHand[x] # 0 => latest <= inHand[x]
      BY <1>0, <2>2, <2>3 DEF NothingOlderComes
    <3>2. latest \in Nat /\ published \in Nat /\ Len(queue[x]) \in Nat
      BY Numbers
    <3>3. CASE x = s
      <4>1. \A l, n, p \in Nat : l + n <= p => l + (n - 1) <= p /\ l <= p - (n - 1)
        OBVIOUS
      <4> QED BY <2>1, <2>2, <3>1, <3>2, <3>3, <4>1
    <3>4. CASE x # s
      BY <2>1, <2>2, <3>1, <3>4
    <3> QED BY <3>3, <3>4
  <2> QED BY <1>0, <2>1, <2>2, <2>3 DEF IInv, NothingOlderComes
<1>6. ASSUME NEW s \in Sockets,
             \/ PingAnswered(s)
             \/ (CallFails(s) \/ WorkerStarts(s) \/ GetTimesOut(s)) /\ UNCHANGED clientVars
      PROVE  IInv' /\ latest' >= latest
  <2>1. /\ SessionInv' /\ published' = published
        /\ \A x \in Sockets : /\ queue'[x] \in {queue[x], <<>>}
                              /\ inHand'[x] \in {inHand[x], 0}
    BY <1>0, <1>6, QuietSession DEF PingAnswered, CallFails
  <2>2. UNCHANGED clientVars
    BY <1>6 DEF PingAnswered
  <2>3. ClientInv' /\ latest' = latest /\ socket' = socket
    BY <1>0, <2>2 DEF clientVars, ClientInv, ClientTypeOK, LiveIsCurrent, NeverStranded
  <2>4. NothingOlderComes'
    BY <2>1, <2>3, OlderStays
  <2> QED BY <1>0, <2>1, <2>3, <2>4 DEF IInv
<1>7. ASSUME NEW s \in Sockets, Forget(s)
      PROVE  IInv' /\ latest' >= latest
  <2>1. /\ socket[s] = "closed" /\ socket' = [socket EXCEPT ![s] = "unused"]
        /\ first' \in {first, NoSocket}
        /\ UNCHANGED <<mounted, effect, current, timerRef, armed, dataVars>>
        /\ worker[s] \in {"none", "done"} /\ worker' = [worker EXCEPT ![s] = "none"]
        /\ UNCHANGED <<published, sessions, queue, inHand>>
    BY <1>7 DEF Forget
  <2>2. ClientInv'
    BY <1>0, <2>1 DEF ClientInv, ClientTypeOK, LiveIsCurrent, NeverStranded, dataVars, Live
  <2>3. SessionInv'
    BY <1>0, <2>1, ClientsAssumption
    DEF SessionInv, SessionTypeOK, WorkersOwn, QueueIsLatest, HandBeforeQueue, Phase
  <2>4. latest' = latest /\ \A x \in Sockets : socket'[x] = "open" => socket[x] = "open"
    BY <1>0, <2>1 DEF dataVars, ClientInv, ClientTypeOK
  <2>5. NothingOlderComes'
    BY <2>1, <2>4, OlderStays
  <2> QED BY <1>0, <2>2, <2>3, <2>4, <2>5 DEF IInv
<1>8. CASE UNCHANGED vars
  <2>1. UNCHANGED clientVars /\ UNCHANGED sessionVars
    BY <1>8 DEF vars
  <2> QED BY <1>0, <2>1 DEF clientVars, sessionVars, IInv, ClientInv, ClientTypeOK,
      LiveIsCurrent, NeverStranded, SessionInv, SessionTypeOK, WorkersOwn, QueueIsLatest,
      HandBeforeQueue, NothingOlderComes
<1> QED
  <2>1. ASSUME NEW s \in Sockets, WorkerGoesOn(s), UNCHANGED clientVars
        PROVE  IInv' /\ latest' >= latest
    BY <1>5, <1>6, <2>1 DEF WorkerGoesOn
  <2> QED BY <1>1, <1>2, <1>3, <1>4, <1>6, <1>7, <1>8, <2>1 DEF Next

\* The invariant holds when nothing is mounted and nobody is connected.
LEMMA InitInv == Init => IInv
<1> SUFFICES ASSUME Init PROVE IInv
  OBVIOUS
<1> USE ClientsAssumption, PublishedAssumption, QueueAssumption, EffectAssumption
<1>1. ClientInv
  <2>1. ClientTypeOK
    <3>1. effect = 0 /\ 0 \in 0..MaxEffects
      BY DEF Init, ClientInit
    <3>2. socket \in [Sockets -> Live \cup {"unused", "closing", "closed"}]
      BY DEF Init, ClientInit
    <3>3. /\ first \in Sockets \cup {NoSocket} /\ current \in Sockets \cup {NoSocket}
          /\ timerRef \in Timers \cup {NoTimer} /\ armed \subseteq Timers
      BY DEF Init, ClientInit
    <3>4. /\ latest \in Nat /\ pending \in Nat /\ shown \in Nat
          /\ throttleRef \in BOOLEAN /\ throttleArmed \in BOOLEAN
      BY DEF Init, ClientInit
    <3>5. mounted \in BOOLEAN
      BY DEF Init, ClientInit
    <3> QED BY <3>1, <3>2, <3>3, <3>4, <3>5 DEF ClientTypeOK
  <2>2. LiveIsCurrent /\ NeverStranded
    BY DEF Init, ClientInit, LiveIsCurrent, NeverStranded, Live
  <2> QED BY <2>1, <2>2 DEF ClientInv
<1>2. <<>> \in Seq(1..MaxPublished) /\ Len(<<>>) = 0
  BY EmptySeq
<1>3. SessionInv
  BY <1>2 DEF Init, SessionInit, SessionInv, SessionTypeOK, WorkersOwn, QueueIsLatest,
     HandBeforeQueue, Phase
<1>4. NothingOlderComes
  BY DEF Init, ClientInit, SessionInit, NothingOlderComes
<1> QED BY <1>1, <1>3, <1>4 DEF IInv

\* Every state of the dashboard is well formed.
THEOREM TypeCorrect == Spec => []TypeOK
<1>1. IInv => TypeOK
  BY DEF IInv, ClientInv, SessionInv, TypeOK
<1> QED BY <1>1, InitInv, StepKeeps, PTL DEF Spec

\* Only the socket the hook refers to can deliver anything.
THEOREM OneLiveSocket == Spec => []LiveIsCurrent
<1>1. IInv => LiveIsCurrent
  BY DEF IInv, ClientInv
<1> QED BY <1>1, InitInv, StepKeeps, PTL DEF Spec

\* A mounted dashboard has a socket, a close event to come or a timer.
THEOREM Recovers == Spec => []NeverStranded
<1>1. IInv => NeverStranded
  BY DEF IInv, ClientInv
<1> QED BY <1>1, InitInv, StepKeeps, PTL DEF Spec

\* A session's queue holds the newest payloads, whatever its size.
THEOREM DropsOldest == Spec => []QueueIsLatest
<1>1. IInv => QueueIsLatest
  BY DEF IInv, SessionInv
<1> QED BY <1>1, InitInv, StepKeeps, PTL DEF Spec

\* The dashboard never goes back to an older payload.
THEOREM NeverStepsBack == Spec => NoStepBack
<1>1. IInv /\ [Next]_vars => [latest' >= latest]_vars
  BY StepKeeps
<1> QED BY <1>1, InitInv, StepKeeps, PTL DEF Spec, NoStepBack
=============================================================================
