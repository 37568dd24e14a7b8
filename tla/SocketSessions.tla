--------------------------- MODULE SocketSessions ---------------------------
(***************************************************************************)
(* WebsocketBroadcaster (interface/websocket.py): a bounded queue and a    *)
(* worker per session.  A broadcast puts its payload into every queue, at  *)
(* the price of the oldest one where the queue is full, and never waits;   *)
(* each worker pings its client and sends what its queue holds.            *)
(*                                                                         *)
(* The three dictionaries of the broadcaster gain and lose a session in    *)
(* the same step, so one set stands for them.  Payloads are numbered.      *)
(* full() and get_nowait() have no suspension between them, so the         *)
(* broadcast never finds a queue full and empty, and cleans nothing up.    *)
(***************************************************************************)
EXTENDS Naturals, Sequences

CONSTANTS Clients,       \* the connections that may become sessions
          QueueSize,     \* _QUEUE_MAXSIZE
          MaxPublished   \* bound: broadcasts

ASSUME QueueAssumption == QueueSize \in Nat \ {0}
ASSUME PublishedAssumption == MaxPublished \in Nat

VARIABLES published,  \* payloads broadcast so far
          sessions,   \* the keys of connections, active_websockets, _worker_tasks
          queue,      \* the queue of each session
          worker,     \* what its worker awaits
          inHand      \* the payload its worker is sending, 0: none

sessionVars == <<published, sessions, queue, worker, inHand>>

Phase == {"none", "created", "ping", "get", "send", "close", "done"}

SessionTypeOK ==
    /\ published \in 0..MaxPublished
    /\ sessions \subseteq Clients
    /\ queue \in [Clients -> Seq(1..MaxPublished)]
    /\ \A c \in Clients : Len(queue[c]) <= QueueSize
    /\ worker \in [Clients -> Phase]
    /\ inHand \in [Clients -> 0..MaxPublished]

SessionInit ==
    /\ published = 0
    /\ sessions = {}
    /\ queue = [c \in Clients |-> <<>>]
    /\ worker = [c \in Clients |-> "none"]
    /\ inHand = [c \in Clients |-> 0]
-----------------------------------------------------------------------------
RegisterConnection(c) ==
    /\ worker[c] = "none"
    /\ sessions' = sessions \cup {c}
    /\ worker' = [worker EXCEPT ![c] = "created"]
    /\ queue' = [queue EXCEPT ![c] = <<>>]
    /\ UNCHANGED <<published, inHand>>

\* A full queue that keeps its oldest payloads instead.
PushedIfRoom(q, p) == IF Len(q) < QueueSize THEN Append(q, p) ELSE q

\* A full queue gives up its oldest payload.
Pushed(q, p) == Append(IF Len(q) < QueueSize THEN q ELSE Tail(q), p)

BroadcastEvent ==
    /\ published < MaxPublished
    /\ published' = published + 1
    /\ queue' = [c \in Clients |-> IF c \in sessions THEN Pushed(queue[c], published')
                                                    ELSE queue[c]]
    /\ UNCHANGED <<sessions, worker, inHand>>
-----------------------------------------------------------------------------
(***************************************************************************)
(* _connection_worker, one action per stretch between suspensions.         *)
(***************************************************************************)

Goes(c, from, to) ==
    /\ worker[c] = from
    /\ worker' = [worker EXCEPT ![c] = to]

\* A clean-up that forgets the dictionaries.
WithoutNothing(c) == sessions

\* The sessions left once c is cleaned up.
Without(c) == sessions \ {c}

\* The finally clause.
Ends(c, from) ==
    /\ Goes(c, from, "done")
    /\ sessions' = Without(c)
    /\ queue' = [queue EXCEPT ![c] = <<>>]
    /\ inHand' = [inHand EXCEPT ![c] = 0]
    /\ published' = published

WorkerStarts(c) ==
    /\ Goes(c, "created", "ping")
    /\ UNCHANGED <<published, sessions, queue, inHand>>

PingReturns(c) ==
    /\ Goes(c, "ping", "get")
    /\ UNCHANGED <<published, sessions, queue, inHand>>

\* A TimeoutError out of ping(): the session is closed by force.
PingTimesOut(c) ==
    /\ Goes(c, "ping", "close")
    /\ UNCHANGED <<published, sessions, queue, inHand>>

TakePayload(c) ==
    /\ queue[c] # <<>>
    /\ Goes(c, "get", "send")
    /\ inHand' = [inHand EXCEPT ![c] = Head(queue[c])]
    /\ queue' = [queue EXCEPT ![c] = Tail(@)]
    /\ UNCHANGED <<published, sessions>>

\* Nothing arrived before the next ping is due.
GetTimesOut(c) ==
    /\ queue[c] = <<>>
    /\ Goes(c, "get", "ping")
    /\ UNCHANGED <<published, sessions, queue, inHand>>

\* The payload is out; the next one, or a ping if one is due.
SendReturns(c) ==
    /\ Goes(c, "send", "get") \/ Goes(c, "send", "ping")
    /\ inHand' = [inHand EXCEPT ![c] = 0]
    /\ UNCHANGED <<published, sessions, queue>>

\* A TimeoutError out of send_bytes() is taken for that of an empty queue: the
\* payload is gone and the session goes on.
SendTimesOut(c) ==
    /\ Goes(c, "send", "ping")
    /\ inHand' = [inHand EXCEPT ![c] = 0]
    /\ UNCHANGED <<published, sessions, queue>>

CallRaises(c) == Ends(c, "ping") \/ Ends(c, "send")

\* close() returns or raises.
CloseEnds(c) == Ends(c, "close")
-----------------------------------------------------------------------------
\* A session's queue holds the newest payloads without a gap: what a slow client
\* loses is always older than everything it will still be sent.
QueueIsLatest ==
    \A c \in sessions : \A i \in DOMAIN queue[c] :
        queue[c][i] = published - Len(queue[c]) + i
=============================================================================
