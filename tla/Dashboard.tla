----------------------------- MODULE Dashboard -----------------------------
(***************************************************************************)
(* The dashboard end to end: the client's sockets (DashboardClient) are    *)
(* the connections the broadcaster serves (SocketSessions).  The network   *)
(* between them keeps the order of the payloads of one connection and may  *)
(* break at any moment; the two ends learn of it separately.               *)
(***************************************************************************)
EXTENDS DashboardClient, SocketSessions

ASSUME ClientsAssumption == Clients = Sockets

vars == <<clientVars, sessionVars>>

\* Every variable has the shape the two ends rely on.
TypeOK == ClientTypeOK /\ SessionTypeOK

Init == ClientInit /\ SessionInit

\* The web server accepts a connection and hands it to the broadcaster; the client
\* may have given it up meanwhile.
Accept(s) ==
    /\ RegisterConnection(s)
    /\ \/ Opened(s)
       \/ socket[s] \in {"closing", "closed"} /\ UNCHANGED clientVars

\* A payload that is sent arrives, and changes nothing if the client no longer listens or
\* cannot parse it.  The broadcaster sends bytes, which a browser hands to onmessage as a
\* Blob, and JSON.parse refuses a Blob; whether the web server in between, which is not in
\* the repository, makes a text of them is open.
Delivered(s) ==
    /\ socket[s] # "closed"
    /\ SendReturns(s)
    /\ Message(s, inHand[s]) \/ UNCHANGED clientVars

PingAnswered(s) ==
    /\ socket[s] # "closed"
    /\ PingReturns(s)
    /\ UNCHANGED clientVars

\* The steps of a worker that wait for nothing but the queue and the clock.
WorkerGoesOn(s) == WorkerStarts(s) \/ TakePayload(s) \/ GetTimesOut(s)

\* The calls that fail, on whatever connection.
CallFails(s) == PingTimesOut(s) \/ SendTimesOut(s) \/ CallRaises(s) \/ CloseEnds(s)

\* On a closed connection every call fails at once.
ClosedFails(s) == socket[s] = "closed" /\ (CallRaises(s) \/ CloseEnds(s))

\* The identity of a connection both ends have done with is used again.  The effect
\* may still refer to it, but closing a closed socket does nothing.
Forget(s) ==
    /\ socket[s] = "closed" /\ worker[s] \in {"none", "done"}
    /\ socket' = [socket EXCEPT ![s] = "unused"]
    /\ first' = IF first = s THEN NoSocket ELSE first
    /\ worker' = [worker EXCEPT ![s] = "none"]
    /\ UNCHANGED <<mounted, effect, current, timerRef, armed, dataVars>>
    /\ UNCHANGED <<published, sessions, queue, inHand>>

ClientStep ==
    /\ \/ \E s \in Sockets : Mount(s) \/ ChangeUrl(s) \/ Breaks(s) \/ OnClose(s)
       \/ Unmount
       \/ \E t \in Timers, s \in Sockets : TimerFires(t, s)
       \/ ThrottleFires
    /\ UNCHANGED sessionVars

Broadcast == BroadcastEvent /\ UNCHANGED clientVars

Next ==
    \/ ClientStep
    \/ Broadcast
    \/ \E s \in Sockets :
           \/ Accept(s) \/ Delivered(s) \/ PingAnswered(s) \/ Forget(s)
           \/ (WorkerGoesOn(s) \/ CallFails(s)) /\ UNCHANGED clientVars

\* The browser runs its timers, the event loop its workers, and a call on a closed
\* connection fails.  Nobody has to accept, answer or read.
Fairness ==
    /\ WF_clientVars(ThrottleFires)
    /\ \A s \in Sockets : WF_sessionVars(WorkerGoesOn(s) \/ ClosedFails(s))

Spec == Init /\ [][Next]_vars
FairSpec == Spec /\ Fairness
-----------------------------------------------------------------------------
\* Through breaks, reconnections, new URLs and dropped payloads, the dashboard never
\* goes back from a payload to an older one.
NoStepBack == [][latest' >= latest]_vars

\* Until the effect is cleaned up, the display never stays behind the store for good.
LatestIsShown == []<>(shown = latest \/ ~mounted \/ effect > 1)

\* The broadcaster keeps no session for good whose client has closed its connection.
ClosedSessionsEnd == \A s \in Sockets : []<>(socket[s] = "closed" => s \notin sessions)
=============================================================================
