--------------------------- MODULE DashboardClient ---------------------------
(***************************************************************************)
(* The dashboard's connection, web_interface/src/hooks/useWebSocket.js: one *)
(* mounted component, the sockets its connect() has opened, the timers its *)
(* onclose handlers have armed, and the throttled hand-over of what comes  *)
(* in.                                                                     *)
(*                                                                         *)
(* JavaScript runs one handler at a time, so each is one step; the order   *)
(* of socket events and timers is open.  The length of the delays (the     *)
(* exponential backoff, the 200 ms of the throttle) is left open, and so   *)
(* is the URL a socket is opened for.                                      *)
(***************************************************************************)
EXTENDS Naturals

CONSTANTS Sockets,     \* identities of WebSocket objects
          NoSocket,    \* null
          Timers,      \* identities of reconnection timers
          NoTimer,     \* null
          MaxEffects   \* bound: mounting and changes of the URL

ASSUME SocketAssumption == NoSocket \notin Sockets
ASSUME TimerAssumption == NoTimer \notin Timers
ASSUME EffectAssumption == MaxEffects \in Nat \ {0}

VARIABLES mounted,       \* the effect is in force
          effect,        \* runs of the effect so far: mounting, new URLs
          socket,        \* readyState of each socket
          first,         \* the effect's local `ws`: the socket its clean-up closes
          current,       \* wsRef
          timerRef,      \* reconnectTimerRef
          armed,         \* the reconnection timers that are still going to fire
          latest,        \* the payload the store was given last
          pending,       \* pendingDataRef, 0: null
          throttleRef,   \* throttleTimerRef is not null
          throttleArmed, \* its timer is still going to fire
          shown          \* lastData

clientVars == <<mounted, effect, socket, first, current, timerRef, armed,
                latest, pending, throttleRef, throttleArmed, shown>>

socketVars == <<mounted, effect, socket, first, current, timerRef, armed>>
dataVars == <<latest, pending, throttleRef, throttleArmed, shown>>

Live == {"connecting", "open"}

ClientTypeOK ==
    /\ mounted \in BOOLEAN
    /\ effect \in 0..MaxEffects
    /\ socket \in [Sockets -> Live \cup {"unused", "closing", "closed"}]
    /\ first \in Sockets \cup {NoSocket}
    /\ current \in Sockets \cup {NoSocket}
    /\ timerRef \in Timers \cup {NoTimer}
    /\ armed \subseteq Timers
    /\ latest \in Nat
    /\ pending \in Nat
    /\ throttleRef \in BOOLEAN
    /\ throttleArmed \in BOOLEAN
    /\ shown \in Nat

ClientInit ==
    /\ mounted = FALSE
    /\ effect = 0
    /\ socket = [s \in Sockets |-> "unused"]
    /\ first = NoSocket
    /\ current = NoSocket
    /\ timerRef = NoTimer
    /\ armed = {}
    /\ latest = 0
    /\ pending = 0
    /\ throttleRef = FALSE
    /\ throttleArmed = FALSE
    /\ shown = 0
-----------------------------------------------------------------------------
\* close() of a socket; the close event comes later.
Closing(S, s) == [x \in Sockets |-> IF x = s /\ S[x] \in Live THEN "closing" ELSE S[x]]

\* A connect() that leaves the socket it replaces alone.
ReplacedLeft(S) == S

\* What connect() does to the socket it replaces.
Replaced(S) == Closing(S, current)

\* connect(), on the sockets S and the armed timers A of the moment of the call.
Connect(s, S, A) ==
    /\ socket[s] = "unused"
    /\ timerRef' = NoTimer
    /\ armed' = A \ {timerRef}
    /\ socket' = [Replaced(S) EXCEPT ![s] = "connecting"]
    /\ current' = s

Mount(s) ==
    /\ effect = 0
    /\ Connect(s, socket, armed)
    /\ mounted' = TRUE /\ effect' = 1 /\ first' = s
    /\ UNCHANGED dataVars

\* The clean-up stops the throttle's timer, but leaves its reference as it is.
StopThrottle ==
    /\ throttleArmed' = FALSE
    /\ UNCHANGED <<latest, pending, throttleRef, shown>>

\* A new URL: the clean-up of the old effect, then the new one.
ChangeUrl(s) ==
    /\ mounted /\ effect < MaxEffects
    /\ Connect(s, Closing(socket, first), armed \ {timerRef})
    /\ effect' = effect + 1 /\ first' = s
    /\ mounted' = mounted
    /\ StopThrottle

Unmount ==
    /\ mounted
    /\ mounted' = FALSE
    /\ socket' = Closing(socket, first)
    /\ armed' = armed \ {timerRef}
    /\ UNCHANGED <<effect, first, current, timerRef>>
    /\ StopThrottle
-----------------------------------------------------------------------------
\* onopen.
Opened(s) ==
    /\ socket[s] = "connecting"
    /\ socket' = [socket EXCEPT ![s] = "open"]
    /\ UNCHANGED <<mounted, effect, first, current, timerRef, armed>>
    /\ UNCHANGED dataVars

\* The connection fails or is closed from the other side; onerror calls close().
Breaks(s) ==
    /\ socket[s] \in Live
    /\ socket' = Closing(socket, s)
    /\ UNCHANGED <<mounted, effect, first, current, timerRef, armed>>
    /\ UNCHANGED dataVars

\* An onclose that leaves the reconnection to somebody else.
ReconnectNot == UNCHANGED <<timerRef, armed>>

\* A new timer; whatever timer the reference held is forgotten, not cleared.
Reconnect ==
    \E t \in Timers :
        /\ t \notin armed \cup {timerRef}
        /\ timerRef' = t
        /\ armed' = armed \cup {t}

\* onclose, whoever closed the socket and whether or not the effect is in force.
OnClose(s) ==
    /\ socket[s] = "closing"
    /\ socket' = [socket EXCEPT ![s] = "closed"]
    /\ current' = IF current = s THEN NoSocket ELSE current
    /\ Reconnect
    /\ UNCHANGED <<mounted, effect, first>>
    /\ UNCHANGED dataVars

TimerFires(t, s) ==
    /\ t \in armed
    /\ Connect(s, socket, armed \ {t})
    /\ UNCHANGED <<mounted, effect, first>>
    /\ UNCHANGED dataVars
-----------------------------------------------------------------------------
\* onmessage with a payload that parses; an error of JSON.parse is caught and changes
\* nothing.
Message(s, n) ==
    /\ socket[s] = "open"
    /\ latest' = n
    /\ pending' = n
    /\ IF throttleRef
       THEN UNCHANGED <<throttleRef, throttleArmed>>
       ELSE throttleRef' = TRUE /\ throttleArmed' = TRUE
    /\ shown' = shown
    /\ UNCHANGED socketVars

\* A throttle whose reference still holds the timer that has fired.
RefKept == throttleRef

\* The reference after the timer has fired.
RefAfterFiring == FALSE

ThrottleFires ==
    /\ throttleArmed
    /\ shown' = IF pending # 0 THEN pending ELSE shown
    /\ pending' = 0
    /\ throttleRef' = RefAfterFiring
    /\ throttleArmed' = FALSE
    /\ latest' = latest
    /\ UNCHANGED socketVars
-----------------------------------------------------------------------------
\* However sockets break, timers fire and the URL changes, only the socket the hook
\* refers to can deliver anything.
LiveIsCurrent == \A s \in Sockets : socket[s] \in Live => s = current

\* A mounted dashboard is never stranded: it has a socket, one whose close event is
\* still to come, or a timer that will open one.
NeverStranded ==
    mounted => \/ \E s \in Sockets : socket[s] \in Live \cup {"closing"}
               \/ armed # {}
=============================================================================
