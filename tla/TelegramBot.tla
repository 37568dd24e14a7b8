---------------------------- MODULE TelegramBot ----------------------------
(***************************************************************************)
(* The polling loops of TelegramBotAgent (interface/telegram_bot.py): one, *)
(* or two after a second start().  The server keeps the updates it was     *)
(* sent, numbered from 1, and answers a request with the oldest ones above *)
(* the last number the request says was handled; the request itself is     *)
(* only sketched in the source, as comments.  What /stop does to the       *)
(* orders is in ManualCommandController.                                   *)
(*                                                                         *)
(*   "stop"      /stop of the allowed chat                                 *)
(*   "command"   any other text of that chat, /status included             *)
(*   "foreign"   a message of another chat                                 *)
(*   "other"     no message, no chat number, or a text that is no string   *)
(*   "broken"    an update whose handling raises                           *)
(***************************************************************************)
EXTENDS EventLoop, Integers, Sequences, FiniteSetsExt, Ascending

CONSTANTS Kinds,      \* the kinds of update users send
          MaxFetch,   \* the most updates the server puts in one answer
          MaxUpdates  \* bound: updates sent

VARIABLES tRunning,    \* self._is_running
          tTask,       \* self._poll_task; before the first start a task that is done
          tOffset,     \* for each poller: the number its request carries, or NoRequest
          tLast,       \* self._last_update_id
          tSent,       \* the updates on the server
          tHalted,     \* the controller's _is_halted
          tRan,        \* history: the commands handled, in order
          tOverlapped  \* history: a start found a poller at work

tVars == <<tRunning, tTask, tOffset, tLast, tSent, tHalted, tRan, tOverlapped>>

\* A poller that yields between two requests.
NoRequest == -1

TelegramInit ==
    /\ tRunning = FALSE /\ tTask = "telegram"
    /\ tOffset = [t \in TelegramTasks |-> NoRequest]
    /\ tLast = 0 /\ tSent = <<>> /\ tHalted = FALSE
    /\ tRan = <<>> /\ tOverlapped = FALSE

TelegramStart ==
    /\ \E t \in TelegramTasks : Create(t) /\ tTask' = t
    /\ tRunning' = TRUE
    /\ tOverlapped' = (tOverlapped \/ \E t \in TelegramTasks : Live(phase[t]))
    /\ UNCHANGED <<tOffset, tLast, tSent, tHalted, tRan>>

\* The last poller is cancelled where it is suspended.
TelegramStop ==
    /\ tRunning' = FALSE
    /\ Go(tTask, AfterCancel(phase[tTask]))
    /\ UNCHANGED <<tTask, tOffset, tLast, tSent, tHalted, tRan, tOverlapped>>

SendUpdate ==
    /\ Len(tSent) < MaxUpdates
    /\ \E k \in Kinds : tSent' = Append(tSent, k)
    /\ UNCHANGED <<phase, tRunning, tTask, tOffset, tLast, tHalted, tRan, tOverlapped>>

\* The answer of the server to a request with this number: the updates in it.
Fetched(offset) == {u \in (offset + 1)..Len(tSent) : u <= offset + MaxFetch}

\* The updates of the answer that are handled: up to the first that raises.
Handled(offset) ==
    {u \in Fetched(offset) : \A b \in (offset + 1)..u : tSent[b] # "broken"}

\* Bots that move on only past a /stop, or only past what they have carried out.
AdvancesOnStop(u) == tSent[u] = "stop"
AdvancesOnCommand(u) == tSent[u] \in {"stop", "command"}

\* The updates that move last_update_id.
Advances(u) == tSent[u] \in {"stop", "command", "foreign"}

Commands(offset) == {u \in Handled(offset) : tSent[u] \in {"stop", "command"}}

Passed(offset) == {u \in Handled(offset) : Advances(u)}

\* _handle_update for each update: commands are carried out, a foreign message is only
\* stepped over, and the rest return before the last number is written.  It may be written
\* back to an older one, when another poller has got further in the meantime.
HandleUpdates(offset) ==
    /\ tHalted' = (tHalted \/ \E u \in Handled(offset) : tSent[u] = "stop")
    /\ tRan' = tRan \o Ascending(Commands(offset))
    /\ tLast' = IF Passed(offset) = {} THEN tLast ELSE Max(Passed(offset))
    /\ UNCHANGED <<tRunning, tTask, tSent, tOverlapped>>

Requests(t, offset) == tOffset' = [tOffset EXCEPT ![t] = offset]

\* The head of the loop, reached when the task starts and after each answer.
AtLoopHead(t) == phase[t] = "created" \/ (phase[t] = "sleeping" /\ tOffset[t] = NoRequest)

NextRequest(t) ==
    /\ AtLoopHead(t) /\ tRunning
    /\ Requests(t, tLast)
    /\ Go(t, "sleeping")
    /\ UNCHANGED <<tRunning, tTask, tLast, tSent, tHalted, tRan, tOverlapped>>

\* The answer is handled to the end, or to the update that breaks the loop, before anybody
\* else runs; whether the bot still runs is not looked at.
Answered(t) ==
    /\ phase[t] = "sleeping" /\ tOffset[t] # NoRequest
    /\ HandleUpdates(tOffset[t])
    /\ Requests(t, NoRequest)
    /\ Go(t, IF Handled(tOffset[t]) = Fetched(tOffset[t]) THEN "sleeping" ELSE "done")

\* The poller ends without another update: it was cancelled or finds the bot stopped.
TelegramEnds(t) ==
    /\ Ends(t) \/ (AtLoopHead(t) /\ ~tRunning /\ Go(t, "done"))
    /\ Requests(t, NoRequest)
    /\ UNCHANGED <<tRunning, tTask, tLast, tSent, tHalted, tRan, tOverlapped>>

\* The request raises: the loop ends, with is_running still set.
FetchFails(t) ==
    /\ phase[t] = "sleeping" /\ tOffset[t] # NoRequest
    /\ Go(t, "done")
    /\ Requests(t, NoRequest)
    /\ UNCHANGED <<tRunning, tTask, tLast, tSent, tHalted, tRan, tOverlapped>>

TelegramCalls == TelegramStart \/ TelegramStop \/ SendUpdate
TelegramStep(t) == NextRequest(t) \/ Answered(t) \/ TelegramEnds(t)
-----------------------------------------------------------------------------
\* Commands are carried out in the order they were sent and none of them twice, however
\* often an answer brings an update again and the bot is stopped and started again, as
\* long as it is not started while it polls.
CommandsRunOnce == ~tOverlapped => Increasing(tRan)

\* The server's answer holds nothing the bot steps over.
Clogged ==
    Len(tSent) - tLast >= MaxFetch /\ \A u \in Fetched(tLast) : tSent[u] = "other"

\* A poller does not work on for ever beside a /stop of the allowed chat: the system is
\* halted, or that poller is stopped or breaks, or as many updates as one answer holds stand
\* before the /stop that the bot never acknowledges; a second poller does no harm.
StopHeard ==
    \A t \in TelegramTasks :
        []<>((Live(phase[t]) /\ \E u \in 1..Len(tSent) : tSent[u] = "stop")
                 => tHalted \/ Clogged)
=============================================================================
