-------------------------------- MODULE Apc ---------------------------------
(***************************************************************************)
(* One connection of an ABAP push channel: serveChannel                    *)
(* (tools/osd-apc.mjs), its mailbox (tools/osd-apc-mailbox.mjs), its       *)
(* timers (tools/osd-apc-timers.mjs) and what the AMC broker delivers to   *)
(* it (tools/osd-amc.mjs). The channel is stateful.                        *)
(*                                                                         *)
(* A turn of the mailbox waits for the work process, calls the handler,    *)
(* drains what it pushed, commits, and publishes after the step. The peer, *)
(* the clock and the senders of other sessions come in between any two of  *)
(* these; the work process itself is module DialogStep.                    *)
(*                                                                         *)
(* A callback is numbered by its place in calls and pushes one frame, the  *)
(* number; a publication of the broker is numbered too. Payloads, frame    *)
(* layout, ping and pong, scopes and authorisations are left out.          *)
(***************************************************************************)
EXTENDS Integers, Sequences

CONSTANTS Handlers,   \* timer handlers
          None,       \* no turn
          MaxMessages, MaxArms, MaxSends   \* bounds: messages received, timers armed, publications

ASSUME ApcAssumption == MaxMessages \in Nat /\ MaxArms \in Nat /\ MaxSends \in Nat

VARIABLES
    stage,     \* serveChannel: "starting", "serving" (it reads data), "over"
    mailbox,   \* closed, failed
    turns,     \* the works that wait for their turn
    turn,      \* the work whose turn it is, and how far it is
    closed,    \* shut was called
    live,      \* the upgrade was answered
    pending,   \* frames that wait for the upgrade
    timers,    \* closed; armed: handler -> the entry, 0 if there is none; due: its timeout is over
    sub,       \* the subscription of the broker: "none", "active", "closed"
    amc,       \* publications received, one delivered after the other
    left,      \* the peer has left
    count,     \* messages, entries and publications so far
    out,       \* history: what was written to the socket
    calls,     \* history: the callbacks of the handler
    stopped    \* history: the entries that were stopped or cancelled

socket == <<stage, live, left>>
history == <<calls, stopped>>
vars == <<stage, mailbox, turns, turn, closed, live, pending, timers, sub, amc, left, count, out, calls, stopped>>

WorkType == [kind : {"start", "message", "timer", "close"}, n : 0 .. MaxMessages + MaxArms,
             handler : Handlers \cup {None}]
TurnType == [work : WorkType, accepted : BOOLEAN,
             at : {"waiting", "called", "bindings", "run", "publishing", "failing"}]

ASSUME NoTurn == None \notin TurnType

Work(kind, n, h) == [kind |-> kind, n |-> n, handler |-> h]
Event(n) == [from |-> "event", n |-> n]
Publication(n) == [from |-> "amc", n |-> n]
Said(what) == [from |-> what, n |-> 0]     \* the upgrade, an HTTP error, the close frame

Init ==
    /\ stage = "starting" /\ mailbox = [closed |-> FALSE, failed |-> FALSE]
    /\ turns = <<Work("start", 0, None)>> /\ turn = None
    /\ closed = FALSE /\ live = FALSE /\ pending = <<>>
    /\ timers = [closed |-> FALSE, armed |-> [h \in Handlers |-> 0], due |-> {}]
    /\ sub = "none" /\ amc = <<>> /\ left = FALSE
    /\ count = [messages |-> 0, arms |-> 0, sends |-> 0]
    /\ out = <<>> /\ calls = <<>> /\ stopped = {}

-----------------------------------------------------------------------------
(* What a turn and the events share *)

\* sendFrame
Sends(frames) ==
    /\ out' = IF ~mailbox.closed /\ live THEN out \o frames ELSE out
    /\ pending' = IF ~mailbox.closed /\ ~live THEN pending \o frames ELSE pending

ArmedIds == {timers.armed[h] : h \in Handlers} \ {0}

\* session.cancel
Cancelled(shutting) == [closed |-> timers.closed \/ shutting, armed |-> [h \in Handlers |-> 0], due |-> {}]

CloseTimers == timers' = Cancelled(TRUE) /\ stopped' = stopped \cup ArmedIds

\* shut, and before it, where a turn threw, the mailbox's own end.
Shut(failed) ==
    /\ mailbox' = [closed |-> TRUE, failed |-> mailbox.failed \/ failed]
    /\ closed' = TRUE
    /\ IF closed
       THEN UNCHANGED <<pending, sub, timers, stopped, out>>
       ELSE /\ pending' = <<>>
            /\ sub' = IF sub = "active" THEN "closed" ELSE sub
            /\ CloseTimers
            /\ out' = IF live THEN Append(out, Said("close")) ELSE out

-----------------------------------------------------------------------------
(* A turn of the mailbox *)

Is(kind) == turn # None /\ turn.work.kind = kind
At(where) == turn # None /\ turn.at = where
Goes(at) == turn' = [turn EXCEPT !.at = at]

\* Mutant of Skipped: who waits for a start that is not run waits for ever.
SkippedHangs(work) ==
    /\ UNCHANGED stage
    /\ IF work.kind = "close" THEN Shut(FALSE) ELSE UNCHANGED <<closed, mailbox, pending, sub, timers, stopped, out>>

\* The work is not run; who waited for it goes on.
Skipped(work) ==
    /\ stage' = IF work.kind = "start" THEN "over" ELSE stage
    /\ IF work.kind = "close" THEN Shut(FALSE) ELSE UNCHANGED <<closed, mailbox, pending, sub, timers, stopped, out>>

\* append: the next in the chain.
Turn ==
    /\ turn = None /\ turns # <<>>
    /\ turns' = Tail(turns)
    /\ IF mailbox.failed \/ (mailbox.closed /\ Head(turns).kind # "close")
       THEN Skipped(Head(turns)) /\ UNCHANGED turn
       ELSE /\ turn' = [work |-> Head(turns), at |-> "waiting", accepted |-> FALSE]
            /\ UNCHANGED <<stage, closed, mailbox, pending, sub, timers, stopped, out>>
    /\ UNCHANGED <<live, amc, left, count, calls>>

\* Mutant of Wanted: the handler is armed, whichever entry it is.
WantedHandler(work) ==
    CASE work.kind = "message" -> ~mailbox.closed
      [] work.kind = "timer"   -> ~timers.closed /\ timers.armed[work.handler] # 0
      [] OTHER                 -> TRUE

\* Mutant of Wanted: nothing is looked at again with the work process in hand.
WantedBefore(work) == TRUE

\* Whether the handler is still to be called, once the work process is there.
Wanted(work) ==
    CASE work.kind = "message" -> ~mailbox.closed
      [] work.kind = "timer"   -> ~timers.closed /\ timers.armed[work.handler] = work.n
      [] OTHER                 -> TRUE

\* The work process is there: the callback begins.
Enter ==
    /\ At("waiting")
    /\ IF Wanted(turn.work)
       THEN /\ calls' = Append(calls, turn.work)
            /\ Goes("called")
            /\ timers' = IF Is("timer") THEN [timers EXCEPT !.armed[turn.work.handler] = 0, !.due = @ \ {turn.work.handler}]
                        ELSE timers
       ELSE Goes("run") /\ UNCHANGED <<calls, timers>>
    /\ UNCHANGED <<socket, mailbox, turns, closed, pending, sub, amc, count, out, stopped>>

\* Mutant of StartTimer: a late start is armed.
StartTimerLate(h) ==
    /\ At("called") /\ count.arms < MaxArms
    /\ count' = [count EXCEPT !.arms = @ + 1]
    /\ timers.armed[h] = 0
    /\ timers' = [timers EXCEPT !.armed[h] = count.arms + 1]
    /\ UNCHANGED <<socket, mailbox, turns, turn, closed, pending, sub, amc, out, history>>

\* start_timer of the callback that runs; a handler that is armed is refused, and a
\* session that is closed arms nothing.
StartTimer(h) ==
    /\ At("called") /\ count.arms < MaxArms
    /\ count' = [count EXCEPT !.arms = @ + 1]
    /\ ~timers.closed /\ timers.armed[h] = 0
    /\ timers' = [timers EXCEPT !.armed[h] = count.arms + 1]
    /\ UNCHANGED <<socket, mailbox, turns, turn, closed, pending, sub, amc, out, history>>

\* stop_timer
StopTimer(h) ==
    /\ At("called") /\ timers.armed[h] # 0
    /\ timers' = [timers EXCEPT !.armed[h] = 0, !.due = @ \ {h}]
    /\ stopped' = stopped \cup {timers.armed[h]}
    /\ UNCHANGED <<socket, mailbox, turns, turn, closed, pending, sub, amc, count, out, calls>>

\* The callback is over: what it pushed goes out, within the step. on_close pushes nothing.
Drain ==
    /\ At("called")
    /\ IF Is("close") THEN UNCHANGED <<pending, out>> ELSE Sends(<<Event(Len(calls))>>)
    /\ \/ Goes("run")
       \/ Is("start") /\ turn' = [turn EXCEPT !.at = "bindings", !.accepted = TRUE]
    /\ UNCHANGED <<socket, mailbox, turns, closed, timers, sub, amc, count, history>>

\* The channels the handler bound in on_start are subscribed, if it bound any.
Bind ==
    /\ At("bindings") /\ Goes("run")
    /\ sub' \in {"active", "none"}
    /\ UNCHANGED <<socket, mailbox, turns, closed, pending, timers, amc, count, out, history>>

\* The step commits and lets the work process go; or dumps, wherever it is, and rolls
\* back. What it left to do after the step is still part of the turn.
Commit ==
    /\ At("run") /\ Goes("publishing")
    /\ UNCHANGED <<socket, mailbox, turns, closed, pending, timers, sub, amc, count, out, history>>
Dump ==
    /\ At("called") \/ At("bindings") \/ At("run")
    /\ Goes("failing")
    /\ UNCHANGED <<socket, mailbox, turns, closed, pending, timers, sub, amc, count, out, history>>

\* Mutant of Upgrade: what waited for the upgrade is forgotten.
UpgradeForgets ==
    /\ out' = Append(out, Said("upgrade"))
    /\ pending' = <<>> /\ live' = TRUE /\ stage' = "serving"
    /\ UNCHANGED <<mailbox, timers, stopped>>

\* The upgrade, and what waited for it.
Upgrade ==
    /\ out' = Append(out, Said("upgrade")) \o pending
    /\ pending' = <<>> /\ live' = TRUE /\ stage' = "serving"
    /\ UNCHANGED <<mailbox, timers, stopped>>

\* 403, the handler's own no.
Refuse ==
    /\ mailbox' = [mailbox EXCEPT !.closed = TRUE]
    /\ CloseTimers
    /\ out' = Append(out, Said("refused")) /\ stage' = "over"
    /\ UNCHANGED <<pending, live>>

\* The end of the first turn, and what serveChannel does behind it.
Started ==
    /\ At("publishing") /\ Is("start")
    /\ turn' = None
    /\ IF closed THEN stage' = "over" /\ UNCHANGED <<mailbox, timers, stopped, pending, live, out>>
       ELSE IF turn.accepted THEN Upgrade ELSE Refuse
    /\ UNCHANGED <<turns, closed, sub, amc, left, count, calls>>

\* The end of another turn; behind the close turn the socket is ended.
TurnEnds ==
    /\ At("publishing") /\ ~Is("start")
    /\ turn' = None
    /\ IF Is("close") THEN Shut(FALSE) ELSE UNCHANGED <<closed, mailbox, pending, sub, timers, stopped, out>>
    /\ UNCHANGED <<socket, turns, amc, count, calls>>

\* 503: the handler could not be started.
StartFails ==
    /\ At("failing") /\ Is("start")
    /\ turn' = None /\ stage' = "over"
    /\ mailbox' = [closed |-> TRUE, failed |-> TRUE]
    /\ CloseTimers
    /\ out' = IF closed THEN out ELSE Append(out, Said("unavailable"))
    /\ UNCHANGED <<turns, closed, live, pending, sub, amc, left, count, calls>>

\* A turn that throws is the last: the conversation is shut.
TurnFails ==
    /\ At("failing") /\ ~Is("start")
    /\ turn' = None
    /\ Shut(TRUE)
    /\ UNCHANGED <<socket, turns, amc, count, calls>>

-----------------------------------------------------------------------------
(* The peer, the clock, the broker *)

Reads == stage = "serving" /\ ~left /\ ~mailbox.closed

Receive ==
    /\ Reads /\ count.messages < MaxMessages
    /\ count' = [count EXCEPT !.messages = @ + 1]
    /\ turns' = Append(turns, Work("message", count.messages + 1, None))
    /\ UNCHANGED <<socket, mailbox, turn, closed, pending, timers, sub, amc, out, history>>

\* closeTurn: nothing but on_close runs any more.
CloseFrame ==
    /\ Reads
    /\ CloseTimers
    /\ mailbox' = [mailbox EXCEPT !.closed = TRUE]
    /\ turns' = Append(turns, Work("close", 0, None))
    /\ UNCHANGED <<socket, turn, closed, pending, sub, amc, count, out, calls>>

\* A frame this host will not carry.
BadFrame ==
    /\ Reads
    /\ Shut(FALSE)
    /\ UNCHANGED <<socket, turns, turn, amc, count, calls>>

\* "error", "close" or "end" of the socket.
Leave ==
    /\ ~left /\ left' = TRUE
    /\ Shut(FALSE)
    /\ UNCHANGED <<stage, live, turns, turn, amc, count, calls>>

\* The timeout of an entry: a turn like any other.
Due(h) ==
    /\ timers.armed[h] # 0 /\ h \notin timers.due /\ ~timers.closed
    /\ timers' = [timers EXCEPT !.due = @ \cup {h}]
    /\ turns' = Append(turns, Work("timer", timers.armed[h], h))
    /\ UNCHANGED <<socket, mailbox, turn, closed, pending, sub, amc, count, out, history>>

\* cancelAllApcTimers: the code was swapped under the session.
Swap ==
    /\ ArmedIds # {}
    /\ timers' = Cancelled(FALSE) /\ stopped' = stopped \cup ArmedIds
    /\ UNCHANGED <<socket, mailbox, turns, turn, closed, pending, sub, amc, count, out, calls>>

\* send of somebody on the channel that is bound.
Send ==
    /\ sub = "active" /\ count.sends < MaxSends
    /\ count' = [count EXCEPT !.sends = @ + 1]
    /\ amc' = Append(amc, count.sends + 1)
    /\ UNCHANGED <<socket, mailbox, turns, turn, closed, pending, timers, sub, out, history>>

\* deliverAmcPublication: each behind the last.
Deliver ==
    /\ amc # <<>> /\ amc' = Tail(amc)
    /\ IF closed THEN UNCHANGED <<pending, out>> ELSE Sends(<<Publication(Head(amc))>>)
    /\ UNCHANGED <<socket, mailbox, turns, turn, closed, timers, sub, count, history>>

-----------------------------------------------------------------------------
TurnGoesOn == Turn \/ Enter \/ Drain \/ Bind \/ Commit \/ Started \/ TurnEnds \/ StartFails \/ TurnFails

Next ==
    \/ TurnGoesOn \/ Dump
    \/ Receive \/ CloseFrame \/ BadFrame \/ Leave \/ Swap \/ Send \/ Deliver
    \/ \E h \in Handlers : StartTimer(h) \/ StopTimer(h) \/ Due(h)

Spec == Init /\ [][Next]_vars

\* The work process is handed on, callbacks and publications end, timeouts pass. The
\* peer need not do anything.
FairSpec == Spec /\ WF_vars(TurnGoesOn) /\ WF_vars(Deliver) /\ \A h \in Handlers : WF_vars(Due(h))

-----------------------------------------------------------------------------
(* Properties *)

TypeOK ==
    /\ stage \in {"starting", "serving", "over"}
    /\ mailbox \in [closed : BOOLEAN, failed : BOOLEAN]
    /\ \A i \in DOMAIN turns : turns[i] \in WorkType
    /\ turn # None => turn \in TurnType
    /\ closed \in BOOLEAN /\ live \in BOOLEAN /\ left \in BOOLEAN
    /\ timers.armed \in [Handlers -> 0 .. MaxArms] /\ \A h \in timers.due : timers.armed[h] # 0
    /\ sub \in {"none", "active", "closed"}
    /\ \A i \in DOMAIN amc : amc[i] \in 1 .. MaxSends

\* The handler is a conversation: on_start, then messages and timeouts, then on_close
\* once and nothing behind it.
CallbackOrder ==
    \A i \in DOMAIN calls : /\ calls[i].kind = "start" <=> i = 1
                            /\ calls[i].kind = "close" => i = Len(calls)

\* "queued messages must not run for a peer that has left": not even one that was past
\* the mailbox and waited for the work process when the peer left.
NobodyLeft ==
    [][calls' # calls /\ calls'[Len(calls')].kind \in {"message", "timer"} => ~closed /\ ~left]_vars

Ends == {"refused", "unavailable", "close"}

\* The socket says one thing first, the upgrade or an HTTP error, and nothing behind
\* its end, whatever timers, broker and handler still had to say.
WellFormed ==
    \A i \in DOMAIN out : /\ out[i].from \in {"upgrade", "refused", "unavailable"} <=> i = 1
                          /\ out[i].from \in Ends => i = Len(out)

\* What one sender has in s is numbered 1 to n, in that order.
Numbered(s, from, n) ==
    LET its == {i \in DOMAIN s : s[i].from = from} IN
    /\ {s[i].n : i \in its} = 1 .. n
    /\ \A i, j \in its : i < j => s[i].n < s[j].n

\* The callbacks that have pushed their frame, as long as none dumped.
Pushed == Len(calls) - (IF At("called") THEN 1 ELSE 0)

\* As long as the channel is open every frame of every callback that did not dump, and
\* every publication, is sent, once and in order, on whichever side of the upgrade it came.
NothingLost ==
    /\ \A i \in DOMAIN amc : amc[i] = count.sends - Len(amc) + i
    /\ ~mailbox.closed =>
          /\ ~At("failing") => Numbered(out \o pending, "event", Pushed)
          /\ Numbered(out \o pending, "amc", count.sends - Len(amc))

\* A timer that was stopped, or cancelled by a swap or a close, does not call, though
\* its turn was queued and its handler is armed again.
StoppedIsSilent == \A i \in DOMAIN calls : calls[i].kind = "timer" => calls[i].n \notin stopped

\* The callbacks are one conversation, in which nothing that was stopped has a say.
Conversation == CallbackOrder /\ StoppedIsSilent

\* The socket carries what was sent, whole and in order.
SocketOrder == TypeOK /\ WellFormed /\ NothingLost

\* A connection that is shut holds no timer, and one that had come up no subscription,
\* whatever its callback still does.
NothingLeft == /\ closed => ArmedIds = {}
               /\ closed /\ live => sub # "active"

\* Every connection is answered or given up, and a close that was asked for ends the
\* socket though the handler fails in it.
Answered == (stage = "starting") ~> (stage # "starting")
CloseEnds == (live /\ mailbox.closed) ~> closed

\* No connection hangs, in its handshake or in its close.
ConnectionEnds == Answered /\ CloseEnds
=============================================================================
