------------------------------ MODULE ApcProofs ------------------------------
(***************************************************************************)
(* A push channel is one conversation over one socket, for any handlers,   *)
(* messages, timers and publications.                                      *)
(***************************************************************************)
EXTENDS Apc, TLAPS

-----------------------------------------------------------------------------
(* The inductive invariant *)

\* What a socket carries.
Frame == [from : {"upgrade", "event", "amc"} \cup Ends, n : Nat]

\* The counters within their bounds.
Tally == [messages : 0 .. MaxMessages, arms : 0 .. MaxArms, sends : 0 .. MaxSends]

\* The type invariant, the bounds of the counters and the shape of the frames included.
Typed ==
    /\ stage \in {"starting", "serving", "over"}
    /\ mailbox \in [closed : BOOLEAN, failed : BOOLEAN]
    /\ turns \in Seq(WorkType) /\ turn \in TurnType \cup {None}
    /\ closed \in BOOLEAN /\ live \in BOOLEAN /\ left \in BOOLEAN
    /\ timers \in [closed : BOOLEAN, armed : [Handlers -> 0 .. MaxArms], due : SUBSET Handlers]
    /\ sub \in {"none", "active", "closed"}
    /\ count \in Tally
    /\ amc \in Seq(Nat) /\ calls \in Seq(WorkType)
    /\ out \in Seq(Frame) /\ pending \in Seq(Frame)

\* What is closed with what, and that it stays so: a channel that reads no more has no timer.
Gates ==
    /\ mailbox.closed <=> timers.closed
    /\ closed \/ mailbox.failed => mailbox.closed
    /\ left => closed
    /\ timers.closed => \A h \in Handlers : timers.armed[h] = 0
    /\ live <=> stage = "serving"
    /\ closed /\ live => sub # "active"

\* A work of a timer names the entry it was queued for.
TimerWork(w) == w.kind = "timer" => w.handler \in Handlers /\ w.n \in 1 .. count.arms

Works ==
    /\ \A i \in DOMAIN turns : TimerWork(turns[i])
    /\ \A i \in DOMAIN calls : TimerWork(calls[i])
    /\ turn # None => TimerWork(turn.work)

\* An entry is armed once, for one handler, and is not armed any more when it has called or
\* was stopped.
Entries ==
    /\ stopped \subseteq 1 .. count.arms
    /\ \A h \in timers.due : timers.armed[h] # 0
    /\ \A h \in Handlers :
          timers.armed[h] # 0 =>
              /\ timers.armed[h] <= count.arms /\ timers.armed[h] \notin stopped
              /\ \A g \in Handlers \ {h} : timers.armed[g] # timers.armed[h]
              /\ \A i \in DOMAIN calls : calls[i].kind = "timer" => calls[i].n # timers.armed[h]
    /\ StoppedIsSilent

\* The first turn is on_start, and the channel is starting until it is over; a channel that
\* was given up before it has no other.
StartFirst ==
    /\ stage = "starting" => IF turn = None THEN turns = <<Work("start", 0, None)>> /\ calls = <<>>
                                            ELSE Is("start")
    /\ Is("start") => /\ stage = "starting"
                      /\ IF At("waiting") THEN calls = <<>> ELSE Len(calls) = 1
    /\ At("bindings") => Is("start")
    /\ \A i \in DOMAIN turns : turns[i].kind = "start" => stage = "starting" /\ turn = None
    /\ calls = <<>> /\ stage # "starting" => turn = None /\ turns = <<>> /\ timers.closed /\ ~live
    /\ calls = <<>> => \A h \in Handlers : timers.armed[h] = 0
    /\ \A i \in DOMAIN calls : calls[i].kind = "start" <=> i = 1

Closes(s) == \E i \in DOMAIN s : s[i].kind = "close"

\* There is one on_close: in the mailbox, having its turn, or called; nothing is behind it.
CloseLast ==
    /\ Closes(turns) \/ Is("close") \/ Closes(calls) => mailbox.closed
    /\ \A i \in DOMAIN turns : turns[i].kind = "close" => i = Len(turns) /\ ~Is("close") /\ ~Closes(calls)
    /\ Is("close") => turns = <<>> /\ (At("waiting") => ~Closes(calls))
    /\ Closes(calls) => turns = <<>> /\ (turn # None => Is("close") /\ ~At("waiting"))
    /\ \A i \in DOMAIN calls : calls[i].kind = "close" => i = Len(calls)

\* What the socket has carried, and what waits for the upgrade.
Wire ==
    /\ stage = "starting" => out = <<>>
    /\ ~live => out = <<>> \/ (Len(out) = 1 /\ out[1].from \in {"refused", "unavailable"})
    /\ live => Len(out) > 0 /\ out[1].from = "upgrade" /\ pending = <<>>
    /\ \A i \in DOMAIN out : /\ i > 1 => out[i].from \in {"event", "amc", "close"}
                             /\ out[i].from \in Ends => i = Len(out) /\ mailbox.closed /\ (closed \/ ~live)
    /\ \A i \in DOMAIN pending : pending[i].from \in {"event", "amc"}

Lost == Len(amc) <= count.sends /\ NothingLost

IInv == Typed /\ Gates /\ Works /\ Entries /\ StartFirst /\ CloseLast /\ Wire /\ Lost

-----------------------------------------------------------------------------
(* What the shared operations do *)

\* The counters below their bounds.
LEMMA Tallied ==
    ASSUME NEW c \in Tally
    PROVE  /\ c.messages < MaxMessages => [c EXCEPT !.messages = @ + 1] \in Tally
           /\ c.arms < MaxArms => [c EXCEPT !.arms = @ + 1] \in Tally
           /\ c.sends < MaxSends => [c EXCEPT !.sends = @ + 1] \in Tally
BY ApcAssumption DEF Tally

\* The close of the timers: every entry is stopped.
LEMMA TimersClose ==
    ASSUME Typed, CloseTimers
    PROVE  /\ timers' = [closed |-> TRUE, armed |-> [h \in Handlers |-> 0], due |-> {}]
           /\ stopped' = stopped \cup ArmedIds
           /\ timers' \in [closed : BOOLEAN, armed : [Handlers -> 0 .. MaxArms], due : SUBSET Handlers]
<1>1. timers.closed \in BOOLEAN
  BY DEF Typed
<1>2. 0 \in 0 .. MaxArms
  BY ApcAssumption
<1> QED
  BY <1>1, <1>2 DEF CloseTimers, Cancelled

\* What is shut, the first time and again.
LEMMA ShutFirst ==
    ASSUME Typed, NEW failed \in BOOLEAN, Shut(failed), ~closed
    PROVE  /\ mailbox' = [closed |-> TRUE, failed |-> mailbox.failed \/ failed] /\ closed' = TRUE
           /\ pending' = <<>> /\ CloseTimers
           /\ sub' = IF sub = "active" THEN "closed" ELSE sub
           /\ out' = IF live THEN Append(out, Said("close")) ELSE out
BY DEF Shut

\* A shut connection that is shut again says and cancels nothing twice.
LEMMA ShutAgain ==
    ASSUME Typed, NEW failed \in BOOLEAN, Shut(failed), closed
    PROVE  /\ mailbox' = [closed |-> TRUE, failed |-> mailbox.failed \/ failed] /\ closed' = TRUE
           /\ UNCHANGED <<pending, sub, timers, stopped, out>>
BY DEF Shut

\* The types of what shut and the frames change.
LEMMA ShutTyped ==
    ASSUME Typed, NEW failed \in BOOLEAN, Shut(failed)
    PROVE  /\ mailbox' \in [closed : BOOLEAN, failed : BOOLEAN] /\ closed' \in BOOLEAN
           /\ timers' \in [closed : BOOLEAN, armed : [Handlers -> 0 .. MaxArms], due : SUBSET Handlers]
           /\ sub' \in {"none", "active", "closed"}
           /\ out' \in Seq(Frame) /\ pending' \in Seq(Frame)
<1>1. Said("close") \in Frame
  BY DEF Said, Frame, Ends
<1>2. mailbox' \in [closed : BOOLEAN, failed : BOOLEAN] /\ closed' \in BOOLEAN
  BY DEF Shut, Typed
<1>3. CASE closed
  BY <1>2, <1>3, ShutAgain DEF Typed
<1>4. CASE ~closed
  <2>1. timers' \in [closed : BOOLEAN, armed : [Handlers -> 0 .. MaxArms], due : SUBSET Handlers]
    BY <1>4, ShutFirst, TimersClose
  <2>2. sub' \in {"none", "active", "closed"} /\ pending' = <<>> /\ out' \in {out, Append(out, Said("close"))}
    BY <1>4, ShutFirst DEF Typed
  <2>3. out' \in Seq(Frame) /\ pending' \in Seq(Frame)
    <3>1. out \in Seq(Frame)
      BY DEF Typed
    <3>2. Append(out, Said("close")) \in Seq(Frame)
      BY <1>1, <3>1
    <3> QED
      BY <2>2, <3>1, <3>2
  <2> QED
    BY <1>2, <2>1, <2>2, <2>3
<1> QED
  BY <1>3, <1>4 DEF Typed

\* A frame that is sent is one of the frames, written or waiting.
LEMMA SendsTyped ==
    ASSUME Typed, NEW f \in Frame, Sends(<<f>>)
    PROVE  out' \in Seq(Frame) /\ pending' \in Seq(Frame)
BY DEF Typed, Sends

\* The work that has its turn.
LEMMA TurnIs ==
    ASSUME Typed, turn # None
    PROVE  turn \in TurnType /\ turn.work \in WorkType /\ turn.accepted \in BOOLEAN
BY DEF Typed, TurnType

\* A turn that goes on keeps its work.
LEMMA TurnGoes ==
    ASSUME Typed, turn # None,
           NEW at \in {"waiting", "called", "bindings", "run", "publishing", "failing"}, Goes(at)
    PROVE  turn' \in TurnType /\ turn' # None /\ turn'.work = turn.work /\ turn'.at = at
<1>1. turn \in TurnType
  BY TurnIs
<1>2. turn' \in TurnType /\ turn'.work = turn.work /\ turn'.at = at
  BY <1>1 DEF Goes, TurnType
<1> QED
  BY <1>2, NoTurn

-----------------------------------------------------------------------------
(* Types *)

\* Every step keeps the types and the bounds of the counters.
LEMMA TypedKept ==
    ASSUME Typed, [Next]_vars
    PROVE  Typed'
<1>1. CASE Turn
  <2>1. turns # <<>> /\ turns \in Seq(WorkType) /\ turns' = Tail(turns) /\ turn = None
    BY <1>1 DEF Turn, Typed
  <2>2. Head(turns) \in WorkType /\ turns' \in Seq(WorkType)
    BY <2>1
  <2>3. CASE Skipped(Head(turns)) /\ UNCHANGED turn
    <3>1. stage' \in {"starting", "serving", "over"}
      BY <2>3 DEF Skipped, Typed
    <3>2. CASE Shut(FALSE)
      BY <1>1, <2>2, <2>3, <3>1, <3>2, ShutTyped DEF Turn, Typed
    <3>3. CASE UNCHANGED <<closed, mailbox, pending, sub, timers, stopped, out>>
      BY <1>1, <2>2, <2>3, <3>1, <3>3 DEF Turn, Typed
    <3> QED
      BY <2>3, <3>2, <3>3 DEF Skipped
  <2>4. CASE /\ turn' = [work |-> Head(turns), at |-> "waiting", accepted |-> FALSE]
             /\ UNCHANGED <<stage, closed, mailbox, pending, sub, timers, stopped, out>>
    <3>1. turn' \in TurnType
      BY <2>2, <2>4 DEF TurnType
    <3> QED
      BY <1>1, <2>2, <2>4, <3>1 DEF Turn, Typed
  <2> QED
    BY <1>1, <2>3, <2>4 DEF Turn
<1>2. CASE Enter
  <2>1. turn # None /\ turn.work \in WorkType
    BY <1>2, TurnIs DEF Enter, At
  <2>2. CASE Wanted(turn.work)
    <3>1. /\ calls' = Append(calls, turn.work) /\ Goes("called")
          /\ timers' = IF Is("timer") THEN [timers EXCEPT !.armed[turn.work.handler] = 0,
                                                          !.due = @ \ {turn.work.handler}]
                       ELSE timers
          /\ UNCHANGED <<socket, mailbox, turns, closed, pending, sub, amc, count, out>>
      BY <1>2, <2>2 DEF Enter
    <3>2. timers' \in [closed : BOOLEAN, armed : [Handlers -> 0 .. MaxArms], due : SUBSET Handlers]
      <4>1. 0 \in 0 .. MaxArms
        BY ApcAssumption
      <4> QED
        BY <3>1, <4>1 DEF Typed
    <3>3. calls' \in Seq(WorkType) /\ turn' \in TurnType
      BY <2>1, <3>1, TurnGoes DEF Typed
    <3> QED
      BY <3>1, <3>2, <3>3 DEF Typed, socket
  <2>3. CASE ~Wanted(turn.work)
    <3>1. Goes("run") /\ UNCHANGED <<calls, timers, socket, mailbox, turns, closed, pending, sub, amc, count, out>>
      BY <1>2, <2>3 DEF Enter
    <3>2. turn' \in TurnType
      BY <2>1, <3>1, TurnGoes
    <3> QED
      BY <3>1, <3>2 DEF Typed, socket
  <2> QED
    BY <2>2, <2>3
<1>3. CASE Drain
  <2>1. turn # None /\ turn \in TurnType
    BY <1>3, TurnIs DEF Drain, At
  <2>2. turn' \in TurnType
    BY <1>3, <2>1 DEF Drain, Goes, TurnType
  <2>3. Event(Len(calls)) \in Frame
    BY DEF Event, Frame, Typed
  <2>4. out' \in Seq(Frame) /\ pending' \in Seq(Frame)
    BY <1>3, <2>3, SendsTyped DEF Drain, Typed
  <2> QED
    BY <1>3, <2>2, <2>4 DEF Drain, Typed, socket, history
<1>4. CASE Bind \/ Commit \/ Dump
  <2>1. turn' \in TurnType
    BY <1>4, TurnGoes DEF Bind, Commit, Dump, At
  <2> QED
    BY <1>4, <2>1 DEF Bind, Commit, Dump, Typed, socket, history
<1>5. CASE Started
  <2>1. CASE closed
    BY <1>5, <2>1 DEF Started, Typed
  <2>2. CASE Upgrade
    <3>1. Said("upgrade") \in Frame
      BY DEF Said, Frame
    <3>2. out' \in Seq(Frame) /\ pending' \in Seq(Frame)
      BY <2>2, <3>1 DEF Upgrade, Typed
    <3> QED
      BY <1>5, <2>2, <3>2 DEF Started, Upgrade, Typed
  <2>3. CASE Refuse
    <3>1. Said("refused") \in Frame
      BY DEF Said, Frame, Ends
    <3>2. out' \in Seq(Frame) /\ pending' \in Seq(Frame)
      BY <2>3, <3>1 DEF Refuse, Typed
    <3>3. timers' \in [closed : BOOLEAN, armed : [Handlers -> 0 .. MaxArms], due : SUBSET Handlers]
      BY <2>3, TimersClose DEF Refuse
    <3> QED
      BY <1>5, <2>3, <3>2, <3>3 DEF Started, Refuse, Typed
  <2> QED
    BY <1>5, <2>1, <2>2, <2>3 DEF Started
<1>6. CASE TurnEnds
  <2>1. CASE Shut(FALSE)
    BY <1>6, <2>1, ShutTyped DEF TurnEnds, Typed, socket
  <2>2. CASE UNCHANGED <<closed, mailbox, pending, sub, timers, stopped, out>>
    BY <1>6, <2>2 DEF TurnEnds, Typed, socket
  <2> QED
    BY <1>6, <2>1, <2>2 DEF TurnEnds
<1>7. CASE StartFails
  <2>1. Said("unavailable") \in Frame
    BY DEF Said, Frame, Ends
  <2>2. timers' \in [closed : BOOLEAN, armed : [Handlers -> 0 .. MaxArms], due : SUBSET Handlers]
    BY <1>7, TimersClose DEF StartFails
  <2> QED
    BY <1>7, <2>1, <2>2 DEF StartFails, Typed
<1>8. CASE TurnFails \/ BadFrame \/ Leave
  <2>1. PICK failed \in BOOLEAN : Shut(failed)
    BY <1>8 DEF TurnFails, BadFrame, Leave
  <2> QED
    BY <1>8, <2>1, ShutTyped DEF TurnFails, BadFrame, Leave, Typed, socket
<1>9. CASE Receive
  <2>1. Work("message", count.messages + 1, None) \in WorkType
    BY <1>9, ApcAssumption DEF Receive, Work, WorkType, Typed, Tally
  <2>2. count' \in Tally
    BY <1>9, Tallied DEF Receive, Typed
  <2> QED
    BY <1>9, <2>1, <2>2 DEF Receive, Typed, socket, history
<1>10. CASE CloseFrame
  <2>1. Work("close", 0, None) \in WorkType
    BY ApcAssumption DEF Work, WorkType
  <2>2. timers' \in [closed : BOOLEAN, armed : [Handlers -> 0 .. MaxArms], due : SUBSET Handlers]
    BY <1>10, TimersClose DEF CloseFrame
  <2>3. mailbox' \in [closed : BOOLEAN, failed : BOOLEAN]
    BY <1>10 DEF CloseFrame, Typed
  <2>4. turns \in Seq(WorkType) /\ turns' = Append(turns, Work("close", 0, None))
    BY <1>10 DEF CloseFrame, Typed
  <2>5. turns' \in Seq(WorkType)
    BY <2>1, <2>4
  <2> QED
    BY <1>10, <2>2, <2>3, <2>5 DEF CloseFrame, Typed, socket
<1>11. CASE Swap
  <2>1. 0 \in 0 .. MaxArms
    BY ApcAssumption
  <2> QED
    BY <1>11, <2>1 DEF Swap, Cancelled, Typed, socket
<1>12. CASE Send
  <2>1. count \in Tally /\ count.sends \in Nat /\ amc \in Seq(Nat)
    BY DEF Typed, Tally
  <2>2. count.sends < MaxSends /\ count' = [count EXCEPT !.sends = @ + 1] /\ amc' = Append(amc, count.sends + 1)
    BY <1>12 DEF Send
  <2>3. count' \in Tally
    BY <2>1, <2>2, Tallied
  <2>4. amc' \in Seq(Nat)
    BY <2>1, <2>2
  <2> QED
    BY <1>12, <2>3, <2>4 DEF Send, Typed, socket, history
<1>13. CASE Deliver
  <2>1. Publication(Head(amc)) \in Frame /\ amc' \in Seq(Nat)
    BY <1>13 DEF Deliver, Publication, Frame, Typed
  <2>2. out' \in Seq(Frame) /\ pending' \in Seq(Frame)
    BY <1>13, <2>1, SendsTyped DEF Deliver, Typed
  <2> QED
    BY <1>13, <2>1, <2>2 DEF Deliver, Typed, socket, history
<1>14. ASSUME NEW h \in Handlers, StartTimer(h) PROVE Typed'
  <2>0. count \in Tally /\ count.arms < MaxArms /\ count' = [count EXCEPT !.arms = @ + 1]
    BY <1>14 DEF Typed, StartTimer
  <2>1. count' \in Tally
    BY <2>0, Tallied
  <2>2. count.arms + 1 \in 0 .. MaxArms
    BY <2>0, ApcAssumption DEF Tally
  <2>3. timers' \in [closed : BOOLEAN, armed : [Handlers -> 0 .. MaxArms], due : SUBSET Handlers]
    BY <1>14, <2>2 DEF StartTimer, Typed
  <2> QED
    BY <1>14, <2>1, <2>3 DEF StartTimer, Typed, socket, history
<1>15. ASSUME NEW h \in Handlers, StopTimer(h) PROVE Typed'
  <2>1. 0 \in 0 .. MaxArms
    BY ApcAssumption
  <2>2. timers' \in [closed : BOOLEAN, armed : [Handlers -> 0 .. MaxArms], due : SUBSET Handlers]
    BY <1>15, <2>1 DEF StopTimer, Typed
  <2> QED
    BY <1>15, <2>2 DEF StopTimer, Typed, socket
<1>16. ASSUME NEW h \in Handlers, Due(h) PROVE Typed'
  <2>1. Work("timer", timers.armed[h], h) \in WorkType
    BY ApcAssumption DEF Work, WorkType, Typed
  <2>2. timers' \in [closed : BOOLEAN, armed : [Handlers -> 0 .. MaxArms], due : SUBSET Handlers]
    BY <1>16 DEF Due, Typed
  <2>3. turns' \in Seq(WorkType)
    BY <1>16, <2>1 DEF Due, Typed
  <2> QED
    BY <1>16, <2>2, <2>3 DEF Due, Typed, socket, history
<1>17. CASE UNCHANGED vars
  BY <1>17 DEF vars, Typed
<1> QED
  BY <1>1, <1>2, <1>3, <1>4, <1>5, <1>6, <1>7, <1>8, <1>9, <1>10, <1>11, <1>12, <1>13, <1>14,
     <1>15, <1>16, <1>17 DEF Next, TurnGoesOn

-----------------------------------------------------------------------------
(* What is closed stays closed *)

\* Once shut, the channel reads nothing, has no timer and, where it had come up, no
\* subscription.
LEMMA ShutCloses ==
    ASSUME Typed, Gates, NEW failed \in BOOLEAN, Shut(failed)
    PROVE  /\ mailbox'.closed = TRUE /\ closed' = TRUE /\ timers'.closed = TRUE
           /\ \A h \in Handlers : timers'.armed[h] = 0
           /\ timers'.due = {} \/ timers' = timers
           /\ live => sub' # "active"
<1>1. mailbox'.closed = TRUE /\ closed' = TRUE
  BY DEF Shut
<1>2. CASE closed
  BY <1>1, <1>2, ShutAgain DEF Gates, Typed
<1>3. CASE ~closed
  <2>1. timers' = [closed |-> TRUE, armed |-> [h \in Handlers |-> 0], due |-> {}]
    BY <1>3, ShutFirst, TimersClose
  <2>2. timers'.closed = TRUE /\ timers'.due = {} /\ \A h \in Handlers : timers'.armed[h] = 0
    BY <2>1
  <2>3. sub' # "active"
    BY <1>3, ShutFirst
  <2> QED
    BY <1>1, <2>2, <2>3
<1> QED
  BY <1>2, <1>3 DEF Typed

\* Every step keeps what is closed with what: the mailbox with the timers, the
\* connection with the mailbox, the subscription with a connection that was up.
LEMMA GatesKept ==
    ASSUME Typed, Gates, StartFirst, [Next]_vars
    PROVE  Gates'
<1> USE DEF Gates
<1>0. /\ mailbox.closed \in BOOLEAN /\ mailbox.failed \in BOOLEAN /\ timers.closed \in BOOLEAN
      /\ closed \in BOOLEAN /\ live \in BOOLEAN /\ left \in BOOLEAN
  BY DEF Typed
<1>1. CASE Turn
  <2>1. UNCHANGED <<live, left>> /\ turns # <<>> /\ turns \in Seq(WorkType) /\ turn = None
    BY <1>1 DEF Turn, Typed
  <2>2. CASE Skipped(Head(turns))
    <3>1. stage' = stage \/ (Head(turns).kind = "start" /\ stage' = "over")
      BY <2>2 DEF Skipped
    <3>2. live <=> stage' = "serving"
      BY <2>1, <3>1 DEF StartFirst
    <3>3. CASE Shut(FALSE)
      BY <2>1, <3>2, <3>3, ShutCloses
    <3>4. CASE UNCHANGED <<closed, mailbox, pending, sub, timers, stopped, out>>
      BY <2>1, <3>2, <3>4
    <3> QED
      BY <2>2, <3>3, <3>4 DEF Skipped
  <2>3. CASE UNCHANGED <<stage, closed, mailbox, pending, sub, timers, stopped, out>>
    BY <2>1, <2>3
  <2> QED
    BY <1>1, <2>2, <2>3 DEF Turn
<1>2. CASE Enter
  <2>1. UNCHANGED <<socket, mailbox, closed, sub>>
    BY <1>2 DEF Enter
  <2>2. timers'.closed = timers.closed /\ \A h \in Handlers : timers'.armed[h] \in {0, timers.armed[h]}
    BY <1>2 DEF Enter, Typed
  <2> QED
    BY <2>1, <2>2 DEF socket
<1>3. CASE Drain \/ Commit \/ Dump \/ Receive \/ Send \/ Deliver
  BY <1>3 DEF Drain, Commit, Dump, Receive, Send, Deliver, socket
<1>4. CASE Bind
  <2>1. ~live
    BY <1>4 DEF Bind, StartFirst
  <2> QED
    BY <1>4, <2>1 DEF Bind, socket
<1>5. CASE Started
  <2>1. ~live /\ stage = "starting" /\ UNCHANGED <<closed, sub, left>>
    BY <1>5 DEF Started, StartFirst
  <2>2. CASE closed
    BY <1>5, <2>1, <2>2 DEF Started
  <2>3. CASE Upgrade /\ ~closed
    BY <2>1, <2>3 DEF Upgrade
  <2>4. CASE Refuse
    <3>1. timers' = [closed |-> TRUE, armed |-> [h \in Handlers |-> 0], due |-> {}]
      BY <2>4, TimersClose DEF Refuse
    <3>2. timers'.closed = TRUE /\ \A h \in Handlers : timers'.armed[h] = 0
      BY <3>1
    <3>3. mailbox'.closed = TRUE /\ stage' = "over" /\ live' = live
      BY <2>4 DEF Refuse, Typed
    <3> QED
      BY <2>1, <3>2, <3>3
  <2> QED
    BY <1>5, <2>2, <2>3, <2>4 DEF Started
<1>6. CASE TurnEnds
  <2>1. CASE Shut(FALSE)
    BY <1>6, <2>1, ShutCloses DEF TurnEnds, socket
  <2>2. CASE UNCHANGED <<closed, mailbox, pending, sub, timers, stopped, out>>
    BY <1>6, <2>2 DEF TurnEnds, socket
  <2> QED
    BY <1>6, <2>1, <2>2 DEF TurnEnds
<1>7. CASE StartFails
  <2>1. timers' = [closed |-> TRUE, armed |-> [h \in Handlers |-> 0], due |-> {}]
    BY <1>7, TimersClose DEF StartFails
  <2>2. timers'.closed = TRUE /\ \A h \in Handlers : timers'.armed[h] = 0
    BY <2>1
  <2>3. /\ mailbox'.closed = TRUE /\ stage' = "over" /\ ~live
        /\ UNCHANGED <<closed, live, sub, left>>
    BY <1>7 DEF StartFails, StartFirst
  <2> QED
    BY <2>2, <2>3
<1>8. CASE TurnFails \/ BadFrame \/ Leave
  <2>1. PICK failed \in BOOLEAN : Shut(failed)
    BY <1>8 DEF TurnFails, BadFrame, Leave
  <2>2. UNCHANGED <<live, stage>>
    BY <1>8 DEF TurnFails, BadFrame, Leave, socket
  <2> QED
    BY <2>1, <2>2, ShutCloses
<1>9. CASE CloseFrame
  <2>1. timers' = [closed |-> TRUE, armed |-> [h \in Handlers |-> 0], due |-> {}]
    BY <1>9, TimersClose DEF CloseFrame
  <2>2. timers'.closed = TRUE /\ \A h \in Handlers : timers'.armed[h] = 0
    BY <2>1
  <2>3. mailbox'.closed = TRUE /\ UNCHANGED <<closed, sub, socket>>
    BY <1>9 DEF CloseFrame, Typed
  <2> QED
    BY <2>2, <2>3 DEF socket
<1>10. CASE Swap
  <2>1. timers'.closed = timers.closed /\ \A h \in Handlers : timers'.armed[h] = 0
    BY <1>0, <1>10 DEF Swap, Cancelled
  <2> QED
    BY <1>10, <2>1 DEF Swap, socket
<1>11. ASSUME NEW h \in Handlers, StartTimer(h) \/ StopTimer(h) \/ Due(h) PROVE Gates'
  <2>1. UNCHANGED <<socket, mailbox, closed, sub>>
    BY <1>11 DEF StartTimer, StopTimer, Due
  <2>2. timers'.closed = timers.closed
    BY <1>11 DEF StartTimer, StopTimer, Due, Typed
  <2>3. \A g \in Handlers : timers.closed => timers'.armed[g] = 0
    BY <1>11 DEF StartTimer, StopTimer, Due, Typed
  <2> QED
    BY <2>1, <2>2, <2>3 DEF socket
<1>12. CASE UNCHANGED vars
  BY <1>12 DEF vars
<1> QED
  BY <1>1, <1>2, <1>3, <1>4, <1>5, <1>6, <1>7, <1>8, <1>9, <1>10, <1>11, <1>12 DEF Next, TurnGoesOn

-----------------------------------------------------------------------------
(* The works and the entries of the timers *)

\* A turn that goes on, or ends, leaves the other works alone.
SameWorks ==
    /\ UNCHANGED <<turns, calls>>
    /\ \/ turn' = None
       \/ turn # None /\ turn'.work = turn.work /\ (turn' = turn \/ "waiting" \notin {turn.at, turn'.at})

\* A turn that is called, bound, committed or dumped keeps its work.
LEMMA TurnKeepsWork ==
    ASSUME Typed, \/ Drain \/ Bind \/ Commit \/ Dump \/ Started \/ TurnEnds \/ StartFails \/ TurnFails
                  \/ BadFrame \/ Leave \/ Swap \/ Send \/ Deliver
                  \/ \E h \in Handlers : StartTimer(h) \/ StopTimer(h)
    PROVE  SameWorks
<1>1. CASE Drain
  <2>1. turn # None /\ turn \in TurnType
    BY <1>1, TurnIs DEF Drain, At
  <2> QED
    BY <1>1, <2>1 DEF Drain, Goes, At, history, SameWorks, TurnType
<1>2. CASE Bind \/ Commit \/ Dump
  <2>1. turn # None
    BY <1>2 DEF Bind, Commit, Dump, At
  <2> QED
    BY <1>2, <2>1, TurnGoes DEF Bind, Commit, Dump, At, history, SameWorks
<1>3. CASE Started \/ TurnEnds \/ StartFails \/ TurnFails
  BY <1>3 DEF Started, TurnEnds, StartFails, TurnFails, SameWorks
<1>4. CASE BadFrame \/ Leave \/ Swap \/ Send \/ Deliver
  BY <1>4 DEF BadFrame, Leave, Swap, Send, Deliver, history, SameWorks
<1>5. ASSUME NEW h \in Handlers, StartTimer(h) \/ StopTimer(h) PROVE SameWorks
  BY <1>5 DEF StartTimer, StopTimer, history, SameWorks
<1> QED
  BY <1>1, <1>2, <1>3, <1>4, <1>5

\* The entries that were ever armed only become more.
LEMMA ArmsGrow ==
    ASSUME Typed, [Next]_vars
    PROVE  count.arms \in Nat /\ count'.arms \in Nat /\ count.arms <= count'.arms
<1>0. count \in Tally /\ count.arms \in Nat
  BY ApcAssumption DEF Typed, Tally
<1>1. \/ UNCHANGED count
      \/ count' = [count EXCEPT !.messages = @ + 1] \/ count' = [count EXCEPT !.sends = @ + 1]
      \/ count' = [count EXCEPT !.arms = @ + 1]
  BY DEF Next, TurnGoesOn, vars, history, Turn, Enter, Drain, Bind, Commit, Started, TurnEnds, StartFails,
         TurnFails, Dump, Receive, CloseFrame, BadFrame, Leave, Swap, Send, Deliver, StartTimer, StopTimer, Due
<1>2. CASE UNCHANGED count
  BY <1>0, <1>2
<1>3. CASE count' = [count EXCEPT !.messages = @ + 1] \/ count' = [count EXCEPT !.sends = @ + 1]
  <2>1. count'.arms = count.arms
    BY <1>0, <1>3 DEF Tally
  <2> QED
    BY <1>0, <2>1
<1>4. CASE count' = [count EXCEPT !.arms = @ + 1]
  <2>1. count'.arms = count.arms + 1
    BY <1>0, <1>4 DEF Tally
  <2> QED
    BY <1>0, <2>1
<1> QED
  BY <1>1, <1>2, <1>3, <1>4

\* Every step keeps, of each work of a timer, an entry that was armed.
LEMMA WorksKept ==
    ASSUME Typed, Works, Entries, [Next]_vars
    PROVE  Works'
<1>1. \A w : TimerWork(w) => TimerWork(w)'
  BY ArmsGrow DEF TimerWork
<1>2. ASSUME SameWorks PROVE Works'
  BY <1>1, <1>2 DEF SameWorks, Works
<1>3. turns \in Seq(WorkType) /\ calls \in Seq(WorkType)
  BY DEF Typed
<1>4. CASE Turn
  <2>1. turns # <<>> /\ turns' = Tail(turns) /\ calls' = calls
        /\ (turn' = None \/ turn'.work = Head(turns))
    BY <1>4 DEF Turn
  <2>2. Head(turns) = turns[1] /\ 1 \in DOMAIN turns
        /\ \A i \in DOMAIN turns' : i + 1 \in DOMAIN turns /\ turns'[i] = turns[i + 1]
    BY <2>1, <1>3
  <2> QED
    BY <2>1, <2>2, <1>1 DEF Works
<1>5. CASE Enter
  <2>1. turn # None /\ turn'.work = turn.work /\ turns' = turns /\ calls' \in {calls, Append(calls, turn.work)}
    BY <1>5, TurnGoes DEF Enter, At
  <2>2. \A i \in DOMAIN calls' : calls'[i] = turn.work \/ (i \in DOMAIN calls /\ calls'[i] = calls[i])
    BY <2>1, <1>3
  <2> QED
    BY <2>1, <2>2, <1>1 DEF Works
<1>6. ASSUME NEW w, ~(w.kind = "timer") \/ TimerWork(w)', turns' = Append(turns, w), UNCHANGED <<turn, calls>>
      PROVE  Works'
  <2>1. TimerWork(w)'
    BY <1>6 DEF TimerWork
  <2>2. \A i \in DOMAIN turns' : turns'[i] = w \/ (i \in DOMAIN turns /\ turns'[i] = turns[i])
    BY <1>3, <1>6
  <2> QED
    BY <1>1, <1>6, <2>1, <2>2 DEF Works
<1>7. CASE Receive \/ CloseFrame
  BY <1>6, <1>7 DEF Receive, CloseFrame, Work, history
<1>8. ASSUME NEW h \in Handlers, Due(h) PROVE Works'
  <2>1. timers.armed[h] # 0 /\ timers.armed[h] \in 0 .. MaxArms /\ UNCHANGED count
    BY <1>8 DEF Due, Typed
  <2>2. timers.armed[h] <= count.arms
    BY <2>1 DEF Entries
  <2>3. count.arms \in Nat
    BY ArmsGrow
  <2>4. timers.armed[h] \in 1 .. count'.arms
    BY <2>1, <2>2, <2>3, ApcAssumption
  <2>5. PICK w : w = Work("timer", timers.armed[h], h)
    OBVIOUS
  <2>6. TimerWork(w)'
    BY <2>4, <2>5 DEF TimerWork, Work
  <2> QED
    BY <1>6, <1>8, <2>5, <2>6 DEF Due, history
<1>9. CASE UNCHANGED vars
  BY <1>1, <1>9 DEF vars, Works
<1> QED
  BY <1>2, <1>4, <1>5, <1>7, <1>8, <1>9, TurnKeepsWork DEF Next, TurnGoesOn

\* The timers are left alone, or all of them are cancelled.
LEMMA CancelKeeps ==
    ASSUME Typed, Entries, [Next]_vars, UNCHANGED calls,
           \/ UNCHANGED <<timers, stopped>>
           \/ /\ \A h \in Handlers : timers'.armed[h] = 0
              /\ timers'.due = {} /\ stopped' = stopped \cup ArmedIds
    PROVE  Entries'
<1>1. /\ count.arms \in Nat /\ count'.arms \in Nat /\ count.arms <= count'.arms
      /\ \A h \in Handlers : timers.armed[h] \in 0 .. MaxArms
  BY ArmsGrow DEF Typed
<1>2. CASE UNCHANGED <<timers, stopped>>
  <2>1. stopped' \subseteq 1 .. count'.arms
    BY <1>1, <1>2 DEF Entries
  <2>2. \A h \in Handlers : timers.armed[h] <= count.arms => timers.armed[h] <= count'.arms
    BY <1>1
  <2> QED
    BY <1>2, <2>1, <2>2 DEF Entries, StoppedIsSilent
<1>3. CASE /\ \A h \in Handlers : timers'.armed[h] = 0
           /\ timers'.due = {} /\ stopped' = stopped \cup ArmedIds
  <2>1. ASSUME NEW n \in ArmedIds
        PROVE  n \in 1 .. count.arms /\ \A i \in DOMAIN calls : calls[i].kind = "timer" => calls[i].n # n
    <3>1. PICK h \in Handlers : n = timers.armed[h] /\ n # 0
      BY DEF ArmedIds
    <3>2. n <= count.arms /\ \A i \in DOMAIN calls : calls[i].kind = "timer" => calls[i].n # n
      BY <3>1 DEF Entries
    <3>3. n \in Nat
      BY <1>1, <3>1, ApcAssumption
    <3> QED
      BY <1>1, <3>1, <3>2, <3>3
  <2>2. stopped' \subseteq 1 .. count'.arms
    <3>1. \A n \in 1 .. count.arms : n \in 1 .. count'.arms
      BY <1>1
    <3> QED
      BY <1>3, <2>1, <3>1 DEF Entries
  <2>3. StoppedIsSilent'
    BY <1>3, <2>1 DEF Entries, StoppedIsSilent
  <2> QED
    BY <1>3, <2>2, <2>3 DEF Entries
<1> QED
  BY <1>2, <1>3

\* The timers are closed.
LEMMA CloseKeeps ==
    ASSUME Typed, Entries, [Next]_vars, UNCHANGED calls, CloseTimers
    PROVE  Entries'
<1>1. timers' = [closed |-> TRUE, armed |-> [h \in Handlers |-> 0], due |-> {}]
      /\ stopped' = stopped \cup ArmedIds
  BY TimersClose
<1>2. timers'.due = {} /\ \A h \in Handlers : timers'.armed[h] = 0
  BY <1>1
<1> QED
  BY <1>1, <1>2, CancelKeeps

\* What shut does to the entries: nothing, or all of them are stopped.
LEMMA ShutKeeps ==
    ASSUME Typed, Entries, [Next]_vars, UNCHANGED calls, NEW failed \in BOOLEAN, Shut(failed)
    PROVE  Entries'
<1>1. CASE closed
  BY <1>1, ShutAgain, CancelKeeps
<1>2. CASE ~closed
  BY <1>2, ShutFirst, CloseKeeps
<1> QED
  BY <1>1, <1>2 DEF Typed

\* An entry is disarmed, by its call or by stop_timer.
LEMMA DisarmKeeps ==
    ASSUME Typed, Works, Entries, UNCHANGED count, NEW h \in Handlers, timers.armed[h] # 0,
           timers' = [timers EXCEPT !.armed[h] = 0, !.due = @ \ {h}],
           \/ stopped' = stopped \cup {timers.armed[h]} /\ calls' = calls
           \/ stopped' = stopped /\ \E w : calls' = Append(calls, w) /\ w.n = timers.armed[h]
    PROVE  Entries'
<1>1. PICK n : n = timers.armed[h]
  OBVIOUS
<1>2. /\ timers'.armed[h] = 0 /\ timers'.due = timers.due \ {h}
      /\ \A g \in Handlers : g # h => timers'.armed[g] = timers.armed[g]
  BY DEF Typed
<1>3. /\ n # 0 /\ n <= count.arms /\ n \notin stopped /\ n \in Nat
      /\ \A g \in Handlers \ {h} : timers.armed[g] # n
      /\ \A i \in DOMAIN calls : calls[i].kind = "timer" => calls[i].n # n
  BY <1>1, ApcAssumption DEF Entries, Typed
<1>4. \A x \in timers'.due : timers'.armed[x] # 0
  BY <1>2 DEF Entries, Typed
<1>5. CASE stopped' = stopped \cup {n} /\ calls' = calls
  <2>1. n \in 1 .. count.arms
    <3>1. count.arms \in Nat
      BY ApcAssumption DEF Typed, Tally
    <3> QED
      BY <1>3, <3>1
  <2>2. StoppedIsSilent'
    BY <1>3, <1>5 DEF Entries, StoppedIsSilent
  <2>3. ASSUME NEW g \in Handlers, timers'.armed[g] # 0
        PROVE  /\ timers'.armed[g] <= count'.arms /\ timers'.armed[g] \notin stopped'
               /\ \A x \in Handlers \ {g} : timers'.armed[x] # timers'.armed[g]
               /\ \A i \in DOMAIN calls' : calls'[i].kind = "timer" => calls'[i].n # timers'.armed[g]
    BY <1>2, <1>3, <1>5, <2>3 DEF Entries
  <2> QED
    BY <1>4, <1>5, <2>1, <2>2, <2>3 DEF Entries
<1>6. CASE stopped' = stopped /\ \E w : calls' = Append(calls, w) /\ w.n = n
  <2>1. PICK w : calls' = Append(calls, w) /\ w.n = n
    BY <1>6
  <2>2. \A i \in DOMAIN calls' : calls'[i] = w \/ (i \in DOMAIN calls /\ calls'[i] = calls[i])
    BY <2>1 DEF Typed
  <2>3. StoppedIsSilent'
    BY <1>3, <1>6, <2>1, <2>2 DEF Entries, StoppedIsSilent
  <2>4. ASSUME NEW g \in Handlers, timers'.armed[g] # 0
        PROVE  /\ timers'.armed[g] <= count'.arms /\ timers'.armed[g] \notin stopped'
               /\ \A x \in Handlers \ {g} : timers'.armed[x] # timers'.armed[g]
               /\ \A i \in DOMAIN calls' : calls'[i].kind = "timer" => calls'[i].n # timers'.armed[g]
    <3>1. g # h /\ timers'.armed[g] = timers.armed[g]
      BY <1>2, <2>4
    <3> QED
      BY <1>2, <1>3, <1>6, <2>1, <2>2, <2>4, <3>1 DEF Entries
  <2> QED
    BY <1>4, <1>6, <2>3, <2>4 DEF Entries
<1> QED
  BY <1>1, <1>5, <1>6

\* Every step keeps the entries apart, and silent once stopped.
LEMMA EntriesKept ==
    ASSUME Typed, Works, Entries, [Next]_vars
    PROVE  Entries'
<1>1. CASE Turn
  <2>1. calls' = calls
    BY <1>1 DEF Turn
  <2>2. Shut(FALSE) \/ UNCHANGED <<timers, stopped>>
    BY <1>1 DEF Turn, Skipped
  <2> QED
    BY <2>1, <2>2, ShutKeeps, CancelKeeps
<1>2. CASE Enter
  <2>1. turn # None /\ turn.work \in WorkType /\ UNCHANGED <<count, stopped>>
    BY <1>2, TurnIs DEF Enter, At
  <2>2. CASE ~Wanted(turn.work)
    BY <1>2, <2>2, CancelKeeps DEF Enter
  <2>3. CASE Wanted(turn.work) /\ Is("timer")
    <3>1. PICK h : h = turn.work.handler
      OBVIOUS
    <3>2. h \in Handlers /\ turn.work.n = timers.armed[h] /\ turn.work.n # 0
      BY <2>1, <2>3, <3>1 DEF Works, TimerWork, Wanted, Is
    <3>3. /\ calls' = Append(calls, turn.work)
          /\ timers' = [timers EXCEPT !.armed[h] = 0, !.due = @ \ {h}]
      BY <1>2, <2>3, <3>1 DEF Enter
    <3>4. \E w : calls' = Append(calls, w) /\ w.n = timers.armed[h]
      BY <3>2, <3>3
    <3> QED
      BY <2>1, <3>2, <3>3, <3>4, DisarmKeeps
  <2>4. CASE Wanted(turn.work) /\ ~Is("timer")
    <3>1. /\ calls' = Append(calls, turn.work) /\ UNCHANGED timers /\ turn.work.kind # "timer"
      BY <1>2, <2>1, <2>4 DEF Enter, Is
    <3>2. \A i \in DOMAIN calls' : calls'[i] = turn.work \/ (i \in DOMAIN calls /\ calls'[i] = calls[i])
      BY <3>1 DEF Typed
    <3> QED
      BY <2>1, <3>1, <3>2 DEF Entries, StoppedIsSilent
  <2> QED
    BY <2>2, <2>3, <2>4
<1>3. CASE Drain \/ Bind \/ Commit \/ Dump \/ Receive \/ Send \/ Deliver
  BY <1>3, CancelKeeps DEF Drain, Bind, Commit, Dump, Receive, Send, Deliver, history
<1>4. CASE Started
  <2>1. UNCHANGED <<timers, stopped>> \/ CloseTimers
    BY <1>4 DEF Started, Upgrade, Refuse
  <2> QED
    BY <1>4, <2>1, CancelKeeps, CloseKeeps DEF Started
<1>5. CASE TurnEnds
  <2>1. Shut(FALSE) \/ UNCHANGED <<timers, stopped>>
    BY <1>5 DEF TurnEnds
  <2> QED
    BY <1>5, <2>1, ShutKeeps, CancelKeeps DEF TurnEnds
<1>6. CASE StartFails \/ CloseFrame
  BY <1>6, CloseKeeps DEF StartFails, CloseFrame
<1>7. CASE TurnFails \/ BadFrame \/ Leave
  BY <1>7, ShutKeeps DEF TurnFails, BadFrame, Leave
<1>8. CASE Swap
  <2>1. stopped' = stopped \cup ArmedIds /\ timers'.due = {} /\ \A h \in Handlers : timers'.armed[h] = 0
    BY <1>8 DEF Swap, Cancelled
  <2> QED
    BY <1>8, <2>1, CancelKeeps DEF Swap
<1>9. ASSUME NEW h \in Handlers, StartTimer(h) PROVE Entries'
  <2>1. PICK n : n = count.arms + 1
    OBVIOUS
  <2>2. /\ timers.armed[h] = 0 /\ timers' = [timers EXCEPT !.armed[h] = n] /\ UNCHANGED <<calls, stopped>>
        /\ count' = [count EXCEPT !.arms = @ + 1]
    BY <1>9, <2>1 DEF StartTimer, history
  <2>3. /\ timers'.armed[h] = n /\ timers'.due = timers.due
        /\ \A g \in Handlers : g # h => timers'.armed[g] = timers.armed[g]
    BY <2>2 DEF Typed
  <2>4. count.arms \in Nat /\ count'.arms = n /\ n \in Nat /\ n # 0 /\ n \notin 1 .. count.arms
    BY <2>1, <2>2, ArmsGrow DEF Typed, Tally
  <2>5. \A x \in 1 .. count.arms : x \in 1 .. count'.arms
    BY <2>1, <2>4
  <2>6. stopped' \subseteq 1 .. count'.arms /\ n \notin stopped /\ StoppedIsSilent'
    BY <2>2, <2>4, <2>5 DEF Entries, StoppedIsSilent
  <2>7. \A i \in DOMAIN calls : calls[i].kind = "timer" => calls[i].n # n
    BY <2>4 DEF Works, TimerWork
  <2>8. \A g \in Handlers : timers.armed[g] # n /\ (timers.armed[g] <= count.arms => timers.armed[g] <= n)
    <3>1. ASSUME NEW g \in Handlers
          PROVE  timers.armed[g] # n /\ (timers.armed[g] <= count.arms => timers.armed[g] <= n)
      <4>1. timers.armed[g] \in Nat /\ (timers.armed[g] # 0 => timers.armed[g] <= count.arms)
        BY ApcAssumption DEF Entries, Typed
      <4> QED
        BY <2>1, <2>4, <4>1
    <3> QED
      BY <3>1
  <2>9. n <= count'.arms
    BY <2>4
  <2>10. ASSUME NEW g \in Handlers, timers'.armed[g] # 0
         PROVE  /\ timers'.armed[g] <= count'.arms /\ timers'.armed[g] \notin stopped'
                /\ \A x \in Handlers \ {g} : timers'.armed[x] # timers'.armed[g]
                /\ \A i \in DOMAIN calls' : calls'[i].kind = "timer" => calls'[i].n # timers'.armed[g]
    <3>1. CASE g = h
      BY <3>1, <2>2, <2>3, <2>6, <2>7, <2>8, <2>9
    <3>2. CASE g # h
      BY <3>2, <2>2, <2>3, <2>4, <2>8, <2>10 DEF Entries
    <3> QED
      BY <3>1, <3>2
  <2>11. \A x \in timers'.due : timers'.armed[x] # 0
    BY <2>3, <2>4 DEF Entries, Typed
  <2> QED
    BY <2>6, <2>10, <2>11 DEF Entries
<1>10. ASSUME NEW h \in Handlers, StopTimer(h) PROVE Entries'
  BY <1>10, DisarmKeeps DEF StopTimer
<1>11. ASSUME NEW h \in Handlers, Due(h) PROVE Entries'
  <2>1. timers'.armed = timers.armed /\ timers'.due = timers.due \cup {h} /\ timers.armed[h] # 0
    BY <1>11 DEF Due, Typed
  <2> QED
    BY <1>11, <2>1 DEF Due, Entries, StoppedIsSilent, history
<1>12. CASE UNCHANGED vars
  BY <1>12, CancelKeeps DEF vars
<1> QED
  BY <1>1, <1>2, <1>3, <1>4, <1>5, <1>6, <1>7, <1>8, <1>9, <1>10, <1>11, <1>12 DEF Next, TurnGoesOn

-----------------------------------------------------------------------------
(* The conversation *)

\* A mailbox that is closed stays closed.
LEMMA MailboxStays ==
    ASSUME Typed, Gates, [Next]_vars, mailbox.closed
    PROVE  mailbox'.closed
<1>1. \/ UNCHANGED mailbox \/ (\E failed \in BOOLEAN : Shut(failed))
      \/ mailbox' = [mailbox EXCEPT !.closed = TRUE] \/ mailbox' = [closed |-> TRUE, failed |-> TRUE]
  BY DEF Next, TurnGoesOn, vars, Turn, Skipped, Enter, Drain, Bind, Commit, Started, Upgrade, Refuse, TurnEnds,
         StartFails, TurnFails, Dump, Receive, CloseFrame, BadFrame, Leave, Swap, Send, Deliver, StartTimer,
         StopTimer, Due
<1>2. ASSUME NEW failed \in BOOLEAN, Shut(failed) PROVE mailbox'.closed
  BY <1>2, ShutCloses
<1>3. mailbox \in [closed : BOOLEAN, failed : BOOLEAN]
  BY DEF Typed
<1> QED
  BY <1>1, <1>2, <1>3

\* Something is called only after on_start was.
LEMMA CalledLater ==
    ASSUME Typed, StartFirst, turn # None, ~Is("start") \/ ~At("waiting")
    PROVE  calls # <<>> /\ (~Is("start") => stage # "starting")
<1>1. stage = "starting" => Is("start")
  BY DEF StartFirst
<1>2. CASE Is("start")
  <2>1. ~At("waiting")
    BY <1>2
  <2>2. Len(calls) = 1
    BY <1>2, <2>1 DEF StartFirst
  <2>3. calls # <<>>
    BY <2>2
  <2> QED
    BY <1>2, <2>3
<1>3. CASE ~Is("start")
  BY <1>1, <1>3 DEF StartFirst
<1> QED
  BY <1>2, <1>3

\* The parts of StartFirst, for an action that leaves the works alone.
LEMMA SameStart ==
    ASSUME Typed, Gates, StartFirst, SameWorks, stage' = stage, live' = live,
           stage = "starting" => turn' # None \/ turn = None,
           turn' # None /\ turn'.at = "bindings" => turn'.work.kind = "start",
           timers.closed => timers'.closed,
           calls = <<>> => \A h \in Handlers : timers'.armed[h] = 0
    PROVE  StartFirst'
<1>1. /\ turns' = turns /\ calls' = calls
      /\ turn' # None => /\ turn # None /\ turn'.work = turn.work
                         /\ (turn'.at = "waiting" <=> turn.at = "waiting")
  BY DEF SameWorks
<1>2. CASE turn' = None
  <2>1. ASSUME stage = "starting" PROVE turn = None
    BY <1>2, <2>1
  <2> QED
    BY <1>1, <1>2, <2>1 DEF StartFirst, Is, At
<1>3. CASE turn' # None
  <2>1. turn # None /\ turn'.work = turn.work
    BY <1>1, <1>3
  <2>2. (Is("start")' <=> Is("start")) /\ (At("waiting")' <=> At("waiting"))
    BY <1>1, <1>3, <2>1 DEF Is, At
  <2>3. At("bindings")' => Is("start")
    BY <1>3, <2>1 DEF Is, At
  <2> QED
    BY <1>1, <1>3, <2>1, <2>2, <2>3 DEF StartFirst
<1> QED
  BY <1>2, <1>3

\* Every step keeps on_start the first callback, and the only one while the
\* channel is starting.
LEMMA StartKept ==
    ASSUME Typed, Gates, StartFirst, [Next]_vars
    PROVE  StartFirst'
<1>0. /\ turns \in Seq(WorkType) /\ calls \in Seq(WorkType) /\ timers.closed \in BOOLEAN
      /\ live \in BOOLEAN
  BY DEF Typed
<1>1. CASE Turn
  <2>1. turn = None /\ turns # <<>> /\ turns' = Tail(turns) /\ calls' = calls /\ live' = live
    BY <1>1 DEF Turn
  <2>2. /\ Head(turns) = turns[1] /\ 1 \in DOMAIN turns
        /\ \A i \in DOMAIN turns' : i + 1 \in DOMAIN turns /\ turns'[i] = turns[i + 1]
    BY <2>1, <1>0
  <2>3. CASE stage = "starting"
    <3>1. turns = <<Work("start", 0, None)>> /\ calls = <<>>
      BY <2>1, <2>3 DEF StartFirst
    <3>2. turns' = <<>> /\ Head(turns).kind = "start" /\ DOMAIN turns' = {} /\ DOMAIN calls' = {}
      BY <2>1, <3>1 DEF Work
    <3>3. ~live /\ \A h \in Handlers : timers.armed[h] = 0
      BY <2>3, <3>1 DEF Gates, StartFirst
    <3>4. CASE Skipped(Head(turns)) /\ UNCHANGED turn /\ (mailbox.failed \/ mailbox.closed)
      <4>1. stage' = "over" /\ UNCHANGED timers /\ timers.closed
        BY <3>2, <3>4 DEF Skipped, Gates
      <4> QED
        BY <2>1, <3>1, <3>2, <3>3, <3>4, <4>1 DEF StartFirst, Is, At
    <3>5. CASE /\ turn' = [work |-> Head(turns), at |-> "waiting", accepted |-> FALSE]
               /\ UNCHANGED <<stage, timers>>
      <4>1. Head(turns) \in WorkType
        BY <2>1, <1>0
      <4>2. turn' \in TurnType
        BY <3>5, <4>1 DEF TurnType
      <4>3. turn' # None /\ turn'.work.kind = "start" /\ turn'.at = "waiting"
        BY <3>2, <3>5, <4>2, NoTurn
      <4> QED
        BY <2>1, <2>3, <3>1, <3>2, <3>3, <3>5, <4>3 DEF StartFirst, Is, At
    <3> QED
      BY <1>1, <3>4, <3>5 DEF Turn
  <2>4. CASE stage # "starting"
    <3>1. calls # <<>> /\ Head(turns).kind # "start"
      BY <2>1, <2>2, <2>4 DEF StartFirst
    <3>2. stage' = stage
      BY <1>1, <3>1 DEF Turn, Skipped
    <3>3. turn' = None \/ (turn'.work = Head(turns) /\ turn'.at = "waiting")
      BY <1>1, <2>1 DEF Turn
    <3>4. \A i \in DOMAIN turns' : turns'[i].kind # "start"
      BY <2>2, <2>4 DEF StartFirst
    <3>5. ~Is("start")' /\ ~At("bindings")'
      BY <3>1, <3>3 DEF Is, At
    <3> QED
      BY <2>1, <2>4, <3>1, <3>2, <3>4, <3>5 DEF StartFirst
  <2> QED
    BY <2>3, <2>4
<1>2. CASE Enter
  <2>1. /\ turn # None /\ turn.at = "waiting" /\ UNCHANGED <<turns, stage, live>>
        /\ turn' # None /\ turn'.work = turn.work /\ turn'.at \in {"called", "run"}
    BY <1>2, TurnGoes DEF Enter, At, socket
  <2>2. (Is("start")' <=> Is("start")) /\ ~At("waiting")' /\ ~At("bindings")' /\ At("waiting")
    BY <2>1 DEF Is, At
  <2>3. stage = "starting" => Is("start")
    BY <2>1 DEF StartFirst
  <2>4. \A i \in DOMAIN turns : turns[i].kind # "start"
    BY <2>1 DEF StartFirst
  <2>5. CASE Is("start")
    <3>1. calls = <<>> /\ stage = "starting" /\ turn.work.kind = "start" /\ Wanted(turn.work)
      BY <2>2, <2>5 DEF StartFirst, Is, Wanted
    <3>2. calls' = <<turn.work>>
      BY <1>2, <3>1 DEF Enter
    <3>3. Len(calls') = 1 /\ DOMAIN calls' = {1} /\ calls'[1].kind = "start" /\ calls' # <<>>
      BY <3>1, <3>2
    <3> QED
      BY <2>1, <2>2, <2>4, <2>5, <3>1, <3>3 DEF StartFirst
  <2>6. CASE ~Is("start")
    <3>1. calls # <<>> /\ stage # "starting" /\ turn.work.kind # "start"
      BY <2>1, <2>6, CalledLater DEF Is
    <3>2. calls' \in {calls, Append(calls, turn.work)}
      BY <1>2 DEF Enter
    <3>3. calls' # <<>> /\ \A i \in DOMAIN calls' : \/ i \in DOMAIN calls /\ calls'[i] = calls[i]
                                                    \/ i # 1 /\ calls'[i] = turn.work
      BY <1>0, <3>1, <3>2
    <3>4. \A i \in DOMAIN calls' : calls'[i].kind = "start" <=> i = 1
      BY <3>1, <3>3 DEF StartFirst
    <3> QED
      BY <2>1, <2>2, <2>4, <2>6, <3>1, <3>3, <3>4 DEF StartFirst
  <2> QED
    BY <2>5, <2>6
<1>3. CASE Drain \/ Bind \/ Commit \/ Dump
  <2>1. turn # None /\ turn \in TurnType /\ SameWorks
    BY <1>3, TurnIs, TurnKeepsWork DEF Drain, Bind, Commit, Dump, At
  <2>2. turn' # None
    BY <1>3, <2>1, NoTurn DEF Drain, Bind, Commit, Dump, Goes, TurnType
  <2>3. turn'.at = "bindings" => turn'.work.kind = "start"
    BY <1>3, <2>1 DEF Drain, Bind, Commit, Dump, Goes, TurnType, Is
  <2>4. UNCHANGED <<stage, live, timers>>
    BY <1>3 DEF Drain, Bind, Commit, Dump, socket
  <2>5. calls = <<>> => \A h \in Handlers : timers'.armed[h] = 0
    BY <2>4 DEF StartFirst
  <2> QED
    BY <2>1, <2>2, <2>3, <2>4, <2>5, SameStart
<1>4. CASE Started \/ StartFails
  <2>1. turn # None /\ Is("start") /\ ~At("waiting") /\ UNCHANGED <<turns, calls>> /\ turn' = None
    BY <1>4 DEF Started, StartFails, At, Is
  <2>2. calls # <<>> /\ \A i \in DOMAIN turns : turns[i].kind # "start"
    BY <2>1, CalledLater DEF StartFirst
  <2>3. stage' # "starting"
    BY <1>4 DEF Started, StartFails, Upgrade, Refuse
  <2>4. ~Is("start")' /\ ~At("bindings")'
    BY <2>1 DEF Is, At
  <2> QED
    BY <2>1, <2>2, <2>3, <2>4 DEF StartFirst
<1>5. CASE TurnEnds \/ TurnFails
  <2>1. turn # None /\ ~Is("start") /\ UNCHANGED <<turns, calls, stage, live>> /\ turn' = None
    BY <1>5 DEF TurnEnds, TurnFails, At, socket
  <2>2. calls # <<>> /\ stage # "starting"
    BY <2>1, CalledLater
  <2>3. ~Is("start")' /\ ~At("bindings")'
    BY <2>1 DEF Is, At
  <2>4. \A i \in DOMAIN turns : turns[i].kind # "start"
    BY <2>2 DEF StartFirst
  <2> QED
    BY <2>1, <2>2, <2>3, <2>4 DEF StartFirst
<1>6. ASSUME NEW w, w.kind # "start", turns' = Append(turns, w), UNCHANGED <<turn, calls, stage>>,
             calls # <<>>
      PROVE  StartFirst'
  <2>1. \A i \in DOMAIN turns' : turns'[i] = w \/ (i \in DOMAIN turns /\ turns'[i] = turns[i])
    BY <1>0, <1>6
  <2>2. stage = "starting" => turn # None
    BY <1>6 DEF StartFirst
  <2>3. (Is("start")' <=> Is("start")) /\ (At("waiting")' <=> At("waiting")) /\ (At("bindings")' <=> At("bindings"))
    BY <1>6 DEF Is, At
  <2> QED
    BY <1>6, <2>1, <2>2, <2>3 DEF StartFirst
<1>7. CASE Receive \/ CloseFrame
  <2>1. calls # <<>>
    BY <1>7 DEF Receive, CloseFrame, Reads, StartFirst, Gates
  <2>2. UNCHANGED <<turn, calls, stage>>
    BY <1>7 DEF Receive, CloseFrame, socket, history
  <2>3. PICK w : w.kind # "start" /\ turns' = Append(turns, w)
    <3>1. \E w : w.kind # "start" /\ turns' = Append(turns, w)
      <4>1. Work("message", count.messages + 1, None).kind # "start" /\ Work("close", 0, None).kind # "start"
        BY DEF Work
      <4> QED
        BY <1>7, <4>1 DEF Receive, CloseFrame
    <3> QED
      BY <3>1
  <2> QED
    BY <1>6, <2>1, <2>2, <2>3
<1>8. ASSUME NEW h \in Handlers, Due(h) PROVE StartFirst'
  <2>1. calls # <<>>
    BY <1>8 DEF Due, StartFirst
  <2>2. PICK w : w.kind # "start" /\ turns' = Append(turns, w)
    <3>1. Work("timer", timers.armed[h], h).kind # "start"
      BY DEF Work
    <3> QED
      BY <1>8, <3>1 DEF Due
  <2>3. UNCHANGED <<turn, calls, stage>>
    BY <1>8 DEF Due, socket, history
  <2> QED
    BY <1>6, <2>1, <2>2, <2>3
<1>9. CASE BadFrame \/ Leave
  <2>1. SameWorks /\ UNCHANGED <<turn, stage, live>>
    BY <1>9, TurnKeepsWork DEF BadFrame, Leave, socket
  <2>2. timers'.closed = TRUE /\ \A h \in Handlers : timers'.armed[h] = 0
    BY <1>9, ShutCloses DEF BadFrame, Leave
  <2>3. turn' # None /\ turn'.at = "bindings" => turn'.work.kind = "start"
    BY <2>1 DEF StartFirst, At, Is
  <2> QED
    BY <2>1, <2>2, <2>3, SameStart
<1>10. CASE Swap \/ Send \/ Deliver
  <2>1. SameWorks /\ UNCHANGED <<turn, stage, live>>
    BY <1>10, TurnKeepsWork DEF Swap, Send, Deliver, socket
  <2>2. /\ timers.closed => timers'.closed
        /\ calls = <<>> => \A h \in Handlers : timers'.armed[h] = 0
    BY <1>0, <1>10 DEF Swap, Send, Deliver, Cancelled, StartFirst
  <2>3. turn' # None /\ turn'.at = "bindings" => turn'.work.kind = "start"
    BY <2>1 DEF StartFirst, At, Is
  <2> QED
    BY <2>1, <2>2, <2>3, SameStart
<1>11. ASSUME NEW h \in Handlers, StartTimer(h) \/ StopTimer(h) PROVE StartFirst'
  <2>1. SameWorks /\ UNCHANGED <<turn, stage, live>>
    BY <1>11, TurnKeepsWork DEF StartTimer, StopTimer, socket
  <2>2. turn # None /\ ~At("waiting")
    BY <1>11 DEF StartTimer, StopTimer, At
  <2>3. calls # <<>>
    BY <2>2, CalledLater
  <2>4. timers.closed => timers'.closed
    BY <1>11 DEF StartTimer, StopTimer, Typed
  <2>5. turn' # None /\ turn'.at = "bindings" => turn'.work.kind = "start"
    BY <2>1 DEF StartFirst, At, Is
  <2> QED
    BY <2>1, <2>3, <2>4, <2>5, SameStart
<1>12. CASE UNCHANGED vars
  BY <1>12 DEF vars, StartFirst, Is, At
<1> QED
  BY <1>1, <1>2, <1>3, <1>4, <1>5, <1>7, <1>8, <1>9, <1>10, <1>11, <1>12 DEF Next, TurnGoesOn

\* Every step keeps on_close the last callback.
LEMMA CloseKept ==
    ASSUME Typed, Gates, CloseLast, [Next]_vars
    PROVE  CloseLast'
<1>0. turns \in Seq(WorkType) /\ calls \in Seq(WorkType)
  BY DEF Typed
<1>1. CASE Turn
  <2>1. turn = None /\ turns # <<>> /\ turns' = Tail(turns) /\ calls' = calls
    BY <1>1 DEF Turn
  <2>2. /\ Head(turns) = turns[1] /\ 1 \in DOMAIN turns /\ Len(turns') = Len(turns) - 1
        /\ \A i \in DOMAIN turns' : i \in Nat /\ i + 1 \in DOMAIN turns /\ turns'[i] = turns[i + 1]
    BY <2>1, <1>0
  <2>3. turn' = None \/ (turn'.work = Head(turns) /\ turn'.at = "waiting")
    BY <1>1, <2>1 DEF Turn
  <2>4. ~Closes(calls)
    BY <2>1 DEF CloseLast
  <2>5. Head(turns).kind = "close" => turns' = <<>> /\ mailbox.closed
    <3>1. Head(turns).kind = "close" => 1 = Len(turns) /\ Closes(turns)
      BY <2>2 DEF CloseLast, Closes
    <3>2. 1 = Len(turns) => turns' = <<>>
      BY <2>1, <1>0
    <3> QED
      BY <3>1, <3>2 DEF CloseLast
  <2>6. Is("close")' => Head(turns).kind = "close" /\ turns' = <<>>
    BY <2>3, <2>5 DEF Is
  <2>7. Closes(turns') => Closes(turns)
    BY <2>2 DEF Closes
  <2>8. mailbox.closed => mailbox'.closed
    BY MailboxStays
  <2>9. ASSUME NEW i \in DOMAIN turns', turns'[i].kind = "close" PROVE i = Len(turns') /\ ~Is("close")'
    <3>1. i + 1 \in DOMAIN turns /\ turns[i + 1].kind = "close" /\ i \in Nat
      BY <2>2, <2>9
    <3>2. i + 1 = Len(turns)
      BY <3>1 DEF CloseLast
    <3>3. i = Len(turns')
      BY <2>2, <3>1, <3>2
    <3>4. turns' # <<>>
      BY <2>9
    <3> QED
      BY <3>3, <3>4, <2>6
  <2> QED
    BY <2>1, <2>4, <2>5, <2>6, <2>7, <2>8, <2>9 DEF CloseLast, Closes
<1>2. CASE Enter
  <2>1. /\ turn # None /\ turn.at = "waiting" /\ UNCHANGED <<turns, mailbox>>
        /\ turn' # None /\ turn'.work = turn.work /\ turn'.at \in {"called", "run"}
    BY <1>2, TurnGoes DEF Enter, At
  <2>2. (Is("close")' <=> Is("close")) /\ ~At("waiting")' /\ At("waiting")
    BY <2>1 DEF Is, At
  <2>3. ~Closes(calls)
    BY <2>1, <2>2 DEF CloseLast
  <2>4. calls' = calls \/ calls' = Append(calls, turn.work)
    BY <1>2 DEF Enter
  <2>5. \A i \in DOMAIN calls' : \/ i \in DOMAIN calls /\ calls'[i] = calls[i]
                                 \/ i = Len(calls') /\ calls'[i] = turn.work
    BY <1>0, <2>4
  <2>6. ASSUME NEW i \in DOMAIN calls', calls'[i].kind = "close" PROVE i = Len(calls') /\ Is("close")
    BY <2>1, <2>3, <2>5, <2>6 DEF Closes, Is
  <2>7. Closes(calls') => Is("close")
    BY <2>6 DEF Closes
  <2> QED
    BY <2>1, <2>2, <2>3, <2>6, <2>7 DEF CloseLast, Closes
<1>3. ASSUME SameWorks PROVE CloseLast'
  <2>1. /\ turns' = turns /\ calls' = calls /\ (mailbox.closed => mailbox'.closed)
        /\ turn' # None => turn # None /\ turn'.work = turn.work /\ (turn'.at = "waiting" <=> turn.at = "waiting")
    BY <1>3, MailboxStays DEF SameWorks
  <2>2. CASE turn' = None
    <3>1. ~Is("close")'
      BY <2>2 DEF Is
    <3> QED
      BY <2>1, <2>2, <3>1 DEF CloseLast, Closes
  <2>3. CASE turn' # None
    <3>1. (Is("close")' <=> Is("close")) /\ (At("waiting")' <=> At("waiting"))
      BY <2>1, <2>3 DEF Is, At
    <3> QED
      BY <2>1, <2>3, <3>1 DEF CloseLast, Closes
  <2> QED
    BY <2>2, <2>3
<1>4. CASE CloseFrame
  <2>1. ~mailbox.closed /\ mailbox'.closed /\ UNCHANGED <<turn, calls>>
        /\ turns' = Append(turns, Work("close", 0, None))
    BY <1>4 DEF CloseFrame, Reads, Typed
  <2>2. ~Closes(turns) /\ ~Is("close") /\ ~Closes(calls)
    BY <2>1 DEF CloseLast
  <2>3. \A i \in DOMAIN turns' : i = Len(turns') \/ (i \in DOMAIN turns /\ turns'[i] = turns[i])
    BY <1>0, <2>1
  <2>4. ~Is("close")' /\ ~Closes(calls)'
    BY <2>1, <2>2 DEF Is, Closes
  <2> QED
    BY <2>1, <2>2, <2>3, <2>4 DEF CloseLast, Closes
<1>5. ASSUME NEW w, w.kind # "close", ~mailbox.closed, turns' = Append(turns, w), UNCHANGED <<turn, calls>>
      PROVE  CloseLast'
  <2>1. ~Closes(turns) /\ ~Is("close") /\ ~Closes(calls)
    BY <1>5 DEF CloseLast
  <2>2. \A i \in DOMAIN turns' : turns'[i] = w \/ (i \in DOMAIN turns /\ turns'[i] = turns[i])
    BY <1>0, <1>5
  <2>3. ~Closes(turns)' /\ ~Is("close")' /\ ~Closes(calls)'
    BY <1>5, <2>1, <2>2 DEF Is, Closes
  <2> QED
    BY <2>3 DEF CloseLast, Closes
<1>6. CASE Receive
  <2>1. Work("message", count.messages + 1, None).kind # "close"
    BY DEF Work
  <2> QED
    BY <1>5, <1>6, <2>1 DEF Receive, Reads, history
<1>7. ASSUME NEW h \in Handlers, Due(h) PROVE CloseLast'
  <2>1. Work("timer", timers.armed[h], h).kind # "close"
    BY DEF Work
  <2> QED
    BY <1>5, <1>7, <2>1 DEF Due, Gates, history
<1>8. CASE UNCHANGED vars
  BY <1>8 DEF vars, CloseLast, Closes, Is, At
<1> QED
  BY <1>1, <1>2, <1>3, <1>4, <1>6, <1>7, <1>8, TurnKeepsWork DEF Next, TurnGoesOn

-----------------------------------------------------------------------------
(* The socket *)

\* A frame of a callback or of the broker, on either side of the upgrade.
LEMMA SendsWire ==
    ASSUME Typed, Gates, Wire, NEW f \in Frame, f.from \in {"event", "amc"}, Sends(<<f>>),
           UNCHANGED <<stage, live, mailbox, closed>>
    PROVE  Wire'
<1>0. out \in Seq(Frame) /\ pending \in Seq(Frame)
  BY DEF Typed
<1>1. CASE mailbox.closed
  <2>1. UNCHANGED <<out, pending>>
    BY <1>1 DEF Sends
  <2> QED
    BY <2>1 DEF Wire
<1>2. CASE ~mailbox.closed /\ live
  <2>1. out' = Append(out, f) /\ pending' = pending
    BY <1>0, <1>2 DEF Sends
  <2>2. Len(out) > 0 /\ out[1].from = "upgrade" /\ pending = <<>> /\ stage # "starting"
    BY <1>2 DEF Wire, Gates
  <2>3. Len(out') > 0 /\ out'[1] = out[1]
    BY <1>0, <2>1, <2>2
  <2>4. ASSUME NEW i \in DOMAIN out'
        PROVE  /\ i > 1 => out'[i].from \in {"event", "amc", "close"}
               /\ out'[i].from \notin Ends
    <3>1. CASE i \in DOMAIN out
      BY <1>0, <1>2, <2>1, <3>1 DEF Wire
    <3>2. CASE i \notin DOMAIN out
      BY <1>0, <2>1, <3>2 DEF Ends
    <3> QED
      BY <3>1, <3>2
  <2> QED
    BY <1>2, <2>1, <2>2, <2>3, <2>4 DEF Wire
<1>3. CASE ~mailbox.closed /\ ~live
  <2>1. out' = out /\ pending' = Append(pending, f)
    BY <1>0, <1>3 DEF Sends
  <2>2. \A i \in DOMAIN pending' : pending'[i].from \in {"event", "amc"}
    BY <1>0, <2>1 DEF Wire
  <2> QED
    BY <1>3, <2>1, <2>2 DEF Wire
<1> QED
  BY <1>1, <1>2, <1>3

\* The close frame is the last of a connection that was up.
LEMMA ShutWire ==
    ASSUME Typed, Gates, Wire, NEW failed \in BOOLEAN, Shut(failed), live' = live,
           stage' = "starting" => stage = "starting"
    PROVE  Wire'
<1>0. out \in Seq(Frame) /\ pending \in Seq(Frame) /\ mailbox'.closed /\ closed'
  BY ShutCloses DEF Typed
<1>1. CASE closed
  <2>1. UNCHANGED <<out, pending>>
    BY <1>1, ShutAgain
  <2> QED
    BY <1>0, <2>1 DEF Wire
<1>2. CASE ~closed /\ ~live
  <2>1. out' = out /\ pending' = <<>>
    BY <1>2, ShutFirst
  <2> QED
    BY <1>0, <1>2, <2>1 DEF Wire
<1>3. CASE ~closed /\ live
  <2>1. out' = Append(out, Said("close")) /\ pending' = <<>>
    BY <1>3, ShutFirst
  <2>2. Len(out) > 0 /\ out[1].from = "upgrade" /\ stage # "starting"
    BY <1>3 DEF Wire, Gates
  <2>3. Len(out') > 0 /\ out'[1] = out[1]
    BY <1>0, <2>1, <2>2
  <2>4. ASSUME NEW i \in DOMAIN out'
        PROVE  /\ i > 1 => out'[i].from \in {"event", "amc", "close"}
               /\ out'[i].from \in Ends => i = Len(out')
    <3>1. CASE i \in DOMAIN out
      BY <1>0, <1>3, <2>1, <3>1 DEF Wire
    <3>2. CASE i \notin DOMAIN out
      BY <1>0, <2>1, <3>2 DEF Said
    <3> QED
      BY <3>1, <3>2
  <2> QED
    BY <1>0, <1>3, <2>1, <2>2, <2>3, <2>4 DEF Wire
<1> QED
  BY <1>1, <1>2, <1>3 DEF Typed

\* Every step keeps what the socket has carried well formed.
LEMMA WireKept ==
    ASSUME Typed, Gates, StartFirst, Wire, [Next]_vars
    PROVE  Wire'
<1>0. out \in Seq(Frame) /\ pending \in Seq(Frame)
  BY DEF Typed
<1>1. ASSUME UNCHANGED <<out, pending, live, closed>>, mailbox.closed => mailbox'.closed,
             stage' = "starting" => stage = "starting"
      PROVE  Wire'
  BY <1>1 DEF Wire
<1>2. CASE Turn
  <2>1. live' = live /\ (stage' = "starting" => stage = "starting")
    BY <1>2 DEF Turn, Skipped
  <2>2. Shut(FALSE) \/ UNCHANGED <<closed, mailbox, pending, sub, timers, stopped, out>>
    BY <1>2 DEF Turn, Skipped
  <2> QED
    BY <1>1, <2>1, <2>2, ShutWire
<1>3. CASE Enter \/ Bind \/ Commit \/ Dump \/ Receive \/ CloseFrame \/ Swap \/ Send
  <2>1. UNCHANGED <<out, pending, live, closed, stage>>
    BY <1>3 DEF Enter, Bind, Commit, Dump, Receive, CloseFrame, Swap, Send, socket
  <2> QED
    BY <1>1, <2>1, MailboxStays
<1>4. CASE Drain
  <2>1. UNCHANGED <<stage, live, mailbox, closed>>
    BY <1>4 DEF Drain, socket
  <2>2. CASE Sends(<<Event(Len(calls))>>)
    <3>1. PICK f : f = Event(Len(calls))
      OBVIOUS
    <3>2. f \in Frame /\ f.from \in {"event", "amc"}
      BY <3>1 DEF Event, Frame, Typed
    <3> QED
      BY <2>1, <2>2, <3>1, <3>2, SendsWire
  <2>3. CASE UNCHANGED <<pending, out>>
    BY <1>1, <2>1, <2>3
  <2> QED
    BY <1>4, <2>2, <2>3 DEF Drain
<1>5. CASE Deliver
  <2>1. UNCHANGED <<stage, live, mailbox, closed>>
    BY <1>5 DEF Deliver, socket
  <2>2. CASE Sends(<<Publication(Head(amc))>>)
    <3>1. PICK f : f = Publication(Head(amc))
      OBVIOUS
    <3>2. f \in Frame /\ f.from \in {"event", "amc"}
      BY <1>5, <3>1 DEF Deliver, Publication, Frame, Typed
    <3> QED
      BY <2>1, <2>2, <3>1, <3>2, SendsWire
  <2>3. CASE UNCHANGED <<pending, out>>
    BY <1>1, <2>1, <2>3
  <2> QED
    BY <1>5, <2>2, <2>3 DEF Deliver
<1>6. CASE Started
  <2>1. stage = "starting" /\ out = <<>> /\ ~live /\ closed' = closed
    BY <1>6 DEF Started, StartFirst, Wire, Gates
  <2>2. CASE closed
    BY <1>1, <1>6, <2>2 DEF Started
  <2>3. CASE Upgrade
    <3>1. out' = <<Said("upgrade")>> \o pending /\ pending' = <<>> /\ live' = TRUE /\ stage' = "serving"
      BY <2>1, <2>3 DEF Upgrade
    <3>2. Len(out') > 0 /\ out'[1].from = "upgrade"
      BY <1>0, <3>1 DEF Said
    <3>3. ASSUME NEW i \in DOMAIN out'
          PROVE  /\ i > 1 => out'[i].from \in {"event", "amc", "close"}
                 /\ out'[i].from \notin Ends
      <4>1. i = 1 \/ (i > 1 /\ i - 1 \in DOMAIN pending /\ out'[i] = pending[i - 1])
        BY <1>0, <3>1
      <4>2. i > 1 => out'[i].from \in {"event", "amc"}
        BY <4>1 DEF Wire
      <4> QED
        BY <3>2, <4>1, <4>2 DEF Ends
    <3> QED
      BY <3>1, <3>2, <3>3 DEF Wire
  <2>4. CASE Refuse
    <3>1. /\ out' = <<Said("refused")>> /\ mailbox'.closed /\ UNCHANGED <<pending, live>> /\ stage' = "over"
      BY <2>1, <2>4 DEF Refuse, Typed
    <3>2. Len(out') = 1 /\ out'[1].from = "refused" /\ DOMAIN out' = {1}
      BY <3>1 DEF Said
    <3> QED
      BY <2>1, <3>1, <3>2 DEF Wire
  <2> QED
    BY <1>6, <2>2, <2>3, <2>4 DEF Started
<1>7. CASE StartFails
  <2>1. /\ out = <<>> /\ ~live /\ UNCHANGED <<pending, live, closed>> /\ stage' = "over"
        /\ mailbox'.closed /\ out' = IF closed THEN out ELSE Append(out, Said("unavailable"))
    BY <1>7 DEF StartFails, StartFirst, Wire, Gates
  <2>2. CASE closed
    BY <1>1, <2>1, <2>2
  <2>3. CASE ~closed
    <3>1. Len(out') = 1 /\ out'[1].from = "unavailable" /\ DOMAIN out' = {1}
      BY <2>1, <2>3 DEF Said
    <3> QED
      BY <2>1, <3>1 DEF Wire
  <2> QED
    BY <2>2, <2>3
<1>8. CASE TurnEnds
  <2>1. Shut(FALSE) \/ UNCHANGED <<closed, mailbox, pending, sub, timers, stopped, out>>
    BY <1>8 DEF TurnEnds
  <2> QED
    BY <1>1, <1>8, <2>1, ShutWire DEF TurnEnds, socket
<1>9. CASE TurnFails \/ BadFrame \/ Leave
  <2>1. PICK failed \in BOOLEAN : Shut(failed)
    BY <1>9 DEF TurnFails, BadFrame, Leave
  <2>2. UNCHANGED <<live, stage>>
    BY <1>9 DEF TurnFails, BadFrame, Leave, socket
  <2> QED
    BY <2>1, <2>2, ShutWire
<1>10. ASSUME NEW h \in Handlers, StartTimer(h) \/ StopTimer(h) \/ Due(h) PROVE Wire'
  BY <1>1, <1>10 DEF StartTimer, StopTimer, Due, socket
<1>11. CASE UNCHANGED vars
  BY <1>1, <1>11 DEF vars
<1> QED
  BY <1>2, <1>3, <1>4, <1>5, <1>6, <1>7, <1>8, <1>9, <1>10, <1>11 DEF Next, TurnGoesOn

-----------------------------------------------------------------------------
(* Nothing is lost *)

\* A frame behind the others: of another sender, and the next of the same.
LEMMA NumberedOther ==
    ASSUME NEW s \in Seq(Frame), NEW f \in Frame, NEW from, f.from # from, NEW n \in Int,
           Numbered(s, from, n)
    PROVE  Numbered(Append(s, f), from, n)
<1> DEFINE t == Append(s, f)
<1>1. t \in Seq(Frame) /\ Len(t) = Len(s) + 1 /\ t[Len(t)] = f
      /\ \A i \in DOMAIN s : i \in DOMAIN t /\ t[i] = s[i]
  OBVIOUS
<1>2. \A i \in DOMAIN t : i \in DOMAIN s \/ i = Len(t)
  OBVIOUS
<1>3. {i \in DOMAIN t : t[i].from = from} = {i \in DOMAIN s : s[i].from = from}
  BY <1>1, <1>2
<1> HIDE DEF t
<1> QED
  BY <1>1, <1>3 DEF Numbered, t

\* The next frame of the sender itself is numbered behind its others.
LEMMA NumberedNext ==
    ASSUME NEW s \in Seq(Frame), NEW f \in Frame, NEW n \in Nat, f.n = n + 1,
           Numbered(s, f.from, n)
    PROVE  Numbered(Append(s, f), f.from, n + 1)
<1> DEFINE t   == Append(s, f)
           old == {i \in DOMAIN s : s[i].from = f.from}
           new == {i \in DOMAIN t : t[i].from = f.from}
<1>1. Len(t) = Len(s) + 1 /\ t[Len(t)] = f /\ Len(t) \in DOMAIN t
      /\ \A i \in DOMAIN s : i \in DOMAIN t /\ t[i] = s[i] /\ i < Len(t)
  OBVIOUS
<1>2. \A i \in DOMAIN t : i \in DOMAIN s \/ i = Len(t)
  OBVIOUS
<1>3. new = old \cup {Len(t)} /\ \A i \in old : i \in DOMAIN s /\ t[i] = s[i] /\ i < Len(t) /\ i \in Nat
  BY <1>1, <1>2
<1>4. {s[i].n : i \in old} = 1 .. n /\ \A i, j \in old : i < j => s[i].n < s[j].n
  BY DEF Numbered
<1>5. {t[i].n : i \in new} = {s[i].n : i \in old} \cup {n + 1}
  <2>1. t[Len(t)].n = n + 1 /\ \A i \in old : t[i].n = s[i].n
    BY <1>1, <1>3
  <2> HIDE DEF t, old, new
  <2> QED
    BY <1>3, <2>1
<1>6. {t[i].n : i \in new} = 1 .. (n + 1)
  <2>1. (1 .. n) \cup {n + 1} = 1 .. (n + 1)
    OBVIOUS
  <2> QED
    BY <1>4, <1>5, <2>1, Zenon
<1>7. \A i \in old : s[i].n \in 1 .. n
  BY <1>4
<1>8. \A i, j \in new : i < j => t[i].n < t[j].n
  <2>1. ASSUME NEW i \in new, NEW j \in new, i < j PROVE t[i].n < t[j].n
    <3>1. CASE j = Len(t)
      <4>1. i \in old
        BY <1>1, <1>3, <2>1, <3>1
      <4>2. t[i].n \in 1 .. n /\ t[j].n = n + 1
        BY <1>1, <1>3, <1>7, <3>1, <4>1
      <4> QED
        BY <4>2
    <3>2. CASE j # Len(t)
      <4>1. j \in old
        BY <1>3, <3>2
      <4>2. i \in old
        <5>1. j < Len(t) /\ j \in Nat /\ Len(t) \in Nat
          BY <1>1, <1>3, <4>1
        <5>2. i # Len(t)
          BY <5>1, <2>1
        <5> QED
          BY <1>3, <5>2
      <4> QED
        BY <1>3, <1>4, <2>1, <4>1, <4>2
    <3> QED
      BY <3>1, <3>2
  <2> QED
    BY <2>1
<1> QED
  BY <1>6, <1>8, Zenon DEF Numbered

\* What waited for the upgrade, behind it.
LEMMA NumberedBehind ==
    ASSUME NEW p \in Seq(Frame), NEW u \in Frame, NEW from, u.from # from, NEW n \in Int,
           Numbered(p, from, n)
    PROVE  Numbered(<<u>> \o p, from, n)
<1> DEFINE t   == <<u>> \o p
           old == {i \in DOMAIN p : p[i].from = from}
           new == {i \in DOMAIN t : t[i].from = from}
<1>1. /\ t[1] = u /\ \A i \in DOMAIN p : i \in Nat /\ i + 1 \in DOMAIN t /\ t[i + 1] = p[i]
      /\ \A i \in DOMAIN t : i = 1 \/ (i \in Nat /\ i - 1 \in DOMAIN p /\ t[i] = p[i - 1])
  OBVIOUS
<1>2. {p[i].n : i \in old} = 1 .. n /\ \A i, j \in old : i < j => p[i].n < p[j].n
  BY DEF Numbered
<1>3. /\ \A i \in new : i \in Nat /\ i - 1 \in old /\ t[i] = p[i - 1]
      /\ \A i \in old : i \in Nat /\ i + 1 \in new /\ t[i + 1] = p[i]
  BY <1>1
<1> HIDE DEF t, old, new
<1>4. {t[i].n : i \in new} = {p[i].n : i \in old}
  BY <1>3
<1>5. ASSUME NEW i \in new, NEW j \in new, i < j PROVE t[i].n < t[j].n
  <2>1. i - 1 \in old /\ j - 1 \in old /\ i - 1 < j - 1 /\ t[i] = p[i - 1] /\ t[j] = p[j - 1]
    BY <1>3, <1>5
  <2> QED
    BY <1>2, <2>1
<1> QED
  BY <1>2, <1>4, <1>5 DEF Numbered, t, old, new

\* On either side of the upgrade, a frame is carried behind the others.
LEMMA Carries ==
    ASSUME Typed, Wire, ~mailbox.closed, NEW f \in Frame, Sends(<<f>>)
    PROVE  (out \o pending)' = Append(out \o pending, f)
<1>0. out \in Seq(Frame) /\ pending \in Seq(Frame)
  BY DEF Typed
<1>1. CASE live
  <2>1. out' = Append(out, f) /\ pending' = <<>> /\ pending = <<>>
    BY <1>0, <1>1 DEF Sends, Wire
  <2> QED
    BY <1>0, <2>1
<1>2. CASE ~live
  <2>1. out' = out /\ pending' = Append(pending, f)
    BY <1>0, <1>2 DEF Sends
  <2>2. out \o Append(pending, f) = Append(out \o pending, f)
    BY <1>0
  <2> QED
    BY <2>1, <2>2
<1> QED
  BY <1>1, <1>2 DEF Typed

\* A step that sends nothing, of the handler or of the broker, loses nothing: the channel
\* is as it was, or closed by now.
LEMMA LostStays ==
    ASSUME Typed, Lost, UNCHANGED <<amc, count>>,
           mailbox'.closed \/ (/\ UNCHANGED <<out, pending>> /\ ~mailbox.closed
                               /\ ~At("failing")' => ~At("failing") /\ Pushed' = Pushed)
    PROVE  Lost'
<1>1. CASE mailbox'.closed
  BY <1>1 DEF Lost, NothingLost
<1>2. CASE /\ UNCHANGED <<out, pending>> /\ ~mailbox.closed
           /\ ~At("failing")' => ~At("failing") /\ Pushed' = Pushed
  <2>1. /\ \A i \in DOMAIN amc : amc[i] = count.sends - Len(amc) + i
        /\ Numbered(out \o pending, "amc", count.sends - Len(amc))
        /\ ~At("failing") => Numbered(out \o pending, "event", Pushed)
    BY <1>2 DEF Lost, NothingLost
  <2>2. ~At("failing")' => Numbered(out \o pending, "event", Pushed')
    BY <1>2, <2>1
  <2>3. ~At("failing")' => Numbered(out \o pending, "event", Pushed)'
    <3> HIDE DEF Pushed
    <3> QED
      BY <1>2, <2>2 DEF Numbered
  <2>4. Numbered(out \o pending, "amc", count.sends - Len(amc))'
    BY <1>2, <2>1 DEF Numbered
  <2> QED
    BY <2>1, <2>3, <2>4 DEF Lost, NothingLost
<1> QED
  BY <1>1, <1>2

\* The callback that runs has pushed nothing yet; any other has.
LEMMA PushedIs ==
    ASSUME Typed
    PROVE  /\ At("called") => Pushed = Len(calls) - 1
           /\ ~At("called") => Pushed = Len(calls)
           /\ Pushed \in Int /\ Len(calls) \in Nat
BY DEF Pushed, Typed

\* What is pushed goes out behind the rest, and the broker's frames stay as they were.
LEMMA LostPushes ==
    ASSUME Typed, Wire, Lost, ~mailbox.closed, UNCHANGED <<mailbox, amc, count, calls>>,
           At("called"), ~At("called")', ~At("failing")',
           calls # <<>>, Sends(<<Event(Len(calls))>>)
    PROVE  Lost'
<1>1. calls \in Seq(WorkType) /\ Len(calls) \in Nat /\ Len(calls) # 0
  BY DEF Typed
<1>2. PICK n \in Nat : n = Len(calls) - 1 /\ n + 1 = Len(calls)
  BY <1>1
<1>3. PICK s \in Seq(Frame) : s = out \o pending
  <2>1. out \o pending \in Seq(Frame)
    BY DEF Typed
  <2> QED
    BY <2>1, Zenon
<1>4. PICK f \in Frame : f = Event(Len(calls)) /\ f.from = "event" /\ f.n = n + 1
  BY <1>1, <1>2 DEF Event, Frame
<1>5. PICK m \in Int : m = count.sends - Len(amc)
  BY DEF Typed, Tally
<1>6. turn # None /\ turn.at = "called"
  BY DEF At
<1>7. ~At("failing") /\ Pushed = n /\ Pushed' = n + 1
  BY <1>1, <1>2, <1>6 DEF At, Pushed
<1>8. Numbered(s, "event", n) /\ Numbered(s, "amc", m)
  BY <1>3, <1>5, <1>7 DEF Lost, NothingLost
<1>9. (out \o pending)' = Append(s, f)
  BY <1>3, <1>4, Carries
<1>10. Numbered(Append(s, f), "event", n + 1)
  BY <1>4, <1>8, NumberedNext
<1>11. Numbered(Append(s, f), "amc", m)
  BY <1>4, <1>8, NumberedOther
<1>12. Numbered(out \o pending, "event", Pushed)' /\ Numbered(out \o pending, "amc", count.sends - Len(amc))'
  <2>1. PICK t : t = Append(s, f)
    OBVIOUS
  <2>2. PICK j : j = n + 1
    OBVIOUS
  <2>3. (out \o pending)' = t /\ Pushed' = j /\ (count.sends - Len(amc))' = m
    BY <1>5, <1>7, <1>9, <2>1, <2>2
  <2>4. Numbered(t, "event", j) /\ Numbered(t, "amc", m)
    BY <1>10, <1>11, <2>1, <2>2
  <2> QED
    BY <2>3, <2>4, Zenon DEF Numbered
<1> QED
  BY <1>12 DEF Lost, NothingLost

\* A publication is numbered behind the ones before it, and delivered behind them.
LEMMA LostDelivers ==
    ASSUME Typed, Wire, Gates, Lost, Deliver
    PROVE  Lost'
<1>1. amc \in Seq(Nat) /\ amc # <<>> /\ amc' = Tail(amc) /\ UNCHANGED <<mailbox, count, calls, turn>>
  BY DEF Typed, Deliver, history
<1>2. PICK k \in Nat : k = count.sends
  BY DEF Typed, Tally
<1>3. Len(amc) <= k /\ \A i \in DOMAIN amc : amc[i] = k - Len(amc) + i
  BY <1>2 DEF Lost, NothingLost
<1>4. /\ Len(amc') = Len(amc) - 1 /\ Len(amc) \in Nat /\ Head(amc) = amc[1] /\ 1 \in DOMAIN amc
      /\ \A i \in DOMAIN amc' : i \in Nat /\ i + 1 \in DOMAIN amc /\ amc'[i] = amc[i + 1]
  BY <1>1
<1>5. Head(amc) = k - Len(amc) + 1
  BY <1>2, <1>3, <1>4
<1>6. Len(amc') <= k /\ \A i \in DOMAIN amc' : amc'[i] = k - Len(amc') + i
  <2>1. ASSUME NEW i \in DOMAIN amc' PROVE amc'[i] = k - Len(amc') + i
    <3>1. PICK m \in Nat : m = Len(amc)
      BY <1>4
    <3>2. PICK n : n = Len(amc')
      OBVIOUS
    <3>3. amc'[i] = k - m + (i + 1) /\ i \in Nat /\ n = m - 1
      BY <1>3, <1>4, <3>1, <3>2
    <3>4. k - m + (i + 1) = k - n + i
      BY <3>3
    <3> QED
      BY <3>2, <3>3, <3>4
  <2> QED
    BY <1>2, <1>3, <1>4, <2>1
<1>7. CASE mailbox.closed
  BY <1>1, <1>2, <1>6, <1>7 DEF Lost, NothingLost
<1>8. CASE ~mailbox.closed
  <2>1. Sends(<<Publication(Head(amc))>>)
    BY <1>8 DEF Deliver, Gates
  <2>2. PICK m \in Nat : m = k - Len(amc) /\ k - Len(amc') = m + 1
    BY <1>2, <1>3, <1>4
  <2>3. PICK f \in Frame : f = Publication(Head(amc)) /\ f.from = "amc" /\ f.n = m + 1
    <3>1. Head(amc) = m + 1 /\ m + 1 \in Nat
      BY <1>2, <1>4, <1>5, <2>2
    <3>2. Publication(Head(amc)) \in Frame /\ Publication(Head(amc)).from = "amc" /\ Publication(Head(amc)).n = m + 1
      BY <3>1 DEF Publication, Frame
    <3> QED
      BY <3>2, Zenon
  <2>4. PICK s \in Seq(Frame) : s = out \o pending
    <3>1. out \o pending \in Seq(Frame)
      BY DEF Typed
    <3> QED
      BY <3>1, Zenon
  <2>5. PICK p \in Int : p = Pushed /\ p = Pushed'
    <3>1. Pushed \in Int /\ Pushed' = Pushed
      BY <1>1, PushedIs DEF Pushed, At
    <3> QED
      BY <3>1
  <2>6. Numbered(s, "amc", m) /\ (~At("failing") => Numbered(s, "event", p))
    BY <1>2, <1>8, <2>2, <2>4, <2>5 DEF Lost, NothingLost
  <2>7. (out \o pending)' = Append(s, f)
    BY <1>8, <2>1, <2>3, <2>4, Carries
  <2>8. Numbered(Append(s, f), "amc", m + 1)
    BY <2>3, <2>6, NumberedNext
  <2>9. ~At("failing") => Numbered(Append(s, f), "event", p)
    BY <2>3, <2>6, NumberedOther
  <2>10. PICK t : t = Append(s, f)
    OBVIOUS
  <2>11. PICK j : j = m + 1
    OBVIOUS
  <2>12. (out \o pending)' = t /\ (count.sends - Len(amc))' = j /\ (At("failing")' <=> At("failing"))
    BY <1>1, <1>2, <2>2, <2>7, <2>10, <2>11 DEF At
  <2>13. Numbered(t, "amc", j) /\ (~At("failing") => Numbered(t, "event", p))
    BY <2>8, <2>9, <2>10, <2>11
  <2>14. Numbered(out \o pending, "amc", count.sends - Len(amc))'
    BY <2>12, <2>13, Zenon DEF Numbered
  <2>15. ~At("failing")' => Numbered(out \o pending, "event", Pushed)'
    <3>1. CASE At("failing")
      BY <2>12, <3>1
    <3>2. CASE ~At("failing")
      <4>1. Numbered(t, "event", p) /\ t = (out \o pending)' /\ p = Pushed'
        BY <2>5, <2>12, <2>13, <3>2
      <4>2. Numbered(out \o pending, "event", Pushed)'
        BY <4>1, Zenon DEF Numbered
      <4> QED
        BY <4>2
    <3> QED
      BY <3>1, <3>2
  <2> QED
    BY <1>1, <1>2, <1>6, <2>14, <2>15 DEF Lost, NothingLost
<1> QED
  BY <1>7, <1>8

\* The upgrade goes first; what waited for it follows as it was.
LEMMA LostUpgrades ==
    ASSUME Typed, Lost, ~mailbox.closed, out = <<>>, UNCHANGED <<mailbox, amc, count, calls>>,
           Upgrade, At("publishing"), turn' = None
    PROVE  Lost'
<1>1. pending \in Seq(Frame)
  BY DEF Typed
<1>2. PICK u \in Frame : u = Said("upgrade") /\ u.from = "upgrade"
  <2>1. Said("upgrade") \in Frame /\ Said("upgrade").from = "upgrade"
    BY DEF Said, Frame
  <2> QED
    BY <2>1, Zenon
<1>3. PICK t : t = <<u>> \o pending
  OBVIOUS
<1>4. (out \o pending)' = t /\ out \o pending = pending
  BY <1>1, <1>2, <1>3 DEF Upgrade
<1>5. PICK m \in Int : m = count.sends - Len(amc) /\ m = (count.sends - Len(amc))'
  BY DEF Typed, Tally
<1>6. Pushed \in Int /\ Pushed' = Pushed /\ ~At("failing")
  BY PushedIs DEF Pushed, At
<1>7. Numbered(pending, "amc", m) /\ Numbered(pending, "event", Pushed)
  BY <1>4, <1>5, <1>6 DEF Lost, NothingLost
<1>8. Numbered(t, "amc", m) /\ Numbered(t, "event", Pushed)
  BY <1>1, <1>2, <1>3, <1>6, <1>7, NumberedBehind
<1>9. Numbered(out \o pending, "amc", count.sends - Len(amc))'
  <2>1. (out \o pending)' = t /\ (count.sends - Len(amc))' = m /\ Numbered(t, "amc", m)
    BY <1>4, <1>5, <1>8
  <2> QED
    BY <2>1, Zenon DEF Numbered
<1>10. Numbered(out \o pending, "event", Pushed)'
  <2>1. PICK p : p = Pushed /\ p = Pushed'
    BY <1>6
  <2>2. Numbered(t, "event", p)
    BY <1>8, <2>1
  <2> QED
    BY <1>4, <2>1, <2>2, Zenon DEF Numbered
<1> QED
  BY <1>9, <1>10 DEF Lost, NothingLost

\* A publication that is sent waits behind the others.
LEMMA LostSends ==
    ASSUME Typed, Lost, Send
    PROVE  Lost'
<1>1. /\ amc \in Seq(Nat) /\ count \in Tally /\ amc' = Append(amc, count.sends + 1)
      /\ count' = [count EXCEPT !.sends = @ + 1]
      /\ UNCHANGED <<mailbox, turn, calls, out, pending>>
  BY DEF Typed, Send, history
<1>2. PICK k \in Nat : k = count.sends /\ k + 1 = count'.sends
  BY <1>1 DEF Tally
<1>3. Len(amc) <= k /\ \A i \in DOMAIN amc : amc[i] = k - Len(amc) + i
  BY <1>2 DEF Lost, NothingLost
<1>4. /\ Len(amc') = Len(amc) + 1 /\ Len(amc) \in Nat /\ amc'[Len(amc) + 1] = k + 1
      /\ \A i \in DOMAIN amc' : i \in Nat /\ (i = Len(amc) + 1 \/ (i \in DOMAIN amc /\ amc'[i] = amc[i]))
  BY <1>1, <1>2
<1>5. Len(amc') <= k + 1 /\ \A i \in DOMAIN amc' : amc'[i] = (k + 1) - Len(amc') + i
  <2>1. ASSUME NEW i \in DOMAIN amc' PROVE amc'[i] = (k + 1) - Len(amc') + i
    BY <1>2, <1>3, <1>4
  <2> QED
    BY <1>2, <1>3, <1>4, <2>1
<1>6. (count.sends - Len(amc))' = count.sends - Len(amc)
  BY <1>2, <1>4
<1>7. ~mailbox.closed => /\ ~At("failing")' => Numbered(out \o pending, "event", Pushed)'
                         /\ Numbered(out \o pending, "amc", count.sends - Len(amc))'
  <2>1. ~mailbox.closed => /\ ~At("failing") => Numbered(out \o pending, "event", Pushed)
                           /\ Numbered(out \o pending, "amc", count.sends - Len(amc))
    BY DEF Lost, NothingLost
  <2>2. Pushed' = Pushed /\ (At("failing")' <=> At("failing")) /\ (out \o pending)' = out \o pending
    BY <1>1 DEF Pushed, At
  <2> QED
    BY <1>6, <2>1, <2>2, Zenon DEF Numbered
<1> QED
  BY <1>1, <1>2, <1>5, <1>7 DEF Lost, NothingLost

\* As long as the channel is open, nothing is lost.
LEMMA LostKept ==
    ASSUME Typed, Gates, StartFirst, CloseLast, Wire, Lost, [Next]_vars
    PROVE  Lost'
<1>0. ASSUME UNCHANGED <<amc, count, out, pending, mailbox>>,
             ~At("failing")' => ~At("failing") /\ Pushed' = Pushed
      PROVE  Lost'
  BY <1>0, LostStays
<1>1. CASE Turn
  <2>1. turn = None /\ UNCHANGED <<amc, count, calls>>
    BY <1>1 DEF Turn
  <2>2. CASE mailbox.failed \/ mailbox.closed
    <3>1. mailbox'.closed
      BY <1>1, <2>2 DEF Turn, Skipped, Shut, Gates
    <3> QED
      BY <2>1, <3>1, LostStays
  <2>3. CASE ~mailbox.failed /\ ~mailbox.closed
    <3>1. /\ UNCHANGED <<out, pending, mailbox>>
          /\ turn' = [work |-> Head(turns), at |-> "waiting", accepted |-> FALSE]
      BY <1>1, <2>3 DEF Turn
    <3>2. ~At("called") /\ ~At("called")' /\ ~At("failing")
      BY <2>1, <3>1 DEF At
    <3>3. Pushed' = Pushed
      BY <2>1, <3>2 DEF Pushed
    <3> QED
      BY <1>0, <2>1, <3>1, <3>2, <3>3
  <2> QED
    BY <2>2, <2>3
<1>2. CASE Enter
  <2>1. /\ turn # None /\ turn.at = "waiting" /\ calls \in Seq(WorkType) /\ turn.work \in WorkType
        /\ UNCHANGED <<amc, count, out, pending, mailbox>>
    BY <1>2, TurnIs DEF Enter, At, Typed
  <2>2. CASE Wanted(turn.work)
    <3>1. calls' = Append(calls, turn.work) /\ turn' # None /\ turn'.at = "called"
      BY <1>2, <2>1, <2>2, TurnGoes DEF Enter
    <3>2. Len(calls') = Len(calls) + 1 /\ Len(calls) \in Nat
      BY <2>1, <3>1
    <3>3. Pushed' = Pushed /\ ~At("failing")
      BY <2>1, <3>1, <3>2 DEF Pushed, At
    <3> QED
      BY <1>0, <2>1, <3>3
  <2>3. CASE ~Wanted(turn.work)
    <3>1. calls' = calls /\ turn' # None /\ turn'.at = "run"
      BY <1>2, <2>1, <2>3, TurnGoes DEF Enter
    <3>2. Pushed' = Pushed /\ ~At("failing")
      BY <2>1, <3>1 DEF Pushed, At
    <3> QED
      BY <1>0, <2>1, <3>2
  <2> QED
    BY <2>2, <2>3
<1>3. CASE Drain
  <2>1. At("called") /\ turn # None /\ turn.at = "called" /\ UNCHANGED <<mailbox, amc, count, calls>>
    BY <1>3 DEF Drain, At, history
  <2>2. CASE mailbox.closed
    BY <2>1, <2>2, LostStays
  <2>3. CASE ~mailbox.closed
    <3>1. ~Is("close") /\ Sends(<<Event(Len(calls))>>)
      BY <1>3, <2>3 DEF Drain, CloseLast
    <3>2. turn' # None /\ turn'.at \in {"run", "bindings"}
      <4>1. turn \in TurnType
        BY <2>1, TurnIs
      <4>2. turn' \in TurnType /\ turn'.at \in {"run", "bindings"}
        BY <1>3, <4>1 DEF Drain, Goes, TurnType
      <4> QED
        BY <4>2, NoTurn
    <3>3. ~At("called")' /\ ~At("failing")'
      BY <3>2 DEF At
    <3>4. calls # <<>>
      <4>1. turn.at # "waiting" /\ calls \in Seq(WorkType)
        BY <2>1 DEF Typed
      <4>2. CASE Is("start")
        <5>1. Len(calls) = 1
          BY <2>1, <4>1, <4>2 DEF StartFirst, At
        <5> QED
          BY <5>1
      <4>3. CASE ~Is("start")
        <5>1. stage # "starting"
          BY <2>1, <4>3 DEF StartFirst
        <5> QED
          BY <2>1, <5>1 DEF StartFirst
      <4> QED
        BY <4>2, <4>3
    <3> QED
      BY <2>1, <2>3, <3>1, <3>3, <3>4, LostPushes
  <2> QED
    BY <2>2, <2>3
<1>4. CASE Bind \/ Commit \/ Dump
  <2>1. UNCHANGED <<amc, count, out, pending, mailbox, calls>> /\ turn # None
    BY <1>4 DEF Bind, Commit, Dump, At, history
  <2>2. CASE Dump
    <3>1. turn' # None /\ turn'.at = "failing"
      BY <2>1, <2>2, TurnGoes DEF Dump
    <3> QED
      BY <1>0, <2>1, <3>1 DEF At
  <2>3. CASE Bind \/ Commit
    <3>1. turn' # None /\ turn'.at \in {"run", "publishing"} /\ turn.at \in {"bindings", "run"}
      BY <2>1, <2>3, TurnGoes DEF Bind, Commit, At
    <3>2. ~At("failing") /\ Pushed' = Pushed
      BY <2>1, <3>1 DEF At, Pushed
    <3> QED
      BY <1>0, <2>1, <3>2
  <2> QED
    BY <1>4, <2>2, <2>3
<1>5. CASE Started
  <2>1. At("publishing") /\ Is("start") /\ turn' = None /\ UNCHANGED <<amc, count, calls, closed>>
    BY <1>5 DEF Started
  <2>2. CASE mailbox.closed
    <3>1. mailbox'.closed
      BY <1>5, <2>2 DEF Started, Upgrade, Refuse, Typed
    <3> QED
      BY <2>1, <3>1, LostStays
  <2>3. CASE ~mailbox.closed
    <3>1. ~closed /\ out = <<>>
      BY <2>1, <2>3 DEF Gates, StartFirst, Wire
    <3>2. CASE turn.accepted
      <4>1. Upgrade
        BY <1>5, <3>1, <3>2 DEF Started
      <4>2. UNCHANGED mailbox
        BY <4>1 DEF Upgrade
      <4> QED
        BY <2>1, <2>3, <3>1, <4>1, <4>2, LostUpgrades
    <3>3. CASE ~turn.accepted
      <4>1. mailbox'.closed
        BY <1>5, <3>1, <3>3 DEF Started, Refuse, Typed
      <4> QED
        BY <2>1, <4>1, LostStays
    <3> QED
      BY <3>2, <3>3
  <2> QED
    BY <2>2, <2>3
<1>6. CASE TurnEnds
  <2>1. At("publishing") /\ turn' = None /\ UNCHANGED <<amc, count, calls>>
    BY <1>6 DEF TurnEnds
  <2>2. CASE Is("close")
    <3>1. mailbox'.closed
      BY <1>6, <2>2 DEF TurnEnds, Shut
    <3> QED
      BY <2>1, <3>1, LostStays
  <2>3. CASE ~Is("close")
    <3>1. UNCHANGED <<mailbox, out, pending>>
      BY <1>6, <2>3 DEF TurnEnds
    <3>2. ~At("failing") /\ Pushed' = Pushed
      BY <2>1 DEF At, Pushed
    <3> QED
      BY <1>0, <2>1, <3>1, <3>2
  <2> QED
    BY <2>2, <2>3
<1>7. CASE StartFails \/ TurnFails \/ BadFrame \/ Leave \/ CloseFrame
  <2>1. mailbox'.closed /\ UNCHANGED <<amc, count>>
    BY <1>7 DEF StartFails, TurnFails, BadFrame, Leave, CloseFrame, Shut, Typed
  <2> QED
    BY <2>1, LostStays
<1>8. ASSUME UNCHANGED <<amc, out, pending, mailbox, turn, calls>>, count'.sends = count.sends PROVE Lost'
  <2>1. Pushed' = Pushed
    BY <1>8 DEF Pushed, At
  <2> QED
    BY <1>8, <2>1 DEF Lost, NothingLost, Numbered, At
<1>9. CASE Send
  BY <1>9, LostSends
<1>10. CASE Deliver
  BY <1>10, LostDelivers
<1>11. CASE Receive
  <2>1. UNCHANGED <<amc, out, pending, mailbox, turn, calls>> /\ count'.sends = count.sends
    BY <1>11 DEF Receive, history, Typed, Tally
  <2> QED
    BY <1>8, <2>1
<1>12. ASSUME NEW h \in Handlers, StartTimer(h) \/ StopTimer(h) \/ Due(h) PROVE Lost'
  <2>1. UNCHANGED <<amc, out, pending, mailbox, turn, calls>> /\ count'.sends = count.sends
    BY <1>12 DEF StartTimer, StopTimer, Due, history, Typed, Tally
  <2> QED
    BY <1>8, <2>1
<1>13. CASE Swap
  BY <1>8, <1>13 DEF Swap
<1>14. CASE UNCHANGED vars
  BY <1>8, <1>14 DEF vars
<1> QED
  BY <1>1, <1>2, <1>3, <1>4, <1>5, <1>6, <1>7, <1>9, <1>10, <1>11, <1>12, <1>13, <1>14
  DEF Next, TurnGoesOn

-----------------------------------------------------------------------------
(* The theorems *)

\* A connection begins with its on_start queued and nothing else.
LEMMA ApcInit == Init => IInv
<1> SUFFICES ASSUME Init PROVE IInv
  OBVIOUS
<1>1. Work("start", 0, None) \in WorkType
  BY ApcAssumption DEF Work, WorkType
<1>2. 0 \in 0 .. MaxMessages /\ 0 \in 0 .. MaxArms /\ 0 \in 0 .. MaxSends
  BY ApcAssumption
<1>3. /\ calls = <<>> /\ amc = <<>> /\ out = <<>> /\ pending = <<>> /\ turn = None
      /\ turns = <<Work("start", 0, None)>> /\ DOMAIN turns = {1} /\ turns[1].kind = "start"
      /\ DOMAIN calls = {} /\ DOMAIN amc = {} /\ DOMAIN out = {} /\ DOMAIN pending = {}
  BY DEF Init, Work
<1>4. Typed
  <2>1. count \in Tally
    BY <1>2 DEF Init, Tally
  <2>2. timers \in [closed : BOOLEAN, armed : [Handlers -> 0 .. MaxArms], due : SUBSET Handlers]
    BY <1>2 DEF Init
  <2>3. turns \in Seq(WorkType)
    BY <1>1, <1>3
  <2>4. amc \in Seq(Nat) /\ calls \in Seq(WorkType) /\ out \in Seq(Frame) /\ pending \in Seq(Frame)
    BY <1>3
  <2>5. /\ stage = "starting" /\ mailbox \in [closed : BOOLEAN, failed : BOOLEAN] /\ sub = "none"
        /\ closed \in BOOLEAN /\ live \in BOOLEAN /\ left \in BOOLEAN
    BY DEF Init
  <2> QED
    BY <1>3, <2>1, <2>2, <2>3, <2>4, <2>5 DEF Typed
<1>5. Gates
  BY DEF Init, Gates
<1>6. Works
  BY <1>3 DEF Works, TimerWork
<1>7. Entries
  BY <1>3 DEF Init, Entries, StoppedIsSilent
<1>8. StartFirst
  BY <1>3 DEF Init, StartFirst, Is, At
<1>9. CloseLast
  BY <1>3 DEF CloseLast, Closes, Is
<1>10. Wire
  BY <1>3 DEF Init, Wire
<1>11. Lost
  <2>1. out \o pending = <<>> /\ Len(amc) = 0 /\ count.sends = 0 /\ Pushed = 0
    BY <1>3 DEF Init, Pushed, At
  <2>2. \A from : Numbered(<<>>, from, 0)
    BY DEF Numbered
  <2> QED
    BY <1>3, <2>1, <2>2 DEF Lost, NothingLost
<1> QED
  BY <1>4, <1>5, <1>6, <1>7, <1>8, <1>9, <1>10, <1>11 DEF IInv

\* Every step keeps the invariant.
LEMMA ApcNext == IInv /\ [Next]_vars => IInv'
<1> SUFFICES ASSUME Typed, Gates, Works, Entries, StartFirst, CloseLast, Wire, Lost, [Next]_vars
             PROVE  IInv'
  BY DEF IInv
<1> QED
  BY TypedKept, GatesKept, WorksKept, EntriesKept, StartKept, CloseKept, WireKept, LostKept DEF IInv

\* What the parts of a connection know of one another in every state it can be in.
THEOREM ApcInvariant == Spec => []IInv
BY ApcInit, ApcNext, PTL DEF Spec

\* The callbacks of a handler are one conversation, on_start first and on_close last, and
\* no timer that was stopped calls, whatever the peer, the clock and the broker do.
THEOREM OneConversation == Spec => []Conversation
<1>1. ASSUME IInv PROVE Conversation
  BY <1>1 DEF IInv, StartFirst, CloseLast, Entries, Conversation, CallbackOrder
<1> QED
  BY <1>1, ApcInvariant, PTL

\* The socket carries one answer first and nothing behind its end, and as long as the
\* channel is open every frame once and in order.
THEOREM SocketIsOrdered == Spec => []SocketOrder
<1>1. ASSUME IInv PROVE SocketOrder
  <2> USE <1>1 DEF IInv
  <2>1. TypeOK
    <3>1. \A i \in DOMAIN amc : amc[i] \in 1 .. MaxSends
      <4>1. amc \in Seq(Nat) /\ count.sends \in 0 .. MaxSends /\ Len(amc) <= count.sends
        BY DEF Typed, Tally, Lost
      <4>2. ASSUME NEW i \in DOMAIN amc PROVE amc[i] \in 1 .. MaxSends
        <5>1. i \in 1 .. Len(amc) /\ Len(amc) \in Nat /\ amc[i] = count.sends - Len(amc) + i
          BY <4>1 DEF Lost, NothingLost
        <5> QED
          BY <4>1, <5>1, ApcAssumption
      <4> QED
        BY <4>2
    <3>2. \A i \in DOMAIN turns : turns[i] \in WorkType
      BY DEF Typed
    <3> QED
      BY <3>1, <3>2 DEF TypeOK, Typed, Entries
  <2>2. WellFormed
    <3>1. out \in Seq(Frame) /\ live \in BOOLEAN
      BY DEF Typed
    <3>2. ASSUME NEW i \in DOMAIN out
          PROVE  /\ out[i].from \in {"upgrade", "refused", "unavailable"} <=> i = 1
                 /\ out[i].from \in Ends => i = Len(out)
      <4>1. i \in Nat /\ i >= 1 /\ Len(out) > 0 /\ out # <<>>
        BY <3>1
      <4>2. out[1].from \in {"upgrade", "refused", "unavailable"}
        BY <3>1, <4>1 DEF Wire
      <4>3. i > 1 => out[i].from \in {"event", "amc", "close"}
        BY DEF Wire
      <4>4. out[i].from \in Ends => i = Len(out)
        BY DEF Wire
      <4> QED
        BY <4>1, <4>2, <4>3, <4>4
    <3> QED
      BY <3>2 DEF WellFormed
  <2> QED
    BY <2>1, <2>2 DEF SocketOrder, Lost
<1> QED
  BY <1>1, ApcInvariant, PTL

\* A connection that is shut holds no timer, and one that had come up no subscription,
\* also when a callback was running as it was shut.
THEOREM NothingIsLeft == Spec => []NothingLeft
<1>1. ASSUME IInv PROVE NothingLeft
  BY <1>1 DEF IInv, Gates, NothingLeft, ArmedIds
<1> QED
  BY <1>1, ApcInvariant, PTL

\* No message and no timer calls the handler of a peer that has left, though its turn had
\* begun and waited for the work process when the peer left.
THEOREM NobodyIsLeft == Spec => NobodyLeft
<1>1. ASSUME IInv, [Next]_vars, calls' # calls, calls'[Len(calls')].kind \in {"message", "timer"}
      PROVE  ~closed /\ ~left
  <2>1. Enter /\ calls' = Append(calls, turn.work) /\ Wanted(turn.work)
    <3>1. ASSUME NEW h \in Handlers, StartTimer(h) \/ StopTimer(h) \/ Due(h) PROVE calls' = calls
      BY <3>1 DEF StartTimer, StopTimer, Due, history
    <3>2. Enter \/ UNCHANGED calls
      BY <1>1, <3>1 DEF Next, TurnGoesOn, Turn, Drain, Bind, Commit, Dump, Started, TurnEnds, StartFails,
         TurnFails, Receive, CloseFrame, BadFrame, Leave, Swap, Send, Deliver, history, vars
    <3> QED
      BY <1>1, <3>2 DEF Enter
  <2>2. calls'[Len(calls')] = turn.work
    <3>1. turn # None /\ calls \in Seq(WorkType)
      BY <1>1, <2>1 DEF Enter, At, IInv, Typed
    <3>2. turn.work \in WorkType
      BY <1>1, <3>1, TurnIs DEF IInv
    <3> QED
      BY <2>1, <3>1, <3>2
  <2>3. ~mailbox.closed \/ ~timers.closed
    BY <1>1, <2>1, <2>2 DEF Wanted
  <2> QED
    BY <1>1, <2>3 DEF IInv, Gates
<1>2. IInv /\ [Next]_vars
      => [calls' # calls /\ calls'[Len(calls')].kind \in {"message", "timer"} => ~closed /\ ~left]_vars
  BY <1>1
<1> QED
  BY <1>2, ApcInvariant, PTL DEF Spec, NobodyLeft
=============================================================================
