------------------------------ MODULE EnqHost -------------------------------
(***************************************************************************)
(* The sessions of the lock server as the hosts see them                   *)
(* (tools/osd-enq-host.mjs): which lock session a dialog step works in,    *)
(* and when that session ends.                                             *)
(*                                                                         *)
(* A step that is not bound is a session of its own, which ends with the   *)
(* step. A host binds a step to a longer session by a key (an ADT logon);  *)
(* the step is pinned to the session the key has then. A dump ends the     *)
(* context: the key's next step opens a new session, and the old one is    *)
(* doomed until the last step pinned to it, which may sleep in a WAIT, is  *)
(* out. A key its host ended stays ended.                                  *)
(*                                                                         *)
(* The lock server is taken by its contract (module EnqOwners) for one key *)
(* in mode E: a session holds it in its dialog half, in its update half,   *)
(* in both or not at all; counts are left out. The runtime runs an update  *)
(* module at once, so COMMIT WORK is followed by updateDone in one go.     *)
(* The work process (module DialogStep) is taken by what it promises: one  *)
(* step runs, any number sleep or wait.                                    *)
(***************************************************************************)
EXTENDS Integers, FiniteSets, Sequences

CONSTANTS Steps,      \* the clients whose dialog steps run
          Keys,       \* the keys of the hosts' longer sessions
          None,       \* undefined, where a key or a step would stand
          WAIT_TRIES, \* how often an ENQUEUE with _WAIT tries again
          MaxSid      \* bound: lock sessions opened

ASSUME KeysAssumption == Keys \cap Steps = {} /\ None \notin Keys \cup Steps
ASSUME StepsFinite == IsFiniteSet(Steps)
ASSUME HostBounds == WAIT_TRIES \in Nat /\ MaxSid \in Nat

VARIABLES
    running,   \* the step that has the work process
    pc,        \* where each step is
    tries,     \* the attempts an ENQUEUE with _WAIT has made
    wants,     \* the halves it asks for
    bound,     \* token.enqSession
    pinned,    \* token.enqSid, 0: none
    sessions,  \* key or step -> lock session
    pins,      \* lock session -> the steps pinned to it, a count
    doomed,    \* retired lock session -> its key
    ended,     \* the keys their hosts ended
    updated,   \* the lock sessions whose LUW ran an update module
    locks,     \* the lock server: open session -> the halves of the lock it holds
    keyOf,     \* history: the key or step each lock session was opened for
    byHost,    \* history: the lock sessions a host ended
    told       \* history: how often contextEnded was called for a lock session

step == <<running, pc, tries, wants>>
host == <<bound, pinned, sessions, pins, doomed, ended, updated>>
vars == <<running, pc, tries, wants, bound, pinned, sessions, pins, doomed, ended,
          updated, locks, keyOf, byHost, told>>

Sids   == 1 .. MaxSid
Halves == {"dialog", "update"}
Scope  == {{"update"}, {"dialog"}, Halves}    \* _SCOPE 2, 1 and 3

Without(f, x) == [y \in DOMAIN f \ {x} |-> f[y]]
With(f, x, v) == [y \in DOMAIN f \cup {x} |-> IF y = x THEN v ELSE f[y]]
At(f, x, v)   == IF x \in DOMAIN f THEN f[x] ELSE v

-----------------------------------------------------------------------------
(* The lock server *)

Release(l, sid, halves) == IF sid \in DOMAIN l THEN [l EXCEPT ![sid] = @ \ halves] ELSE l

\* tryEnqueue: the session is open and nobody else holds the key.
Grants(l, sid) == sid \in DOMAIN l /\ \A other \in DOMAIN l \ {sid} : l[other] = {}

-----------------------------------------------------------------------------
(* Which session *)

Runs(t) == running = t /\ pc[t] = "running"

sessionKey(t) == IF bound[t] = None THEN t ELSE bound[t]

isEnded(key) == key \in ended

NextSid == Len(keyOf) + 1

\* sessionOf: the session of the key, opened if it has none.
SessionOf(key) == At(sessions, key, NextSid)

CanOpen(key) == key \in DOMAIN sessions \/ NextSid <= MaxSid

\* What opening it changes, and the lock server then.
Opened(key) ==
    IF key \in DOMAIN sessions
    THEN UNCHANGED <<sessions, keyOf>>
    ELSE sessions' = With(sessions, key, NextSid) /\ keyOf' = Append(keyOf, key)
LocksWith(key) == IF key \in DOMAIN sessions THEN locks ELSE With(locks, NextSid, {})

\* currentEnqSession. A bound step is always pinned (bindEnqSession); under a key
\* that was ended it throws, which changes nothing.
Usable(t)    == ~isEnded(sessionKey(t)) /\ (bound[t] # None \/ CanOpen(t))
Current(t)   == IF bound[t] = None THEN SessionOf(t) ELSE pinned[t]
OpenedFor(t) == IF bound[t] = None THEN Opened(t) ELSE UNCHANGED <<sessions, keyOf>>
LocksFor(t)  == IF bound[t] = None THEN LocksWith(t) ELSE locks

\* existingEnqSession, 0: none.
Existing(t) ==
    IF isEnded(sessionKey(t)) THEN 0
    ELSE IF bound[t] = None THEN At(sessions, t, 0) ELSE pinned[t]

-----------------------------------------------------------------------------
(* Steps *)

Init ==
    /\ running = None
    /\ pc = [t \in Steps |-> "idle"]
    /\ tries = [t \in Steps |-> 0]
    /\ wants = [t \in Steps |-> {}]
    /\ bound = [t \in Steps |-> None]
    /\ pinned = [t \in Steps |-> 0]
    /\ sessions = <<>> /\ pins = <<>> /\ doomed = <<>>
    /\ ended = {} /\ updated = {}
    /\ locks = <<>>
    /\ keyOf = <<>>
    /\ byHost = {}
    /\ told = [sid \in Sids |-> 0]

\* A step gets the work process, at its start and after a WAIT.
Run(t) ==
    /\ running = None
    /\ pc[t] \in {"idle", "asleep"}
    /\ running' = t
    /\ pc' = [pc EXCEPT ![t] = "running"]
    /\ UNCHANGED <<tries, wants, host, locks, keyOf, byHost, told>>

Wait(t) ==
    /\ Runs(t)
    /\ running' = None
    /\ pc' = [pc EXCEPT ![t] = "asleep"]
    /\ UNCHANGED <<tries, wants, host, locks, keyOf, byHost, told>>

Unpinned(sid) ==
    IF At(pins, sid, 1) > 1 THEN [pins EXCEPT ![sid] = @ - 1] ELSE Without(pins, sid)

Pinned(p, sid) == With(p, sid, At(p, sid, 0) + 1)

\* Mutant of LastOut: nobody else is thought of.
AlwaysLast(sid) == TRUE

LastOut(sid) == At(pins, sid, 1) = 1

\* The step's session is the one its key has now: no dump has retired it.
OfItsKey(t) == bound[t] \in DOMAIN sessions /\ sessions[bound[t]] = pinned[t]

\* retire of a session some step is still pinned to, and of one that none is; unpin
\* ends a doomed session with the last step out.
Dooms(t, dumped) ==
    /\ dumped /\ ~LastOut(pinned[t])
    /\ OfItsKey(t) \/ pinned[t] \in DOMAIN doomed

\* Mutant of Retires: the last step out leaves a doomed session.
RetiresOnDump(t, dumped) == LastOut(pinned[t]) /\ dumped /\ OfItsKey(t)

Retires(t, dumped) ==
    /\ LastOut(pinned[t])
    /\ pinned[t] \in DOMAIN doomed \/ (dumped /\ OfItsKey(t))

\* Mutant of Forgotten: the key's next step finds the session that dumped.
Remembered(t, dumped) == sessions

Forgotten(t, dumped) == IF dumped /\ OfItsKey(t) THEN Without(sessions, bound[t]) ELSE sessions

\* bindEnqSession. Every caller binds before the step takes a lock of its own.
Bind(t, key) ==
    /\ Runs(t)
    /\ t \notin DOMAIN sessions
    /\ bound[t] # key /\ ~isEnded(key) /\ CanOpen(key)
    /\ LET sid  == pinned[t]
           out  == sid # 0
           goes == out /\ Retires(t, FALSE) IN
       /\ pins' = Pinned(IF out THEN Unpinned(sid) ELSE pins, SessionOf(key))
       /\ doomed' = IF goes THEN Without(doomed, sid) ELSE doomed
       /\ updated' = IF goes THEN updated \ {sid} ELSE updated
       /\ locks' = IF goes THEN Without(LocksWith(key), sid) ELSE LocksWith(key)
       /\ told' = IF goes THEN [told EXCEPT ![sid] = @ + 1] ELSE told
    /\ Opened(key)
    /\ bound' = [bound EXCEPT ![t] = key]
    /\ pinned' = [pinned EXCEPT ![t] = SessionOf(key)]
    /\ UNCHANGED <<step, ended, byHost>>

\* onEnd of a step with a session of its own, if it opened one.
EndOwn(t) ==
    /\ LET sid == At(sessions, t, 0) IN
       /\ locks' = Without(locks, sid)
       /\ updated' = updated \ {sid}
    /\ sessions' = Without(sessions, t)
    /\ UNCHANGED <<bound, pinned, pins, doomed, ended, keyOf, byHost, told>>

\* onEnd of a bound step: a dump rolls the LUW back and ends the context.
EndBound(t, dumped) ==
    /\ LET sid  == pinned[t]
           goes == Retires(t, dumped) IN
       /\ pins' = Unpinned(sid)
       /\ doomed' = IF goes THEN Without(doomed, sid)
                    ELSE IF Dooms(t, dumped) THEN With(doomed, sid, bound[t]) ELSE doomed
       /\ locks' = IF goes THEN Without(locks, sid)
                   ELSE IF dumped THEN Release(locks, sid, {"update"}) ELSE locks
       /\ updated' = IF goes \/ dumped THEN updated \ {sid} ELSE updated
       /\ told' = IF goes THEN [told EXCEPT ![sid] = @ + 1] ELSE told
    /\ sessions' = Forgotten(t, dumped)
    /\ bound' = [bound EXCEPT ![t] = None]
    /\ pinned' = [pinned EXCEPT ![t] = 0]
    /\ UNCHANGED <<ended, keyOf, byHost>>

EndStep(t, dumped) ==
    /\ running = t
    /\ pc[t] = "running" \/ (pc[t] = "failing" /\ dumped)
    /\ IF bound[t] = None THEN EndOwn(t) ELSE EndBound(t, dumped)
    /\ running' = None
    /\ pc' = [pc EXCEPT ![t] = "idle"]
    /\ UNCHANGED <<tries, wants>>

-----------------------------------------------------------------------------
(* ENQUEUE, DEQUEUE, COMMIT WORK, ROLLBACK WORK in a step *)

Enqueue(t, halves) ==
    /\ Runs(t) /\ Usable(t)
    /\ Grants(LocksFor(t), Current(t))
    /\ OpenedFor(t)
    /\ locks' = [LocksFor(t) EXCEPT ![Current(t)] = @ \cup halves]
    /\ UNCHANGED <<step, bound, pinned, pins, doomed, ended, updated, byHost, told>>

\* FOREIGN_LOCK, or SYSTEM_FAILURE when the host ended the session meanwhile.
EnqueueRefused(t) ==
    /\ Runs(t) /\ Usable(t)
    /\ ~Grants(LocksFor(t), Current(t))
    /\ OpenedFor(t)
    /\ locks' = LocksFor(t)
    /\ UNCHANGED <<step, bound, pinned, pins, doomed, ended, updated, byHost, told>>

\* _WAIT: the refusal is slept on, the work process given up.
EnqueueWaits(t, halves) ==
    /\ Runs(t) /\ Usable(t)
    /\ ~Grants(LocksFor(t), Current(t)) /\ Current(t) \in DOMAIN LocksFor(t)
    /\ WAIT_TRIES > 0
    /\ OpenedFor(t)
    /\ locks' = LocksFor(t)
    /\ running' = None
    /\ pc' = [pc EXCEPT ![t] = "waiting"]
    /\ tries' = [tries EXCEPT ![t] = 1]
    /\ wants' = [wants EXCEPT ![t] = halves]
    /\ UNCHANGED <<bound, pinned, pins, doomed, ended, updated, byHost, told>>

TriesLeft(t) == tries[t] < WAIT_TRIES

\* yieldingSleep is over and the step has the work process: the key may be ended by
\* now (EnqSessionEnded, which nobody in the ABAP catches), the lock free, or not.
Retry(t) ==
    /\ running = None /\ pc[t] = "waiting"
    /\ LET sid     == Current(t)
           granted == ~isEnded(sessionKey(t)) /\ Grants(locks, sid)
           again   == /\ ~isEnded(sessionKey(t)) /\ ~granted
                      /\ sid \in DOMAIN locks /\ TriesLeft(t) IN
       /\ running' = IF again THEN None ELSE t
       /\ pc' = [pc EXCEPT ![t] = IF again THEN "waiting"
                                  ELSE IF isEnded(sessionKey(t)) THEN "failing" ELSE "running"]
       /\ tries' = [tries EXCEPT ![t] = IF again THEN @ + 1 ELSE 0]
       /\ wants' = [wants EXCEPT ![t] = IF again THEN @ ELSE {}]
       /\ locks' = IF granted THEN [locks EXCEPT ![sid] = @ \cup wants[t]] ELSE locks
    /\ UNCHANGED <<host, keyOf, byHost, told>>

\* DEQUEUE and DEQUEUE_ALL.
Dequeue(t, halves) ==
    /\ Runs(t)
    /\ locks' = Release(locks, Existing(t), halves)
    /\ UNCHANGED <<step, host, keyOf, byHost, told>>

\* An update module runs.
noteUpdateTask(t) ==
    /\ Runs(t) /\ Usable(t)
    /\ OpenedFor(t)
    /\ locks' = LocksFor(t)
    /\ updated' = updated \cup {Current(t)}
    /\ UNCHANGED <<step, bound, pinned, pins, doomed, ended, byHost, told>>

\* COMMIT WORK releases the update half only if the LUW had an update; ROLLBACK WORK
\* always does.
CommitWork(t) ==
    /\ Runs(t)
    /\ locks' = IF Existing(t) \in updated THEN Release(locks, Existing(t), {"update"}) ELSE locks
    /\ updated' = updated \ {Existing(t)}
    /\ UNCHANGED <<step, bound, pinned, sessions, pins, doomed, ended, keyOf, byHost, told>>

RollbackWork(t) ==
    /\ Runs(t)
    /\ locks' = Release(locks, Existing(t), {"update"})
    /\ updated' = updated \ {Existing(t)}
    /\ UNCHANGED <<step, bound, pinned, sessions, pins, doomed, ended, keyOf, byHost, told>>

-----------------------------------------------------------------------------
(* The host, outside any step *)

\* Mutant of RetiredOf: the sessions a dump retired are forgotten.
NoneRetired(key) == {}

\* The sessions behind a key: the one it has now and those a dump retired.
RetiredOf(key) == {sid \in DOMAIN doomed : doomed[sid] = key}
Behind(key) == RetiredOf(key) \cup (IF key \in DOMAIN sessions THEN {sessions[key]} ELSE {})

endEnqSession(key) ==
    /\ ended' = ended \cup {key}
    /\ sessions' = Without(sessions, key)
    /\ doomed' = [sid \in DOMAIN doomed \ RetiredOf(key) |-> doomed[sid]]
    /\ updated' = updated \ Behind(key)
    /\ locks' = [sid \in DOMAIN locks \ Behind(key) |-> locks[sid]]
    /\ byHost' = byHost \cup Behind(key)
    /\ UNCHANGED <<step, bound, pinned, pins, keyOf, told>>

reviveEnqSession(key) ==
    /\ isEnded(key)
    /\ ended' = ended \ {key}
    /\ UNCHANGED <<step, bound, pinned, sessions, pins, doomed, updated, locks, keyOf, byHost, told>>

\* A host route takes the lock, in mode X and its dialog half, without a step ...
enqTake(key) ==
    /\ ~isEnded(key) /\ CanOpen(key)
    /\ Opened(key)
    /\ locks' = IF \A sid \in DOMAIN locks : locks[sid] = {}
                THEN [LocksWith(key) EXCEPT ![SessionOf(key)] = {"dialog"}]
                ELSE LocksWith(key)
    /\ UNCHANGED <<step, bound, pinned, pins, doomed, ended, updated, byHost, told>>

\* ... and gives back what any session of the key holds.
enqDrop(key) ==
    /\ ~isEnded(key)
    /\ locks' = [sid \in DOMAIN locks |->
                    IF sid \in Behind(key) THEN locks[sid] \ {"dialog"} ELSE locks[sid]]
    /\ UNCHANGED <<step, host, keyOf, byHost, told>>

-----------------------------------------------------------------------------
StepAction(t) ==
    \/ Run(t) \/ Wait(t)
    \/ \E key \in Keys : Bind(t, key)
    \/ \E dumped \in BOOLEAN : EndStep(t, dumped)
    \/ \E halves \in Scope : Enqueue(t, halves) \/ EnqueueWaits(t, halves) \/ Dequeue(t, halves)
    \/ EnqueueRefused(t) \/ Retry(t)
    \/ noteUpdateTask(t) \/ CommitWork(t) \/ RollbackWork(t)

HostAction(key) ==
    endEnqSession(key) \/ reviveEnqSession(key) \/ enqTake(key) \/ enqDrop(key)

Next == (\E t \in Steps : StepAction(t)) \/ (\E key \in Keys : HostAction(key))

Spec == Init /\ [][Next]_vars

-----------------------------------------------------------------------------
(* Properties *)

TypeOK ==
    /\ running \in Steps \cup {None}
    /\ pc \in [Steps -> {"idle", "running", "asleep", "waiting", "failing"}]
    /\ tries \in [Steps -> 0 .. WAIT_TRIES]
    /\ wants \in [Steps -> Scope \cup {{}}]
    /\ bound \in [Steps -> Keys \cup {None}]
    /\ pinned \in [Steps -> Sids \cup {0}]
    /\ DOMAIN sessions \subseteq Keys \cup Steps
    /\ \A k \in DOMAIN sessions : sessions[k] \in Sids
    /\ DOMAIN pins \subseteq Sids
    /\ DOMAIN doomed \subseteq Sids /\ \A sid \in DOMAIN doomed : doomed[sid] \in Keys
    /\ ended \subseteq Keys
    /\ updated \subseteq Sids
    /\ DOMAIN locks \subseteq Sids /\ \A sid \in DOMAIN locks : locks[sid] \subseteq Halves
    /\ keyOf \in Seq(Keys \cup Steps)
    /\ byHost \subseteq Sids
    /\ told \in [Sids -> Nat]

InProgress(t) == pc[t] # "idle"

\* pins counts the steps pinned to a session, whatever bound, slept and dumped
\* meanwhile: retire and unpin decide by it when a session ends.
PinsCounted ==
    \A sid \in Sids :
        At(pins, sid, 0) = Cardinality({t \in Steps : InProgress(t) /\ pinned[t] = sid})

\* Every session the lock server has open is somebody's to end: the session of a key
\* that is not ended, of a step in progress, or a retired one some step is still
\* pinned to. No lock stays for good ("take a lock nobody will ever end").
NoLockLeft ==
    \A sid \in DOMAIN locks :
        \/ \E k \in Keys \ ended : k \in DOMAIN sessions /\ sessions[k] = sid
        \/ \E t \in Steps : InProgress(t) /\ t \in DOMAIN sessions /\ sessions[t] = sid
        \/ sid \in DOMAIN doomed /\ \E t \in Steps : InProgress(t) /\ pinned[t] = sid

\* A key its host ended stays ended: a step of it that was parked in a WAIT, or in
\* an ENQUEUE with _WAIT, neither keeps nor takes a lock under it.
EndedKeyHoldsNothing ==
    \A sid \in DOMAIN locks : ~isEnded(keyOf[sid])

\* A dump in one step of a key does not take the session from under another step
\* that is pinned to it: only the host ends the session of a step in progress.
PinnedStaysAlive ==
    \A t \in Steps :
        pinned[t] # 0 => pinned[t] \in DOMAIN locks \/ pinned[t] \in byHost

\* A pin holds what it pins: the counts are exact, and a session some step is pinned to
\* is there.
PinsHold == TypeOK /\ PinsCounted /\ PinnedStaysAlive

\* The end of a bound session is the host's own doing or is told to it once
\* (onEnqContextEnded), never both and never while the session lives.
EndToldOnce ==
    \A sid \in DOMAIN keyOf :
        keyOf[sid] \in Keys =>
            told[sid] = IF sid \in DOMAIN locks \/ sid \in byHost THEN 0 ELSE 1

\* A step that binds after a dump is in a new context, even while steps of the old
\* one sleep: a retired session is no key's.
RetiredIsNobodys ==
    \A sid \in DOMAIN doomed : sid \in DOMAIN locks /\ \A k \in DOMAIN sessions : sessions[k] # sid

\* A session that a dump retires leaves its key at once and ends once, with the last
\* step pinned to it.
RetiresOnce == RetiredIsNobodys /\ EndToldOnce
=============================================================================
