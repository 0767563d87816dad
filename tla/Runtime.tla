------------------------------- MODULE Runtime -------------------------------
(***************************************************************************)
(* The supervisor of the serving process (tools/osd-runtime.mjs, class     *)
(* ServingRuntime) and the processes it starts (tools/osd-serve.mjs as far *)
(* as tools/osd-boot-guard.mjs decides when it leaves).                    *)
(*                                                                         *)
(* start, ensure, recycle, stop and inspector are asynchronous and overlap.*)
(* Each is a call; what it leaves behind is a spawn (starting), a recycle  *)
(* (recycling), a stop (stopping) or a place among the calls that wait for *)
(* these to be over (waiting). A promise's continuation runs before the    *)
(* next event of the loop (Continuing): a call, a message, an exit or a    *)
(* timer never comes between a promise being settled and who awaits it.    *)
(*                                                                         *)
(* A process boots (phase 0), works on the database (1), finishes its boot *)
(* (2) and serves (3). The supervisor knows the phase it was told of       *)
(* (heard). Time is abstracted: a timer that is set may fire at any time.  *)
(***************************************************************************)
EXTENDS Integers, FiniteSets

CONSTANTS Ports,      \* ports an inspector may be asked on
          None,       \* undefined, null
          Pending,    \* a promise nobody has settled
          MaxCalls    \* bound: the calls made of the supervisor

ASSUME PortsAssumption == None \notin Ports /\ Pending # None
ASSUME CallsAssumption == MaxCalls \in Nat /\ None \notin Nat /\ Pending \notin Nat

Calls == 1 .. MaxCalls
\* No call starts more than one process, an inspector's included.
Procs == 1 .. MaxCalls

InspectorType == [port : Ports \cup {None}, no : 0 .. MaxCalls]
SpawnType == [id : Calls, at : {"build", "boot", "loop", "open", "refused", "closing", "closed"},
              proc : Procs \cup {None}, stops : 0 .. MaxCalls, since : 0 .. MaxCalls,
              wanted : InspectorType]
RecycleType == [at : {"starting", "child", "spawn"}, on : Procs \cup {None},
                stops : 0 .. MaxCalls, no : Calls, born : 0 .. MaxCalls]
StopType == [at : {"spawn", "child"}, on : Procs \cup {None}]
ProcType == [life : {"unborn", "alive", "gone"}, phase : 0 .. 3, heard : 0 .. 3,
             leaving : SUBSET {"asked", "armed", "limit", "killed"},
             port : Ports \cup {None}, since : 0 .. MaxCalls]

ASSUME NothingInFlight == None \notin SpawnType \cup RecycleType \cup StopType

VARIABLES
    calls,      \* how many calls were made
    waiting,    \* start and ensure in #settled: the call and the stops it saw
    stops,      \* how many stops were asked for
    child,      \* the process that said "ready"
    ready,      \* the readiness: a process, Pending, or None
    booting,    \* bootingChild
    exiting,    \* the process whose exit is awaited
    starting,   \* the spawn in flight
    recycling,  \* the recycle in flight
    stopping,   \* the stop in flight
    inspecting, \* the inspector asked for: the port and the request
    opens,      \* inspector requests sent to a serving process
    spawned,    \* whether the last spawn succeeded
    proc,       \* the processes
    born        \* how many processes were started

supervisor == <<calls, waiting, stops, inspecting, opens>>
vars == <<calls, waiting, stops, child, ready, booting, exiting, starting, recycling,
          stopping, inspecting, opens, spawned, proc, born>>

Unborn == [life |-> "unborn", phase |-> 0, heard |-> 0, leaving |-> {}, port |-> None, since |-> 0]
NoInspector == [port |-> None, no |-> 0]

Alive(p)  == p # None /\ proc[p].life = "alive"
Gone(p)   == p # None => proc[p].life = "gone"
Running   == Alive(child)
Busy      == recycling # None \/ stopping # None
Id(spawn) == IF spawn = None THEN None ELSE spawn.id

\* osdDatabaseStep: what the supervisor was last told.
DatabaseStep(p) == proc[p].heard = 1

\* osdInspectPort of the child.
InspectPort == IF child = None THEN None ELSE proc[child].port

\* A continuation is due.
Continuing ==
    \/ waiting # {} /\ ~Busy
    \/ starting # None /\ starting.at \in {"loop", "refused", "closed"}
    \/ recycling # None /\ \/ recycling.at = "child" /\ Gone(recycling.on)
                           \/ recycling.at = "spawn" /\ Id(starting) # recycling.on
    \/ stopping # None /\ \/ stopping.at = "spawn" /\ (stopping.on = None \/ Id(starting) # stopping.on)
                          \/ stopping.at = "child" /\ Gone(stopping.on)
    \/ \E o \in opens : Gone(o.proc)

Init ==
    /\ calls = 0 /\ waiting = {} /\ stops = 0
    /\ child = None /\ ready = None /\ booting = None /\ exiting = None
    /\ starting = None /\ recycling = None /\ stopping = None
    /\ inspecting = NoInspector /\ opens = {} /\ spawned = FALSE
    /\ proc = [p \in Procs |-> Unborn] /\ born = 0

-----------------------------------------------------------------------------
(* Spawning *)

\* #spawnOne, up to the process being there.
SpawnOne(spawn) ==
    LET p == born + 1 IN
    /\ born' = p
    /\ proc' = [proc EXCEPT ![p] = [Unborn EXCEPT !.life = "alive", !.port = inspecting.port,
                                                  !.since = spawn.since]]
    /\ booting' = p
    /\ starting' = [spawn EXCEPT !.at = "boot", !.proc = p]

Spawning(id, since) ==
    [id |-> id, at |-> "build", proc |-> None, stops |-> stops, since |-> since, wanted |-> NoInspector]

\* #spawn: join the spawn in flight or begin one. A recycle's has its build.
Spawn(id, since) ==
    IF starting # None
    THEN UNCHANGED <<starting, booting, proc, born>>
    ELSE starting' = Spawning(id, since) /\ UNCHANGED <<booting, proc, born>>

SpawnAnnounced(id, since) ==
    IF starting # None
    THEN UNCHANGED <<starting, booting, proc, born>>
    ELSE SpawnOne(Spawning(id, since))

SpawnFails == starting' = None /\ spawned' = FALSE

\* The source build is there: a stop asked meanwhile wins.
Built ==
    /\ ~Continuing /\ starting # None /\ starting.at = "build"
    /\ IF starting.stops # stops
       THEN SpawnFails /\ UNCHANGED <<proc, born, booting>>
       ELSE SpawnOne(starting) /\ UNCHANGED spawned
    /\ UNCHANGED <<supervisor, child, ready, exiting, recycling, stopping>>

BuildFails ==
    /\ ~Continuing /\ starting # None /\ starting.at = "build"
    /\ SpawnFails
    /\ UNCHANGED <<supervisor, child, ready, exiting, recycling, stopping, proc, born, booting>>

\* #stopChild: the child is no longer the child from the moment it is asked to go.
StopChild ==
    /\ child' = None
    /\ IF Running
       THEN /\ proc' = [proc EXCEPT ![child].leaving = @ \cup {"asked"}]
            /\ exiting' = child
       ELSE UNCHANGED <<proc, exiting>>
Leaver == IF Running THEN child ELSE None

SpawnSucceeds == starting' = None /\ spawned' = TRUE /\ ready' = starting.proc

\* The head of #spawn's loop: the process has said ready; a stop wins, else what the
\* inspector was asked meanwhile is put right before the readiness is announced.
SpawnLoop ==
    LET current == InspectPort IN
    /\ starting # None /\ starting.at = "loop"
    /\ \/ /\ starting.stops # stops
          /\ SpawnFails
          /\ UNCHANGED <<child, ready, exiting, proc, inspecting>>
       \/ /\ starting.stops = stops /\ current = inspecting.port
          /\ SpawnSucceeds
          /\ UNCHANGED <<child, exiting, proc, inspecting>>
       \/ /\ starting.stops = stops /\ current = None /\ inspecting.port # None /\ child = None
          /\ SpawnSucceeds /\ inspecting' = NoInspector
          /\ UNCHANGED <<child, exiting, proc>>
       \/ /\ starting.stops = stops /\ current = None /\ inspecting.port # None /\ child # None
          /\ starting' = [starting EXCEPT !.at = "open", !.wanted = inspecting]
          /\ proc' = [proc EXCEPT ![child].port = inspecting.port]
          /\ UNCHANGED <<child, ready, exiting, spawned, inspecting>>
       \/ /\ starting.stops = stops /\ current # None /\ current # inspecting.port
          /\ StopChild
          /\ starting' = [starting EXCEPT !.at = IF Running THEN "closing" ELSE "closed"]
          /\ UNCHANGED <<ready, spawned, inspecting>>
    /\ UNCHANGED <<calls, waiting, stops, opens, booting, recycling, stopping, born>>

\* The process that had the inspector on another port has gone.
SpawnAgain ==
    /\ starting # None /\ starting.at = "closed"
    /\ IF starting.stops # stops
       THEN SpawnFails /\ UNCHANGED <<proc, born, booting>>
       ELSE SpawnOne(starting) /\ UNCHANGED spawned
    /\ UNCHANGED <<supervisor, child, ready, exiting, recycling, stopping>>

\* #spawn's catch: it serves without the inspector, unless another request came.
SpawnRefused ==
    /\ starting # None /\ starting.at = "refused"
    /\ IF inspecting # starting.wanted
       THEN /\ starting' = [starting EXCEPT !.at = "loop", !.wanted = NoInspector]
            /\ UNCHANGED <<ready, spawned, inspecting>>
       ELSE SpawnSucceeds /\ inspecting' = [port |-> InspectPort, no |-> 0]
    /\ UNCHANGED <<calls, waiting, stops, opens, child, booting, exiting, recycling, stopping, proc, born>>

-----------------------------------------------------------------------------
(* The calls *)

\* Mutant of Serve: what was asked before a stop is started after it.
ServeLate(call) ==
    /\ IF Running THEN UNCHANGED <<starting, booting, proc, born>> ELSE Spawn(call.no, call.stops)

\* What start and ensure do once nothing is busy.
Serve(call) ==
    IF call.stops # stops \/ Running
    THEN UNCHANGED <<starting, booting, proc, born>>
    ELSE Spawn(call.no, call.stops)

MayCall == ~Continuing /\ calls < MaxCalls /\ calls' = calls + 1

\* Mutant of StartCall: a stop or a recycle in progress is not waited for.
StartCallAtOnce ==
    /\ MayCall
    /\ Serve([no |-> calls + 1, stops |-> stops])
    /\ UNCHANGED <<waiting, stops, child, ready, exiting, recycling, stopping, inspecting, opens, spawned>>

\* start() and ensure(): in the same turn when nothing is busy.
StartCall ==
    LET call == [no |-> calls + 1, stops |-> stops] IN
    /\ MayCall
    /\ IF Busy
       THEN waiting' = waiting \cup {call} /\ UNCHANGED <<starting, booting, proc, born>>
       ELSE Serve(call) /\ UNCHANGED waiting
    /\ UNCHANGED <<stops, child, ready, exiting, recycling, stopping, inspecting, opens, spawned>>

Settled ==
    \E call \in waiting :
        /\ ~Busy
        /\ waiting' = waiting \ {call}
        /\ Serve(call)
        /\ UNCHANGED <<calls, stops, child, ready, exiting, recycling, stopping, inspecting,
                       opens, spawned>>

\* recycle(): one at a time, refused while a stop is in progress.
Recycle ==
    IF Busy
    THEN UNCHANGED <<recycling, ready>>
    ELSE /\ recycling' = [at |-> "starting", on |-> Id(starting), stops |-> stops,
                          no |-> calls + 1, born |-> born]
         /\ ready' = Pending

RecycleCall ==
    /\ MayCall
    /\ Recycle
    /\ UNCHANGED <<waiting, stops, child, booting, exiting, starting, stopping, inspecting, opens,
                   spawned, proc, born>>

RecycleFails == recycling' = None /\ ready' = None

\* Mutant of RecycleStops: the spawn in flight is not waited for.
RecycleStopsAtOnce ==
    /\ ~Continuing /\ recycling # None /\ recycling.at = "starting"
    /\ IF recycling.stops # stops
       THEN RecycleFails /\ UNCHANGED <<child, exiting, proc>>
       ELSE StopChild /\ recycling' = [recycling EXCEPT !.at = "child", !.on = Leaver]
                      /\ UNCHANGED ready
    /\ UNCHANGED <<supervisor, booting, starting, stopping, spawned, born>>

\* The child still coming up is let finish, what the ADT has in the process is
\* waited for, and the child is stopped.
RecycleStops ==
    /\ ~Continuing /\ recycling # None /\ recycling.at = "starting"
    /\ recycling.on = None \/ Id(starting) # recycling.on
    /\ IF recycling.stops # stops
       THEN RecycleFails /\ UNCHANGED <<child, exiting, proc>>
       ELSE StopChild /\ recycling' = [recycling EXCEPT !.at = "child", !.on = Leaver]
                      /\ UNCHANGED ready
    /\ UNCHANGED <<supervisor, booting, starting, stopping, spawned, born>>

\* The old process has gone.
RecycleSpawns ==
    /\ recycling # None /\ recycling.at = "child" /\ Gone(recycling.on)
    /\ IF recycling.stops # stops
       THEN RecycleFails /\ UNCHANGED <<starting, booting, proc, born>>
       ELSE /\ SpawnAnnounced(recycling.no, recycling.stops)
            /\ recycling' = [recycling EXCEPT !.at = "spawn", !.on = Id(starting')]
            /\ UNCHANGED ready
    /\ UNCHANGED <<supervisor, child, exiting, stopping, spawned>>

RecycleEnds ==
    /\ recycling # None /\ recycling.at = "spawn" /\ Id(starting) # recycling.on
    /\ IF spawned /\ recycling.stops = stops
       THEN recycling' = None /\ UNCHANGED ready
       ELSE RecycleFails
    /\ UNCHANGED <<supervisor, child, booting, exiting, starting, stopping, spawned, proc, born>>

\* stop(): counted before the first await. A process that boots is told to go, and
\* insisted on later unless it is known to work on the database.
StopCall ==
    /\ MayCall
    /\ IF stopping # None
       THEN UNCHANGED <<stopping, stops, proc>>
       ELSE /\ stops' = stops + 1
            /\ stopping' = [at |-> "spawn", on |-> Id(starting)]
            /\ proc' = IF Alive(booting)
                       THEN [proc EXCEPT ![booting].leaving = @ \cup {"asked"} \cup
                                             IF DatabaseStep(booting) THEN {} ELSE {"armed"}]
                       ELSE proc
    /\ UNCHANGED <<waiting, child, ready, booting, exiting, starting, recycling, inspecting,
                   opens, spawned, born>>

StopStops ==
    /\ stopping # None /\ stopping.at = "spawn"
    /\ stopping.on = None \/ Id(starting) # stopping.on
    /\ StopChild
    /\ stopping' = [at |-> "child", on |-> IF Running THEN child ELSE exiting]
    /\ UNCHANGED <<supervisor, ready, booting, starting, recycling, spawned, born>>

\* Its own child has gone, and the one somebody else was stopping.
StopEnds ==
    /\ stopping # None /\ stopping.at = "child" /\ Gone(stopping.on)
    /\ ready' = None /\ stopping' = None
    /\ UNCHANGED <<supervisor, child, booting, exiting, starting, recycling, spawned, proc, born>>

-----------------------------------------------------------------------------
(* The inspector *)

\* inspector(): remembered for the next process, opened in the one that serves;
\* closing it or moving it is a recycle.
InspectorCall(port) ==
    /\ MayCall
    /\ inspecting' = [port |-> port, no |-> IF port = None THEN 0 ELSE calls + 1]
    /\ \/ /\ ~Running \/ starting # None \/ stopping # None \/ (port = None /\ InspectPort = None)
          /\ UNCHANGED <<recycling, ready, opens, proc>>
       \/ /\ Running /\ starting = None /\ stopping = None
          /\ InspectPort # None /\ InspectPort # port
          /\ Recycle
          /\ UNCHANGED <<opens, proc>>
       \/ /\ Running /\ starting = None /\ stopping = None
          /\ port # None /\ InspectPort \in {None, port}
          /\ opens' = opens \cup {[no |-> calls + 1, proc |-> child, current |-> InspectPort,
                                   before |-> inspecting]}
          /\ proc' = [proc EXCEPT ![child].port = port]
          /\ UNCHANGED <<recycling, ready>>
    /\ UNCHANGED <<waiting, stops, child, booting, exiting, starting, stopping, spawned, born>>

\* A failed request puts back what was asked before it, unless a newer one came.
PutBack(o) == inspecting' = IF inspecting.no = o.no THEN o.before ELSE inspecting

\* The process opened it, refused, or did not answer in time: then it may still open.
OpenAnswered(o, how) ==
    /\ ~Continuing
    /\ opens' = opens \ {o}
    /\ IF how = "done" THEN UNCHANGED inspecting ELSE PutBack(o)
    /\ proc' = IF how = "refused" THEN [proc EXCEPT ![o.proc].port = o.current] ELSE proc
    /\ UNCHANGED <<calls, waiting, stops, child, ready, booting, exiting, starting, recycling,
                   stopping, spawned, born>>

OpenLost(o) ==
    /\ Gone(o.proc)
    /\ opens' = opens \ {o} /\ PutBack(o)
    /\ UNCHANGED <<calls, waiting, stops, child, ready, booting, exiting, starting, recycling,
                   stopping, spawned, proc, born>>

SpawnOpenAnswered(how) ==
    /\ ~Continuing /\ starting # None /\ starting.at = "open"
    /\ starting' = [starting EXCEPT !.at = IF how = "done" THEN "loop" ELSE "refused"]
    /\ proc' = IF how = "refused" THEN [proc EXCEPT ![starting.proc].port = None] ELSE proc
    /\ UNCHANGED <<supervisor, child, ready, booting, exiting, recycling, stopping, spawned, born>>

-----------------------------------------------------------------------------
(* The processes *)

\* The boot goes on: into the database step, out of it, to serving.
Boot(p) ==
    /\ ~Continuing /\ Alive(p) /\ proc[p].phase < 3
    /\ proc' = [proc EXCEPT ![p].phase = @ + 1]
    /\ UNCHANGED <<supervisor, child, ready, booting, exiting, starting, recycling, stopping,
                   spawned, born>>

\* A message of the process arrives. "ready" makes it the
\* child, unless it was given up on.
Hear(p) ==
    LET now == proc[p].heard + 1 IN
    /\ ~Continuing /\ Alive(p) /\ proc[p].heard < proc[p].phase
    /\ proc' = [proc EXCEPT ![p].heard = now]
    /\ IF now = 3 /\ "limit" \notin proc[p].leaving
       THEN /\ child' = p /\ booting' = IF booting = p THEN None ELSE booting
            /\ starting' = IF starting # None /\ starting.at = "boot" /\ starting.proc = p
                           THEN [starting EXCEPT !.at = "loop"] ELSE starting
       ELSE UNCHANGED <<child, booting, starting>>
    /\ UNCHANGED <<supervisor, ready, exiting, recycling, stopping, spawned, born>>

\* The silence limit or the boot limit of a process that has not said ready.
GiveUp(p) ==
    /\ ~Continuing /\ Alive(p) /\ booting = p /\ "limit" \notin proc[p].leaving
    /\ proc' = [proc EXCEPT ![p].leaving = @ \cup {"limit"}]
    /\ UNCHANGED <<supervisor, child, ready, booting, exiting, starting, recycling, stopping,
                   spawned, born>>

\* stop()'s insistence on a process that boots. Nothing clears its timer.
Insist(p) ==
    /\ ~Continuing /\ Alive(p) /\ "armed" \in proc[p].leaving /\ "killed" \notin proc[p].leaving
    /\ proc' = [proc EXCEPT ![p].leaving = @ \cup {"killed"}]
    /\ UNCHANGED <<supervisor, child, ready, booting, exiting, starting, recycling, stopping,
                   spawned, born>>

\* Mutant of SpawnLosesProcess: the exit of a process that was replaced is not heard.
SpawnHearsNothing(p) ==
    IF starting # None /\ starting.proc = p /\ starting.at = "boot"
    THEN SpawnFails
    ELSE UNCHANGED <<starting, spawned>>

\* What the exit of a process does to the spawn that waits for it.
SpawnLosesProcess(p) ==
    IF starting = None \/ starting.proc # p
    THEN UNCHANGED <<starting, spawned>>
    ELSE CASE starting.at = "boot"    -> SpawnFails
           [] starting.at = "closing" -> starting' = [starting EXCEPT !.at = "closed"] /\ UNCHANGED spawned
           [] starting.at = "open"    -> starting' = [starting EXCEPT !.at = "refused"] /\ UNCHANGED spawned
           [] OTHER                   -> UNCHANGED <<starting, spawned>>

\* A process ends: it was asked to, it was killed, or it died on its own. If it was
\* still the child its readiness goes with it, but not the one a recycle promised.
Exit(p) ==
    /\ ~Continuing /\ Alive(p)
    /\ proc' = [proc EXCEPT ![p] = [Unborn EXCEPT !.life = "gone"]]
    /\ booting' = IF booting = p THEN None ELSE booting
    /\ exiting' = IF exiting = p THEN None ELSE exiting
    /\ child' = IF child = p THEN None ELSE child
    /\ ready' = IF child = p /\ recycling = None THEN None ELSE ready
    /\ SpawnLosesProcess(p)
    /\ UNCHANGED <<supervisor, recycling, stopping, born>>

-----------------------------------------------------------------------------

Answers == {"done", "refused", "late"}

Continuations ==
    \/ Settled \/ SpawnLoop \/ SpawnAgain \/ SpawnRefused
    \/ RecycleSpawns \/ RecycleEnds \/ StopStops \/ StopEnds
    \/ \E o \in opens : OpenLost(o)

AskedOf == StartCall \/ RecycleCall \/ StopCall \/ \E port \in Ports \cup {None} : InspectorCall(port)

Next ==
    \/ AskedOf \/ Continuations
    \/ Built \/ BuildFails \/ RecycleStops
    \/ \E o \in opens, how \in Answers : OpenAnswered(o, how)
    \/ \E how \in Answers : SpawnOpenAnswered(how)
    \/ \E p \in Procs : Boot(p) \/ Hear(p) \/ GiveUp(p) \/ Insist(p) \/ Exit(p)

Spec == Init /\ [][Next]_vars

\* What was told to go goes, unless it works on the database.
MustGo(p) ==
    \/ proc[p].leaving \cap {"limit", "killed"} # {}
    \/ "asked" \in proc[p].leaving /\ proc[p].phase # 1

\* Continuations run, messages arrive, timers fire, builds end, and a process that
\* has to go goes: a SIGKILL follows what it was asked. A boot need not go on.
Fairness ==
    /\ WF_vars(Continuations) /\ WF_vars(Built \/ BuildFails) /\ WF_vars(RecycleStops)
    /\ WF_vars(\E how \in Answers : SpawnOpenAnswered(how))
    /\ \A p \in Procs : WF_vars(Hear(p)) /\ WF_vars(GiveUp(p)) /\ WF_vars(MustGo(p) /\ Exit(p))

FairSpec == Spec /\ Fairness

-----------------------------------------------------------------------------
(* Properties *)

TypeOK ==
    /\ calls \in 0 .. MaxCalls /\ stops \in 0 .. MaxCalls /\ born \in 0 .. MaxCalls
    /\ waiting \subseteq [no : Calls, stops : 0 .. MaxCalls]
    /\ child \in Procs \cup {None} /\ booting \in Procs \cup {None} /\ exiting \in Procs \cup {None}
    /\ ready \in Procs \cup {None, Pending}
    /\ starting \in SpawnType \cup {None} /\ recycling \in RecycleType \cup {None}
    /\ stopping \in StopType \cup {None}
    /\ inspecting \in InspectorType
    /\ opens \subseteq [no : Calls, proc : Procs, current : Ports \cup {None}, before : InspectorType]
    /\ spawned \in BOOLEAN
    /\ proc \in [Procs -> ProcType]

\* One process at a time on the database, counting the one that is still coming up and
\* the one that is still leaving, whatever calls overlap ("a second process on the same
\* file, found twice by review").
OneProcess == Cardinality({p \in Procs : Alive(p)}) <= 1

\* A stop wins: once it is over, no process is there that was asked for before it, and
\* none comes up later (#settled, recycle and #spawn compare the count of stops).
StopWins == stopping = None => \A p \in Procs : Alive(p) => proc[p].since = stops

\* No process is lost sight of: when nothing is in flight, a process that is there is
\* the child, it is announced, and a request is sent to it and to no other.
NoOrphan ==
    (starting = None /\ ~Busy /\ ~Continuing) =>
        \A p \in Procs : Alive(p) => child = p /\ ready = p

\* The pool has one process or none, and knows which.
OneKnownProcess == TypeOK /\ OneProcess /\ NoOrphan

\* The caller of recycle learns when the code it activated answers: a recycle that
\* succeeds leaves a process that was started after it was asked for.
RecycleRenews ==
    [][(recycling # None /\ recycling' = None /\ ready' # None) => ready' > recycling.born]_vars

\* No call hangs: a spawn, a recycle, a stop and a call that waits for them are over
\* some time, whatever processes die or hang ("recycle(); stop(); never settled").
Settles ==
    /\ \A k \in Calls : (starting # None /\ Id(starting) = k) ~> (Id(starting) # k)
    /\ (recycling # None) ~> (recycling = None)
    /\ (stopping # None) ~> (stopping = None)
    /\ \A k \in Calls : (\E call \in waiting : call.no = k) ~> ~(\E call \in waiting : call.no = k)
=============================================================================
