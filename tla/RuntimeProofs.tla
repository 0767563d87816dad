---------------------------- MODULE RuntimeProofs ----------------------------
(***************************************************************************)
(* The supervisor has one process or none and knows which, a stop wins,    *)
(* and a recycle renews, for any ports and any number of overlapping calls.*)
(***************************************************************************)
EXTENDS Runtime, FiniteSetTheorems, TLAPS

-----------------------------------------------------------------------------
(* The inductive invariant *)

\* The process that comes up does not have the inspector that is asked for, or it is
\* being asked to open it.
Mismatch ==
    /\ starting # None
    /\ \/ starting.at \in {"open", "refused"}
       \/ starting.at \in {"boot", "loop"} /\ proc[starting.proc].port # inspecting.port

One(condition) == IF condition THEN 1 ELSE 0

\* The processes that calls in progress may still start: of a spawn, of a recycle, and
\* in the place of one whose inspector is not the one asked for.
ToStart == starting # None /\ starting.at \in {"build", "closing", "closed"}
ToRenew == recycling # None /\ recycling.at \in {"starting", "child"}
ToCome == One(ToStart) + One(ToRenew) + One(Mismatch)

\* No call starts more than one process, an inspector's included.
Counted ==
    /\ IsFiniteSet(waiting) /\ IsFiniteSet(opens)
    /\ stops <= calls
    /\ born + ToCome + Cardinality(waiting) + Cardinality(opens) <= calls

Nobody == \A p \in Procs : ~Alive(p)

\* Every process that is there is one the supervisor knows, and the only one.
Processes ==
    /\ \A p \in Procs : Alive(p) => p <= born /\ p \in {child, booting, exiting}
    /\ \A p, q \in Procs : Alive(p) /\ Alive(q) => p = q
    /\ child # None => Alive(child) /\ proc[child].heard = 3
    /\ exiting # None => Alive(exiting) /\ proc[exiting].heard = 3 /\ child = None
    /\ booting # None => /\ Alive(booting) /\ child = None /\ exiting = None
                         /\ starting # None /\ starting.at = "boot" /\ starting.proc = booting

\* Where the process of a spawn is, and what else may be in flight with it.
Spawns ==
    starting # None =>
        /\ starting.since = starting.stops /\ starting.stops <= stops
        /\ starting.at \in {"build", "closed"} => Nobody
        /\ starting.at # "build" => starting.proc \in Procs /\ starting.proc <= born
        /\ starting.at = "boot" => booting = starting.proc
        /\ starting.at \in {"loop", "open", "refused"} => child \in {None, starting.proc} /\ exiting = None
        /\ starting.at = "open" => child = starting.proc
        /\ starting.at = "closing" => exiting = starting.proc
        /\ starting.at # "closing" => exiting = None
        /\ recycling # None => recycling.at # "child" /\ recycling.on = starting.id
        /\ stopping = None => starting.stops = stops
        /\ stopping # None => stopping.at = "spawn" /\ stopping.on = starting.id /\ starting.stops # stops

\* A process that leaves when no spawn waits for it is awaited by a recycle or a stop.
Awaited ==
    starting = None /\ exiting # None =>
        \/ recycling # None /\ recycling.at = "child"
        \/ stopping # None /\ stopping.at = "child"

Recycles ==
    recycling # None =>
        /\ recycling.stops <= stops /\ recycling.born <= born
        /\ stopping # None => recycling.stops # stops
        /\ stopping = None /\ recycling.stops # stops => starting = None /\ Nobody
        /\ recycling.at = "child" => starting = None /\ child = None /\ exiting \in {None, recycling.on}
        /\ recycling.at = "starting" => exiting = None \/ stopping # None \/ starting # None
        /\ recycling.at = "spawn" /\ starting # None => starting.at = "build" \/ starting.proc > recycling.born
        /\ recycling.at = "spawn" /\ starting = None /\ recycling.stops = stops =>
              IF spawned THEN ready \in Procs /\ ready > recycling.born /\ child \in {None, ready}
                         ELSE child = None

Stops ==
    stopping # None /\ stopping.at = "child" =>
        starting = None /\ child = None /\ exiting \in {None, stopping.on}

\* What is announced, and that it was asked for since the last stop.
Announced ==
    /\ starting = None /\ ~Busy /\ child # None => ready = child
    /\ \A call \in waiting : call.stops <= stops
    /\ StopWins

IInv == TypeOK /\ Counted /\ Processes /\ Spawns /\ Awaited /\ Recycles /\ Stops /\ Announced

-----------------------------------------------------------------------------
(* What the shared operations do *)

\* A number that counts a condition.
LEMMA OneIs ==
    /\ \A b : One(b) \in {0, 1}
    /\ \A b : b => One(b) = 1
    /\ \A b : ~b => One(b) = 0
BY DEF One

\* A spawn that is to start a process, and a recycle that has not, find a place for it.
LEMMA Room ==
    ASSUME TypeOK, Counted, ToStart \/ ToRenew
    PROVE  born < calls /\ born + 1 \in Procs /\ born + 1 \in 0 .. MaxCalls /\ born \in Nat
<1>1. One(ToStart) \in {0, 1} /\ One(ToRenew) \in {0, 1} /\ One(Mismatch) \in {0, 1}
      /\ (One(ToStart) = 1 \/ One(ToRenew) = 1)
  BY OneIs
<1>2. Cardinality(waiting) \in Nat /\ Cardinality(opens) \in Nat
  BY FS_CardinalityType DEF Counted
<1>3. born + (One(ToStart) + One(ToRenew) + One(Mismatch)) + Cardinality(waiting) + Cardinality(opens) <= calls
  BY DEF Counted, ToCome
<1>4. born \in Nat /\ calls \in 0 .. MaxCalls /\ MaxCalls \in Nat
  BY CallsAssumption DEF TypeOK
<1>5. born < calls
  BY <1>1, <1>2, <1>3, <1>4
<1> QED
  BY <1>4, <1>5 DEF Procs

\* A new process: it is there, it has said nothing, and it has the inspector asked for.
LEMMA NewProcess ==
    ASSUME TypeOK, NEW spawn \in SpawnType, born + 1 \in Procs, SpawnOne(spawn)
    PROVE  /\ born' = born + 1 /\ booting' = born + 1
           /\ starting' \in SpawnType /\ starting' # None
           /\ starting'.id = spawn.id /\ starting'.at = "boot" /\ starting'.proc = born + 1
           /\ starting'.stops = spawn.stops /\ starting'.since = spawn.since
           /\ proc' \in [Procs -> ProcType]
           /\ \A p \in Procs : p # born + 1 => proc'[p] = proc[p]
           /\ proc'[born + 1].life = "alive" /\ proc'[born + 1].since = spawn.since
           /\ proc'[born + 1].port = inspecting.port
<1>1. starting' \in SpawnType /\ starting'.id = spawn.id /\ starting'.at = "boot" /\ starting'.proc = born + 1
      /\ starting'.stops = spawn.stops /\ starting'.since = spawn.since
  BY DEF SpawnOne, SpawnType
<1>2. starting' # None
  BY <1>1, NothingInFlight
<1>3. PICK new : new = [Unborn EXCEPT !.life = "alive", !.port = inspecting.port, !.since = spawn.since]
  OBVIOUS
<1>4. inspecting.port \in Ports \cup {None} /\ spawn.since \in 0 .. MaxCalls
  BY DEF TypeOK, InspectorType, SpawnType
<1>5. /\ new \in ProcType /\ new.life = "alive" /\ new.since = spawn.since /\ new.port = inspecting.port
  <2>1. new = [life |-> "alive", phase |-> 0, heard |-> 0, leaving |-> {}, port |-> inspecting.port, since |-> spawn.since]
    BY <1>3 DEF Unborn
  <2> QED
    BY <1>4, <2>1 DEF ProcType
<1>6. proc \in [Procs -> ProcType] /\ proc' = [proc EXCEPT ![born + 1] = new]
  BY <1>3 DEF TypeOK, SpawnOne
<1>7. /\ proc' \in [Procs -> ProcType] /\ proc'[born + 1] = new
      /\ \A p \in Procs : p # born + 1 => proc'[p] = proc[p]
  BY <1>5, <1>6
<1> QED
  BY <1>1, <1>2, <1>5, <1>7 DEF SpawnOne

\* What a spawn begins with.
LEMMA NewSpawn ==
    ASSUME TypeOK, NEW id \in Calls, NEW since \in 0 .. MaxCalls
    PROVE  /\ Spawning(id, since) \in SpawnType /\ Spawning(id, since) # None
           /\ Spawning(id, since).id = id /\ Spawning(id, since).at = "build" /\ Spawning(id, since).proc = None
           /\ Spawning(id, since).stops = stops /\ Spawning(id, since).since = since
<1>1. NoInspector \in InspectorType /\ stops \in 0 .. MaxCalls
  BY CallsAssumption DEF NoInspector, InspectorType, TypeOK
<1>2. /\ Spawning(id, since) \in SpawnType
      /\ Spawning(id, since).id = id /\ Spawning(id, since).at = "build" /\ Spawning(id, since).proc = None
      /\ Spawning(id, since).stops = stops /\ Spawning(id, since).since = since
  BY <1>1 DEF Spawning, SpawnType
<1> QED
  BY <1>2, NothingInFlight

\* The processes keep their lives, and what was heard of them.
SameLives ==
    /\ proc' \in [Procs -> ProcType]
    /\ \A p \in Procs : /\ proc'[p].life = proc[p].life /\ proc'[p].heard = proc[p].heard
                        /\ proc'[p].since = proc[p].since

SamePorts == \A p \in Procs : proc'[p].port = proc[p].port

\* A process that is asked to go, given up on or insisted on lives on until it exits.
LEMMA Marked ==
    ASSUME TypeOK, NEW q \in Procs, NEW marks \in SUBSET {"asked", "armed", "limit", "killed"},
           proc' = [proc EXCEPT ![q].leaving = @ \cup marks]
    PROVE  SameLives /\ SamePorts
<1>1. proc \in [Procs -> ProcType] /\ proc[q] \in ProcType
  BY DEF TypeOK
<1>2. PICK new : new = [proc[q] EXCEPT !.leaving = @ \cup marks]
  OBVIOUS
<1>3. /\ new \in ProcType /\ new.life = proc[q].life /\ new.heard = proc[q].heard
      /\ new.since = proc[q].since /\ new.port = proc[q].port
  BY <1>1, <1>2 DEF ProcType
<1>4. proc' = [proc EXCEPT ![q] = new]
  BY <1>1, <1>2
<1> QED
  BY <1>1, <1>3, <1>4 DEF SameLives, SamePorts

\* The boot goes on.
LEMMA Phased ==
    ASSUME TypeOK, NEW q \in Procs, proc[q].phase < 3, proc' = [proc EXCEPT ![q].phase = @ + 1]
    PROVE  SameLives /\ SamePorts
<1>1. proc \in [Procs -> ProcType] /\ proc[q] \in ProcType /\ proc[q].phase + 1 \in 0 .. 3
  BY DEF TypeOK, ProcType
<1>2. PICK new : new = [proc[q] EXCEPT !.phase = @ + 1]
  OBVIOUS
<1>3. /\ new \in ProcType /\ new.life = proc[q].life /\ new.heard = proc[q].heard
      /\ new.since = proc[q].since /\ new.port = proc[q].port
  BY <1>1, <1>2 DEF ProcType
<1>4. proc' = [proc EXCEPT ![q] = new]
  BY <1>1, <1>2
<1> QED
  BY <1>1, <1>3, <1>4 DEF SameLives, SamePorts

\* The inspector's port, and no other's.
LEMMA Ported ==
    ASSUME TypeOK, NEW q \in Procs, NEW port \in Ports \cup {None}, proc' = [proc EXCEPT ![q].port = port]
    PROVE  /\ SameLives /\ proc'[q].port = port
           /\ \A p \in Procs : p # q => proc'[p].port = proc[p].port
<1>1. proc \in [Procs -> ProcType] /\ proc[q] \in ProcType
  BY DEF TypeOK
<1>2. PICK new : new = [proc[q] EXCEPT !.port = port]
  OBVIOUS
<1>3. /\ new \in ProcType /\ new.life = proc[q].life /\ new.heard = proc[q].heard
      /\ new.since = proc[q].since /\ new.port = port
  BY <1>1, <1>2 DEF ProcType
<1>4. proc' = [proc EXCEPT ![q] = new]
  BY <1>1, <1>2
<1> QED
  BY <1>1, <1>3, <1>4 DEF SameLives

\* Nothing happens to the processes.
LEMMA Unmarked ==
    ASSUME TypeOK, proc' = proc
    PROVE  SameLives /\ SamePorts
BY DEF TypeOK, SameLives, SamePorts

\* A process that is there is told to go; it is there until it exits.
LEMMA ChildStops ==
    ASSUME TypeOK, StopChild, Processes
    PROVE  /\ SameLives /\ SamePorts /\ child' = None
           /\ exiting' = IF child # None THEN child ELSE exiting
           /\ Leaver = child /\ (Running <=> child # None)
<1>1. Running <=> child # None
  BY DEF Running, Processes, Alive
<1>2. CASE child # None
  <2>1. child \in Procs /\ proc' = [proc EXCEPT ![child].leaving = @ \cup {"asked"}]
    BY <1>1, <1>2 DEF StopChild, TypeOK
  <2>2. {"asked"} \in SUBSET {"asked", "armed", "limit", "killed"}
    OBVIOUS
  <2>3. SameLives /\ SamePorts
    BY <2>1, <2>2, Marked
  <2> QED
    BY <1>1, <1>2, <2>3 DEF StopChild, Leaver
<1>3. CASE child = None
  BY <1>1, <1>3, Unmarked DEF StopChild, Leaver
<1> QED
  BY <1>2, <1>3

\* The lives and who they are.
LEMMA AliveIs ==
    ASSUME TypeOK, NEW p \in Procs
    PROVE  /\ p # None /\ (Alive(p) <=> proc[p].life = "alive")
           /\ SameLives => (Alive(p)' <=> Alive(p))
<1>1. p # None
  BY CallsAssumption DEF Procs
<1> QED
  BY <1>1 DEF Alive, SameLives

\* A spawn that goes on: only where it is changes, and what it opens.
GoesTo(s, at, new) ==
    /\ new \in SpawnType /\ new # None /\ new.at = at /\ new.id = s.id /\ new.proc = s.proc
    /\ new.stops = s.stops /\ new.since = s.since

\* Setting the place of a spawn, with or without what it wants opened, lets it go on.
LEMMA SpawnGoes ==
    ASSUME NEW s \in SpawnType,
           NEW at \in {"build", "boot", "loop", "open", "refused", "closing", "closed"}
    PROVE  /\ GoesTo(s, at, [s EXCEPT !.at = at])
           /\ \A wanted \in InspectorType : GoesTo(s, at, [s EXCEPT !.at = at, !.wanted = wanted])
<1>1. ASSUME NEW new, new = [s EXCEPT !.at = at] \/ \E wanted \in InspectorType : new = [s EXCEPT !.at = at, !.wanted = wanted]
      PROVE  GoesTo(s, at, new)
  <2>1. /\ new \in SpawnType /\ new.at = at /\ new.id = s.id /\ new.proc = s.proc
        /\ new.stops = s.stops /\ new.since = s.since
    BY <1>1 DEF SpawnType
  <2> QED
    BY <2>1, NothingInFlight DEF GoesTo
<1> QED
  BY <1>1, Zenon

\* A recycle that goes on: where it is and whom it waits for change, nothing else.
RecycledTo(r, at, on, new) ==
    /\ new \in RecycleType /\ new # None /\ new.at = at /\ new.on = on
    /\ new.stops = r.stops /\ new.no = r.no /\ new.born = r.born

\* Setting the place of a recycle and whom it waits for lets it go on.
LEMMA RecycleGoes ==
    ASSUME NEW r \in RecycleType, NEW at \in {"starting", "child", "spawn"}, NEW on \in Procs \cup {None}
    PROVE  RecycledTo(r, at, on, [r EXCEPT !.at = at, !.on = on])
<1>1. PICK new : new = [r EXCEPT !.at = at, !.on = on]
  OBVIOUS
<1>2. /\ new \in RecycleType /\ new.at = at /\ new.on = on
      /\ new.stops = r.stops /\ new.no = r.no /\ new.born = r.born
  BY <1>1 DEF RecycleType
<1>3. RecycledTo(r, at, on, new)
  BY <1>2, NothingInFlight DEF RecycledTo
<1> QED
  BY <1>1, <1>3

\* What is in flight, by its type.
LEMMA InFlight ==
    ASSUME TypeOK
    PROVE  /\ starting # None => /\ starting \in SpawnType /\ starting.id \in Calls
                                 /\ starting.stops \in Nat /\ starting.proc \in Procs \cup {None}
           /\ recycling # None => /\ recycling \in RecycleType /\ recycling.no \in Calls
                                  /\ recycling.stops \in 0 .. MaxCalls /\ recycling.born \in Nat
           /\ stopping # None => stopping \in StopType
           /\ Id(starting) \in Procs \cup {None}
           /\ Calls = Procs /\ calls \in Nat /\ stops \in Nat /\ born \in Nat /\ MaxCalls \in Nat
BY CallsAssumption DEF TypeOK, SpawnType, RecycleType, StopType, Id, Calls, Procs

\* The recycle that begins, if nothing is busy.
LEMMA RecycleBegins ==
    ASSUME TypeOK, calls < MaxCalls, Recycle
    PROVE  /\ Busy => UNCHANGED <<recycling, ready>>
           /\ ~Busy => /\ recycling' \in RecycleType /\ recycling' # None /\ ready' = Pending
                       /\ recycling'.at = "starting" /\ recycling'.on = Id(starting)
                       /\ recycling'.stops = stops /\ recycling'.born = born
<1>1. CASE ~Busy
  <2>1. recycling' = [at |-> "starting", on |-> Id(starting), stops |-> stops, no |-> calls + 1, born |-> born]
        /\ ready' = Pending
    BY <1>1 DEF Recycle
  <2>2. calls + 1 \in Calls /\ stops \in 0 .. MaxCalls /\ born \in 0 .. MaxCalls
    <3>1. calls \in Nat /\ MaxCalls \in Nat
      BY CallsAssumption DEF TypeOK
    <3>2. calls + 1 \in Calls
      BY <3>1 DEF Calls
    <3> QED
      BY <3>2 DEF TypeOK
  <2>3. recycling' \in RecycleType
    BY <2>1, <2>2, InFlight DEF RecycleType
  <2> QED
    BY <1>1, <2>1, <2>3, NothingInFlight
<1> QED
  BY <1>1 DEF Recycle

\* The types of what a spawn joined or begun changes.
LEMMA SpawnTyped ==
    ASSUME TypeOK, NEW id \in Calls, NEW since \in 0 .. MaxCalls, Spawn(id, since)
    PROVE  /\ starting' \in SpawnType \cup {None} /\ UNCHANGED <<booting, proc, born>>
           /\ starting # None => starting' = starting
           /\ starting = None => starting' = Spawning(id, since)
BY NewSpawn DEF Spawn, TypeOK

\* start and ensure: nothing, or a spawn of the call.
LEMMA Serves ==
    ASSUME TypeOK, NEW call \in [no : Calls, stops : 0 .. MaxCalls], Serve(call)
    PROVE  /\ starting' \in SpawnType \cup {None} /\ UNCHANGED <<booting, proc, born>>
           /\ \/ starting' = starting
              \/ /\ starting = None /\ call.stops = stops /\ ~Running
                 /\ starting' = Spawning(call.no, call.stops)
<1>1. CASE call.stops # stops \/ Running
  BY <1>1 DEF Serve, TypeOK
<1>2. CASE call.stops = stops /\ ~Running
  BY <1>2, SpawnTyped DEF Serve
<1> QED
  BY <1>1, <1>2

-----------------------------------------------------------------------------
(* Types *)

\* A process exits: it is gone, the others stay.
LEMMA Exited ==
    ASSUME TypeOK, NEW q \in Procs, proc' = [proc EXCEPT ![q] = [Unborn EXCEPT !.life = "gone"]]
    PROVE  /\ proc' \in [Procs -> ProcType] /\ proc'[q].life = "gone" /\ proc'[q].port = None
           /\ \A p \in Procs : p # q => proc'[p] = proc[p]
<1>1. PICK new : new = [Unborn EXCEPT !.life = "gone"]
  OBVIOUS
<1>2. new = [life |-> "gone", phase |-> 0, heard |-> 0, leaving |-> {}, port |-> None, since |-> 0]
  BY <1>1 DEF Unborn
<1>3. new \in ProcType /\ new.life = "gone" /\ new.port = None
  BY <1>2, CallsAssumption DEF ProcType
<1> QED
  BY <1>1, <1>3 DEF TypeOK

\* The supervisor hears from a process.
LEMMA Heard ==
    ASSUME TypeOK, NEW q \in Procs, proc[q].heard < proc[q].phase,
           proc' = [proc EXCEPT ![q].heard = proc[q].heard + 1]
    PROVE  /\ proc' \in [Procs -> ProcType] /\ SamePorts
           /\ proc'[q].heard = proc[q].heard + 1
           /\ \A p \in Procs : proc'[p].life = proc[p].life /\ proc'[p].since = proc[p].since
           /\ \A p \in Procs : p # q => proc'[p] = proc[p]
<1>1. proc \in [Procs -> ProcType] /\ proc[q] \in ProcType /\ proc[q].heard + 1 \in 0 .. 3
  BY DEF TypeOK, ProcType
<1>2. PICK new : new = [proc[q] EXCEPT !.heard = proc[q].heard + 1]
  OBVIOUS
<1>3. /\ new \in ProcType /\ new.life = proc[q].life /\ new.heard = proc[q].heard + 1
      /\ new.since = proc[q].since /\ new.port = proc[q].port
  BY <1>1, <1>2 DEF ProcType
<1>4. proc' = [proc EXCEPT ![q] = new]
  BY <1>1, <1>2
<1> QED
  BY <1>1, <1>3, <1>4 DEF SamePorts

\* The calls keep the types.
LEMMA CallsTyped ==
    ASSUME TypeOK, Counted, Processes, AskedOf
    PROVE  TypeOK'
<1>0. /\ calls < MaxCalls /\ calls' = calls + 1 /\ calls' \in 0 .. MaxCalls
      /\ calls + 1 \in Calls /\ stops \in 0 .. MaxCalls /\ calls + 1 \in 0 .. MaxCalls
  <2>1. MayCall
    BY DEF AskedOf, StartCall, RecycleCall, StopCall, InspectorCall
  <2>2. calls < MaxCalls /\ calls' = calls + 1 /\ stops \in 0 .. MaxCalls
    BY <2>1 DEF MayCall, TypeOK
  <2> QED
    BY <2>2, InFlight DEF Calls
<1>1. CASE StartCall
  <2>1. PICK call \in [no : Calls, stops : 0 .. MaxCalls] : call = [no |-> calls + 1, stops |-> stops]
    BY <1>0
  <2>2. CASE Busy
    <3>1. waiting' = waiting \cup {call} /\ UNCHANGED <<starting, booting, proc, born>>
      BY <1>1, <2>1, <2>2 DEF StartCall
    <3>2. waiting' \subseteq [no : Calls, stops : 0 .. MaxCalls]
      BY <3>1 DEF TypeOK
    <3> QED
      BY <1>0, <1>1, <3>1, <3>2 DEF StartCall, TypeOK
  <2>3. CASE ~Busy
    <3>1. Serve(call) /\ UNCHANGED waiting
      BY <1>1, <2>1, <2>3 DEF StartCall
    <3>2. starting' \in SpawnType \cup {None} /\ UNCHANGED <<booting, proc, born>>
      BY <3>1, Serves
    <3> QED
      BY <1>0, <1>1, <3>1, <3>2 DEF StartCall, TypeOK
  <2> QED
    BY <2>2, <2>3
<1>2. CASE RecycleCall
  <2>1. recycling' \in RecycleType \cup {None} /\ ready' \in Procs \cup {None, Pending}
    BY <1>0, <1>2, RecycleBegins DEF RecycleCall, TypeOK
  <2> QED
    BY <1>0, <1>2, <2>1 DEF RecycleCall, TypeOK
<1>3. CASE StopCall
  <2>1. CASE stopping # None
    BY <1>0, <1>3, <2>1 DEF StopCall, TypeOK
  <2>2. CASE stopping = None
    <3>1. stops' \in 0 .. MaxCalls
      BY <1>0, <1>3, <2>2, InFlight DEF StopCall, Counted
    <3>2. stopping' \in StopType
      BY <1>3, <2>2, InFlight DEF StopCall, StopType
    <3>3. proc' \in [Procs -> ProcType]
      <4>1. CASE Alive(booting)
        <5>1. booting \in Procs
          BY <4>1 DEF TypeOK, Alive
        <5>2. PICK marks \in SUBSET {"asked", "armed", "limit", "killed"} :
                  marks = {"asked"} \cup IF DatabaseStep(booting) THEN {} ELSE {"armed"}
          OBVIOUS
        <5>3. proc' = [proc EXCEPT ![booting].leaving = @ \cup marks]
          BY <1>3, <2>2, <4>1, <5>2 DEF StopCall
        <5> QED
          BY <5>1, <5>3, Marked DEF SameLives
      <4>2. CASE ~Alive(booting)
        BY <1>3, <2>2, <4>2 DEF StopCall, TypeOK
      <4> QED
        BY <4>1, <4>2
    <3> QED
      BY <1>0, <1>3, <3>1, <3>2, <3>3 DEF StopCall, TypeOK
  <2> QED
    BY <2>1, <2>2
<1>4. ASSUME NEW port \in Ports \cup {None}, InspectorCall(port) PROVE TypeOK'
  <2>1. inspecting' \in InspectorType
    BY <1>0, <1>4, CallsAssumption DEF InspectorCall, InspectorType
  <2>2. CASE UNCHANGED <<recycling, ready, opens, proc>>
    BY <1>0, <1>4, <2>1, <2>2 DEF InspectorCall, TypeOK
  <2>3. CASE Recycle /\ UNCHANGED <<opens, proc>>
    <3>1. recycling' \in RecycleType \cup {None} /\ ready' \in Procs \cup {None, Pending}
      BY <1>0, <2>3, RecycleBegins DEF TypeOK
    <3> QED
      BY <1>0, <1>4, <2>1, <2>3, <3>1 DEF InspectorCall, TypeOK
  <2>4. CASE /\ Running
             /\ opens' = opens \cup {[no |-> calls + 1, proc |-> child, current |-> InspectPort,
                                      before |-> inspecting]}
             /\ proc' = [proc EXCEPT ![child].port = port]
             /\ UNCHANGED <<recycling, ready>>
    <3>1. child \in Procs
      BY <2>4 DEF Running, Alive, TypeOK
    <3>2. proc' \in [Procs -> ProcType]
      BY <2>4, <3>1, Ported DEF SameLives
    <3>3. InspectPort \in Ports \cup {None}
      BY <3>1 DEF InspectPort, TypeOK, ProcType
    <3>4. inspecting \in InspectorType
      BY DEF TypeOK
    <3>5. [no |-> calls + 1, proc |-> child, current |-> InspectPort, before |-> inspecting]
          \in [no : Calls, proc : Procs, current : Ports \cup {None}, before : InspectorType]
      BY <1>0, <3>1, <3>3, <3>4
    <3>6. opens' \subseteq [no : Calls, proc : Procs, current : Ports \cup {None}, before : InspectorType]
      BY <2>4, <3>5 DEF TypeOK
    <3> QED
      BY <1>0, <1>4, <2>1, <2>4, <3>2, <3>6 DEF InspectorCall, TypeOK
  <2> QED
    BY <1>4, <2>2, <2>3, <2>4 DEF InspectorCall
<1> QED
  BY <1>1, <1>2, <1>3, <1>4 DEF AskedOf

\* The continuations and the answers of a spawn keep the types.
LEMMA SpawnsTyped ==
    ASSUME TypeOK, Counted, Processes, Spawns,
           \/ Settled \/ SpawnLoop \/ SpawnAgain \/ SpawnRefused \/ Built \/ BuildFails
           \/ \E how \in Answers : SpawnOpenAnswered(how)
    PROVE  TypeOK'
<1>1. CASE Settled
  <2>1. PICK call \in waiting : /\ waiting' = waiting \ {call} /\ Serve(call)
                                /\ UNCHANGED <<calls, stops, child, ready, exiting, recycling, stopping,
                                               inspecting, opens, spawned>>
    BY <1>1 DEF Settled
  <2>2. call \in [no : Calls, stops : 0 .. MaxCalls] /\ waiting' \subseteq [no : Calls, stops : 0 .. MaxCalls]
    BY <2>1 DEF TypeOK
  <2>3. starting' \in SpawnType \cup {None} /\ UNCHANGED <<booting, proc, born>>
    BY <2>1, <2>2, Serves
  <2> QED
    BY <2>1, <2>2, <2>3 DEF TypeOK
<1>2. CASE SpawnLoop
  <2>1. starting # None /\ starting \in SpawnType /\ starting.proc \in Procs /\ starting.at = "loop"
    BY <1>2, InFlight DEF SpawnLoop, Spawns
  <2>2. UNCHANGED <<calls, waiting, stops, opens, booting, recycling, stopping, born>>
    BY <1>2 DEF SpawnLoop
  <2>3. NoInspector \in InspectorType /\ inspecting \in InspectorType /\ inspecting.port \in Ports \cup {None}
    BY CallsAssumption DEF NoInspector, InspectorType, TypeOK
  <2>4. CASE SpawnFails /\ UNCHANGED <<child, ready, exiting, proc, inspecting>>
    BY <2>2, <2>4 DEF SpawnFails, TypeOK
  <2>5. CASE SpawnSucceeds /\ UNCHANGED <<child, exiting, proc>> /\ inspecting' \in {inspecting, NoInspector}
    <3>1. inspecting' \in InspectorType /\ ready' \in Procs
      BY <2>1, <2>3, <2>5 DEF SpawnSucceeds
    <3> QED
      BY <2>2, <2>5, <3>1 DEF SpawnSucceeds, TypeOK
  <2>6. CASE /\ child # None
             /\ starting' = [starting EXCEPT !.at = "open", !.wanted = inspecting]
             /\ proc' = [proc EXCEPT ![child].port = inspecting.port]
             /\ UNCHANGED <<child, ready, exiting, spawned, inspecting>>
    <3>1. starting' \in SpawnType
      <4>1. GoesTo(starting, "open", starting')
        BY <2>1, <2>3, <2>6, SpawnGoes, Zenon
      <4> QED
        BY <4>1 DEF GoesTo
    <3>2. child \in Procs
      BY <2>6 DEF TypeOK
    <3>3. proc' \in [Procs -> ProcType]
      BY <2>3, <2>6, <3>2, Ported DEF SameLives
    <3> QED
      BY <2>2, <2>6, <3>1, <3>3 DEF TypeOK
  <2>7. CASE /\ StopChild
             /\ starting' = [starting EXCEPT !.at = IF Running THEN "closing" ELSE "closed"]
             /\ UNCHANGED <<ready, spawned, inspecting>>
    <3>1. starting' \in SpawnType
      <4>1. PICK at \in {"closing", "closed"} : starting' = [starting EXCEPT !.at = at]
        BY <2>7
      <4>2. GoesTo(starting, at, starting')
        BY <2>1, <4>1, SpawnGoes
      <4> QED
        BY <4>2 DEF GoesTo
    <3>2. proc' \in [Procs -> ProcType] /\ child' = None /\ exiting' \in Procs \cup {None}
      BY <2>7, ChildStops DEF SameLives, TypeOK
    <3> QED
      BY <2>2, <2>7, <3>1, <3>2 DEF TypeOK
  <2> QED
    BY <1>2, <2>4, <2>5, <2>6, <2>7 DEF SpawnLoop
<1>3. CASE SpawnAgain \/ Built
  <2>1. /\ starting \in SpawnType /\ starting # None /\ starting.at \in {"build", "closed"}
        /\ UNCHANGED <<supervisor, child, ready, exiting, recycling, stopping>>
    BY <1>3, InFlight DEF SpawnAgain, Built
  <2>2. CASE SpawnFails /\ UNCHANGED <<proc, born, booting>>
    BY <2>1, <2>2 DEF SpawnFails, TypeOK, supervisor
  <2>3. CASE SpawnOne(starting) /\ UNCHANGED spawned
    <3>1. born + 1 \in Procs /\ born + 1 \in 0 .. MaxCalls
      BY <2>1, Room DEF ToStart
    <3>2. born' = born + 1 /\ booting' = born + 1 /\ starting' \in SpawnType /\ proc' \in [Procs -> ProcType]
      BY <2>1, <2>3, <3>1, NewProcess
    <3> QED
      BY <2>1, <2>3, <3>1, <3>2 DEF TypeOK, supervisor
  <2> QED
    BY <1>3, <2>2, <2>3 DEF SpawnAgain, Built
<1>4. CASE SpawnRefused
  <2>1. /\ starting \in SpawnType /\ starting # None /\ starting.proc \in Procs
        /\ UNCHANGED <<calls, waiting, stops, opens, child, booting, exiting, recycling, stopping, proc, born>>
    BY <1>4, InFlight DEF SpawnRefused, Spawns
  <2>2. InspectPort \in Ports \cup {None} /\ NoInspector \in InspectorType
        /\ [port |-> InspectPort, no |-> 0] \in InspectorType
    BY CallsAssumption DEF InspectPort, TypeOK, ProcType, NoInspector, InspectorType
  <2>3. CASE inspecting # starting.wanted
    <3>1. starting' \in SpawnType
      <4>1. starting' = [starting EXCEPT !.at = "loop", !.wanted = NoInspector]
        BY <1>4, <2>3 DEF SpawnRefused
      <4>2. GoesTo(starting, "loop", starting')
        BY <2>1, <2>2, <4>1, SpawnGoes, Zenon
      <4> QED
        BY <4>2 DEF GoesTo
    <3> QED
      BY <1>4, <2>1, <2>3, <3>1 DEF SpawnRefused, TypeOK
  <2>4. CASE inspecting = starting.wanted
    <3>1. inspecting' \in InspectorType /\ SpawnSucceeds
      BY <1>4, <2>2, <2>4 DEF SpawnRefused
    <3> QED
      BY <2>1, <3>1 DEF SpawnSucceeds, TypeOK
  <2> QED
    BY <2>3, <2>4
<1>5. CASE BuildFails
  BY <1>5 DEF BuildFails, SpawnFails, TypeOK, supervisor
<1>6. ASSUME NEW how \in Answers, SpawnOpenAnswered(how) PROVE TypeOK'
  <2>1. /\ starting \in SpawnType /\ starting # None /\ starting.proc \in Procs
        /\ UNCHANGED <<supervisor, child, ready, booting, exiting, recycling, stopping, spawned, born>>
    BY <1>6, InFlight DEF SpawnOpenAnswered, Spawns
  <2>2. NoInspector \in InspectorType
    BY CallsAssumption DEF NoInspector, InspectorType
  <2>3. starting' \in SpawnType
    <3>1. PICK at \in {"loop", "refused"} : starting' = [starting EXCEPT !.at = at]
      BY <1>6 DEF SpawnOpenAnswered
    <3>2. GoesTo(starting, at, starting')
      BY <2>1, <3>1, SpawnGoes
    <3> QED
      BY <3>2 DEF GoesTo
  <2>4. proc' \in [Procs -> ProcType]
    BY <1>6, <2>1, Ported, Unmarked DEF SpawnOpenAnswered, SameLives
  <2> QED
    BY <2>1, <2>3, <2>4 DEF TypeOK, supervisor
<1> QED
  BY <1>1, <1>2, <1>3, <1>4, <1>5, <1>6

\* The rest of a recycle and of a stop, the inspector and the processes keep the types.
LEMMA OthersTyped ==
    ASSUME TypeOK, Counted, Processes,
           \/ RecycleStops \/ RecycleSpawns \/ RecycleEnds \/ StopStops \/ StopEnds
           \/ \E o \in opens : OpenLost(o)
           \/ \E o \in opens, how \in Answers : OpenAnswered(o, how)
           \/ \E p \in Procs : Boot(p) \/ Hear(p) \/ GiveUp(p) \/ Insist(p) \/ Exit(p)
    PROVE  TypeOK'
<1>1. CASE RecycleStops
  <2>1. CASE RecycleFails /\ UNCHANGED <<child, exiting, proc>>
    BY <1>1, <2>1 DEF RecycleStops, RecycleFails, TypeOK, supervisor
  <2>2. CASE StopChild /\ recycling' = [recycling EXCEPT !.at = "child", !.on = Leaver] /\ UNCHANGED ready
    <3>1. SameLives /\ child' = None /\ exiting' \in Procs \cup {None} /\ Leaver \in Procs \cup {None}
      BY <2>2, ChildStops DEF TypeOK
    <3>2. recycling' \in RecycleType
      <4>1. recycling \in RecycleType
        BY <1>1, InFlight DEF RecycleStops
      <4>2. RecycledTo(recycling, "child", Leaver, recycling')
        BY <2>2, <3>1, <4>1, RecycleGoes, Zenon
      <4> QED
        BY <4>2 DEF RecycledTo
    <3> QED
      BY <1>1, <2>2, <3>1, <3>2 DEF RecycleStops, SameLives, TypeOK, supervisor
  <2> QED
    BY <1>1, <2>1, <2>2 DEF RecycleStops
<1>2. CASE RecycleSpawns
  <2>1. CASE RecycleFails /\ UNCHANGED <<starting, booting, proc, born>>
    BY <1>2, <2>1 DEF RecycleSpawns, RecycleFails, TypeOK, supervisor
  <2>2. CASE /\ SpawnAnnounced(recycling.no, recycling.stops)
             /\ recycling' = [recycling EXCEPT !.at = "spawn", !.on = Id(starting')]
             /\ UNCHANGED ready
    <3>1. /\ recycling \in RecycleType /\ recycling # None /\ recycling.at = "child"
          /\ recycling.no \in Calls /\ recycling.stops \in 0 .. MaxCalls
      BY <1>2, InFlight DEF RecycleSpawns
    <3>2. /\ starting' \in SpawnType \cup {None} /\ booting' \in Procs \cup {None}
          /\ born' \in 0 .. MaxCalls /\ proc' \in [Procs -> ProcType]
      <4>1. CASE starting # None
        BY <2>2, <4>1 DEF SpawnAnnounced, TypeOK
      <4>2. CASE starting = None
        <5>1. SpawnOne(Spawning(recycling.no, recycling.stops)) /\ born + 1 \in Procs /\ born + 1 \in 0 .. MaxCalls
          BY <2>2, <3>1, <4>2, Room DEF SpawnAnnounced, ToRenew
        <5>2. Spawning(recycling.no, recycling.stops) \in SpawnType
          BY <3>1, NewSpawn
        <5> QED
          BY <5>1, <5>2, NewProcess
      <4> QED
        BY <4>1, <4>2
    <3>3. Id(starting') \in Procs \cup {None}
      BY <3>2 DEF Id, SpawnType, Calls, Procs
    <3>4. recycling' \in RecycleType
      <4>1. RecycledTo(recycling, "spawn", Id(starting'), recycling')
        BY <2>2, <3>1, <3>3, RecycleGoes, Zenon
      <4> QED
        BY <4>1 DEF RecycledTo
    <3> QED
      BY <1>2, <2>2, <3>2, <3>4 DEF RecycleSpawns, TypeOK, supervisor
  <2> QED
    BY <1>2, <2>1, <2>2 DEF RecycleSpawns
<1>3. CASE RecycleEnds
  BY <1>3 DEF RecycleEnds, RecycleFails, TypeOK, supervisor
<1>4. CASE StopStops
  <2>1. SameLives /\ child' = None /\ exiting' \in Procs \cup {None}
    BY <1>4, ChildStops DEF StopStops, TypeOK
  <2>2. stopping' \in StopType
    BY <1>4 DEF StopStops, StopType, TypeOK, Running, Alive
  <2> QED
    BY <1>4, <2>1, <2>2 DEF StopStops, SameLives, TypeOK, supervisor
<1>5. CASE StopEnds
  BY <1>5 DEF StopEnds, TypeOK, supervisor
<1>6. ASSUME NEW o \in opens, OpenLost(o) \/ \E how \in Answers : OpenAnswered(o, how) PROVE TypeOK'
  <2>1. o \in [no : Calls, proc : Procs, current : Ports \cup {None}, before : InspectorType]
    BY DEF TypeOK
  <2>2. /\ inspecting' \in InspectorType
        /\ opens' \subseteq [no : Calls, proc : Procs, current : Ports \cup {None}, before : InspectorType]
    BY <1>6, <2>1 DEF OpenLost, OpenAnswered, PutBack, TypeOK
  <2>3. proc' \in [Procs -> ProcType]
    <3>1. CASE proc' = proc
      BY <3>1 DEF TypeOK
    <3>2. CASE proc' = [proc EXCEPT ![o.proc].port = o.current]
      BY <2>1, <3>2, Ported DEF SameLives
    <3> QED
      BY <1>6, <3>1, <3>2 DEF OpenLost, OpenAnswered
  <2>4. UNCHANGED <<calls, waiting, stops, child, ready, booting, exiting, starting, recycling,
                    stopping, spawned, born>>
    BY <1>6 DEF OpenLost, OpenAnswered
  <2> QED
    BY <2>2, <2>3, <2>4 DEF TypeOK
<1>7. ASSUME NEW p \in Procs, Boot(p) PROVE TypeOK'
  <2>1. proc' \in [Procs -> ProcType]
    BY <1>7, Phased DEF Boot, SameLives
  <2> QED
    BY <1>7, <2>1 DEF Boot, TypeOK, supervisor
<1>8. ASSUME NEW p \in Procs, Hear(p) PROVE TypeOK'
  <2>1. proc' \in [Procs -> ProcType]
    BY <1>8, Heard DEF Hear
  <2>2. /\ child' \in Procs \cup {None} /\ booting' \in Procs \cup {None}
    BY <1>8 DEF Hear, TypeOK
  <2>3. starting' \in SpawnType \cup {None}
    <3>1. CASE starting' = starting
      BY <3>1 DEF TypeOK
    <3>2. CASE starting # None /\ starting' = [starting EXCEPT !.at = "loop"]
      <4>1. GoesTo(starting, "loop", starting')
        BY <3>2, InFlight, SpawnGoes
      <4> QED
        BY <4>1 DEF GoesTo
    <3> QED
      BY <1>8, <3>1, <3>2 DEF Hear
  <2> QED
    BY <1>8, <2>1, <2>2, <2>3 DEF Hear, TypeOK, supervisor
<1>9. ASSUME NEW p \in Procs, GiveUp(p) \/ Insist(p) PROVE TypeOK'
  <2>1. proc' \in [Procs -> ProcType]
    <3>1. {"limit"} \in SUBSET {"asked", "armed", "limit", "killed"} /\ {"killed"} \in SUBSET {"asked", "armed", "limit", "killed"}
      OBVIOUS
    <3> QED
      BY <1>9, <3>1, Marked DEF GiveUp, Insist, SameLives
  <2> QED
    BY <1>9, <2>1 DEF GiveUp, Insist, TypeOK, supervisor
<1>10. ASSUME NEW p \in Procs, Exit(p) PROVE TypeOK'
  <2>1. proc' \in [Procs -> ProcType]
    BY <1>10, Exited DEF Exit
  <2>2. starting' \in SpawnType \cup {None} /\ spawned' \in BOOLEAN
    <3>1. CASE starting' \in {starting, None} /\ spawned' \in {spawned, FALSE}
      BY <3>1 DEF TypeOK
    <3>2. CASE /\ starting # None /\ UNCHANGED spawned
               /\ starting' = [starting EXCEPT !.at = "closed"] \/ starting' = [starting EXCEPT !.at = "refused"]
      <4>1. PICK at \in {"closed", "refused"} : starting' = [starting EXCEPT !.at = at]
        BY <3>2
      <4>2. GoesTo(starting, at, starting')
        BY <3>2, <4>1, InFlight, SpawnGoes
      <4> QED
        BY <3>2, <4>2 DEF TypeOK, GoesTo
    <3> QED
      BY <1>10, <3>1, <3>2 DEF Exit, SpawnLosesProcess, SpawnFails
  <2>3. /\ booting' \in Procs \cup {None} /\ exiting' \in Procs \cup {None} /\ child' \in Procs \cup {None}
        /\ ready' \in Procs \cup {None, Pending}
    BY <1>10 DEF Exit, TypeOK
  <2> QED
    BY <1>10, <2>1, <2>2, <2>3 DEF Exit, TypeOK, supervisor
<1> QED
  BY <1>1, <1>2, <1>3, <1>4, <1>5, <1>6, <1>7, <1>8, <1>9, <1>10

-----------------------------------------------------------------------------
(* No call starts more than one process *)

\* The numbers that are counted.
LEMMA CountedIs ==
    ASSUME TypeOK, Counted
    PROVE  /\ Cardinality(waiting) \in Nat /\ Cardinality(opens) \in Nat /\ ToCome \in Nat
           /\ born \in Nat /\ calls \in Nat /\ stops \in Nat /\ stops <= calls
           /\ born + ToCome + Cardinality(waiting) + Cardinality(opens) <= calls
<1>1. Cardinality(waiting) \in Nat /\ Cardinality(opens) \in Nat
  BY FS_CardinalityType DEF Counted
<1>2. ToCome \in Nat
  BY OneIs DEF ToCome
<1> QED
  BY <1>1, <1>2, InFlight DEF Counted

\* The waiting calls, the open requests and the processes stay, and no more is to come
\* than calls were made.
LEMMA CountStays ==
    ASSUME TypeOK, TypeOK', Counted, UNCHANGED <<waiting, opens, born>>,
           calls' \in {calls, calls + 1}, stops' <= calls', ToCome' <= ToCome + (calls' - calls)
    PROVE  Counted'
<1>1. IsFiniteSet(waiting)' /\ IsFiniteSet(opens)' /\ Cardinality(waiting)' = Cardinality(waiting)
      /\ Cardinality(opens)' = Cardinality(opens) /\ born' = born
  BY DEF Counted
<1>2. ToCome' \in Nat
  BY OneIs DEF ToCome
<1> QED
  BY <1>1, <1>2, CountedIs DEF Counted

\* The same when nothing more is to come.
LEMMA CountSame ==
    ASSUME TypeOK, TypeOK', Counted, UNCHANGED <<waiting, opens, born>>,
           calls' \in {calls, calls + 1}, stops' <= calls',
           ToStart' => ToStart, ToRenew' => ToRenew, Mismatch' => Mismatch
    PROVE  Counted'
<1>1. One(ToStart)' <= One(ToStart) /\ One(ToRenew)' <= One(ToRenew) /\ One(Mismatch)' <= One(Mismatch)
      /\ One(ToStart) \in {0, 1} /\ One(ToRenew) \in {0, 1} /\ One(Mismatch) \in {0, 1}
      /\ One(ToStart)' \in {0, 1} /\ One(ToRenew)' \in {0, 1} /\ One(Mismatch)' \in {0, 1}
  BY DEF One
<1>2. ToCome' <= ToCome
  BY <1>1 DEF ToCome
<1>3. ToCome' \in Nat /\ ToCome \in Nat
  BY <1>1 DEF ToCome
<1>4. ToCome' <= ToCome + (calls' - calls)
  BY <1>2, <1>3, InFlight
<1> QED
  BY <1>4, CountStays

\* A process is started in the place of the spawn or the recycle that counted for it.
LEMMA CountStarts ==
    ASSUME TypeOK, TypeOK', Counted, UNCHANGED <<waiting, opens, calls, stops, inspecting>>,
           NEW spawn \in SpawnType, born + 1 \in Procs, SpawnOne(spawn),
           ~Mismatch, \/ ToStart /\ (ToRenew' => ToRenew)
                      \/ ToRenew /\ ~ToRenew' /\ ~ToStart
    PROVE  Counted'
<1>1. /\ born' = born + 1 /\ starting' # None /\ starting'.at = "boot" /\ starting'.proc = born + 1
      /\ proc'[born + 1].port = inspecting.port
  BY NewProcess
<1>2. ~ToStart' /\ ~Mismatch'
  BY <1>1 DEF ToStart, Mismatch
<1>3. One(ToStart)' = 0 /\ One(Mismatch)' = 0 /\ One(Mismatch) = 0
      /\ One(ToStart) \in {0, 1} /\ One(ToRenew) \in {0, 1} /\ One(ToRenew)' \in {0, 1}
      /\ One(ToRenew)' + 1 <= One(ToStart) + One(ToRenew)
  BY <1>2 DEF One
<1>4. ToCome' + 1 <= ToCome /\ ToCome' \in Nat
  BY <1>3 DEF ToCome
<1>5. IsFiniteSet(waiting)' /\ IsFiniteSet(opens)' /\ Cardinality(waiting)' = Cardinality(waiting)
      /\ Cardinality(opens)' = Cardinality(opens) /\ stops' <= calls'
  BY DEF Counted
<1> QED
  BY <1>1, <1>4, <1>5, CountedIs DEF Counted

\* The inspector of the process that comes up is as right as it was.
LEMMA MismatchSame ==
    ASSUME TypeOK, Spawns, UNCHANGED <<starting, inspecting>>, SamePorts
    PROVE  Mismatch' <=> Mismatch
<1>1. starting # None /\ starting.at \in {"boot", "loop"} => starting.proc \in Procs
  BY DEF Spawns
<1> QED
  BY <1>1 DEF Mismatch, SamePorts

\* One call more waits, or one open request more is there; or one less.
LEMMA SetCounts ==
    ASSUME NEW S, IsFiniteSet(S), NEW e
    PROVE  /\ IsFiniteSet(S \cup {e}) /\ Cardinality(S \cup {e}) <= Cardinality(S) + 1
           /\ IsFiniteSet(S \ {e}) /\ (e \in S => Cardinality(S \ {e}) = Cardinality(S) - 1)
           /\ Cardinality(S) \in Nat /\ Cardinality(S \cup {e}) \in Nat /\ Cardinality(S \ {e}) \in Nat
<1>1. IsFiniteSet(S \cup {e}) /\ Cardinality(S \cup {e}) \in {Cardinality(S), Cardinality(S) + 1}
  BY FS_AddElement
<1>2. IsFiniteSet(S \ {e}) /\ (e \in S => Cardinality(S \ {e}) = Cardinality(S) - 1)
  BY FS_RemoveElement
<1>3. Cardinality(S) \in Nat /\ Cardinality(S \cup {e}) \in Nat /\ Cardinality(S \ {e}) \in Nat
  BY <1>1, <1>2, FS_CardinalityType
<1> QED
  BY <1>1, <1>2, <1>3

\* What is to come changes by one at most, when one of its parts changes.
LEMMA ToComeMoves ==
    /\ ((ToRenew' => ToRenew) /\ (Mismatch' => Mismatch)) => ToCome' <= ToCome + 1
    /\ ((ToStart' => ToStart) /\ (Mismatch' => Mismatch)) => ToCome' <= ToCome + 1
    /\ ((ToStart' => ToStart) /\ (ToRenew' => ToRenew)) => ToCome' <= ToCome + 1
    /\ ((ToStart' => ToStart) /\ (ToRenew' => ToRenew) /\ (Mismatch' => Mismatch)) => ToCome' <= ToCome
    /\ ((ToRenew' => ToRenew) /\ Mismatch /\ ~Mismatch') => ToCome' <= ToCome
    /\ ToCome \in Nat /\ ToCome' \in Nat
<1>1. One(ToStart) \in {0, 1} /\ One(ToRenew) \in {0, 1} /\ One(Mismatch) \in {0, 1}
      /\ One(ToStart)' \in {0, 1} /\ One(ToRenew)' \in {0, 1} /\ One(Mismatch)' \in {0, 1}
  BY DEF One
<1>2. /\ (ToStart' => ToStart) => One(ToStart)' <= One(ToStart)
      /\ (ToRenew' => ToRenew) => One(ToRenew)' <= One(ToRenew)
      /\ (Mismatch' => Mismatch) => One(Mismatch)' <= One(Mismatch)
      /\ (Mismatch /\ ~Mismatch') => One(Mismatch)' + 1 <= One(Mismatch)
  BY DEF One
<1>3. PICK a \in {0, 1}, b \in {0, 1}, c \in {0, 1} :
          a = One(ToStart) /\ b = One(ToRenew) /\ c = One(Mismatch)
  BY <1>1
<1>4. PICK d \in {0, 1}, e \in {0, 1}, f \in {0, 1} :
          d = One(ToStart)' /\ e = One(ToRenew)' /\ f = One(Mismatch)'
  BY <1>1
<1>5. /\ a + b + c \in Nat /\ d + e + f \in Nat
      /\ e <= b /\ f <= c => d + e + f <= a + b + c + 1
      /\ d <= a /\ f <= c => d + e + f <= a + b + c + 1
      /\ d <= a /\ e <= b => d + e + f <= a + b + c + 1
      /\ d <= a /\ e <= b /\ f <= c => d + e + f <= a + b + c
      /\ e <= b /\ f + 1 <= c => d + e + f <= a + b + c
  OBVIOUS
<1>6. ToCome = a + b + c /\ ToCome' = d + e + f
  BY <1>3, <1>4 DEF ToCome
<1> QED
  BY <1>2, <1>3, <1>4, <1>5, <1>6

\* A call counts for what it may start.
LEMMA CallsCounted ==
    ASSUME TypeOK, TypeOK', Counted, Spawns, AskedOf
    PROVE  Counted'
<1>0. /\ calls' = calls + 1 /\ calls \in Nat /\ stops \in Nat /\ stops <= calls
      /\ IsFiniteSet(waiting) /\ IsFiniteSet(opens)
  BY CountedIs DEF AskedOf, StartCall, RecycleCall, StopCall, InspectorCall, MayCall, Counted
<1>1. CASE StartCall
  <2>1. PICK call \in [no : Calls, stops : 0 .. MaxCalls] : call = [no |-> calls + 1, stops |-> stops]
    <3>1. [no |-> calls + 1, stops |-> stops] \in [no : Calls, stops : 0 .. MaxCalls]
      <4>1. calls < MaxCalls /\ calls \in Nat /\ MaxCalls \in Nat /\ stops \in 0 .. MaxCalls
        BY <1>1, CallsAssumption DEF StartCall, MayCall, TypeOK
      <4>2. calls + 1 \in Calls
        BY <4>1 DEF Calls
      <4> QED
        BY <4>1, <4>2
    <3> QED
      BY <3>1, Zenon
  <2>2. CASE Busy
    <3>1. /\ waiting' = waiting \cup {call}
          /\ UNCHANGED <<starting, booting, proc, born, opens, stops, recycling, inspecting>>
      BY <1>1, <2>1, <2>2 DEF StartCall
    <3>2. ToCome' = ToCome
      BY <3>1 DEF ToCome, One, ToStart, ToRenew, Mismatch
    <3>3. /\ IsFiniteSet(waiting)' /\ Cardinality(waiting)' <= Cardinality(waiting) + 1
          /\ Cardinality(waiting)' \in Nat
      BY <1>0, <3>1, SetCounts
    <3>4. IsFiniteSet(opens)' /\ Cardinality(opens)' = Cardinality(opens) /\ stops' <= calls'
      BY <1>0, <3>1
    <3> QED
      BY <1>0, <3>1, <3>2, <3>3, <3>4, CountedIs DEF Counted
  <2>3. CASE ~Busy
    <3>1. Serve(call) /\ UNCHANGED <<waiting, opens, stops, recycling, inspecting>>
      BY <1>1, <2>1, <2>3 DEF StartCall
    <3>2. UNCHANGED <<proc, born>> /\ (starting' = starting \/ starting' = Spawning(call.no, call.stops))
      BY <3>1, Serves
    <3>3. Mismatch' => Mismatch
      <4>1. CASE starting' = starting
        BY <3>1, <3>2, <4>1 DEF Mismatch
      <4>2. CASE starting' = Spawning(call.no, call.stops)
        BY <4>2, NewSpawn DEF Mismatch
      <4> QED
        BY <3>2, <4>1, <4>2
    <3>4. ToRenew' => ToRenew
      BY <3>1 DEF ToRenew
    <3> QED
      BY <1>0, <3>1, <3>2, <3>3, <3>4, ToComeMoves, CountStays
  <2> QED
    BY <2>2, <2>3
<1>2. ASSUME Recycle, UNCHANGED <<waiting, stops, starting, opens, proc, born>>,
             Mismatch' => Mismatch
      PROVE  Counted'
  <2>1. ToStart' => ToStart
    BY <1>2 DEF ToStart
  <2> QED
    BY <1>0, <1>2, <2>1, ToComeMoves, CountStays
<1>3. CASE RecycleCall
  <2>1. Mismatch' => Mismatch
    BY <1>3 DEF RecycleCall, Mismatch
  <2> QED
    BY <1>2, <1>3, <2>1 DEF RecycleCall
<1>4. CASE StopCall
  <2>1. stops' <= calls'
    BY <1>0, <1>4 DEF StopCall
  <2>2. SamePorts
    <3>1. CASE proc' = proc
      BY <3>1 DEF SamePorts
    <3>2. CASE Alive(booting) /\ proc' = [proc EXCEPT ![booting].leaving = @ \cup {"asked"} \cup
                                             IF DatabaseStep(booting) THEN {} ELSE {"armed"}]
      <4>1. booting \in Procs
        BY <3>2 DEF TypeOK, Alive
      <4> QED
        BY <3>2, <4>1 DEF TypeOK, ProcType, SamePorts
    <3> QED
      BY <1>4, <3>1, <3>2 DEF StopCall
  <2>3. Mismatch' <=> Mismatch
    BY <1>4, <2>2, MismatchSame DEF StopCall
  <2>4. ToStart' => ToStart
    BY <1>4 DEF StopCall, ToStart
  <2>5. ToRenew' => ToRenew
    BY <1>4 DEF StopCall, ToRenew
  <2> QED
    BY <1>0, <1>4, <2>1, <2>3, <2>4, <2>5, CountSame DEF StopCall
<1>5. ASSUME NEW port \in Ports \cup {None}, InspectorCall(port) PROVE Counted'
  <2>1. UNCHANGED <<waiting, stops, starting, born>> /\ stops' <= calls'
    BY <1>0, <1>5 DEF InspectorCall
  <2>2. CASE UNCHANGED <<recycling, ready, opens, proc>>
    <3>1. (ToStart' => ToStart) /\ (ToRenew' => ToRenew)
      BY <2>1, <2>2 DEF ToStart, ToRenew
    <3> QED
      BY <1>0, <2>1, <2>2, <3>1, ToComeMoves, CountStays
  <2>3. CASE starting = None /\ Recycle /\ UNCHANGED <<opens, proc>>
    BY <1>2, <2>1, <2>3 DEF Mismatch
  <2>4. CASE /\ starting = None
             /\ opens' = opens \cup {[no |-> calls + 1, proc |-> child, current |-> InspectPort,
                                      before |-> inspecting]}
             /\ UNCHANGED <<recycling, ready>>
    <3>1. (ToStart' => ToStart) /\ (ToRenew' => ToRenew) /\ (Mismatch' => Mismatch)
      BY <2>1, <2>4 DEF ToStart, ToRenew, Mismatch
    <3>2. ToCome' <= ToCome /\ ToCome' \in Nat
      BY <3>1, ToComeMoves
    <3>3. /\ IsFiniteSet(opens)' /\ Cardinality(opens)' <= Cardinality(opens) + 1
          /\ Cardinality(opens)' \in Nat
      BY <1>0, <2>4, SetCounts
    <3>4. IsFiniteSet(waiting)' /\ Cardinality(waiting)' = Cardinality(waiting)
      BY <1>0, <2>1
    <3> QED
      BY <1>0, <2>1, <3>2, <3>3, <3>4, CountedIs DEF Counted
  <2> QED
    BY <1>5, <2>2, <2>3, <2>4 DEF InspectorCall
<1> QED
  BY <1>1, <1>3, <1>4, <1>5 DEF AskedOf

\* Every other step pays with what it starts for what was to come.
LEMMA CountedKept ==
    ASSUME TypeOK, TypeOK', Counted, Processes, Spawns, Recycles, [Next]_vars
    PROVE  Counted'
<1>0. /\ calls \in Nat /\ stops \in Nat /\ stops <= calls /\ IsFiniteSet(waiting) /\ IsFiniteSet(opens)
  BY CountedIs DEF Counted
<1>1. ASSUME UNCHANGED <<waiting, opens, born, calls, stops>>,
             ToStart' => ToStart, ToRenew' => ToRenew, Mismatch' => Mismatch
      PROVE  Counted'
  BY <1>0, <1>1, CountSame
<1>2. CASE Settled
  <2>1. PICK call \in waiting : /\ waiting' = waiting \ {call} /\ Serve(call)
                                /\ UNCHANGED <<calls, stops, recycling, inspecting, opens>>
    BY <1>2 DEF Settled
  <2>2. call \in [no : Calls, stops : 0 .. MaxCalls]
    BY <2>1 DEF TypeOK
  <2>3. UNCHANGED <<proc, born>> /\ (starting' = starting \/ starting' = Spawning(call.no, call.stops))
    BY <2>1, <2>2, Serves
  <2>4. Mismatch' => Mismatch
    <3>1. CASE starting' = starting
      BY <2>1, <2>3, <3>1 DEF Mismatch
    <3>2. CASE starting' = Spawning(call.no, call.stops)
      BY <2>2, <3>2, NewSpawn DEF Mismatch
    <3> QED
      BY <2>3, <3>1, <3>2
  <2>5. ToRenew' => ToRenew
    BY <2>1 DEF ToRenew
  <2>6. ToCome' <= ToCome + 1 /\ ToCome' \in Nat
    BY <2>4, <2>5, ToComeMoves
  <2>7. IsFiniteSet(waiting)' /\ Cardinality(waiting)' = Cardinality(waiting) - 1
    BY <1>0, <2>1, SetCounts
  <2>8. IsFiniteSet(opens)' /\ Cardinality(opens)' = Cardinality(opens) /\ (stops <= calls)'
    BY <1>0, <2>1
  <2> QED
    BY <2>1, <2>3, <2>6, <2>7, <2>8, CountedIs DEF Counted
<1>3. CASE SpawnLoop
  <2>1. /\ starting # None /\ starting \in SpawnType /\ starting.at = "loop" /\ starting.proc \in Procs
        /\ child \in {None, starting.proc}
        /\ UNCHANGED <<calls, waiting, stops, opens, recycling, born>>
    BY <1>3, InFlight DEF SpawnLoop, Spawns
  <2>2. ToRenew' => ToRenew
    BY <2>1 DEF ToRenew
  <2>3. CASE starting' = None
    BY <1>1, <2>1, <2>2, <2>3 DEF ToStart, Mismatch
  <2>4. CASE /\ InspectPort = None /\ inspecting.port # None /\ child # None
             /\ starting' = [starting EXCEPT !.at = "open", !.wanted = inspecting]
    <3>1. Mismatch
      BY <2>1, <2>4 DEF Mismatch, InspectPort
    <3>2. GoesTo(starting, "open", starting')
      <4>1. inspecting \in InspectorType
        BY DEF TypeOK
      <4> QED
        BY <2>1, <2>4, <4>1, SpawnGoes, Zenon
    <3>3. ~ToStart'
      BY <3>2 DEF GoesTo, ToStart
    <3> QED
      BY <1>1, <2>1, <2>2, <3>1, <3>3
  <2>5. CASE /\ InspectPort # None /\ InspectPort # inspecting.port
             /\ starting' = [starting EXCEPT !.at = IF Running THEN "closing" ELSE "closed"]
    <3>1. Mismatch
      BY <2>1, <2>5 DEF Mismatch, InspectPort
    <3>2. PICK at \in {"closing", "closed"} : starting' = [starting EXCEPT !.at = at]
      BY <2>5
    <3>3. GoesTo(starting, at, starting')
      BY <2>1, <3>2, SpawnGoes
    <3>4. ~Mismatch'
      BY <3>3 DEF GoesTo, Mismatch
    <3>5. ToCome' <= ToCome + (calls' - calls)
      BY <1>0, <2>1, <2>2, <3>1, <3>4, ToComeMoves
    <3> QED
      BY <1>0, <2>1, <3>5, CountStays
  <2> QED
    BY <1>3, <2>3, <2>4, <2>5 DEF SpawnLoop, SpawnFails, SpawnSucceeds
<1>4. CASE SpawnAgain \/ Built
  <2>1. /\ starting # None /\ starting \in SpawnType /\ starting.at \in {"build", "closed"}
        /\ UNCHANGED <<supervisor, recycling>>
    BY <1>4, InFlight DEF SpawnAgain, Built
  <2>2. ToStart /\ ~Mismatch /\ (ToRenew' => ToRenew)
    BY <2>1 DEF ToStart, Mismatch, ToRenew
  <2>3. CASE SpawnFails /\ UNCHANGED born
    BY <1>1, <2>1, <2>2, <2>3 DEF SpawnFails, ToStart, Mismatch, supervisor
  <2>4. CASE SpawnOne(starting)
    <3>1. born + 1 \in Procs
      BY <2>2, Room
    <3> QED
      BY <2>1, <2>2, <2>4, <3>1, CountStarts DEF supervisor
  <2> QED
    BY <1>4, <2>3, <2>4 DEF SpawnAgain, Built
<1>5. CASE SpawnRefused \/ \E how \in Answers : SpawnOpenAnswered(how)
  <2>1. /\ starting # None /\ starting \in SpawnType /\ starting.at \in {"open", "refused"}
        /\ UNCHANGED <<calls, waiting, stops, opens, recycling, born>>
    BY <1>5, InFlight DEF SpawnRefused, SpawnOpenAnswered, supervisor
  <2>2. ~ToStart'
    <3>1. CASE starting' = None
      BY <3>1 DEF ToStart
    <3>2. CASE starting' = [starting EXCEPT !.at = "loop", !.wanted = NoInspector]
      <4>1. NoInspector \in InspectorType
        BY CallsAssumption DEF NoInspector, InspectorType
      <4>2. GoesTo(starting, "loop", starting')
        BY <2>1, <3>2, <4>1, SpawnGoes, Zenon
      <4> QED
        BY <4>2 DEF GoesTo, ToStart
    <3>3. ASSUME NEW at \in {"loop", "refused"}, starting' = [starting EXCEPT !.at = at] PROVE ~ToStart'
      <4>1. GoesTo(starting, at, starting')
        BY <2>1, <3>3, SpawnGoes
      <4> QED
        BY <4>1 DEF GoesTo, ToStart
    <3> QED
      BY <1>5, <3>1, <3>2, <3>3 DEF SpawnRefused, SpawnOpenAnswered, SpawnSucceeds
  <2>3. Mismatch /\ (ToRenew' => ToRenew)
    BY <2>1 DEF Mismatch, ToRenew
  <2> QED
    BY <1>1, <2>1, <2>2, <2>3
<1>6. CASE BuildFails
  BY <1>1, <1>6 DEF BuildFails, SpawnFails, ToStart, ToRenew, Mismatch, supervisor
<1>7. ASSUME UNCHANGED <<waiting, opens, born, calls, stops, starting, inspecting>>, SamePorts, ToRenew' => ToRenew
      PROVE  Counted'
  <2>1. Mismatch' <=> Mismatch
    BY <1>7, MismatchSame
  <2>2. ToStart' => ToStart
    BY <1>7 DEF ToStart
  <2> QED
    BY <1>1, <1>7, <2>1, <2>2
<1>8. CASE RecycleStops
  <2>1. recycling # None /\ recycling \in RecycleType /\ recycling.at = "starting"
    BY <1>8, InFlight DEF RecycleStops
  <2>2. ToRenew
    BY <2>1 DEF ToRenew
  <2>3. SamePorts
    BY <1>8, Unmarked, ChildStops DEF RecycleStops
  <2> QED
    BY <1>7, <1>8, <2>2, <2>3 DEF RecycleStops, supervisor
<1>9. CASE RecycleSpawns
  <2>1. /\ recycling # None /\ recycling \in RecycleType /\ recycling.at = "child" /\ starting = None
        /\ recycling.no \in Calls /\ recycling.stops \in 0 .. MaxCalls
    BY <1>9, InFlight DEF RecycleSpawns, Recycles
  <2>2. ToRenew /\ ~Mismatch /\ ~ToStart
    BY <2>1 DEF ToRenew, Mismatch, ToStart
  <2>3. CASE RecycleFails /\ UNCHANGED <<starting, booting, proc, born>>
    <3>1. ~ToStart' /\ ~Mismatch'
      BY <2>1, <2>3 DEF ToStart, Mismatch
    <3> QED
      BY <1>1, <1>9, <2>2, <2>3, <3>1 DEF RecycleSpawns, supervisor
  <2>4. CASE /\ SpawnAnnounced(recycling.no, recycling.stops)
             /\ recycling' = [recycling EXCEPT !.at = "spawn", !.on = Id(starting')]
    <3>1. SpawnOne(Spawning(recycling.no, recycling.stops)) /\ born + 1 \in Procs
      BY <2>1, <2>2, <2>4, Room DEF SpawnAnnounced
    <3>2. Spawning(recycling.no, recycling.stops) \in SpawnType
      BY <2>1, NewSpawn
    <3>3. ~ToRenew'
      BY <2>1, <2>4 DEF ToRenew, RecycleType
    <3> QED
      BY <1>9, <2>2, <3>1, <3>2, <3>3, CountStarts DEF RecycleSpawns, supervisor
  <2> QED
    BY <1>9, <2>3, <2>4 DEF RecycleSpawns
<1>10. CASE RecycleEnds \/ StopEnds
  <2>1. ToRenew' => ToRenew
    BY <1>10 DEF RecycleEnds, RecycleFails, StopEnds, ToRenew
  <2> QED
    BY <1>7, <1>10, <2>1, Unmarked DEF RecycleEnds, StopEnds, supervisor
<1>11. CASE StopStops
  <2>1. SamePorts /\ (ToRenew' => ToRenew)
    BY <1>11, ChildStops DEF StopStops, ToRenew
  <2> QED
    BY <1>7, <1>11, <2>1 DEF StopStops, supervisor
<1>12. ASSUME NEW o \in opens, OpenLost(o) \/ \E how \in Answers : OpenAnswered(o, how) PROVE Counted'
  <2>1. opens' = opens \ {o} /\ UNCHANGED <<calls, waiting, stops, starting, recycling, born>>
    BY <1>12 DEF OpenLost, OpenAnswered
  <2>2. (ToStart' => ToStart) /\ (ToRenew' => ToRenew)
    BY <2>1 DEF ToStart, ToRenew
  <2>3. ToCome' <= ToCome + 1 /\ ToCome' \in Nat
    BY <2>2, ToComeMoves
  <2>4. IsFiniteSet(opens)' /\ Cardinality(opens)' = Cardinality(opens) - 1
    BY <1>0, <2>1, SetCounts
  <2>5. IsFiniteSet(waiting)' /\ Cardinality(waiting)' = Cardinality(waiting) /\ (stops <= calls)'
    BY <1>0, <2>1
  <2> QED
    BY <2>1, <2>3, <2>4, <2>5, CountedIs DEF Counted
<1>13. ASSUME NEW p \in Procs, Boot(p) \/ GiveUp(p) \/ Insist(p) PROVE Counted'
  <2>1. {"limit"} \in SUBSET {"asked", "armed", "limit", "killed"} /\ {"killed"} \in SUBSET {"asked", "armed", "limit", "killed"}
    OBVIOUS
  <2>2. SamePorts
    BY <1>13, <2>1, Phased, Marked DEF Boot, GiveUp, Insist
  <2>3. ToRenew' => ToRenew
    BY <1>13 DEF Boot, GiveUp, Insist, ToRenew
  <2> QED
    BY <1>7, <1>13, <2>2, <2>3 DEF Boot, GiveUp, Insist, supervisor
<1>14. ASSUME NEW p \in Procs, Hear(p) PROVE Counted'
  <2>1. SamePorts
    BY <1>14, Heard DEF Hear
  <2>2. ToRenew' => ToRenew
    BY <1>14 DEF Hear, ToRenew
  <2>3. CASE starting' = starting
    BY <1>7, <1>14, <2>1, <2>2, <2>3 DEF Hear, supervisor
  <2>4. CASE starting # None /\ starting.at = "boot" /\ starting' = [starting EXCEPT !.at = "loop"]
    <3>1. GoesTo(starting, "loop", starting')
      BY <2>4, InFlight, SpawnGoes
    <3>2. ~ToStart' /\ (Mismatch' => Mismatch)
      <4>1. starting.proc \in Procs
        BY <2>4 DEF Spawns
      <4> QED
        BY <1>14, <2>1, <2>4, <3>1, <4>1 DEF Hear, GoesTo, ToStart, Mismatch, SamePorts, supervisor
    <3> QED
      BY <1>1, <1>14, <2>2, <3>2 DEF Hear, supervisor
  <2> QED
    BY <1>14, <2>3, <2>4 DEF Hear
<1>15. ASSUME NEW p \in Procs, Exit(p) PROVE Counted'
  <2>1. /\ UNCHANGED <<waiting, opens, born, calls, stops, recycling, inspecting>> /\ (ToRenew' => ToRenew)
        /\ \A q \in Procs : q # p => proc'[q] = proc[q]
    BY <1>15, Exited DEF Exit, supervisor, ToRenew
  <2>2. CASE starting = None \/ starting.proc # p
    <3>1. starting' = starting
      BY <1>15, <2>2 DEF Exit, SpawnLosesProcess
    <3>2. Mismatch' => Mismatch
      <4>1. starting # None /\ starting.at \in {"boot", "loop"} => starting.proc \in Procs
        BY DEF Spawns
      <4> QED
        BY <2>1, <2>2, <3>1, <4>1 DEF Mismatch
    <3>3. ToStart' => ToStart
      BY <3>1 DEF ToStart
    <3> QED
      BY <1>1, <2>1, <3>2, <3>3
  <2>3. CASE starting # None /\ starting.proc = p /\ starting.at = "boot"
    <3>1. starting' = None
      BY <1>15, <2>3 DEF Exit, SpawnLosesProcess, SpawnFails
    <3> QED
      BY <1>1, <2>1, <3>1 DEF ToStart, Mismatch
  <2>4. CASE starting # None /\ starting.proc = p /\ starting.at = "closing"
    <3>1. starting' = [starting EXCEPT !.at = "closed"]
      BY <1>15, <2>4 DEF Exit, SpawnLosesProcess
    <3>2. GoesTo(starting, "closed", starting')
      BY <2>4, <3>1, InFlight, SpawnGoes
    <3>3. ToStart /\ ~Mismatch'
      BY <2>4, <3>2 DEF GoesTo, ToStart, Mismatch
    <3> QED
      BY <1>1, <2>1, <3>3
  <2>5. CASE starting # None /\ starting.proc = p /\ starting.at = "open"
    <3>1. starting' = [starting EXCEPT !.at = "refused"]
      BY <1>15, <2>5 DEF Exit, SpawnLosesProcess
    <3>2. GoesTo(starting, "refused", starting')
      BY <2>5, <3>1, InFlight, SpawnGoes
    <3>3. ~ToStart' /\ Mismatch
      BY <2>5, <3>2 DEF GoesTo, ToStart, Mismatch
    <3> QED
      BY <1>1, <2>1, <3>3
  <2>6. CASE starting # None /\ starting.proc = p /\ starting.at = "build"
    <3>1. starting' = starting
      BY <1>15, <2>6 DEF Exit, SpawnLosesProcess
    <3> QED
      BY <1>1, <2>1, <2>6, <3>1 DEF ToStart, Mismatch
  <2>7. starting # None => starting.at \in {"build", "boot", "closing", "open"}
    BY <1>15, InFlight DEF Exit, Continuing, SpawnType
  <2> QED
    BY <2>2, <2>3, <2>4, <2>5, <2>6, <2>7
<1>16. CASE UNCHANGED vars
  BY <1>1, <1>16 DEF vars, ToStart, ToRenew, Mismatch
<1>17. CASE AskedOf
  BY <1>17, CallsCounted
<1> QED
  BY <1>2, <1>3, <1>4, <1>5, <1>6, <1>8, <1>9, <1>10, <1>11, <1>12, <1>13, <1>14, <1>15, <1>16, <1>17
  DEF Next, Continuations

-----------------------------------------------------------------------------
(* The processes and who waits for them *)

\* What is known of the processes, of the spawn, the recycle and the stop in flight.
Known == Processes /\ Spawns /\ Awaited /\ Recycles /\ Stops /\ Announced

\* The lives are the same, whoever is asked for them.
LEMMA LivesSame ==
    ASSUME TypeOK, SameLives
    PROVE  /\ \A p \in Procs \cup {None} : Alive(p)' <=> Alive(p)
           /\ Nobody' <=> Nobody
BY DEF SameLives, Alive, Nobody

\* Where only the calls, the inspector or the marks of a process change, all is as it was.
LEMMA KnownSame ==
    ASSUME TypeOK, Known, SameLives, \A call \in waiting' : call.stops <= stops,
           UNCHANGED <<stops, born, child, ready, booting, exiting, starting, recycling, stopping, spawned>>
    PROVE  Known'
<1>1. /\ \A p \in Procs : Alive(p)' <=> Alive(p)
      /\ Nobody' <=> Nobody
      /\ \A p \in Procs : proc'[p].heard = proc[p].heard /\ proc'[p].since = proc[p].since
      /\ child \in Procs \cup {None} /\ exiting \in Procs \cup {None} /\ booting \in Procs \cup {None}
      /\ Alive(child)' <=> Alive(child)
      /\ Alive(exiting)' <=> Alive(exiting)
      /\ Alive(booting)' <=> Alive(booting)
  BY LivesSame DEF SameLives, TypeOK
<1>2. Processes'
  BY <1>1 DEF Known, Processes
<1>3. Spawns'
  BY <1>1 DEF Known, Spawns
<1>4. Awaited'
  BY DEF Known, Awaited
<1>5. Recycles'
  BY <1>1 DEF Known, Recycles
<1>6. Stops'
  BY DEF Known, Stops
<1>7. Announced'
  BY <1>1 DEF Known, Announced, StopWins, Busy
<1> QED
  BY <1>2, <1>3, <1>4, <1>5, <1>6, <1>7 DEF Known

\* Nothing that is in flight is nothing.
LEMMA IdIs ==
    ASSUME TypeOK
    PROVE  /\ starting = None => Id(starting) = None
           /\ starting # None => Id(starting) = starting.id /\ starting.id # None
           /\ None \notin Procs
BY InFlight, CallsAssumption DEF Id, Calls, Procs

\* A process is at one place: the child, the one that boots, the one that leaves.
LEMMA NobodyIs ==
    ASSUME TypeOK, Processes
    PROVE  Nobody <=> child = None /\ booting = None /\ exiting = None
<1>1. child \in Procs \cup {None} /\ booting \in Procs \cup {None} /\ exiting \in Procs \cup {None}
  BY DEF TypeOK
<1>2. ASSUME child = None, booting = None, exiting = None PROVE Nobody
  BY <1>2, IdIs DEF Processes, Nobody
<1>3. ASSUME Nobody PROVE child = None /\ booting = None /\ exiting = None
  BY <1>1, <1>3 DEF Processes, Nobody
<1> QED
  BY <1>2, <1>3

\* start and ensure begin a spawn where no process is.
LEMMA KnownServes ==
    ASSUME TypeOK, Known, ~Busy, NEW call \in [no : Calls, stops : 0 .. MaxCalls], Serve(call),
           \A c \in waiting' : c.stops <= stops,
           UNCHANGED <<stops, child, ready, exiting, recycling, stopping, spawned>>
    PROVE  Known'
<1>1. UNCHANGED <<booting, proc, born>>
  BY Serves
<1>2. SameLives
  BY <1>1, Unmarked
<1>3. CASE starting' = starting
  BY <1>1, <1>2, <1>3, KnownSame
<1>4. CASE /\ starting = None /\ call.stops = stops /\ ~Running
           /\ starting' = Spawning(call.no, call.stops)
  <2>1. child = None /\ booting = None /\ exiting = None /\ recycling = None /\ stopping = None
    BY <1>4 DEF Known, Processes, Awaited, Busy, Running
  <2>2. Nobody /\ Nobody'
    BY <1>2, <2>1, NobodyIs, LivesSame DEF Known
  <2>3. /\ starting' # None /\ starting'.at = "build" /\ starting'.proc = None
        /\ starting'.stops = stops /\ starting'.since = stops
    BY <1>4, NewSpawn
  <2>4. Processes'
    BY <1>1, <2>1, <2>2 DEF Processes, Nobody
  <2>5. Spawns'
    BY <2>1, <2>2, <2>3, InFlight DEF Spawns
  <2>6. Awaited' /\ Recycles' /\ Stops'
    BY <2>1 DEF Awaited, Recycles, Stops
  <2>7. Announced'
    BY <2>1, <2>2 DEF Announced, StopWins, Nobody
  <2> QED
    BY <2>4, <2>5, <2>6, <2>7 DEF Known
<1> QED
  BY <1>3, <1>4, Serves

\* A recycle begins.
LEMMA KnownRecycles ==
    ASSUME TypeOK, Known, calls < MaxCalls, Recycle, waiting' = waiting,
           UNCHANGED <<stops, child, booting, exiting, starting, stopping, spawned, proc, born>>
    PROVE  Known'
<1>1. SameLives /\ \A call \in waiting' : call.stops <= stops
  BY Unmarked DEF Known, Announced
<1>2. CASE Busy
  BY <1>1, <1>2, RecycleBegins, KnownSame
<1>3. CASE ~Busy
  <2>1. /\ recycling' # None /\ recycling'.at = "starting" /\ recycling'.on = Id(starting)
        /\ recycling'.stops = stops /\ recycling'.born = born /\ recycling = None /\ stopping = None
    BY <1>3, RecycleBegins DEF Busy
  <2>2. Processes'
    BY <1>1, LivesSame DEF Known, Processes, Alive
  <2>3. Spawns'
    BY <1>1, <2>1, LivesSame, IdIs DEF Known, Spawns
  <2>4. Awaited' /\ Stops'
    BY <2>1 DEF Known, Awaited, Stops
  <2>5. Recycles'
    BY <2>1, InFlight DEF Known, Recycles, Awaited
  <2>6. Announced'
    BY <1>1, <2>1, LivesSame DEF Known, Announced, StopWins, Busy, Alive
  <2> QED
    BY <2>2, <2>3, <2>4, <2>5, <2>6 DEF Known
<1> QED
  BY <1>2, <1>3

\* A stop is counted: what was asked before it counts no more.
LEMMA KnownStops ==
    ASSUME TypeOK, Known, StopCall
    PROVE  Known'
<1>1. SameLives
  <2>1. CASE proc' = proc
    BY <2>1, Unmarked
  <2>2. CASE Alive(booting) /\ proc' = [proc EXCEPT ![booting].leaving = @ \cup {"asked"} \cup
                                           IF DatabaseStep(booting) THEN {} ELSE {"armed"}]
    <3>1. booting \in Procs
      BY <2>2 DEF TypeOK, Alive
    <3>2. PICK marks \in SUBSET {"asked", "armed", "limit", "killed"} :
              marks = {"asked"} \cup IF DatabaseStep(booting) THEN {} ELSE {"armed"}
      OBVIOUS
    <3>3. proc' = [proc EXCEPT ![booting].leaving = @ \cup marks]
      BY <2>2, <3>2
    <3> QED
      BY <3>1, <3>3, Marked
  <2> QED
    BY <2>1, <2>2 DEF StopCall
<1>2. UNCHANGED <<waiting, child, ready, booting, exiting, starting, recycling, spawned, born>>
  BY DEF StopCall
<1>3. CASE stopping # None
  BY <1>1, <1>2, <1>3, KnownSame DEF StopCall, Known, Announced
<1>4. CASE stopping = None
  <2>1. stops' = stops + 1 /\ stopping' = [at |-> "spawn", on |-> Id(starting)]
    BY <1>4 DEF StopCall
  <2>2. stopping' # None /\ stopping'.at = "spawn" /\ stopping'.on = Id(starting)
    <3>1. stopping' \in StopType
      BY <2>1, InFlight DEF StopType
    <3> QED
      BY <2>1, <3>1, NothingInFlight
  <2>3. /\ \A p \in Procs \cup {None} : Alive(p)' <=> Alive(p)
        /\ Nobody' <=> Nobody
        /\ \A p \in Procs : proc'[p].heard = proc[p].heard
    BY <1>1, LivesSame DEF SameLives
  <2>4. Processes'
    BY <1>2, <2>3 DEF Known, Processes, TypeOK
  <2>5. Spawns'
    BY <1>2, <1>4, <2>1, <2>2, <2>3, InFlight, IdIs DEF Known, Spawns
  <2>6. Awaited' /\ Stops'
    BY <1>2, <1>4, <2>2 DEF Known, Awaited, Stops
  <2>7. Recycles'
    BY <1>2, <1>4, <2>1, <2>2, InFlight DEF Known, Recycles
  <2>8. Announced'
    <3>1. \A call \in waiting : call.stops \in Nat
      BY DEF TypeOK
    <3> QED
      BY <1>2, <2>1, <2>2, <3>1, InFlight DEF Known, Announced, StopWins, Busy
  <2> QED
    BY <2>4, <2>5, <2>6, <2>7, <2>8 DEF Known
<1> QED
  BY <1>3, <1>4

\* A spawn fails: nobody is there, or a stop takes care of the child.
LEMMA KnownFails ==
    ASSUME TypeOK, Known, starting # None, SpawnFails, booting = None, exiting = None,
           child = None \/ stopping # None,
           UNCHANGED <<waiting, stops, child, ready, booting, exiting, recycling, stopping, proc, born>>
    PROVE  Known'
<1>1. SameLives /\ starting' = None /\ spawned' = FALSE
  BY Unmarked DEF SpawnFails
<1>2. /\ \A p \in Procs \cup {None} : Alive(p)' <=> Alive(p)
      /\ Nobody' <=> Nobody
  BY <1>1, LivesSame
<1>3. Processes'
  BY <1>1, <1>2 DEF Known, Processes, TypeOK
<1>4. Spawns' /\ Awaited'
  BY <1>1 DEF Spawns, Awaited
<1>5. Recycles'
  BY <1>1, <1>2 DEF Known, Recycles, Spawns
<1>6. Stops'
  BY <1>1 DEF Known, Spawns, Stops
<1>7. Announced'
  BY <1>1, <1>2 DEF Known, Announced, StopWins, Busy
<1> QED
  BY <1>3, <1>4, <1>5, <1>6, <1>7 DEF Known

\* A spawn succeeds: its process, if it is still there, is announced.
LEMMA KnownSucceeds ==
    ASSUME TypeOK, Known, starting # None, starting.at \in {"loop", "refused"}, SpawnSucceeds,
           UNCHANGED <<waiting, stops, child, booting, exiting, recycling, stopping, proc, born>>
    PROVE  Known'
<1>1. /\ SameLives /\ starting' = None /\ spawned' = TRUE /\ ready' = starting.proc
      /\ starting.proc \in Procs /\ child \in {None, starting.proc} /\ booting = None /\ exiting = None
  BY Unmarked DEF SpawnSucceeds, Known, Spawns, Processes
<1>2. /\ \A p \in Procs \cup {None} : Alive(p)' <=> Alive(p)
      /\ Nobody' <=> Nobody
  BY <1>1, LivesSame
<1>3. Processes'
  BY <1>1, <1>2 DEF Known, Processes, TypeOK
<1>4. Spawns' /\ Awaited'
  BY <1>1 DEF Spawns, Awaited
<1>5. Recycles'
  BY <1>1, <1>2 DEF Known, Recycles, Spawns
<1>6. Stops'
  BY <1>1 DEF Known, Spawns, Stops
<1>7. Announced'
  BY <1>1, <1>2 DEF Known, Announced, StopWins, Busy
<1> QED
  BY <1>3, <1>4, <1>5, <1>6, <1>7 DEF Known

\* A spawn goes on with the process it has.
LEMMA KnownGoes ==
    ASSUME TypeOK, Known, starting # None, starting.at \in {"loop", "open", "refused"},
           NEW at \in {"loop", "open", "refused"}, GoesTo(starting, at, starting'),
           at = "open" => child = starting.proc, SameLives,
           UNCHANGED <<waiting, stops, child, ready, booting, exiting, recycling, stopping, spawned, born>>
    PROVE  Known'
<1>1. /\ starting.proc \in Procs /\ child \in {None, starting.proc} /\ booting = None /\ exiting = None
  BY DEF Known, Spawns, Processes
<1>2. /\ \A p \in Procs \cup {None} : Alive(p)' <=> Alive(p)
      /\ Nobody' <=> Nobody
      /\ \A p \in Procs : proc'[p].heard = proc[p].heard /\ proc'[p].since = proc[p].since
  BY LivesSame DEF SameLives
<1>3. Processes'
  BY <1>1, <1>2 DEF Known, Processes, TypeOK
<1>4. Spawns'
  BY <1>1, <1>2 DEF Known, Spawns, GoesTo
<1>5. Awaited'
  BY <1>1 DEF Awaited
<1>6. Recycles'
  BY <1>1, <1>2 DEF Known, Recycles, Spawns, GoesTo
<1>7. Stops'
  BY DEF Known, Spawns, Stops
<1>8. Announced'
  BY <1>2 DEF Known, Announced, StopWins, Busy, GoesTo
<1> QED
  BY <1>3, <1>4, <1>5, <1>6, <1>7, <1>8 DEF Known

\* A process is started where nobody is, for a call that no stop came after.
LEMMA KnownStarts ==
    ASSUME TypeOK, Known, Nobody, stopping = None, born + 1 \in Procs,
           NEW spawn \in SpawnType, SpawnOne(spawn), spawn.stops = stops, spawn.since = stops,
           recycling' # None => /\ recycling'.at # "child" /\ recycling'.on = spawn.id
                                /\ recycling'.stops = stops /\ recycling'.born \in Nat /\ recycling'.born <= born,
           UNCHANGED <<waiting, stops, child, ready, exiting, stopping, spawned>>
    PROVE  Known'
<1>1. /\ born' = born + 1 /\ booting' = born + 1 /\ starting' # None
      /\ starting'.id = spawn.id /\ starting'.at = "boot" /\ starting'.proc = born + 1
      /\ starting'.stops = stops /\ starting'.since = stops
      /\ \A p \in Procs : p # born + 1 => proc'[p] = proc[p]
      /\ proc'[born + 1].life = "alive" /\ proc'[born + 1].since = stops
  BY NewProcess
<1>2. child = None /\ exiting = None /\ booting = None /\ born \in Nat /\ stops \in Nat
  BY NobodyIs, InFlight DEF Known
<1>3. \A p \in Procs : Alive(p)' <=> p = born + 1
  BY <1>1, IdIs DEF Nobody, Alive
<1>4. born + 1 # None /\ Alive(booting)'
  BY <1>1, <1>3, IdIs
<1>5. Processes'
  BY <1>1, <1>2, <1>3, <1>4 DEF Processes
<1>6. Spawns'
  BY <1>1, <1>2, <1>3, <1>4 DEF Spawns
<1>7. Awaited' /\ Stops'
  BY <1>2 DEF Awaited, Stops
<1>8. Recycles'
  BY <1>1, <1>2 DEF Recycles
<1>9. Announced'
  BY <1>1, <1>3 DEF Known, Announced, StopWins
<1> QED
  BY <1>5, <1>6, <1>7, <1>8, <1>9 DEF Known

\* The spawn's own steps.
LEMMA KnownSpawns ==
    ASSUME TypeOK, Counted, Known,
           \/ SpawnLoop \/ SpawnAgain \/ SpawnRefused \/ Built \/ BuildFails
           \/ \E how \in Answers : SpawnOpenAnswered(how)
    PROVE  Known'
<1>0. starting # None /\ starting \in SpawnType
  BY InFlight DEF SpawnLoop, SpawnAgain, SpawnRefused, Built, BuildFails, SpawnOpenAnswered
<1>1. CASE SpawnLoop
  <2>1. /\ starting.at = "loop" /\ starting.proc \in Procs /\ child \in {None, starting.proc}
        /\ booting = None /\ exiting = None
        /\ starting.stops # stops => stopping # None
        /\ UNCHANGED <<calls, waiting, stops, opens, booting, recycling, stopping, born>>
    BY <1>0, <1>1 DEF SpawnLoop, Known, Spawns, Processes
  <2>2. CASE starting.stops # stops /\ SpawnFails /\ UNCHANGED <<child, ready, exiting, proc>>
    BY <1>0, <2>1, <2>2, KnownFails
  <2>3. CASE SpawnSucceeds /\ UNCHANGED <<child, exiting, proc>>
    BY <1>0, <2>1, <2>3, KnownSucceeds
  <2>4. CASE /\ child # None
             /\ starting' = [starting EXCEPT !.at = "open", !.wanted = inspecting]
             /\ proc' = [proc EXCEPT ![child].port = inspecting.port]
             /\ UNCHANGED <<child, ready, exiting, spawned, inspecting>>
    <3>1. inspecting \in InspectorType /\ inspecting.port \in Ports \cup {None} /\ child \in Procs
      BY <2>4 DEF TypeOK, InspectorType
    <3>2. GoesTo(starting, "open", starting')
      BY <1>0, <2>4, <3>1, SpawnGoes, Zenon
    <3>3. SameLives
      BY <2>4, <3>1, Ported
    <3> QED
      BY <1>0, <2>1, <2>4, <3>2, <3>3, KnownGoes
  <2>5. CASE /\ InspectPort # None /\ StopChild
             /\ starting' = [starting EXCEPT !.at = IF Running THEN "closing" ELSE "closed"]
             /\ UNCHANGED <<ready, spawned>>
    <3>1. child # None /\ child = starting.proc
      BY <2>1, <2>5 DEF InspectPort
    <3>2. SameLives /\ child' = None /\ exiting' = child /\ Running
      BY <2>5, <3>1, ChildStops DEF Known
    <3>3. GoesTo(starting, "closing", starting')
      BY <1>0, <2>5, <3>2, SpawnGoes
    <3>4. /\ \A p \in Procs \cup {None} : Alive(p)' <=> Alive(p)
          /\ Nobody' <=> Nobody
          /\ \A p \in Procs : proc'[p].heard = proc[p].heard /\ proc'[p].since = proc[p].since
      BY <3>2, LivesSame DEF SameLives
    <3>5. Processes'
      BY <2>1, <3>1, <3>2, <3>4 DEF Known, Processes, TypeOK
    <3>6. Spawns'
      BY <1>0, <2>1, <3>1, <3>2, <3>3, <3>4 DEF Known, Spawns, GoesTo
    <3>7. Awaited' /\ Stops'
      BY <1>0, <2>1, <3>3 DEF Awaited, Stops, GoesTo, Known, Spawns
    <3>8. Recycles'
      BY <1>0, <2>1, <3>2, <3>3, <3>4 DEF Known, Recycles, Spawns, GoesTo
    <3>9. Announced'
      BY <2>1, <3>3, <3>4 DEF Known, Announced, StopWins, Busy, GoesTo
    <3> QED
      BY <3>5, <3>6, <3>7, <3>8, <3>9 DEF Known
  <2> QED
    BY <1>1, <2>2, <2>3, <2>4, <2>5 DEF SpawnLoop
<1>2. CASE SpawnAgain \/ Built
  <2>1. /\ starting.at \in {"build", "closed"} /\ Nobody
        /\ UNCHANGED <<supervisor, child, ready, exiting, recycling, stopping>>
    BY <1>0, <1>2 DEF SpawnAgain, Built, Known, Spawns
  <2>2. child = None /\ booting = None /\ exiting = None
    BY <2>1, NobodyIs DEF Known
  <2>3. CASE SpawnFails /\ UNCHANGED <<proc, born, booting>>
    BY <1>0, <2>1, <2>2, <2>3, KnownFails DEF supervisor
  <2>4. CASE starting.stops = stops /\ SpawnOne(starting) /\ UNCHANGED spawned
    <3>1. born + 1 \in Procs
      BY <1>0, <2>1, Room DEF ToStart
    <3>2. stopping = None /\ starting.since = stops
      BY <1>0, <2>4 DEF Known, Spawns
    <3>3. recycling # None => /\ recycling.at # "child" /\ recycling.on = starting.id
                              /\ recycling.stops = stops /\ recycling.born \in Nat /\ recycling.born <= born
      BY <1>0, <3>2, InFlight DEF Known, Spawns, Recycles
    <3> QED
      BY <1>0, <2>1, <2>4, <3>1, <3>2, <3>3, KnownStarts DEF supervisor
  <2> QED
    BY <1>2, <2>3, <2>4 DEF SpawnAgain, Built
<1>3. CASE SpawnRefused
  <2>1. /\ starting.at = "refused"
        /\ UNCHANGED <<calls, waiting, stops, opens, child, booting, exiting, recycling, stopping, proc, born>>
    BY <1>3 DEF SpawnRefused
  <2>2. CASE SpawnSucceeds
    BY <1>0, <2>1, <2>2, KnownSucceeds
  <2>3. CASE starting' = [starting EXCEPT !.at = "loop", !.wanted = NoInspector] /\ UNCHANGED <<ready, spawned>>
    <3>1. NoInspector \in InspectorType
      BY CallsAssumption DEF NoInspector, InspectorType
    <3>2. GoesTo(starting, "loop", starting')
      BY <1>0, <2>3, <3>1, SpawnGoes, Zenon
    <3> QED
      BY <1>0, <2>1, <2>3, <3>2, Unmarked, KnownGoes
  <2> QED
    BY <1>3, <2>2, <2>3 DEF SpawnRefused
<1>4. CASE BuildFails
  <2>1. starting.at = "build" /\ Nobody
    BY <1>0, <1>4 DEF BuildFails, Known, Spawns
  <2>2. child = None /\ booting = None /\ exiting = None
    BY <2>1, NobodyIs DEF Known
  <2> QED
    BY <1>0, <1>4, <2>2, KnownFails DEF BuildFails, supervisor
<1>5. ASSUME NEW how \in Answers, SpawnOpenAnswered(how) PROVE Known'
  <2>1. /\ starting.at = "open" /\ starting.proc \in Procs
        /\ UNCHANGED <<supervisor, child, ready, booting, exiting, recycling, stopping, spawned, born>>
    BY <1>0, <1>5 DEF SpawnOpenAnswered, Known, Spawns
  <2>2. PICK at \in {"loop", "refused"} : starting' = [starting EXCEPT !.at = at]
    BY <1>5 DEF SpawnOpenAnswered
  <2>3. GoesTo(starting, at, starting')
    BY <1>0, <2>2, SpawnGoes
  <2>4. SameLives
    BY <1>5, <2>1, Ported, Unmarked DEF SpawnOpenAnswered
  <2> QED
    BY <1>0, <2>1, <2>3, <2>4, KnownGoes DEF supervisor
<1> QED
  BY <1>1, <1>2, <1>3, <1>4, <1>5

\* The rest of a recycle.
LEMMA KnownRenews ==
    ASSUME TypeOK, Counted, Known, RecycleStops \/ RecycleSpawns \/ RecycleEnds
    PROVE  Known'
<1>0. /\ recycling # None /\ recycling \in RecycleType /\ recycling.stops \in 0 .. MaxCalls
      /\ recycling.no \in Calls /\ recycling.born \in Nat
      /\ UNCHANGED <<supervisor, stopping>> /\ UNCHANGED spawned
  BY InFlight DEF RecycleStops, RecycleSpawns, RecycleEnds
<1>1. starting = None
  <2>1. CASE RecycleSpawns
    BY <1>0, <2>1 DEF RecycleSpawns, Known, Recycles
  <2>2. CASE RecycleStops \/ RecycleEnds
    <3>1. recycling.on = None \/ Id(starting) # recycling.on
      BY <2>2 DEF RecycleStops, RecycleEnds
    <3> QED
      BY <1>0, <3>1, IdIs DEF Known, Spawns
  <2> QED
    BY <2>1, <2>2
<1>2. booting = None
  BY <1>1 DEF Known, Processes
<1>3. ASSUME RecycleFails, UNCHANGED <<child, exiting, proc, starting, booting, born>>,
             recycling.at = "child" => exiting = None,
             child = None \/ stopping # None
      PROVE  Known'
  <2>1. SameLives /\ recycling' = None
    BY <1>3, Unmarked DEF RecycleFails
  <2>2. /\ \A p \in Procs \cup {None} : Alive(p)' <=> Alive(p)
    BY <2>1, LivesSame
  <2>3. Processes'
    BY <1>0, <1>3, <2>2 DEF Known, Processes, TypeOK
  <2>4. Spawns' /\ Recycles'
    BY <1>1, <1>3, <2>1 DEF Spawns, Recycles
  <2>5. Awaited'
    BY <1>0, <1>1, <1>3 DEF Known, Awaited
  <2>6. Stops'
    BY <1>0, <1>3 DEF Known, Stops
  <2>7. Announced'
    BY <1>0, <1>3, <2>1, <2>2 DEF Known, Announced, StopWins, Busy, supervisor
  <2> QED
    BY <2>3, <2>4, <2>5, <2>6, <2>7 DEF Known
<1>4. recycling.stops # stops => child = None \/ stopping # None
  BY <1>0, NobodyIs DEF Known, Recycles
<1>5. CASE RecycleStops
  <2>1. recycling.at = "starting"
    BY <1>5 DEF RecycleStops
  <2>2. CASE recycling.stops # stops
    <3>1. RecycleFails /\ UNCHANGED <<child, exiting, proc, starting, booting, born>>
      BY <1>5, <2>2 DEF RecycleStops
    <3> QED
      BY <1>3, <1>4, <2>1, <2>2, <3>1
  <2>3. CASE recycling.stops = stops
    <3>1. /\ StopChild /\ recycling' = [recycling EXCEPT !.at = "child", !.on = Leaver] /\ UNCHANGED ready
          /\ UNCHANGED <<starting, booting, born>>
      BY <1>5, <2>3 DEF RecycleStops
    <3>2. stopping = None /\ exiting = None
      BY <1>0, <1>1, <2>1, <2>3 DEF Known, Recycles, Awaited
    <3>3. SameLives /\ child' = None /\ exiting' = child /\ Leaver = child /\ Leaver \in Procs \cup {None}
      BY <3>1, <3>2, ChildStops DEF Known, TypeOK
    <3>4. RecycledTo(recycling, "child", Leaver, recycling')
      BY <1>0, <3>1, <3>3, RecycleGoes, Zenon
    <3>5. /\ \A p \in Procs \cup {None} : Alive(p)' <=> Alive(p)
          /\ Nobody' <=> Nobody
          /\ \A p \in Procs : proc'[p].heard = proc[p].heard /\ proc'[p].since = proc[p].since
      BY <3>3, LivesSame DEF SameLives
    <3>6. Processes'
      BY <1>1, <1>2, <3>1, <3>2, <3>3, <3>5 DEF Known, Processes, TypeOK
    <3>7. Spawns' /\ Stops'
      BY <1>0, <1>1, <3>1, <3>2 DEF Spawns, Stops
    <3>8. Awaited'
      BY <3>4 DEF Awaited, RecycledTo
    <3>9. Recycles'
      BY <1>0, <1>1, <2>3, <3>1, <3>2, <3>3, <3>4 DEF Known, Recycles, RecycledTo, supervisor
    <3>10. Announced'
      BY <1>0, <3>2, <3>4, <3>5 DEF Known, Announced, StopWins, Busy, RecycledTo, supervisor
    <3> QED
      BY <3>6, <3>7, <3>8, <3>9, <3>10 DEF Known
  <2> QED
    BY <2>2, <2>3
<1>6. CASE RecycleSpawns
  <2>1. recycling.at = "child" /\ Gone(recycling.on)
    BY <1>6 DEF RecycleSpawns
  <2>2. child = None /\ exiting = None
    BY <1>0, <2>1 DEF Known, Recycles, Processes, Gone, Alive
  <2>3. Nobody
    BY <1>2, <2>2, NobodyIs DEF Known
  <2>4. CASE recycling.stops # stops
    <3>1. RecycleFails /\ UNCHANGED <<child, exiting, proc, starting, booting, born>>
      BY <1>6, <2>4 DEF RecycleSpawns
    <3> QED
      BY <1>3, <2>2, <3>1
  <2>5. CASE recycling.stops = stops
    <3>1. /\ SpawnOne(Spawning(recycling.no, recycling.stops))
          /\ recycling' = [recycling EXCEPT !.at = "spawn", !.on = Id(starting')]
          /\ UNCHANGED <<ready, child, exiting>>
      BY <1>1, <1>6, <2>5 DEF RecycleSpawns, SpawnAnnounced
    <3>2. PICK spawn \in SpawnType : /\ spawn = Spawning(recycling.no, recycling.stops)
                                     /\ spawn.id = recycling.no /\ spawn.stops = stops /\ spawn.since = stops
      BY <1>0, <2>5, NewSpawn
    <3>3. born + 1 \in Procs
      BY <1>0, <2>1, Room DEF ToRenew
    <3>4. stopping = None
      BY <1>0, <2>5 DEF Known, Recycles
    <3>5. Id(starting') = spawn.id /\ spawn.id \in Procs \cup {None}
      BY <3>1, <3>2, <3>3, NewProcess DEF Id, SpawnType, Calls, Procs
    <3>6. RecycledTo(recycling, "spawn", Id(starting'), recycling')
      BY <1>0, <3>1, <3>5, RecycleGoes, Zenon
    <3>7. /\ recycling'.at # "child" /\ recycling'.on = spawn.id
          /\ recycling'.stops = stops /\ recycling'.born \in Nat /\ recycling'.born <= born
      BY <1>0, <2>5, <3>5, <3>6 DEF RecycledTo, Known, Recycles
    <3> QED
      BY <1>0, <2>3, <3>1, <3>2, <3>3, <3>4, <3>7, KnownStarts DEF supervisor
  <2> QED
    BY <2>4, <2>5
<1>7. CASE RecycleEnds
  <2>1. recycling.at = "spawn" /\ UNCHANGED <<child, booting, exiting, starting, proc, born>>
    BY <1>7 DEF RecycleEnds
  <2>2. CASE spawned /\ recycling.stops = stops
    <3>1. recycling' = None /\ UNCHANGED ready
      BY <1>7, <2>2 DEF RecycleEnds
    <3>2. child # None => ready = child
      BY <1>0, <1>1, <2>1, <2>2 DEF Known, Recycles
    <3>3. SameLives
      BY <2>1, Unmarked
    <3>4. /\ \A p \in Procs \cup {None} : Alive(p)' <=> Alive(p)
      BY <3>3, LivesSame
    <3>5. Processes'
      BY <1>0, <2>1, <3>4 DEF Known, Processes, TypeOK
    <3>6. Spawns' /\ Recycles'
      BY <1>1, <2>1, <3>1 DEF Spawns, Recycles
    <3>7. Awaited'
      BY <1>0, <1>1, <2>1 DEF Known, Awaited
    <3>8. Stops'
      BY <1>0, <2>1 DEF Known, Stops
    <3>9. Announced'
      BY <1>0, <2>1, <3>1, <3>2, <3>4 DEF Known, Announced, StopWins, supervisor
    <3> QED
      BY <3>5, <3>6, <3>7, <3>8, <3>9 DEF Known
  <2>3. CASE ~(spawned /\ recycling.stops = stops)
    <3>1. RecycleFails
      BY <1>7, <2>3 DEF RecycleEnds
    <3>2. child = None \/ stopping # None
      BY <1>0, <1>1, <1>4, <2>1, <2>3 DEF Known, Recycles
    <3> QED
      BY <1>3, <2>1, <3>1, <3>2
  <2> QED
    BY <2>2, <2>3
<1> QED
  BY <1>5, <1>6, <1>7

\* The rest of a stop: it takes the child, or waits for the one that leaves already.
LEMMA KnownEnds ==
    ASSUME TypeOK, Known, StopStops \/ StopEnds
    PROVE  Known'
<1>0. /\ stopping # None /\ stopping \in StopType
      /\ UNCHANGED <<supervisor, booting, starting, recycling, spawned, born>>
  BY InFlight DEF StopStops, StopEnds
<1>1. starting = None /\ booting = None
  <2>1. starting = None
    <3>1. CASE StopStops
      <4>1. stopping.on = None \/ Id(starting) # stopping.on
        BY <3>1 DEF StopStops
      <4> QED
        BY <1>0, <4>1, IdIs DEF Known, Spawns
    <3>2. CASE StopEnds
      BY <1>0, <3>2 DEF StopEnds, Known, Stops
    <3> QED
      BY <3>1, <3>2
  <2> QED
    BY <2>1 DEF Known, Processes
<1>2. recycling # None => recycling.stops # stops /\ recycling.stops <= stops /\ recycling.born <= born
  BY <1>0 DEF Known, Recycles
<1>3. CASE StopStops
  <2>1. /\ SameLives /\ child' = None /\ UNCHANGED ready
        /\ exiting' = IF child # None THEN child ELSE exiting
        /\ stopping' = [at |-> "child", on |-> exiting']
    <3>1. StopChild
      BY <1>3 DEF StopStops
    <3>2. /\ SameLives /\ child' = None /\ exiting' = (IF child # None THEN child ELSE exiting)
          /\ (Running <=> child # None)
      BY <3>1, ChildStops DEF Known
    <3> QED
      BY <1>3, <3>2 DEF StopStops
  <2>2. exiting' \in Procs \cup {None}
    BY <2>1 DEF TypeOK
  <2>3. stopping' # None /\ stopping'.at = "child" /\ stopping'.on = exiting'
    <3>1. stopping' \in StopType
      BY <2>1, <2>2 DEF StopType
    <3> QED
      BY <2>1, <3>1, NothingInFlight
  <2>4. /\ \A p \in Procs \cup {None} : Alive(p)' <=> Alive(p)
        /\ Nobody' <=> Nobody
        /\ \A p \in Procs : proc'[p].heard = proc[p].heard
    BY <2>1, LivesSame DEF SameLives
  <2>5. Processes'
    BY <1>0, <1>1, <2>1, <2>4 DEF Known, Processes, TypeOK
  <2>6. Spawns' /\ Awaited' /\ Stops'
    BY <1>0, <1>1, <2>1, <2>3 DEF Spawns, Awaited, Stops
  <2>7. Recycles'
    BY <1>0, <1>1, <1>2, <2>1, <2>3 DEF Known, Recycles, supervisor
  <2>8. Announced'
    BY <1>0, <2>3 DEF Known, Announced, StopWins, Busy, supervisor
  <2> QED
    BY <2>5, <2>6, <2>7, <2>8 DEF Known
<1>4. CASE StopEnds
  <2>1. /\ stopping.at = "child" /\ Gone(stopping.on) /\ stopping' = None
        /\ UNCHANGED <<child, exiting, proc>>
    BY <1>4 DEF StopEnds
  <2>2. child = None /\ exiting = None
    BY <1>0, <2>1 DEF Known, Stops, Processes, Gone, Alive
  <2>3. Nobody /\ Nobody'
    BY <1>1, <2>1, <2>2, NobodyIs DEF Known, Nobody, Alive
  <2>4. Processes'
    BY <1>0, <1>1, <2>1, <2>2, <2>3 DEF Processes, Nobody
  <2>5. Spawns' /\ Awaited' /\ Stops'
    BY <1>0, <1>1, <2>1, <2>2 DEF Spawns, Awaited, Stops
  <2>6. Recycles'
    BY <1>0, <1>1, <1>2, <2>1, <2>2, <2>3 DEF Recycles, supervisor
  <2>7. Announced'
    BY <1>0, <2>1, <2>2, <2>3 DEF Known, Announced, StopWins, Nobody, supervisor
  <2> QED
    BY <2>4, <2>5, <2>6, <2>7 DEF Known
<1> QED
  BY <1>3, <1>4

\* Who is heard of is the one that boots; with "ready" it is the child.
LEMMA KnownHears ==
    ASSUME TypeOK, Known, NEW p \in Procs, Hear(p)
    PROVE  Known'
<1>1. /\ Alive(p) /\ proc[p].heard < proc[p].phase /\ proc[p].phase \in 0 .. 3 /\ proc[p].heard \in 0 .. 3
      /\ proc' = [proc EXCEPT ![p].heard = proc[p].heard + 1]
      /\ UNCHANGED <<supervisor, ready, exiting, recycling, stopping, spawned, born>>
  BY DEF Hear, TypeOK, ProcType
<1>2. p = booting
  <2>1. p \in {child, booting, exiting} /\ p # None
    BY <1>1, IdIs DEF Known, Processes
  <2>2. proc[p].heard # 3
    BY <1>1
  <2> QED
    BY <2>1, <2>2 DEF Known, Processes
<1>3. /\ starting # None /\ starting.at = "boot" /\ starting.proc = p /\ child = None /\ exiting = None
      /\ p # None /\ starting \in SpawnType
  BY <1>2, InFlight, IdIs DEF Known, Processes
<1>4. /\ proc'[p].heard = proc[p].heard + 1
      /\ \A q \in Procs : proc'[q].life = proc[q].life /\ proc'[q].since = proc[q].since
  BY <1>1, Heard
<1>5. /\ \A q \in Procs : Alive(q)' <=> Alive(q)
      /\ Nobody' <=> Nobody
      /\ Alive(p)'
  BY <1>1, <1>3, <1>4, IdIs DEF Alive, Nobody
<1>6. CASE UNCHANGED <<child, booting, starting>>
  <2>1. Processes'
    BY <1>1, <1>2, <1>3, <1>5, <1>6 DEF Known, Processes
  <2>2. Spawns'
    BY <1>1, <1>5, <1>6 DEF Known, Spawns, supervisor
  <2>3. Awaited' /\ Stops'
    BY <1>1, <1>6 DEF Known, Awaited, Stops
  <2>4. Recycles'
    BY <1>1, <1>5, <1>6 DEF Known, Recycles, supervisor
  <2>5. Announced'
    BY <1>1, <1>4, <1>5, <1>6 DEF Known, Announced, StopWins, Busy, supervisor
  <2> QED
    BY <2>1, <2>2, <2>3, <2>4, <2>5 DEF Known
<1>7. CASE /\ proc[p].heard + 1 = 3 /\ child' = p /\ booting' = None
           /\ starting' = [starting EXCEPT !.at = "loop"]
  <2>0. GoesTo(starting, "loop", starting')
    BY <1>3, <1>7, SpawnGoes
  <2>1. Processes'
    BY <1>1, <1>2, <1>3, <1>4, <1>5, <1>7 DEF Known, Processes
  <2>2. Spawns'
    BY <1>1, <1>3, <1>7, <2>0 DEF Known, Spawns, GoesTo, supervisor
  <2>3. Awaited' /\ Stops'
    BY <1>1, <1>3, <2>0 DEF Known, Awaited, Stops, Spawns, GoesTo
  <2>4. Recycles'
    BY <1>1, <1>3, <1>5, <2>0 DEF Known, Recycles, Spawns, GoesTo, supervisor
  <2>5. Announced'
    BY <1>1, <1>4, <1>5, <2>0 DEF Known, Announced, StopWins, Busy, GoesTo, supervisor
  <2> QED
    BY <2>1, <2>2, <2>3, <2>4, <2>5 DEF Known
<1> QED
  BY <1>1, <1>2, <1>3, <1>6, <1>7 DEF Hear

\* Once the process has exited, nobody is there; who awaited it goes on.
LEMMA KnownExits ==
    ASSUME TypeOK, Known, NEW p \in Procs, Exit(p)
    PROVE  Known'
<1>1. /\ Alive(p) /\ p \in {child, booting, exiting} /\ p # None
      /\ \A q \in Procs : Alive(q) => q = p
      /\ UNCHANGED <<supervisor, recycling, stopping, born>>
  BY IdIs DEF Exit, Known, Processes
<1>2. /\ proc'[p].life = "gone" /\ \A q \in Procs : q # p => proc'[q] = proc[q]
  BY Exited DEF Exit
<1>3. Nobody'
  BY <1>1, <1>2 DEF Nobody, Alive
<1>4. child' = None /\ booting' = None /\ exiting' = None
  <2>1. child \in {None, p} /\ booting \in {None, p} /\ exiting \in {None, p}
    BY <1>1 DEF Known, Processes, TypeOK
  <2> QED
    BY <2>1 DEF Exit
<1>5. Processes'
  BY <1>3, <1>4 DEF Processes, Nobody
<1>6. starting # None => starting.at \in {"boot", "open", "closing"} /\ starting.proc = p /\ starting \in SpawnType
  <2>1. starting # None => starting.at \in {"build", "boot", "closing", "open"} /\ starting \in SpawnType
    BY InFlight DEF Exit, Continuing, SpawnType
  <2>2. starting # None => starting.at # "build"
    BY <1>1 DEF Known, Spawns, Nobody
  <2>3. starting # None => starting.proc \in Procs /\ Alive(starting.proc)
    <3>1. starting # None => starting.proc \in Procs /\ starting.proc # None
      BY <2>2, IdIs DEF Known, Spawns
    <3>2. starting # None => starting.proc \in {child, booting, exiting}
      BY <2>1, <2>2 DEF Known, Spawns
    <3> QED
      BY <3>1, <3>2 DEF Known, Processes
  <2> QED
    BY <1>1, <2>1, <2>2, <2>3
<1>7. /\ starting = None => starting' = None /\ spawned' = spawned
      /\ starting # None /\ starting.at = "boot" => starting' = None /\ spawned' = FALSE
      /\ starting # None /\ starting.at = "closing" => GoesTo(starting, "closed", starting') /\ spawned' = spawned
      /\ starting # None /\ starting.at = "open" => GoesTo(starting, "refused", starting') /\ spawned' = spawned
  <2>1. CASE starting = None
    BY <2>1 DEF Exit, SpawnLosesProcess
  <2>2. CASE starting # None /\ starting.at = "boot"
    BY <1>6, <2>2 DEF Exit, SpawnLosesProcess, SpawnFails
  <2>3. CASE starting # None /\ starting.at = "closing"
    <3>1. starting' = [starting EXCEPT !.at = "closed"] /\ spawned' = spawned
      BY <1>6, <2>3 DEF Exit, SpawnLosesProcess
    <3> QED
      BY <1>6, <2>3, <3>1, SpawnGoes
  <2>4. CASE starting # None /\ starting.at = "open"
    <3>1. starting' = [starting EXCEPT !.at = "refused"] /\ spawned' = spawned
      BY <1>6, <2>4 DEF Exit, SpawnLosesProcess
    <3> QED
      BY <1>6, <2>4, <3>1, SpawnGoes
  <2> QED
    BY <1>6, <2>1, <2>2, <2>3, <2>4
<1>8. Spawns'
  BY <1>1, <1>3, <1>4, <1>6, <1>7 DEF Known, Spawns, GoesTo, supervisor
<1>9. Awaited'
  BY <1>4 DEF Awaited
<1>10. Stops'
  BY <1>1, <1>4, <1>6, <1>7 DEF Known, Stops
<1>11. Recycles'
  <2>1. recycling # None => ready' = ready
    BY DEF Exit
  <2> QED
    BY <1>1, <1>3, <1>4, <1>6, <1>7, <2>1 DEF Known, Recycles, GoesTo, supervisor
<1>12. Announced'
  BY <1>1, <1>3, <1>4 DEF Known, Announced, StopWins, Nobody, supervisor
<1> QED
  BY <1>5, <1>8, <1>9, <1>10, <1>11, <1>12 DEF Known

\* Every step keeps what is known.
LEMMA KnownKept ==
    ASSUME TypeOK, Counted, Known, [Next]_vars
    PROVE  Known'
<1>0. \A call \in waiting : call \in [no : Calls, stops : 0 .. MaxCalls] /\ call.stops <= stops
  BY DEF TypeOK, Known, Announced
<1>1. CASE StartCall
  <2>1. PICK call \in [no : Calls, stops : 0 .. MaxCalls] :
            call = [no |-> calls + 1, stops |-> stops] /\ call.stops <= stops
    <3>1. [no |-> calls + 1, stops |-> stops] \in [no : Calls, stops : 0 .. MaxCalls]
      <4>1. calls < MaxCalls /\ calls \in Nat /\ MaxCalls \in Nat /\ stops \in 0 .. MaxCalls
        BY <1>1, CallsAssumption DEF StartCall, MayCall, TypeOK
      <4>2. calls + 1 \in Calls
        BY <4>1 DEF Calls
      <4> QED
        BY <4>1, <4>2
    <3>2. stops <= stops
      BY InFlight
    <3> QED
      BY <3>1, <3>2
  <2>2. UNCHANGED <<stops, child, ready, exiting, recycling, stopping, spawned>>
    BY <1>1 DEF StartCall
  <2>3. CASE Busy
    <3>1. waiting' = waiting \cup {call} /\ UNCHANGED <<starting, booting, proc, born>>
      BY <1>1, <2>1, <2>3 DEF StartCall
    <3> QED
      BY <1>0, <2>1, <2>2, <3>1, Unmarked, KnownSame
  <2>4. CASE ~Busy
    <3>1. Serve(call) /\ UNCHANGED waiting
      BY <1>1, <2>1, <2>4 DEF StartCall
    <3> QED
      BY <1>0, <2>2, <2>4, <3>1, KnownServes
  <2> QED
    BY <2>3, <2>4
<1>2. CASE Settled
  <2>1. PICK call \in waiting : /\ waiting' = waiting \ {call} /\ Serve(call) /\ ~Busy
                                /\ UNCHANGED <<stops, child, ready, exiting, recycling, stopping, spawned>>
    BY <1>2 DEF Settled
  <2>2. \A c \in waiting' : c.stops <= stops
    BY <1>0, <2>1
  <2> QED
    BY <1>0, <2>1, <2>2, KnownServes
<1>3. CASE RecycleCall
  BY <1>3, KnownRecycles DEF RecycleCall, MayCall
<1>4. CASE StopCall
  BY <1>4, KnownStops
<1>5. ASSUME NEW port \in Ports \cup {None}, InspectorCall(port) PROVE Known'
  <2>1. calls < MaxCalls /\ UNCHANGED <<waiting, stops, child, booting, exiting, starting, stopping, spawned, born>>
    BY <1>5 DEF InspectorCall, MayCall
  <2>2. CASE UNCHANGED <<recycling, ready, opens, proc>>
    BY <1>0, <2>1, <2>2, Unmarked, KnownSame
  <2>3. CASE Recycle /\ UNCHANGED proc
    BY <2>1, <2>3, KnownRecycles
  <2>4. CASE Running /\ proc' = [proc EXCEPT ![child].port = port] /\ UNCHANGED <<recycling, ready>>
    <3>1. child \in Procs
      BY <2>4 DEF Running, Alive, TypeOK
    <3> QED
      BY <1>0, <2>1, <2>4, <3>1, Ported, KnownSame
  <2> QED
    BY <1>5, <2>2, <2>3, <2>4 DEF InspectorCall
<1>6. CASE SpawnLoop \/ SpawnAgain \/ SpawnRefused \/ Built \/ BuildFails \/ \E how \in Answers : SpawnOpenAnswered(how)
  BY <1>6, KnownSpawns
<1>7. CASE RecycleStops \/ RecycleSpawns \/ RecycleEnds
  BY <1>7, KnownRenews
<1>8. CASE StopStops \/ StopEnds
  BY <1>8, KnownEnds
<1>9. ASSUME NEW o \in opens, OpenLost(o) \/ \E how \in Answers : OpenAnswered(o, how) PROVE Known'
  <2>1. o.proc \in Procs /\ o.current \in Ports \cup {None}
    BY DEF TypeOK
  <2>2. SameLives
    <3>1. CASE proc' = proc
      BY <3>1, Unmarked
    <3>2. CASE proc' = [proc EXCEPT ![o.proc].port = o.current]
      BY <2>1, <3>2, Ported
    <3> QED
      BY <1>9, <3>1, <3>2 DEF OpenLost, OpenAnswered
  <2>3. UNCHANGED <<waiting, stops, child, ready, booting, exiting, starting, recycling, stopping, spawned, born>>
    BY <1>9 DEF OpenLost, OpenAnswered
  <2> QED
    BY <1>0, <2>2, <2>3, KnownSame
<1>10. ASSUME NEW p \in Procs, Boot(p) \/ GiveUp(p) \/ Insist(p) PROVE Known'
  <2>1. {"limit"} \in SUBSET {"asked", "armed", "limit", "killed"} /\ {"killed"} \in SUBSET {"asked", "armed", "limit", "killed"}
    OBVIOUS
  <2>2. SameLives
    BY <1>10, <2>1, Phased, Marked DEF Boot, GiveUp, Insist
  <2>3. UNCHANGED <<supervisor, child, ready, booting, exiting, starting, recycling, stopping, spawned, born>>
    BY <1>10 DEF Boot, GiveUp, Insist
  <2> QED
    BY <1>0, <2>2, <2>3, KnownSame DEF supervisor
<1>11. ASSUME NEW p \in Procs, Hear(p) \/ Exit(p) PROVE Known'
  BY <1>11, KnownHears, KnownExits
<1>12. CASE UNCHANGED vars
  BY <1>0, <1>12, Unmarked, KnownSame DEF vars
<1> QED
  BY <1>1, <1>2, <1>3, <1>4, <1>5, <1>6, <1>7, <1>8, <1>9, <1>10, <1>11, <1>12
  DEF Next, AskedOf, Continuations

-----------------------------------------------------------------------------
(* The theorems *)

\* Nothing was asked of the supervisor yet.
LEMMA RuntimeInit == Init => IInv
<1> SUFFICES ASSUME Init PROVE IInv
  OBVIOUS
<1>1. TypeOK
  <2>1. Unborn \in ProcType
    BY CallsAssumption DEF Unborn, ProcType
  <2>2. NoInspector \in InspectorType /\ 0 \in 0 .. MaxCalls
    BY CallsAssumption DEF NoInspector, InspectorType
  <2> QED
    BY <2>1, <2>2 DEF Init, TypeOK
<1>2. Nobody
  BY DEF Init, Nobody, Alive, Unborn
<1>3. Counted
  <2>1. IsFiniteSet({}) /\ Cardinality({}) = 0
    BY FS_EmptySet
  <2>2. ToCome = 0
    BY DEF Init, ToCome, One, ToStart, ToRenew, Mismatch
  <2> QED
    BY <2>1, <2>2 DEF Init, Counted
<1>4. Processes /\ Spawns /\ Awaited /\ Recycles /\ Stops /\ Announced
  BY <1>2 DEF Init, Processes, Spawns, Awaited, Recycles, Stops, Announced, StopWins, Nobody
<1> QED
  BY <1>1, <1>3, <1>4 DEF IInv

\* Every step keeps the invariant.
LEMMA RuntimeNext == IInv /\ [Next]_vars => IInv'
<1> SUFFICES ASSUME TypeOK, Counted, Known, [Next]_vars PROVE IInv'
  BY DEF IInv, Known
<1>1. TypeOK'
  <2>1. CASE AskedOf
    BY <2>1, CallsTyped DEF Known
  <2>2. CASE UNCHANGED vars
    BY <2>2 DEF vars, TypeOK
  <2> QED
    BY <2>1, <2>2, SpawnsTyped, OthersTyped DEF Known, Next, Continuations
<1>2. Counted'
  BY <1>1, CountedKept DEF Known
<1>3. Known'
  BY KnownKept
<1> QED
  BY <1>1, <1>2, <1>3 DEF IInv, Known

\* What the supervisor knows of its processes in every state, however calls overlap.
THEOREM RuntimeInvariant == Spec => []IInv
BY RuntimeInit, RuntimeNext, PTL DEF Spec

\* There is one process or none, and when nothing is in flight it is the child and the
\* one that is announced.
THEOREM OneProcessIsKnown == Spec => []OneKnownProcess
<1>1. ASSUME IInv PROVE OneKnownProcess
  <2>1. TypeOK /\ Processes /\ Awaited /\ Announced
    BY <1>1 DEF IInv
  <2>2. OneProcess
    <3> DEFINE S == {p \in Procs : Alive(p)}
    <3>1. CASE S = {}
      <4>1. Cardinality({}) = 0
        BY FS_EmptySet
      <4> QED
        BY <3>1, <4>1 DEF OneProcess
    <3>2. CASE S # {}
      <4>1. PICK p \in Procs : Alive(p)
        BY <3>2
      <4>2. S = {p}
        BY <2>1, <4>1 DEF Processes
      <4>3. Cardinality({p}) = 1
        BY FS_Singleton
      <4> QED
        BY <4>2, <4>3 DEF OneProcess
    <3> QED
      BY <3>1, <3>2
  <2>3. NoOrphan
    <3>1. ASSUME starting = None, ~Busy, NEW p \in Procs, Alive(p) PROVE child = p /\ ready = p
      <4>1. booting = None /\ exiting = None
        BY <2>1, <3>1 DEF Processes, Awaited, Busy
      <4>2. child = p /\ p # None
        BY <2>1, <3>1, <4>1, IdIs DEF Processes
      <4> QED
        BY <2>1, <3>1, <4>2 DEF Announced
    <3> QED
      BY <3>1 DEF NoOrphan
  <2> QED
    BY <2>1, <2>2, <2>3 DEF OneKnownProcess
<1> QED
  BY <1>1, RuntimeInvariant, PTL

\* Once a stop is over no process is there that was asked for before it.
THEOREM StopAlwaysWins == Spec => []StopWins
<1>1. ASSUME IInv PROVE StopWins
  BY <1>1 DEF IInv, Announced
<1> QED
  BY <1>1, RuntimeInvariant, PTL

\* A recycle that succeeds announces a process that was started after it was asked for.
THEOREM RecycleAlwaysRenews == Spec => RecycleRenews
<1>1. ASSUME IInv, [Next]_vars, recycling # None, recycling' = None, ready' # None
      PROVE  ready' > recycling.born
  <2>1. RecycleEnds /\ spawned /\ recycling.stops = stops /\ UNCHANGED ready
    <3>1. RecycleStops \/ RecycleSpawns \/ RecycleEnds
      <4>1. ASSUME NEW port \in Ports \cup {None}, InspectorCall(port) PROVE recycling' # None
        <5>1. calls < MaxCalls
          BY <4>1 DEF InspectorCall, MayCall
        <5> QED
          BY <1>1, <4>1, <5>1, RecycleBegins DEF InspectorCall, IInv
      <4>2. CASE RecycleCall
        <5>1. calls < MaxCalls
          BY <4>2 DEF RecycleCall, MayCall
        <5> QED
          BY <1>1, <4>2, <5>1, RecycleBegins DEF RecycleCall, IInv
      <4> QED
        BY <1>1, <4>1, <4>2 DEF Next, AskedOf, Continuations, StartCall, StopCall, Settled, SpawnLoop,
           SpawnAgain, SpawnRefused, StopStops, StopEnds, OpenLost, Built, BuildFails, OpenAnswered,
           SpawnOpenAnswered, Boot, Hear, GiveUp, Insist, Exit, vars
    <3>2. recycling \in RecycleType
      BY <1>1, InFlight DEF IInv
    <3>3. ~RecycleFails
      BY <1>1 DEF RecycleFails
    <3>4. CASE RecycleStops
      <4>1. recycling' = [recycling EXCEPT !.at = "child", !.on = Leaver] /\ Leaver \in Procs \cup {None}
        BY <1>1, <3>3, <3>4 DEF RecycleStops, Leaver, IInv, TypeOK
      <4>2. RecycledTo(recycling, "child", Leaver, recycling')
        BY <3>2, <4>1, RecycleGoes, Zenon
      <4> QED
        BY <1>1, <4>2 DEF RecycledTo
    <3>5. CASE RecycleSpawns
      <4>1. recycling' = [recycling EXCEPT !.at = "spawn", !.on = Id(starting')]
        BY <3>3, <3>5 DEF RecycleSpawns
      <4>2. TypeOK' /\ Id(starting)' \in Procs \cup {None}
        <5>1. TypeOK'
          BY <1>1, RuntimeNext DEF IInv
        <5> QED
          BY <5>1 DEF TypeOK, Id, SpawnType, Calls, Procs
      <4>3. RecycledTo(recycling, "spawn", Id(starting'), recycling')
        BY <3>2, <4>1, <4>2, RecycleGoes, Zenon
      <4> QED
        BY <1>1, <4>3 DEF RecycledTo
    <3> QED
      BY <3>1, <3>3, <3>4, <3>5 DEF RecycleEnds
  <2>2. recycling.at = "spawn" /\ starting = None
    <3>1. recycling.at = "spawn" /\ Id(starting) # recycling.on
      BY <2>1 DEF RecycleEnds
    <3> QED
      BY <1>1, <3>1, IdIs DEF IInv, Spawns
  <2> QED
    BY <1>1, <2>1, <2>2 DEF IInv, Recycles
<1>2. IInv /\ [Next]_vars
      => [(recycling # None /\ recycling' = None /\ ready' # None) => ready' > recycling.born]_vars
  BY <1>1
<1> QED
  BY <1>2, RuntimeInvariant, PTL DEF Spec, RecycleRenews
=============================================================================
