---------------------------- MODULE ObjectStore -----------------------------
(***************************************************************************)
(* The source side of an activation: the object store with its saved and   *)
(* active versions (tools/osd-store.mjs, tools/osd-store-versions.mjs),    *)
(* the publications that build and switch the live generation              *)
(* (tools/osd-store-build.mjs, tools/osd-store-compile-view.mjs), the      *)
(* promotion of what was built (tools/osd-publish-activation.mjs), its     *)
(* ticket (module ActivationJournal), the dev loop (tools/osd-dev.mjs) and *)
(* the notebook's ABAP cells (tools/adt-facade.mjs), which write, publish  *)
(* and roll back one class by themselves.                                  *)
(*                                                                         *)
(* A save, a delete, a promotion and the start of the store are synchro-   *)
(* nous: nobody else in the process sees them half done. On disk they are  *)
(* a sequence of writes, todo, and the process may die before any of them. *)
(* A publication is asynchronous: saves, deletes, other activations and    *)
(* other editors come between its steps.                                   *)
(*                                                                         *)
(* A version stands for the bytes of all files of an object, and for their *)
(* digest. A generation is the version of each object it was built from.   *)
(***************************************************************************)
EXTENDS ActivationJournal, SequencesExt

CONSTANTS Versions,    \* what the files of an object may hold
          First,       \* the version every object has, active, at first
          Absent,      \* no file, no copy
          NoFile,      \* inactive.json does not exist
          CellClass,   \* the class every ABAP cell of a notebook is written to
          Activators,  \* clients that activate, and passes of the dev loop
          \* Bounds: how often each happens, and all of them together. A cell counts as a
          \* save, an edit and a ticket.
          MaxSaves, MaxEdits, MaxTickets, MaxCrashes, MaxAll

ASSUME StoreAssumption ==
    /\ First \in Versions /\ Absent \notin Versions /\ CellClass \in Objects
    /\ MaxSaves \in Nat /\ MaxEdits \in Nat /\ MaxTickets \in Nat /\ MaxCrashes \in Nat
    /\ MaxAll \in Nat

VARIABLES
    disk,      \* the files: sources, active copies, inactive.json, the live generation, the journal's
    up,        \* the process runs
    inactive,  \* store.inactive and #saved: object -> what was saved of it
    journal,   \* the journal in memory
    todo,      \* the writes the synchronous operation under way has still to do
    queue,     \* the publications that wait for their turn
    running,   \* the publication in its turn, or None
    act,       \* what each activator is at
    cell,      \* the notebook cell under way, or None
    count,     \* history: saves, edits, tickets, crashes and cells
    named,     \* history: object -> the versions a publication that names it saw, or that came unasked
    force,     \* history: object -> the active version when it became inactive
    unbuilt    \* history: the objects with a version that came unasked since they were built

memory  == <<up, inactive, journal, todo, queue, running, act, cell>>
history == <<count, named, force, unbuilt>>
vars == <<disk, memory, history>>

Maybe == Versions \cup {Absent}
Record == [digest : Versions, outside : BOOLEAN]
Saveds == UNION {[objects -> Record] : objects \in SUBSET Objects}
Views == [Objects -> Maybe]
Publications == [objects : SUBSET Objects, by : SUBSET Activators, view : Views \cup {None},
                 at : {"begun", "building", "accepted", "loaded", "failed"}]

ASSUME NothingThere == NoFile \notin Saveds /\ None \notin Views /\ None \notin Publications

\* pc; the object, None in a publication of no object; the revision checked; the ticket,
\* None in the dev loop; the view of the tree a join goes by; what was built; history:
\* whether the object was written since the check, and whether that check was refused
\* without it.
Idle(wronged) ==
    [pc |-> "idle", obj |-> None, rev |-> Absent, op |-> None, key |-> None, built |-> None,
     moved |-> FALSE, wronged |-> wronged]

Init ==
    /\ disk = [file |-> [o \in Objects |-> First], copy |-> [o \in Objects |-> Absent],
               live |-> [o \in Objects |-> First], set |-> NoFile,
               attempts |-> NewJournal.attempts, outcomes |-> NewJournal.outcomes, entries |-> {}]
    /\ up = TRUE /\ inactive = <<>> /\ journal = NewJournal
    /\ todo = <<>> /\ queue = <<>> /\ running = None
    /\ act = [a \in Activators |-> Idle(FALSE)]
    /\ cell = None
    /\ count = [saves |-> 0, edits |-> 0, tickets |-> 0, crashes |-> 0, cells |-> 0]
    /\ named = [o \in Objects |-> {First}]
    /\ force = [o \in Objects |-> Absent]
    /\ unbuilt = {}

Free == up /\ todo = <<>>

\* n more things may happen. A bound of the model, not a condition of the code.
Room(n) == count.saves + count.edits + count.tickets + count.crashes + 3 * count.cells + n <= MaxAll
Within(what, max) == count[what] + count.cells < max /\ Room(1)

-----------------------------------------------------------------------------
(* The files *)

File(o, v) == [part |-> "file", obj |-> o, value |-> v]
Copy(o, v) == [part |-> "copy", obj |-> o, value |-> v]
Set(saved) == [part |-> "set", obj |-> None, value |-> saved]

Written(d, w) ==
    [file     |-> IF w.part = "file" THEN [d.file EXCEPT ![w.obj] = w.value] ELSE d.file,
     copy     |-> IF w.part = "copy" THEN [d.copy EXCEPT ![w.obj] = w.value] ELSE d.copy,
     set      |-> IF w.part = "set" THEN w.value ELSE d.set,
     live     |-> d.live,
     attempts |-> IF w.part = "attempts" THEN w.value ELSE d.attempts,
     outcomes |-> IF w.part = "outcomes" THEN w.value ELSE d.outcomes,
     entries  |-> IF w.part = "entries" THEN w.value ELSE d.entries]

\* The next write of the operation under way; each replaces a file as a whole.
Flush ==
    /\ up /\ todo # <<>>
    /\ disk' = Written(disk, Head(todo))
    /\ todo' = Tail(todo)
    /\ UNCHANGED <<up, inactive, journal, queue, running, act, cell, history>>

Without(saved, o) == [k \in DOMAIN saved \ {o} |-> saved[k]]
With(saved, o, v) ==
    [k \in DOMAIN saved \cup {o} |-> IF k = o THEN [digest |-> v, outside |-> FALSE] ELSE saved[k]]

\* The files of o change under those who are activating it.
Moved(o) == [a \in Activators |-> IF act[a].obj = o THEN [act[a] EXCEPT !.moved = TRUE] ELSE act[a]]

\* keepActive: the version of the live generation, before the first save overwrites it.
keepActive(o) ==
    IF o \in DOMAIN inactive \/ disk.file[o] = Absent \/ disk.live[o] = Absent
    THEN <<>> ELSE <<Copy(o, disk.live[o])>>

\* Mutant of SaveWrites: the intent before the copy.
SaveIntentFirst(o, v) == <<Set(With(inactive, o, v))>> \o keepActive(o) \o <<File(o, v)>>

\* Mutant of SaveWrites: the source before the intent.
SaveSourceFirst(o, v) == keepActive(o) \o <<File(o, v), Set(With(inactive, o, v))>>

\* The active copy, then the intent, then the bytes.
SaveWrites(o, v) == keepActive(o) \o <<Set(With(inactive, o, v)), File(o, v)>>

\* write, and create where there is no object.
Saves(o, v) ==
    /\ todo' = SaveWrites(o, v)
    /\ inactive' = With(inactive, o, v)
    /\ force' = IF o \in DOMAIN inactive THEN force
                ELSE [force EXCEPT ![o] = IF disk.file[o] = Absent THEN Absent ELSE disk.live[o]]
    /\ UNCHANGED <<disk, up, journal, queue, running, named, unbuilt>>

\* delete: the files, then the set, then the copies, then the journal.
Deletes(o) ==
    /\ LET forgot == forgetObject(journal, o) IN
       /\ todo' = <<File(o, Absent)>>
                  \o (IF o \in DOMAIN inactive THEN <<Set(Without(inactive, o))>> ELSE <<>>)
                  \o <<Copy(o, Absent)>> \o forgot.writes
       /\ journal' = forgot.journal
    /\ inactive' = Without(inactive, o)
    /\ force' = [force EXCEPT ![o] = Absent]
    /\ UNCHANGED <<disk, up, queue, running, named, unbuilt>>

\* A client saves the object, or deletes it.
Save(o, v) ==
    /\ Free /\ Within("saves", MaxSaves) /\ count' = [count EXCEPT !.saves = @ + 1]
    /\ Saves(o, v)
    /\ act' = Moved(o) /\ UNCHANGED cell
Delete(o) ==
    /\ Free /\ Within("saves", MaxSaves) /\ count' = [count EXCEPT !.saves = @ + 1]
    /\ disk.file[o] # Absent /\ Deletes(o)
    /\ act' = Moved(o) /\ UNCHANGED cell

\* What is inactive for an editor that knows nothing of the store.
SetNow ==
    IF up THEN DOMAIN inactive
    ELSE IF disk.set = NoFile THEN {o \in Objects : disk.copy[o] # Absent}
    ELSE DOMAIN disk.set

\* Another editor, a checkout: the file changes or goes, the store is not asked.
Edit(o, v) ==
    /\ todo = <<>> /\ Within("edits", MaxEdits) /\ count' = [count EXCEPT !.edits = @ + 1]
    /\ v # disk.file[o]
    /\ disk' = [disk EXCEPT !.file[o] = v]
    /\ act' = Moved(o)
    /\ unbuilt' = unbuilt \cup {o}
    /\ named' = IF o \in SetNow THEN named ELSE [named EXCEPT ![o] = @ \cup ({v} \ {Absent})]
    /\ UNCHANGED <<up, inactive, journal, todo, queue, running, cell, force>>

-----------------------------------------------------------------------------
(* The process dies, and starts again *)

Crash ==
    /\ up /\ count.crashes < MaxCrashes /\ Room(1) /\ count' = [count EXCEPT !.crashes = @ + 1]
    /\ up' = FALSE
    /\ inactive' = <<>> /\ journal' = NewJournal
    /\ todo' = <<>> /\ queue' = <<>> /\ running' = None
    /\ act' = [a \in Activators |-> Idle(FALSE)] /\ cell' = None
    /\ UNCHANGED <<disk, named, force, unbuilt>>

Present == {o \in Objects : disk.file[o] # Absent}

\* #recoverFromCopies: no set, so every object with a copy is inactive, what was saved
\* of it unknown.
recoverFromCopies ==
    [o \in {k \in Present : disk.copy[k] # Absent} |-> [digest |-> disk.file[o], outside |-> TRUE]]

\* An object whose files are gone is gone; one whose files changed was changed outside.
Restored ==
    [o \in DOMAIN disk.set \cap Present |->
        [digest |-> disk.file[o],
         outside |-> disk.set[o].outside \/ disk.set[o].digest # disk.file[o]]]

Orphans(saved) == {o \in Objects : disk.copy[o] # Absent /\ o \notin DOMAIN saved}

\* loadInactive, with the journal it opens. Without the set, the copies are the only word
\* on what was active.
Start ==
    /\ ~up /\ up' = TRUE
    /\ LET opened == open([attempts |-> disk.attempts, outcomes |-> disk.outcomes, entries |-> disk.entries])
           saved == IF disk.set = NoFile THEN recoverFromCopies ELSE Restored
           changed == IF disk.set = NoFile THEN saved # <<>> ELSE saved # disk.set IN
       \E order \in SetToSeqs(Forgettable(opened.journal, Objects \ Present)),
          orphans \in SetToSeqs(IF disk.set = NoFile THEN {} ELSE Orphans(saved)) :
           LET forgot == Then(opened, forgetMissingObjects(opened.journal, order)) IN
           /\ journal' = forgot.journal
           /\ inactive' = saved
           /\ todo' = forgot.writes \o (IF changed THEN <<Set(saved)>> ELSE <<>>)
                      \o [i \in DOMAIN orphans |-> Copy(orphans[i], Absent)]
           /\ force' = [o \in Objects |-> IF o \notin DOMAIN saved THEN Absent
                                          ELSE IF disk.set = NoFile THEN disk.copy[o] ELSE force[o]]
    /\ UNCHANGED <<disk, queue, running, act, cell, count, named, unbuilt>>

-----------------------------------------------------------------------------
(* An activation asks for its publication *)

Sets(a, how) == act' = [act EXCEPT ![a] = how]
At(a, pc) == act[a].pc = pc

Activating(a, o, op) ==
    [pc |-> "checked", obj |-> o, rev |-> IF o = None THEN Absent ELSE disk.file[o], op |-> op,
     key |-> None, built |-> None, moved |-> FALSE, wronged |-> FALSE]

\* ACTIVATE: a ticket, the check of the object and its dependents in the sources the
\* build will see, and the verdict.
Activate(a, o) ==
    /\ Free /\ At(a, "idle") /\ Within("tickets", MaxTickets) /\ count' = [count EXCEPT !.tickets = @ + 1]
    /\ LET op == count.tickets + 1
           made == create(journal, o, op) IN
       \/ LET pending == Then(made, update(made.journal, op, "pending")) IN
          /\ disk.file[o] # Absent
          /\ journal' = pending.journal /\ todo' = pending.writes
          /\ Sets(a, Activating(a, o, op))
       \/ LET failed == Then(made, update(made.journal, op, "failed")) IN
          /\ journal' = failed.journal /\ todo' = failed.writes
          /\ Sets(a, Idle(FALSE))
    /\ UNCHANGED <<disk, up, inactive, queue, running, cell, named, force, unbuilt>>

\* The ABAP step that asked for it dumped before its after-step publication.
StepDumped(a) ==
    /\ Free /\ At(a, "checked") /\ act[a].op # None
    /\ LET failed == update(journal, act[a].op, "failed") IN
       journal' = failed.journal /\ todo' = failed.writes
    /\ Sets(a, Idle(FALSE))
    /\ UNCHANGED <<disk, up, inactive, queue, running, cell, history>>

\* A save that waits for its activation is not the dev loop's.
savedInactive(o) == o \in DOMAIN inactive /\ ~inactive[o].outside /\ disk.file[o] = inactive[o].digest

\* A pass of the dev loop over a changed file, its check clean.
DevPass(a, o) ==
    /\ Free /\ At(a, "idle")
    /\ disk.file[o] \notin {Absent, disk.live[o]} /\ ~savedInactive(o)
    /\ Sets(a, Activating(a, o, None))
    /\ UNCHANGED <<disk, up, inactive, journal, todo, queue, running, cell, history>>

\* A publication that activates nothing: a file that went, or is not an object's.
PlainPass(a) ==
    /\ Free /\ At(a, "idle")
    /\ Sets(a, Activating(a, None, None))
    /\ UNCHANGED <<disk, up, inactive, journal, todo, queue, running, cell, history>>

-----------------------------------------------------------------------------
(* Publications, one at a time *)

\* The tree as a publication of these objects sees it: they with their files, the other
\* inactive ones with their active copy.
View(objects) ==
    [o \in Objects |-> IF o \in objects \/ o \notin DOMAIN inactive \/ disk.file[o] = Absent
                       THEN disk.file[o] ELSE disk.copy[o]]

ObjectsOf(a) == {act[a].obj} \ {None}

\* #queued: the last one that waits.
Queued(objects) == queue # <<>> /\ queue[Len(queue)].objects = objects

\* The caller joins what waits, if it is for the same objects, or waits itself.
Waits(a, objects) ==
    queue' = IF Queued(objects)
             THEN [queue EXCEPT ![Len(queue)].by = @ \cup {a}]
             ELSE Append(queue, [objects |-> objects, by |-> {a}])

\* publish, up to its first await.
Publish(a) ==
    /\ Free /\ At(a, "checked")
    /\ LET objects == ObjectsOf(a) IN
       IF ~Queued(objects) /\ running # None /\ running.objects = objects
       THEN /\ Sets(a, [act[a] EXCEPT !.pc = "joining", !.key = View(objects)])
            /\ UNCHANGED queue
       ELSE /\ Sets(a, [act[a] EXCEPT !.pc = "waiting"])
            /\ Waits(a, objects)
    /\ UNCHANGED <<disk, up, inactive, journal, todo, running, cell, history>>

Built == {"accepted", "loaded", "failed"}

\* Mutant of SameTree: whatever is built, as long as it is for the same objects.
AnyTree(a) == TRUE

SameTree(a) == running.at # "failed" /\ running.view = act[a].key

\* The build of the running publication is over: its answer is this caller's too, if it
\* built the tree the caller saw.
Join(a) ==
    /\ Free /\ At(a, "joining") /\ running # None /\ running.at \in Built
    /\ Sets(a, [act[a] EXCEPT !.pc = "waiting", !.key = None])
    /\ IF SameTree(a)
       THEN running' = [running EXCEPT !.by = @ \cup {a}] /\ UNCHANGED queue
       ELSE Waits(a, ObjectsOf(a)) /\ UNCHANGED running
    /\ UNCHANGED <<disk, up, inactive, journal, todo, cell, history>>

Begin ==
    /\ Free /\ running = None /\ queue # <<>>
    /\ running' = [objects |-> Head(queue).objects, by |-> Head(queue).by, at |-> "begun", view |-> None]
    /\ queue' = Tail(queue)
    /\ UNCHANGED <<disk, up, inactive, journal, todo, act, cell, history>>

Goes(at) == running' = [running EXCEPT !.at = at]

\* captureView, a turn of the source lock.
Capture ==
    /\ Free /\ running # None /\ running.at = "begun"
    /\ running' = [running EXCEPT !.at = "building", !.view = View(running.objects)]
    /\ named' = [o \in Objects |-> IF o \in running.objects THEN named[o] \cup {disk.file[o]} ELSE named[o]]
    /\ UNCHANGED <<disk, up, inactive, journal, todo, queue, act, cell, count, force, unbuilt>>

\* Mutant of Current: what was built is made live.
AnyView == TRUE

\* acceptView: the tree is still the one that was captured.
Current == View(running.objects) = running.view

\* Who waited for the last publication has its answer before the next build returns:
\* its continuation is a matter of microtasks, and of the source lock's own order.
Answered == \A a \in Activators : ~At(a, "promoting")

\* The cell under way, when v has become live under it.
Passed(v) == IF cell = None \/ cell.was = v THEN cell ELSE [cell EXCEPT !.passed = TRUE]

\* The build is good and its view current: the live generation is switched. A stale
\* view is captured and built again.
Accept ==
    /\ Free /\ running # None /\ running.at = "building" /\ Answered
    /\ IF Current
       THEN /\ disk' = [disk EXCEPT !.live = running.view]
            /\ unbuilt' = {o \in unbuilt : running.view[o] # disk.file[o]}
            /\ cell' = Passed(running.view[CellClass])
            /\ Goes("accepted")
       ELSE Goes("begun") /\ UNCHANGED <<disk, unbuilt, cell>>
    /\ UNCHANGED <<up, inactive, journal, todo, queue, act, count, named, force>>

BuildFails ==
    /\ Free /\ running # None /\ running.at = "building"
    /\ Goes(IF Current THEN "failed" ELSE "begun")
    /\ UNCHANGED <<disk, up, inactive, journal, todo, queue, act, cell, history>>

\* The process that serves loads the generation, by a swap or a recycle, or does not.
Load ==
    /\ Free /\ running # None /\ running.at = "accepted"
    /\ Goes("loaded") \/ Goes("failed")
    /\ UNCHANGED <<disk, up, inactive, journal, todo, queue, act, cell, history>>

Ends ==
    /\ Free /\ running # None /\ running.at \in {"loaded", "failed"}
    /\ \A a \in Activators : ~At(a, "joining")
    /\ act' = [a \in Activators |->
                  IF a \notin running.by THEN act[a]
                  ELSE IF act[a].obj = None THEN Idle(FALSE)
                  ELSE [act[a] EXCEPT !.pc = "promoting",
                                      !.built = IF running.at = "failed" THEN None ELSE running.view]]
    /\ running' = None
    /\ UNCHANGED <<disk, up, inactive, journal, todo, queue, cell, history>>

-----------------------------------------------------------------------------
(* The promotion *)

\* completeActivations: the revision checked is the one on disk and, if the caller says
\* what was built, the one built.
Promotable(a) ==
    LET o == act[a].obj IN
    /\ act[a].rev # Absent /\ disk.file[o] = act[a].rev
    /\ act[a].built # None => act[a].built[o] = act[a].rev

\* markActive: the set, then the copies.
ActivationWrites(o) ==
    IF o \in DOMAIN inactive THEN <<Set(Without(inactive, o)), Copy(o, Absent)>> ELSE <<>>

TicketEnd(a, state) ==
    IF act[a].op = None THEN Leaves(journal, <<>>) ELSE update(journal, act[a].op, state)

InCell(a) == cell # None /\ cell.by = a

\* The answer of the publication: the promotion, then the end of the ticket or of the
\* cell. A cell that was not published is rolled back instead.
Promote(a) ==
    /\ Free /\ At(a, "promoting") /\ (InCell(a) => act[a].built # None)
    /\ LET o == act[a].obj
           how == IF act[a].built = None THEN "build" ELSE IF Promotable(a) THEN "published" ELSE "revision"
           ended == TicketEnd(a, IF how = "published" THEN "published" ELSE "failed") IN
       /\ inactive' = IF how = "published" THEN Without(inactive, o) ELSE inactive
       /\ todo' = (IF how = "published" THEN ActivationWrites(o) ELSE <<>>) \o ended.writes
       /\ journal' = ended.journal
       /\ force' = IF how = "published" THEN [force EXCEPT ![o] = Absent] ELSE force
       /\ Sets(a, Idle(how = "revision" /\ ~act[a].moved))
    /\ cell' = IF InCell(a) THEN None ELSE cell
    /\ UNCHANGED <<disk, up, queue, running, count, named, unbuilt>>

-----------------------------------------------------------------------------
(* The ABAP cells of a notebook, one at a time *)

\* A cell between two of its calls of the store.
Steps(pc) == [Idle(FALSE) EXCEPT !.pc = pc]

\* What is there before the cell, to be put back, and whether it counts as active. stateOf
\* asks the generation that serves, which after a failed load is not the live one, so that
\* its answer is open here. History: whether something else is live.
RunCell(a) ==
    /\ Free /\ At(a, "idle") /\ cell = None
    /\ Within("saves", MaxSaves) /\ Within("edits", MaxEdits) /\ Within("tickets", MaxTickets)
    /\ Room(3) /\ count' = [count EXCEPT !.cells = @ + 1]
    /\ \E active \in BOOLEAN :
          cell' = [by |-> a, was |-> disk.file[CellClass],
                   active |-> active /\ disk.file[CellClass] # Absent,
                   passed |-> disk.live[CellClass] # disk.file[CellClass]]
    /\ Sets(a, Steps("writing"))
    /\ UNCHANGED <<disk, up, inactive, journal, todo, queue, running, named, force, unbuilt>>

\* The candidate is written; the source lock may have had others before it.
WriteCell(a, v) ==
    /\ Free /\ At(a, "writing")
    /\ Saves(CellClass, v)
    /\ act' = [Moved(CellClass) EXCEPT ![a] = Steps("written")]
    /\ UNCHANGED <<cell, count>>

\* warmActivation: the revision there is now, unchecked. Without one nothing is promoted.
warmActivation(a, pc) ==
    [Activating(a, CellClass, None) EXCEPT !.pc = pc, !.moved = disk.file[CellClass] = Absent]

Warms(a, from, to) ==
    /\ Free /\ At(a, from)
    /\ Sets(a, warmActivation(a, to))
    /\ UNCHANGED <<disk, up, inactive, journal, todo, queue, running, cell, history>>

\* The publication of the cell, then the rollback's own revision. The code goes from the one
\* to publish, from the other to completeActivation, in the same turn unless the source lock
\* is held; that others come between them is allowed here always.
PublishCell(a) == Warms(a, "written", "checked")
Reclaim(a) == Warms(a, "restored", "reclaiming")

Failed(a) == Free /\ At(a, "promoting") /\ InCell(a) /\ act[a].built = None

\* The build or the load failed: the source that was there is written back, and if it was
\* active it shall be active again.
RestoreCell(a) ==
    /\ Failed(a) /\ cell.was # Absent
    /\ Saves(CellClass, cell.was)
    /\ act' = [Moved(CellClass) EXCEPT ![a] = IF cell.active THEN Steps("restored") ELSE Idle(FALSE)]
    /\ cell' = IF cell.active THEN cell ELSE None
    /\ UNCHANGED count

\* A class the cell has created is deleted, unless somebody was faster.
DropCell(a) ==
    /\ Failed(a) /\ cell.was = Absent
    /\ IF disk.file[CellClass] # Absent
       THEN Deletes(CellClass) /\ act' = [Moved(CellClass) EXCEPT ![a] = Idle(FALSE)]
       ELSE /\ Sets(a, Idle(FALSE))
            /\ UNCHANGED <<disk, up, inactive, journal, todo, queue, running, named, force, unbuilt>>
    /\ cell' = None /\ UNCHANGED count

\* completeActivation without a build, its answer not looked at. History: what was put back
\* came unasked if something else has been live since the cell began, or if it is not what
\* the cell wrote back.
PutBack(a) ==
    /\ Free /\ At(a, "reclaiming") /\ InCell(a)
    /\ LET unasked == Promotable(a) /\ (cell.passed \/ act[a].rev # cell.was) IN
       /\ unbuilt' = IF unasked THEN unbuilt \cup {CellClass} ELSE unbuilt
       /\ named' = IF unasked THEN [named EXCEPT ![CellClass] = @ \cup {act[a].rev}] ELSE named
    /\ IF Promotable(a)
       THEN /\ inactive' = Without(inactive, CellClass) /\ todo' = ActivationWrites(CellClass)
            /\ force' = [force EXCEPT ![CellClass] = Absent]
       ELSE UNCHANGED <<inactive, todo, force>>
    /\ Sets(a, Idle(FALSE)) /\ cell' = None
    /\ UNCHANGED <<disk, up, journal, queue, running, count>>

-----------------------------------------------------------------------------
Publication == Begin \/ Capture \/ Accept \/ BuildFails \/ Load \/ Ends
Goings(a) == Publish(a) \/ Join(a) \/ Promote(a)
Cell(a) ==
    \/ RunCell(a) \/ (\E v \in Versions : WriteCell(a, v)) \/ PublishCell(a)
    \/ RestoreCell(a) \/ DropCell(a) \/ Reclaim(a) \/ PutBack(a)

Next ==
    \/ Flush \/ Crash \/ Start \/ Publication
    \/ \E o \in Objects : Delete(o) \/ (\E v \in Versions : Save(o, v)) \/ (\E v \in Maybe : Edit(o, v))
    \/ \E a \in Activators :
          \/ PlainPass(a) \/ StepDumped(a) \/ Goings(a) \/ Cell(a)
          \/ \E o \in Objects : Activate(a, o) \/ DevPass(a, o)

Spec == Init /\ [][Next]_vars

-----------------------------------------------------------------------------
(* Properties *)

TypeOK ==
    /\ disk.file \in Views /\ disk.copy \in Views /\ disk.live \in Views
    /\ disk.set \in Saveds \cup {NoFile} /\ inactive \in Saveds
    /\ journal.attempts \in [Objects -> Attempts] /\ journal.outcomes \in [Objects -> Outcome \cup {None}]
    /\ journal.entries \subseteq Ticket
    /\ running \in Publications \cup {None}
    /\ \A a \in Activators :
          act[a].pc \in {"idle", "checked", "joining", "waiting", "promoting"}
                        \cup {"writing", "written", "restored", "reclaiming"}

\* A save is not an activation: the live generation has, of every object, a version that
\* was in its files when a publication naming it captured them, that came from outside, or
\* that a failed cell put back unasked (PutBack), wherever the process died in a save and
\* whoever else published.
LiveIsActivated == \A o \in Objects : disk.live[o] \in named[o] \cup {Absent}

\* What the store calls active is what the live generation was built from, for every
\* object without a version that came unasked since it was built: nothing claims an
\* activation that did not happen, and no publication that began before a promotion takes
\* the promoted version back. Unasked are the versions of another editor and of a checkout,
\* and what the rollback of a cell calls active though something else went live under the
\* cell, or though it is not what the rollback wrote.
ActiveIsLive ==
    Free => \A o \in Objects \ (DOMAIN inactive \cup unbuilt) :
                disk.file[o] # Absent => disk.live[o] = disk.file[o]

\* The version that was active when an object was first saved is there, in its copy, as
\* long as the object is inactive: the next build of something else still has it. After a
\* start that found no set, it is what the copy has.
ActiveKept == Free => \A o \in DOMAIN inactive : force[o] # Absent => disk.copy[o] = force[o]

\* Everything the store has of an object is typed, and its active version is kept.
StoreKept == TypeOK /\ ActiveKept

\* An activation is refused for its revision only if somebody wrote the object after the
\* check: neither joining another caller's publication nor a build that was repeated
\* refuses one nobody interfered with.
RefusedOnlyIfWritten == \A a \in Activators : ~act[a].wronged

\* The outcome of an object is that of the attempt that started last among those that
\* ended since its last delete, and says what its ticket says, whatever was written of
\* the two when a process died.
OutcomeIsNewest ==
    Free => \A o \in Objects :
        LET ended == {t \in journal.entries : /\ t.obj = o /\ Completed(t)
                                              /\ t.seq > journal.attempts[o].deleted} IN
        \A t \in ended : (\A u \in ended : u.op <= t.op) =>
            journal.outcomes[o] = [op |-> t.op, seq |-> t.seq, outcome |-> t.state]

\* No attempt from before a delete speaks for the object that has its name now.
OutcomeOfThisObject ==
    Free => \A o \in Objects :
        journal.outcomes[o] # None => journal.outcomes[o].seq > journal.attempts[o].deleted

\* Every ticket that has not ended is one somebody is still working on: none is left
\* behind by a step that dumped, a publication another one was joined to, or a process
\* that died with the ticket written and its work not done.
TicketIsWorkedOn ==
    Free => \A t \in journal.entries : Completed(t) \/ \E a \in Activators : act[a].op = t.op

\* The journal tells the truth of every object, in memory and after a restart.
JournalTrue == OutcomeIsNewest /\ OutcomeOfThisObject /\ TicketIsWorkedOn
=============================================================================
