-------------------------- MODULE ObjectStoreProofs --------------------------
(***************************************************************************)
(* The object store keeps what is active and its journal tells the truth,  *)
(* for any objects, versions and activators, wherever the process dies.    *)
(***************************************************************************)
EXTENDS ObjectStore, FiniteSetTheorems, SequenceTheorems, WellFoundedInduction, TLAPS

-----------------------------------------------------------------------------
(* The inductive invariant *)

Outcomes == [Objects -> Outcome \cup {None}]
Disks == [file : Views, copy : Views, live : Views, set : Saveds \cup {NoFile},
          attempts : [Objects -> Attempts], outcomes : Outcomes, entries : SUBSET Ticket]
Journals == [attempts : [Objects -> Attempts], outcomes : Outcomes, entries : SUBSET Ticket]
Actors == [pc : {"idle", "checked", "joining", "waiting", "promoting"}
                  \cup {"writing", "written", "restored", "reclaiming"}, obj : Objects \cup {None},
           rev : Maybe, op : Nat \cup {None}, key : Views \cup {None}, built : Views \cup {None},
           moved : BOOLEAN, wronged : BOOLEAN]
Waitings == [objects : SUBSET Objects, by : SUBSET Activators]

\* The type invariant, with what TypeOK leaves to the other parts.
Typed ==
    /\ disk \in Disks /\ journal \in Journals /\ inactive \in Saveds
    /\ up \in BOOLEAN /\ running \in Publications \cup {None} /\ queue \in Seq(Waitings)
    /\ act \in [Activators -> Actors]
    /\ count \in [saves : Nat, edits : Nat, tickets : Nat, crashes : Nat, cells : Nat]
    /\ named \in [Objects -> SUBSET Maybe] /\ force \in Views /\ unbuilt \subseteq Objects

\* What holds of the journal's files together, in memory and after every single write: n
\* tickets were made, each with a number its object's counter has reached, later ones with
\* higher numbers. An outcome is that of a ticket; a ticket that ended after the last delete
\* has its own outcome or that of a later one.
Kept(a, oc, en, n) ==
    /\ \A t \in en : t.seq <= a[t.obj].sequence /\ t.op <= n
    /\ \A t, u \in en : t.op = u.op => t = u
    /\ \A t, u \in en : t.obj = u.obj /\ t.op < u.op => t.seq < u.seq
    /\ \A o \in Objects : oc[o] # None =>
          \E t \in en : /\ t.obj = o /\ t.op = oc[o].op /\ t.seq = oc[o].seq
                        /\ Completed(t) => t.state = oc[o].outcome
    /\ \A t \in en : Completed(t) /\ t.seq > a[t.obj].deleted =>
          oc[t.obj] # None /\ oc[t.obj].seq >= t.seq

\* What holds of the journal between its operations: an outcome is that of a ticket which
\* has ended, after the last delete.
Truthful(a, oc, en) ==
    \A o \in Objects : oc[o] # None =>
        /\ oc[o].seq > a[o].deleted
        /\ \E t \in en : t.obj = o /\ t.op = oc[o].op /\ t.seq = oc[o].seq /\ t.state = oc[o].outcome

\* The objects that are inactive to a process that finds these files.
Claimed(d) == IF d.set = NoFile THEN {o \in Objects : d.copy[o] # Absent} ELSE DOMAIN d.set

\* An active object: its version was named by a publication, and is live unless it came
\* unasked.
Sound(d, o, n, e) ==
    /\ d.file[o] \in n[o] \cup {Absent}
    /\ o \notin e /\ d.file[o] # Absent => d.live[o] = d.file[o]

\* What the sources are wherever the process dies.
SafeAt(d, o, n, e, f) ==
    /\ d.live[o] \in n[o] \cup {Absent} /\ d.copy[o] \in n[o] \cup {Absent}
    /\ o \notin Claimed(d) => Sound(d, o, n, e)
    /\ d.set # NoFile /\ o \in DOMAIN d.set => f[o] \in {Absent, d.copy[o]}
Safe(d, n, e, f) == \A o \in Objects : SafeAt(d, o, n, e, f)

\* The disks a process may leave behind and start from.
Durables(n, e, f, k) == {d \in Disks : Safe(d, n, e, f) /\ Kept(d.attempts, d.outcomes, d.entries, k)}
Durable == Durables(named, unbuilt, force, count.tickets)

\* What the disk is once the operation under way is over.
Settles(d, j, saved, n, e) ==
    /\ d.attempts = j.attempts /\ d.outcomes = j.outcomes /\ d.entries = j.entries
    /\ d.set = saved \/ (d.set = NoFile /\ DOMAIN saved = {})
    /\ \A o \in Objects \ DOMAIN saved : Sound(d, o, n, e)

\* Nobody's object has changed without a mark.
Unmoved(d, acts) ==
    \A a \in Activators : acts[a].obj # None /\ ~acts[a].moved => d.file[acts[a].obj] = acts[a].rev

Settled == {d \in Durable : Settles(d, journal, inactive, named, unbuilt) /\ Unmoved(d, act)}

\* The writes lead from one disk to the other, and all disks between them are good.
Reaches(good, d, writes, e) ==
    \E ds \in Seq(good) :
        /\ Len(ds) = Len(writes) + 1 /\ ds[1] = d /\ ds[Len(ds)] = e
        /\ \A i \in 1 .. Len(writes) : ds[i + 1] = Written(ds[i], writes[i])

\* While the process runs, what it has still to write is safe at every point; when it is
\* dead, the disk is.
Writing ==
    /\ up => (\E X : todo \in Seq(X)) /\ \E e \in Settled : Reaches(Durable, disk, todo, e)
    /\ ~up => /\ disk \in Durable /\ todo = <<>> /\ queue = <<>> /\ running = None
              /\ \A a \in Activators : act[a] = Idle(FALSE)

\* The journal between two operations.
True(j, k) ==
    /\ j \in Journals /\ Kept(j.attempts, j.outcomes, j.entries, k)
    /\ Truthful(j.attempts, j.outcomes, j.entries)

\* Somebody works on every ticket that has not ended, and who works on one works on one that is.
Worked(en, acts) == \A t \in en : Completed(t) \/ \E a \in Activators : acts[a].op = t.op
Holds(en, acts) == \A a \in Activators : acts[a].op # None => \E t \in en : t.op = acts[a].op

Told ==
    /\ True(journal, count.tickets) /\ Holds(journal.entries, act)
    /\ up => Worked(journal.entries, act)

\* What an activator is at: what it checked, what it saw and what was built for it agree
\* unless its object was written since.
Actor(x, live) ==
    /\ x.pc \in {"idle", "writing", "written", "restored"} => x.obj = None
    /\ x.obj = None => x.op = None
    /\ x.pc = "promoting" => x.obj # None /\ (x.built # None => x.built = live)
    /\ x.pc = "joining" => x.key # None
    /\ x.pc = "reclaiming" => x.obj = CellClass
    /\ x.built # None => x.pc = "promoting"
    /\ x.obj # None /\ ~x.moved => /\ x.rev # Absent
                                   /\ x.key # None => x.key[x.obj] = x.rev
                                   /\ x.built # None => x.built[x.obj] = x.rev
    /\ ~x.wronged
Acting == \A a \in Activators : Actor(act[a], disk.live)

\* Who waits for a publication is in it, and in no other.
Waiting ==
    /\ \A i \in DOMAIN queue : \A a \in queue[i].by :
          /\ act[a].pc = "waiting" /\ queue[i].objects = ObjectsOf(a)
          /\ \A j \in DOMAIN queue : a \in queue[j].by => i = j
          /\ running # None => a \notin running.by
    /\ running # None => \A a \in running.by : act[a].pc = "waiting" /\ running.objects = ObjectsOf(a)
    /\ \A a \in Activators : act[a].pc = "joining" => running # None /\ running.objects = ObjectsOf(a)

\* What the publication in its turn has seen and built.
Published ==
    running # None /\ running.at # "begun" =>
        /\ running.view # None
        /\ \A o \in Objects : running.view[o] \in named[o] \cup {Absent}
        /\ running.at \in {"accepted", "loaded"} => disk.live = running.view
        /\ running.at # "failed" =>
              \A a \in running.by : act[a].obj # None /\ ~act[a].moved => running.view[act[a].obj] = act[a].rev

IInv == Typed /\ Writing /\ Told /\ Acting /\ Waiting /\ Published

\* Who runs a cell is at it, without a ticket.
Inside(x) ==
    x.op = None /\ x.pc # "idle" /\ (x.obj # None \/ x.pc \in {"writing", "written", "restored"})

\* The cell under way: what it would put back is live, unless something else has been.
Cells == [by : Activators, was : Maybe, active : BOOLEAN, passed : BOOLEAN]
CellKept ==
    cell # None => /\ cell \in Cells /\ Inside(act[cell.by])
                   /\ cell.passed \/ disk.live[CellClass] = cell.was

Whole == IInv /\ CellKept

-----------------------------------------------------------------------------
(* Orders of a finite set *)

\* An order of objects is a sequence of them.
LEMMA OrderIs ==
    ASSUME NEW S, IsFiniteSet(S), NEW order \in SetToSeqs(S)
    PROVE  order \in Seq(S)
<1>1. Cardinality(S) \in Nat
  BY FS_CardinalityType
<1>2. order \in [1 .. Cardinality(S) -> S]
  BY DEF SetToSeqs
<1> QED
  BY <1>1, <1>2

-----------------------------------------------------------------------------
(* Numbers *)

Below == {ss \in Nat \X Nat : ss[1] < ss[2]}

\* The numbers are well ordered, in a form that names no operator.
LEMMA BelowFounded == IsWellFoundedOn(Below, Nat)
BY NatLessThanWellFounded DEF OpToRel, Below

\* A set of numbers has a least one.
LEMMA Least ==
    ASSUME NEW T \in SUBSET Nat, T # {}
    PROVE  \E x \in T : \A y \in T : x <= y
<1>1. T \subseteq Nat
  OBVIOUS
<1>2. PICK x \in T : \A y \in T : ~(<<y, x>> \in Below)
  BY BelowFounded, WFMin, <1>1, Zenon
<1>3. ASSUME NEW y \in T PROVE x <= y
  <2>1. <<y, x>> \in Nat \X Nat /\ ~(<<y, x>> \in Below)
    BY <1>2
  <2>2. ~(y < x)
    BY <2>1 DEF Below
  <2> QED
    BY <2>1, <2>2
<1> QED
  BY <1>3

\* A set of numbers up to n has a greatest one.
LEMMA Greatest ==
    ASSUME NEW n \in Nat, NEW T \in SUBSET (0 .. n), T # {}
    PROVE  \E x \in T : \A y \in T : y <= x
<1>1. PICK D \in SUBSET Nat : D = {d \in Nat : \E x \in T : d = n - x}
  OBVIOUS
<1>2. \A x \in T : x \in Nat /\ x <= n
  OBVIOUS
<1>3. \A x \in T : n - x \in D
  BY <1>1, <1>2
<1>4. PICK m \in D : \A y \in D : m <= y
  <2>1. D # {}
    BY <1>3
  <2> QED
    BY <2>1, Least
<1>5. PICK x \in T : m = n - x
  BY <1>1
<1>6. ASSUME NEW y \in T PROVE y <= x
  <2>1. n - y \in D
    BY <1>3
  <2>2. n - x <= n - y
    BY <1>4, <1>5, <2>1
  <2> QED
    BY <1>2, <2>2
<1> QED
  BY <1>6

-----------------------------------------------------------------------------
(* Sequences of writes *)

\* No write reaches where it is.
LEMMA ReachesNothing ==
    ASSUME NEW good, NEW d \in good
    PROVE  Reaches(good, d, <<>>, d)
<1>1. PICK ds : ds = <<d>>
  OBVIOUS
<1>2. ds \in Seq(good) /\ Len(ds) = 1 /\ ds[1] = d
  BY <1>1
<1>3. PICK ws : ws = <<>>
  OBVIOUS
<1>4. Len(ws) = 0 /\ 1 .. Len(ws) = {}
  BY <1>3
<1>5. Reaches(good, d, ws, d)
  BY <1>2, <1>4 DEF Reaches
<1> QED
  BY <1>3, <1>5

\* One write reaches what it writes.
LEMMA ReachesOne ==
    ASSUME NEW good, NEW d \in good, NEW w, Written(d, w) \in good
    PROVE  Reaches(good, d, <<w>>, Written(d, w))
<1>1. PICK e \in good : e = Written(d, w)
  OBVIOUS
<1>2. <<d, e>> \in Seq(good) /\ Len(<<d, e>>) = 2 /\ <<d, e>>[1] = d /\ <<d, e>>[2] = e
  OBVIOUS
<1>3. Len(<<w>>) = 1 /\ <<w>>[1] = w
  OBVIOUS
<1>4. \A i \in 1 .. Len(<<w>>) : <<d, e>>[i + 1] = Written(<<d, e>>[i], <<w>>[i])
  <2>1. ASSUME NEW i \in 1 .. Len(<<w>>) PROVE <<d, e>>[i + 1] = Written(<<d, e>>[i], <<w>>[i])
    <3>1. i = 1
      BY <1>3
    <3>2. <<d, e>>[i + 1] = e /\ <<d, e>>[i] = d /\ <<w>>[i] = w
      BY <1>2, <1>3, <3>1
    <3> QED
      BY <1>1, <3>2, Zenon
  <2> QED
    BY <2>1
<1> QED
  BY <1>1, <1>2, <1>3, <1>4 DEF Reaches

\* What is written after something else was written.
LEMMA ReachesThen ==
    ASSUME NEW good, NEW X, NEW Y, NEW ws \in Seq(X), NEW vs \in Seq(Y), NEW d, NEW e, NEW f,
           Reaches(good, d, ws, e), Reaches(good, e, vs, f)
    PROVE  Reaches(good, d, ws \o vs, f) /\ ws \o vs \in Seq(X \cup Y)
<1>1. PICK ds \in Seq(good) :
          /\ Len(ds) = Len(ws) + 1 /\ ds[1] = d /\ ds[Len(ds)] = e
          /\ \A i \in 1 .. Len(ws) : ds[i + 1] = Written(ds[i], ws[i])
  BY DEF Reaches
<1>2. PICK es \in Seq(good) :
          /\ Len(es) = Len(vs) + 1 /\ es[1] = e /\ es[Len(es)] = f
          /\ \A i \in 1 .. Len(vs) : es[i + 1] = Written(es[i], vs[i])
  BY DEF Reaches
<1>3. PICK m \in Nat, n \in Nat : m = Len(ws) /\ n = Len(vs)
  OBVIOUS
<1>4. PICK us : us = ws \o vs
  OBVIOUS
<1>5. /\ us \in Seq(X \cup Y) /\ Len(us) = m + n
      /\ \A i \in 1 .. m : us[i] = ws[i]
      /\ \A i \in 1 .. n : us[m + i] = vs[i]
  <2>1. ws \in Seq(X \cup Y) /\ vs \in Seq(X \cup Y)
    OBVIOUS
  <2> QED
    BY <1>3, <1>4, <2>1
<1>6. PICK fs : fs = [i \in 1 .. m + n + 1 |-> IF i <= m THEN ds[i] ELSE es[i - m]]
  OBVIOUS
<1>7. /\ fs \in Seq(good) /\ Len(fs) = m + n + 1 /\ fs[m + n + 1] = f /\ fs[1] = d
  <2>1. \A i \in 1 .. m + n + 1 : fs[i] \in good
    <3>1. ASSUME NEW i \in 1 .. m + n + 1 PROVE fs[i] \in good
      <4>1. CASE i <= m
        BY <1>1, <1>3, <1>6, <4>1
      <4>2. CASE ~(i <= m)
        <5>1. i - m \in 1 .. n + 1 /\ fs[i] = es[i - m]
          BY <1>6, <4>2
        <5> QED
          BY <1>2, <1>3, <5>1
      <4> QED
        BY <4>1, <4>2
    <3> QED
      BY <3>1
  <2>2. fs \in [1 .. m + n + 1 -> good] /\ m + n + 1 \in Nat
    BY <1>6, <2>1
  <2>3. fs[m + n + 1] = f
    <3>1. fs[m + n + 1] = es[n + 1]
      BY <1>6
    <3> QED
      BY <1>2, <1>3, <3>1
  <2>4. fs[1] = d
    <3>1. CASE m = 0
      BY <1>1, <1>2, <1>3, <1>6, <3>1
    <3>2. CASE m # 0
      BY <1>1, <1>6, <3>2
    <3> QED
      BY <3>1, <3>2
  <2> QED
    BY <2>2, <2>3, <2>4
<1>8. ASSUME NEW i \in 1 .. m + n PROVE fs[i + 1] = Written(fs[i], us[i])
  <2>1. CASE i < m
    BY <1>1, <1>3, <1>5, <1>6, <2>1
  <2>2. CASE i = m
    <3>1. fs[i] = ds[m] /\ us[i] = ws[m] /\ fs[i + 1] = es[1] /\ m \in 1 .. m
      BY <1>5, <1>6, <2>2
    <3>2. es[1] = ds[m + 1] /\ ds[m + 1] = Written(ds[m], ws[m])
      BY <1>1, <1>2, <1>3, <3>1
    <3> QED
      BY <3>1, <3>2
  <2>3. CASE i > m
    <3>1. PICK k \in 1 .. n : i = m + k
      <4>1. i - m \in 1 .. n /\ i = m + (i - m)
        BY <2>3
      <4> QED
        BY <4>1
    <3>2. fs[i] = es[k] /\ us[i] = vs[k]
      BY <1>5, <1>6, <2>3, <3>1
    <3>3. fs[i + 1] = es[k + 1]
      <4>1. (i + 1) - m = k + 1 /\ ~(i + 1 <= m) /\ i + 1 \in 1 .. m + n + 1
        BY <2>3, <3>1
      <4> QED
        BY <1>6, <4>1
    <3> QED
      BY <1>2, <1>3, <3>2, <3>3
  <2> QED
    BY <2>1, <2>2, <2>3
<1>9. Len(fs) = Len(us) + 1 /\ fs[Len(fs)] = f /\ fs[1] = d /\ fs \in Seq(good)
  BY <1>5, <1>7
<1>10. \A i \in 1 .. Len(us) : fs[i + 1] = Written(fs[i], us[i])
  BY <1>5, <1>8
<1>11. Reaches(good, d, us, f)
  BY <1>9, <1>10, Zenon DEF Reaches
<1> QED
  BY <1>4, <1>11

\* The first of the writes is done: what is left reaches the same.
LEMMA ReachesNext ==
    ASSUME NEW good, NEW X, NEW ws \in Seq(X), ws # <<>>, NEW d, NEW e, Reaches(good, d, ws, e)
    PROVE  Tail(ws) \in Seq(X) /\ Reaches(good, Written(d, Head(ws)), Tail(ws), e)
<1>1. PICK ds \in Seq(good) :
          /\ Len(ds) = Len(ws) + 1 /\ ds[1] = d /\ ds[Len(ds)] = e
          /\ \A i \in 1 .. Len(ws) : ds[i + 1] = Written(ds[i], ws[i])
  BY DEF Reaches
<1>2. PICK n \in Nat : n + 1 = Len(ws)
  <2>1. Len(ws) \in Nat /\ Len(ws) # 0
    OBVIOUS
  <2>2. Len(ws) - 1 \in Nat /\ (Len(ws) - 1) + 1 = Len(ws)
    BY <2>1
  <2> QED
    BY <2>2
<1>3. PICK vs : vs = Tail(ws)
  OBVIOUS
<1>4. vs \in Seq(X) /\ Len(vs) = n /\ Head(ws) = ws[1] /\ \A i \in 1 .. n : vs[i] = ws[i + 1]
  BY <1>2, <1>3
<1>5. PICK es : es = Tail(ds)
  OBVIOUS
<1>6. es \in Seq(good) /\ Len(es) = n + 1 /\ \A i \in 1 .. n + 1 : es[i] = ds[i + 1]
  <2>1. Len(ds) = n + 2 /\ ds # <<>>
    BY <1>1, <1>2
  <2> QED
    BY <1>5, <2>1
<1>7. es[1] = Written(d, Head(ws)) /\ es[n + 1] = e
  BY <1>1, <1>2, <1>4, <1>6
<1>8. ASSUME NEW i \in 1 .. n PROVE es[i + 1] = Written(es[i], vs[i])
  <2>1. es[i + 1] = ds[(i + 1) + 1] /\ es[i] = ds[i + 1] /\ vs[i] = ws[i + 1] /\ i + 1 \in 1 .. Len(ws)
    BY <1>2, <1>4, <1>6
  <2> QED
    BY <1>1, <2>1
<1> QED
  BY <1>3, <1>4, <1>6, <1>7, <1>8 DEF Reaches

\* Where the writes start and where they lead is good; with none left it is the same.
LEMMA ReachesFrom ==
    ASSUME NEW good, NEW X, NEW ws \in Seq(X), NEW d, NEW e, Reaches(good, d, ws, e)
    PROVE  d \in good /\ e \in good /\ (ws = <<>> => d = e)
<1>1. PICK ds \in Seq(good) : Len(ds) = Len(ws) + 1 /\ ds[1] = d /\ ds[Len(ds)] = e
  BY DEF Reaches
<1>2. Len(ws) \in Nat /\ (ws = <<>> => Len(ws) = 0)
  OBVIOUS
<1> QED
  BY <1>1, <1>2

-----------------------------------------------------------------------------
(* The files of the journal *)

Files == {"attempts", "outcomes", "entries"}

\* A disk with the files of this journal.
Holding(d, j) == [d EXCEPT !.attempts = j.attempts, !.outcomes = j.outcomes, !.entries = j.entries]

\* A journal with these files.
Made(a, oc, en) == [attempts |-> a, outcomes |-> oc, entries |-> en]

\* The disk has the files of this journal.
Has(d, j) == d.attempts = j.attempts /\ d.outcomes = j.outcomes /\ d.entries = j.entries

\* An operation of the journal: its writes lead, through good disks, to what it leaves.
Does(good, d, op) ==
    /\ \E X : op.writes \in Seq(X)
    /\ Reaches(good, d, op.writes, Holding(d, op.journal))

\* Two disks with the same files are the same.
LEMMA SameDisk ==
    ASSUME NEW d \in Disks, NEW e \in Disks, d.file = e.file, d.copy = e.copy, d.set = e.set,
           d.live = e.live, d.attempts = e.attempts, d.outcomes = e.outcomes, d.entries = e.entries
    PROVE  d = e
BY DEF Disks

\* The sources of a disk do not depend on the files of the journal.
LEMMA HoldingIs ==
    ASSUME NEW d \in Disks, NEW j \in Journals
    PROVE  /\ Holding(d, j) \in Disks /\ Has(Holding(d, j), j)
           /\ Holding(d, j).file = d.file /\ Holding(d, j).copy = d.copy
           /\ Holding(d, j).live = d.live /\ Holding(d, j).set = d.set
           /\ \A i \in Journals : Holding(Holding(d, j), i) = Holding(d, i)
           /\ Has(d, j) => Holding(d, j) = d
BY DEF Holding, Has, Disks, Journals

\* A safe disk is safe with the files of any journal, and durable with those of a kept one.
LEMMA HoldingSafe ==
    ASSUME NEW d \in Disks, NEW j \in Journals, NEW n, NEW e, NEW f, NEW k, Safe(d, n, e, f),
           Kept(j.attempts, j.outcomes, j.entries, k)
    PROVE  Holding(d, j) \in Durables(n, e, f, k) /\ Safe(Holding(d, j), n, e, f)
<1>1. PICK h : h = Holding(d, j)
  OBVIOUS
<1>2. h \in Disks /\ h.file = d.file /\ h.copy = d.copy /\ h.live = d.live /\ h.set = d.set
  BY <1>1, HoldingIs
<1>3. h.attempts = j.attempts /\ h.outcomes = j.outcomes /\ h.entries = j.entries
  BY <1>1, HoldingIs DEF Has
<1>4. Claimed(h) = Claimed(d)
  BY <1>2 DEF Claimed
<1>5. \A o \in Objects : Sound(h, o, n, e) <=> Sound(d, o, n, e)
  BY <1>2 DEF Sound
<1>6. Safe(h, n, e, f)
  BY <1>2, <1>4, <1>5 DEF Safe, SafeAt
<1> QED
  BY <1>1, <1>2, <1>3, <1>6 DEF Durables

\* What a write of a file of the journal does to a disk.
LEMMA WrittenFile ==
    ASSUME NEW d \in Disks, NEW j \in Journals
    PROVE  /\ Written(d, Saved(j, "attempts")) = Holding(d, Made(j.attempts, d.outcomes, d.entries))
           /\ Written(d, Saved(j, "outcomes")) = Holding(d, Made(d.attempts, j.outcomes, d.entries))
           /\ Written(d, Saved(j, "entries")) = Holding(d, Made(d.attempts, d.outcomes, j.entries))
<1>1. /\ j["attempts"] = j.attempts /\ j["outcomes"] = j.outcomes /\ j["entries"] = j.entries
  OBVIOUS
<1>2. /\ d.attempts \in [Objects -> Attempts] /\ d.outcomes \in Outcomes /\ d.entries \in SUBSET Ticket
  BY DEF Disks
<1>3. Written(d, Saved(j, "attempts")) = Holding(d, Made(j.attempts, d.outcomes, d.entries))
  <2>1. PICK w, h, m : w = Saved(j, "attempts") /\ h = Written(d, w) /\ m = Made(j.attempts, d.outcomes, d.entries)
    OBVIOUS
  <2>2. w.part = "attempts" /\ w.value = j.attempts
    BY <1>1, <2>1 DEF Saved
  <2>3. /\ h.file = d.file /\ h.copy = d.copy /\ h.set = d.set /\ h.live = d.live
        /\ h.attempts = m.attempts /\ h.outcomes = m.outcomes /\ h.entries = m.entries
        /\ m \in Journals /\ h \in Disks
    BY <1>2, <2>1, <2>2 DEF Written, Made, Disks, Journals
  <2> QED
    BY <2>1, <2>3, HoldingIs, SameDisk DEF Has
<1>4. Written(d, Saved(j, "outcomes")) = Holding(d, Made(d.attempts, j.outcomes, d.entries))
  <2>1. PICK w, h, m : w = Saved(j, "outcomes") /\ h = Written(d, w) /\ m = Made(d.attempts, j.outcomes, d.entries)
    OBVIOUS
  <2>2. w.part = "outcomes" /\ w.value = j.outcomes
    BY <1>1, <2>1 DEF Saved
  <2>3. /\ h.file = d.file /\ h.copy = d.copy /\ h.set = d.set /\ h.live = d.live
        /\ h.attempts = m.attempts /\ h.outcomes = m.outcomes /\ h.entries = m.entries
        /\ m \in Journals /\ h \in Disks
    BY <1>2, <2>1, <2>2 DEF Written, Made, Disks, Journals
  <2> QED
    BY <2>1, <2>3, HoldingIs, SameDisk DEF Has
<1>5. Written(d, Saved(j, "entries")) = Holding(d, Made(d.attempts, d.outcomes, j.entries))
  <2>1. PICK w, h, m : w = Saved(j, "entries") /\ h = Written(d, w) /\ m = Made(d.attempts, d.outcomes, j.entries)
    OBVIOUS
  <2>2. w.part = "entries" /\ w.value = j.entries
    BY <1>1, <2>1 DEF Saved
  <2>3. /\ h.file = d.file /\ h.copy = d.copy /\ h.set = d.set /\ h.live = d.live
        /\ h.attempts = m.attempts /\ h.outcomes = m.outcomes /\ h.entries = m.entries
        /\ m \in Journals /\ h \in Disks
    BY <1>2, <2>1, <2>2 DEF Written, Made, Disks, Journals
  <2> QED
    BY <2>1, <2>3, HoldingIs, SameDisk DEF Has
<1> QED
  BY <1>3, <1>4, <1>5

\* The sequences of writes an operation leaves, of none or one.
LEMMA LeavesIs ==
    ASSUME NEW j, NEW p
    PROVE  /\ Leaves(j, <<>>).writes = <<>> /\ Leaves(j, <<p>>).writes = <<Saved(j, p)>>
           /\ Leaves(j, <<>>).journal = j /\ Leaves(j, <<p>>).journal = j
<1>1. Leaves(j, <<>>).writes = <<>>
  BY DEF Leaves
<1>2. Leaves(j, <<p>>).writes = <<Saved(j, p)>>
  BY DEF Leaves
<1> QED
  BY <1>1, <1>2 DEF Leaves

\* The journal j with one file of another.
Stepped(j, i, part) ==
    Made(IF part = "attempts" THEN i.attempts ELSE j.attempts,
         IF part = "outcomes" THEN i.outcomes ELSE j.outcomes,
         IF part = "entries" THEN i.entries ELSE j.entries)

KeptIn(j, k) == Kept(j.attempts, j.outcomes, j.entries, k)

\* Two journals with the same files are the same.
LEMMA SameJournal ==
    ASSUME NEW j \in Journals, NEW i \in Journals,
           j.attempts = i.attempts, j.outcomes = i.outcomes, j.entries = i.entries
    PROVE  j = i
BY DEF Journals

\* Taking a file of another journal.
LEMMA SteppedIs ==
    ASSUME NEW j \in Journals, NEW i \in Journals, NEW part \in Files
    PROVE  /\ Stepped(j, i, part) \in Journals
           /\ Stepped(j, i, part).attempts = IF part = "attempts" THEN i.attempts ELSE j.attempts
           /\ Stepped(j, i, part).outcomes = IF part = "outcomes" THEN i.outcomes ELSE j.outcomes
           /\ Stepped(j, i, part).entries = IF part = "entries" THEN i.entries ELSE j.entries
BY DEF Stepped, Made, Journals

\* One write of the journal, between two journals that are kept.
LEMMA WriteStep ==
    ASSUME NEW d \in Disks, NEW n, NEW e, NEW f, NEW k, Safe(d, n, e, f),
           NEW j \in Journals, NEW i \in Journals, NEW part \in Files, Has(d, j),
           KeptIn(j, k), KeptIn(Stepped(j, i, part), k)
    PROVE  LET h == Holding(d, Stepped(j, i, part)) IN
           /\ Reaches(Durables(n, e, f, k), d, <<Saved(i, part)>>, h)
           /\ h \in Disks /\ Safe(h, n, e, f) /\ Has(h, Stepped(j, i, part))
<1>1. PICK m, h : m = Stepped(j, i, part) /\ h = Holding(d, m)
  OBVIOUS
<1>2. m \in Journals
  BY <1>1, SteppedIs
<1>3. h \in Disks /\ Has(h, m) /\ Safe(h, n, e, f) /\ h \in Durables(n, e, f, k)
  BY <1>1, <1>2, HoldingIs, HoldingSafe DEF KeptIn
<1>4. d \in Durables(n, e, f, k)
  BY DEF Durables, KeptIn, Has
<1>5. Written(d, Saved(i, part)) = h
  <2>1. CASE part = "attempts"
    <3>1. m = Made(i.attempts, d.outcomes, d.entries)
      BY <1>1, <2>1 DEF Stepped, Has
    <3> QED
      BY <1>1, <2>1, <3>1, WrittenFile
  <2>2. CASE part = "outcomes"
    <3>1. m = Made(d.attempts, i.outcomes, d.entries)
      BY <1>1, <2>2 DEF Stepped, Has
    <3> QED
      BY <1>1, <2>2, <3>1, WrittenFile
  <2>3. CASE part = "entries"
    <3>1. m = Made(d.attempts, d.outcomes, i.entries)
      BY <1>1, <2>3 DEF Stepped, Has
    <3> QED
      BY <1>1, <2>3, <3>1, WrittenFile
  <2> QED
    BY <2>1, <2>2, <2>3 DEF Files
<1>6. PICK w : w = Saved(i, part)
  OBVIOUS
<1>7. Reaches(Durables(n, e, f, k), d, <<w>>, h)
  BY <1>3, <1>4, <1>5, <1>6, ReachesOne, Zenon
<1> QED
  BY <1>1, <1>3, <1>6, <1>7

\* Nothing is done.
LEMMA DoesNothing ==
    ASSUME NEW good, NEW d \in good, good \subseteq Disks, NEW j \in Journals, Has(d, j)
    PROVE  Does(good, d, Leaves(j, <<>>))
<1>1. Leaves(j, <<>>).writes = <<>> /\ Leaves(j, <<>>).journal = j /\ Holding(d, j) = d
  BY LeavesIs, HoldingIs
<1>2. <<>> \in Seq({})
  OBVIOUS
<1> QED
  BY <1>1, <1>2, ReachesNothing DEF Does

\* One operation behind another does what both do.
LEMMA DoesThen ==
    ASSUME NEW good, NEW d \in Disks, NEW op, NEW next, op.journal \in Journals,
           next.journal \in Journals, Does(good, d, op), Does(good, Holding(d, op.journal), next)
    PROVE  Does(good, d, Then(op, next)) /\ Then(op, next).journal = next.journal
<1>1. PICK X : op.writes \in Seq(X)
  BY DEF Does
<1>2. PICK Y : next.writes \in Seq(Y)
  BY DEF Does
<1>3. Then(op, next).journal = next.journal /\ Then(op, next).writes = op.writes \o next.writes
  BY DEF Then
<1>4. PICK h, i : h = Holding(d, op.journal) /\ i = Holding(d, next.journal)
  OBVIOUS
<1>5. Holding(h, next.journal) = i
  BY <1>4, HoldingIs
<1>6. Reaches(good, d, op.writes, h) /\ Reaches(good, h, next.writes, i)
  BY <1>4, <1>5 DEF Does
<1>7. Reaches(good, d, op.writes \o next.writes, i) /\ op.writes \o next.writes \in Seq(X \cup Y)
  BY <1>1, <1>2, <1>6, ReachesThen, Zenon
<1>8. (\E Z : Then(op, next).writes \in Seq(Z)) /\ Reaches(good, d, Then(op, next).writes, i)
  BY <1>3, <1>7
<1> QED
  BY <1>3, <1>4, <1>8 DEF Does

\* An operation that writes one file.
LEMMA DoesOne ==
    ASSUME NEW d \in Disks, NEW n, NEW e, NEW f, NEW k, Safe(d, n, e, f),
           NEW j \in Journals, NEW i \in Journals, NEW p \in Files, Has(d, j),
           KeptIn(j, k), KeptIn(i, k), Stepped(j, i, p) = i
    PROVE  Does(Durables(n, e, f, k), d, Leaves(i, <<p>>))
<1>1. Reaches(Durables(n, e, f, k), d, <<Saved(i, p)>>, Holding(d, i))
  BY WriteStep
<1>2. Leaves(i, <<p>>).writes = <<Saved(i, p)>> /\ Leaves(i, <<p>>).journal = i
  BY LeavesIs
<1>3. <<Saved(i, p)>> \in Seq({Saved(i, p)})
  OBVIOUS
<1> QED
  BY <1>1, <1>2, <1>3 DEF Does

\* An operation that writes two.
LEMMA DoesTwo ==
    ASSUME NEW d \in Disks, NEW n, NEW e, NEW f, NEW k, Safe(d, n, e, f),
           NEW j \in Journals, NEW i \in Journals, NEW p \in Files, NEW q \in Files, Has(d, j),
           KeptIn(j, k), KeptIn(i, k), KeptIn(Stepped(j, i, p), k),
           Stepped(Stepped(j, i, p), i, q) = i
    PROVE  Does(Durables(n, e, f, k), d, Leaves(i, <<p, q>>))
<1>1. PICK m, h : m = Stepped(j, i, p) /\ h = Holding(d, m)
  OBVIOUS
<1>2. /\ Reaches(Durables(n, e, f, k), d, <<Saved(i, p)>>, h)
      /\ h \in Disks /\ Safe(h, n, e, f) /\ Has(h, m)
  BY <1>1, WriteStep
<1>3. m \in Journals
  BY <1>1, SteppedIs
<1>4. Reaches(Durables(n, e, f, k), h, <<Saved(i, q)>>, Holding(h, i))
  BY <1>1, <1>2, <1>3, WriteStep
<1>5. Holding(h, i) = Holding(d, i)
  BY <1>1, <1>3, HoldingIs
<1>6. <<Saved(i, p)>> \in Seq({Saved(i, p)}) /\ <<Saved(i, q)>> \in Seq({Saved(i, q)})
  OBVIOUS
<1>7. PICK ws, vs, g : ws = <<Saved(i, p)>> /\ vs = <<Saved(i, q)>> /\ g = Holding(d, i)
  OBVIOUS
<1>8. Reaches(Durables(n, e, f, k), d, ws, h) /\ Reaches(Durables(n, e, f, k), h, vs, g)
  BY <1>2, <1>4, <1>5, <1>7
<1>9. /\ Reaches(Durables(n, e, f, k), d, ws \o vs, g)
      /\ ws \o vs \in Seq({Saved(i, p)} \cup {Saved(i, q)})
  BY <1>6, <1>7, <1>8, ReachesThen, Zenon
<1>10. Leaves(i, <<p, q>>).writes = ws \o vs /\ Leaves(i, <<p, q>>).journal = i
  BY <1>7 DEF Leaves
<1> QED
  BY <1>7, <1>9, <1>10 DEF Does

\* An operation that writes all three.
LEMMA DoesThree ==
    ASSUME NEW d \in Disks, NEW n, NEW e, NEW f, NEW k, Safe(d, n, e, f),
           NEW j \in Journals, NEW i \in Journals, NEW p \in Files, NEW q \in Files, NEW r \in Files,
           Has(d, j), KeptIn(j, k), KeptIn(i, k), KeptIn(Stepped(j, i, p), k),
           KeptIn(Stepped(Stepped(j, i, p), i, q), k),
           Stepped(Stepped(Stepped(j, i, p), i, q), i, r) = i
    PROVE  Does(Durables(n, e, f, k), d, Leaves(i, <<p, q, r>>))
<1>1. PICK m, h : m = Stepped(j, i, p) /\ h = Holding(d, m)
  OBVIOUS
<1>2. /\ Reaches(Durables(n, e, f, k), d, <<Saved(i, p)>>, h)
      /\ h \in Disks /\ Safe(h, n, e, f) /\ Has(h, m)
  BY <1>1, WriteStep
<1>3. m \in Journals
  BY <1>1, SteppedIs
<1>4. Does(Durables(n, e, f, k), h, Leaves(i, <<q, r>>))
  BY <1>1, <1>2, <1>3, DoesTwo
<1>5. Holding(h, i) = Holding(d, i)
  BY <1>1, <1>3, HoldingIs
<1>6. <<Saved(i, p)>> \in Seq({Saved(i, p)}) /\ <<Saved(i, q)>> \in Seq({Saved(i, q)})
      /\ <<Saved(i, r)>> \in Seq({Saved(i, r)})
  OBVIOUS
<1>7. PICK ws, vs, us, g : /\ ws = <<Saved(i, p)>> /\ g = Holding(d, i)
                           /\ vs = <<Saved(i, q)>> /\ us = <<Saved(i, r)>>
  OBVIOUS
<1>8. PICK xs : xs = vs \o us /\ xs \in Seq({Saved(i, q), Saved(i, r)})
  <2>1. vs \o us \in Seq({Saved(i, q), Saved(i, r)})
    BY <1>7
  <2> QED
    BY <2>1
<1>9. Leaves(i, <<q, r>>).writes = vs \o us /\ Leaves(i, <<q, r>>).journal = i
  BY <1>7 DEF Leaves
<1>10. Reaches(Durables(n, e, f, k), d, ws, h) /\ Reaches(Durables(n, e, f, k), h, xs, g)
  <2>1. Reaches(Durables(n, e, f, k), h, Leaves(i, <<q, r>>).writes, Holding(h, Leaves(i, <<q, r>>).journal))
    BY <1>4 DEF Does
  <2> QED
    BY <1>2, <1>5, <1>7, <1>8, <1>9, <2>1, Zenon
<1>11. /\ Reaches(Durables(n, e, f, k), d, ws \o xs, g)
       /\ ws \o xs \in Seq({Saved(i, p)} \cup {Saved(i, q), Saved(i, r)})
  <2>1. ws \in Seq({Saved(i, p)}) /\ xs \in Seq({Saved(i, q), Saved(i, r)})
    BY <1>6, <1>7, <1>8
  <2> QED
    BY <1>10, <2>1, ReachesThen, Zenon
<1>12. Leaves(i, <<p, q, r>>).writes = ws \o xs /\ Leaves(i, <<p, q, r>>).journal = i
  BY <1>7, <1>8 DEF Leaves
<1> QED
  BY <1>7, <1>11, <1>12 DEF Does

-----------------------------------------------------------------------------
(* The operations of the journal *)

\* More tickets may be made.
LEMMA KeptGrows ==
    ASSUME NEW j \in Journals, NEW k \in Nat, KeptIn(j, k)
    PROVE  KeptIn(j, k + 1)
<1>1. \A t \in j.entries : t.op \in Nat
  BY DEF Journals, Ticket
<1> QED
  BY <1>1 DEF KeptIn, Kept

\* create: the counter, then a ticket with its number, later than all others.
LEMMA CreateDoes ==
    ASSUME NEW d \in Disks, NEW n, NEW e, NEW f, NEW k \in Nat, Safe(d, n, e, f),
           NEW j, True(j, k), Has(d, j), NEW o \in Objects
    PROVE  LET made == create(j, o, k + 1) IN
           /\ Does(Durables(n, e, f, k + 1), d, made) /\ True(made.journal, k + 1)
           /\ made.journal.entries = j.entries \cup {[op |-> k + 1, obj |-> o, seq |-> j.attempts[o].sequence + 1,
                                                      state |-> "checked"]}
<1>0. j \in Journals /\ KeptIn(j, k) /\ Truthful(j.attempts, j.outcomes, j.entries)
  BY DEF True, KeptIn
<1>1. /\ j.attempts \in [Objects -> Attempts] /\ j.outcomes \in Outcomes /\ j.entries \subseteq Ticket
  BY <1>0 DEF Journals
<1>2. j.attempts[o].sequence \in Nat /\ j.attempts[o] \in Attempts
  BY <1>1 DEF Attempts
<1>3. PICK s \in Nat, new \in Ticket :
         /\ s = j.attempts[o].sequence + 1
         /\ new = [op |-> k + 1, obj |-> o, seq |-> s, state |-> "checked"]
  <2>1. PICK s \in Nat : s = j.attempts[o].sequence + 1
    BY <1>2
  <2>2. [op |-> k + 1, obj |-> o, seq |-> s, state |-> "checked"] \in Ticket
    BY DEF Ticket
  <2> QED
    BY <2>1, <2>2
<1>4. PICK i : i = [j EXCEPT !.attempts[o].sequence = s, !.entries = @ \cup {new}]
  OBVIOUS
<1>5. create(j, o, k + 1) = Leaves(i, <<"attempts", "entries">>)
  BY <1>3, <1>4 DEF create
<1>6. /\ i.attempts = [j.attempts EXCEPT ![o].sequence = s] /\ i.outcomes = j.outcomes
      /\ i.entries = j.entries \cup {new}
  BY <1>0, <1>4 DEF Journals
<1>7. i.attempts \in [Objects -> Attempts]
  <2>1. [j.attempts[o] EXCEPT !.sequence = s] \in Attempts
    BY <1>2 DEF Attempts
  <2> QED
    BY <1>1, <1>6, <2>1
<1>8. i \in Journals
  BY <1>0, <1>1, <1>4, <1>6, <1>7 DEF Journals
<1>9. \A x \in Objects : /\ i.attempts[x].deleted = j.attempts[x].deleted
                         /\ i.attempts[x].sequence = IF x = o THEN s ELSE j.attempts[x].sequence
                         /\ j.attempts[x].sequence \in Nat
  BY <1>1, <1>2, <1>6 DEF Attempts
<1>10. \A t \in j.entries : /\ t.op \in Nat /\ t.op <= k /\ t.obj \in Objects /\ t.seq \in Nat
                            /\ t.seq <= j.attempts[t.obj].sequence
  BY <1>0, <1>1 DEF KeptIn, Kept, Ticket
<1>11. \A t \in j.entries : t.op # new.op /\ (t.obj = o => t.seq < s)
  BY <1>2, <1>3, <1>10
<1>12. PICK m : m = Stepped(j, i, "attempts")
  OBVIOUS
<1>13. m \in Journals /\ m.attempts = i.attempts /\ m.outcomes = j.outcomes /\ m.entries = j.entries
  BY <1>0, <1>8, <1>12, SteppedIs DEF Files
<1>14. KeptIn(m, k + 1)
  <2>1. \A t \in j.entries : t.seq <= i.attempts[t.obj].sequence /\ t.op <= k + 1
    BY <1>2, <1>3, <1>9, <1>10
  <2>2. \A t \in j.entries : i.attempts[t.obj].deleted = j.attempts[t.obj].deleted
    BY <1>9, <1>10
  <2> QED
    BY <1>0, <1>13, <2>1, <2>2 DEF KeptIn, Kept
<1>15. KeptIn(i, k + 1)
  <2>1. \A t \in i.entries : t.seq <= i.attempts[t.obj].sequence /\ t.op <= k + 1
    BY <1>2, <1>3, <1>6, <1>9, <1>10
  <2>2. \A t, u \in i.entries : t.op = u.op => t = u
    BY <1>0, <1>6, <1>11 DEF KeptIn, Kept
  <2>3. \A t, u \in i.entries : t.obj = u.obj /\ t.op < u.op => t.seq < u.seq
    <3>1. \A t, u \in j.entries : t.obj = u.obj /\ t.op < u.op => t.seq < u.seq
      BY <1>0 DEF KeptIn, Kept
    <3>2. \A t \in j.entries : ~(new.op < t.op) /\ (t.obj = new.obj => t.seq < new.seq)
      BY <1>3, <1>10, <1>11
    <3>3. ~(new.op < new.op)
      BY <1>3
    <3> QED
      BY <1>6, <3>1, <3>2, <3>3
  <2>4. \A x \in Objects : i.outcomes[x] # None =>
          \E t \in i.entries : /\ t.obj = x /\ t.op = i.outcomes[x].op /\ t.seq = i.outcomes[x].seq
                               /\ Completed(t) => t.state = i.outcomes[x].outcome
    BY <1>0, <1>6 DEF KeptIn, Kept
  <2>5. ~Completed(new)
    BY <1>3 DEF Completed
  <2>6. \A t \in i.entries : Completed(t) /\ t.seq > i.attempts[t.obj].deleted =>
          i.outcomes[t.obj] # None /\ i.outcomes[t.obj].seq >= t.seq
    BY <1>0, <1>6, <1>9, <1>10, <2>5 DEF KeptIn, Kept
  <2> QED
    BY <2>1, <2>2, <2>3, <2>4, <2>6 DEF KeptIn, Kept
<1>16. Truthful(i.attempts, i.outcomes, i.entries)
  BY <1>0, <1>6, <1>9 DEF Truthful
<1>17. Stepped(m, i, "entries") = i
  <2>1. PICK p : p = Stepped(m, i, "entries")
    OBVIOUS
  <2>2. p \in Journals /\ p.attempts = i.attempts /\ p.outcomes = i.outcomes /\ p.entries = i.entries
    BY <1>6, <1>8, <1>13, <2>1, SteppedIs DEF Files
  <2> QED
    BY <1>8, <2>1, <2>2, SameJournal
<1>18. Does(Durables(n, e, f, k + 1), d, Leaves(i, <<"attempts", "entries">>))
  <2>1. "attempts" \in Files /\ "entries" \in Files /\ KeptIn(j, k + 1)
    BY <1>0, KeptGrows DEF Files
  <2> QED
    BY <1>0, <1>8, <1>12, <1>14, <1>15, <1>17, <2>1, DoesTwo
<1>19. Leaves(i, <<"attempts", "entries">>).journal = i
  BY DEF Leaves
<1> QED
  BY <1>3, <1>5, <1>6, <1>8, <1>15, <1>16, <1>18, <1>19 DEF True, KeptIn

\* The journal with one ticket in another state.
Changed(j, old, new) == [j EXCEPT !.entries = (@ \ {old}) \cup {new}]

\* rememberOutcome leaves the journal with a newer outcome of that object, or as it is.
LEMMA RememberIs ==
    ASSUME NEW j \in Journals, NEW t \in Ticket, Completed(t)
    PROVE  LET r == rememberOutcome(j, t) IN
           /\ r \in Journals /\ r.attempts = j.attempts /\ r.entries = j.entries
           /\ \A o \in Objects \ {t.obj} : r.outcomes[o] = j.outcomes[o]
           /\ Outdated(j, t) => r.outcomes[t.obj] = j.outcomes[t.obj]
           /\ ~Outdated(j, t) => r.outcomes[t.obj] = [op |-> t.op, seq |-> t.seq, outcome |-> t.state]
<1>1. PICK r, oc : r = rememberOutcome(j, t) /\ oc = [op |-> t.op, seq |-> t.seq, outcome |-> t.state]
  OBVIOUS
<1>2. oc \in Outcome /\ t.obj \in Objects
  BY <1>1 DEF Ticket, Outcome, Completed
<1>3. CASE Outdated(j, t)
  BY <1>1, <1>3 DEF rememberOutcome
<1>4. CASE ~Outdated(j, t)
  <2>1. r = [j EXCEPT !.outcomes[t.obj] = oc]
    BY <1>1, <1>4 DEF rememberOutcome
  <2>2. j.outcomes \in [Objects -> Outcome \cup {None}]
    BY DEF Journals, Outcomes
  <2>3. r.outcomes = [j.outcomes EXCEPT ![t.obj] = oc] /\ r.attempts = j.attempts /\ r.entries = j.entries
    BY <2>1 DEF Journals
  <2>4. r.outcomes \in Outcomes
    BY <1>2, <2>2, <2>3 DEF Outcomes
  <2>5. r \in Journals
    BY <2>1, <2>4 DEF Journals
  <2> QED
    BY <1>1, <1>2, <1>4, <2>2, <2>3, <2>5
<1> QED
  BY <1>3, <1>4

\* A ticket in another state: what is kept of the others, and what is to show of it.
LEMMA ChangedKept ==
    ASSUME NEW k \in Nat, NEW j, True(j, k), NEW old \in j.entries, ~Completed(old),
           NEW new \in Ticket, new.op = old.op, new.seq = old.seq, new.obj = old.obj,
           NEW oc \in Outcomes,
           \A o \in Objects \ {old.obj} : oc[o] = j.outcomes[o],
           \/ oc[old.obj] = j.outcomes[old.obj]
           \/ /\ oc[old.obj] = [op |-> old.op, seq |-> old.seq, outcome |-> new.state]
              /\ ~Outdated(j, old) /\ Completed(new),
           Completed(new) /\ old.seq > j.attempts[old.obj].deleted =>
               oc[old.obj] # None /\ oc[old.obj].seq >= old.seq
    PROVE  LET en == (j.entries \ {old}) \cup {new} IN
           /\ Kept(j.attempts, oc, j.entries, k) /\ Kept(j.attempts, oc, en, k)
           /\ Truthful(j.attempts, oc, en)
<1>1. /\ j.attempts \in [Objects -> Attempts] /\ j.outcomes \in Outcomes /\ j.entries \subseteq Ticket
      /\ Kept(j.attempts, j.outcomes, j.entries, k) /\ Truthful(j.attempts, j.outcomes, j.entries)
  BY DEF True, Journals
<1>2. \A t \in j.entries : t.obj \in Objects /\ t.seq \in Nat /\ t.op \in Nat
  BY <1>1 DEF Ticket
<1>3. \A o \in Objects : j.outcomes[o] # None =>
          /\ j.outcomes[o].seq \in Nat /\ j.outcomes[o].outcome \in {"published", "failed"}
          /\ j.attempts[o].deleted \in Int
  BY <1>1 DEF Outcomes, Outcome, Attempts
<1>4. \A o \in Objects : j.attempts[o].deleted \in Int
  BY <1>1 DEF Attempts
<1>5. PICK en : en = (j.entries \ {old}) \cup {new}
  OBVIOUS
<1>6. PICK o \in Objects : o = old.obj
  BY <1>2
<1>7. [op |-> old.op, seq |-> old.seq, outcome |-> new.state] # None \/ ~Completed(new)
  <2>1. CASE Completed(new)
    <3>1. [op |-> old.op, seq |-> old.seq, outcome |-> new.state] \in Outcome
      BY <1>2, <2>1 DEF Outcome, Completed
    <3> QED
      BY <3>1, NothingAssumption
  <2> QED
    BY <2>1
<1>8. CASE oc[o] = j.outcomes[o]
  <2>1. \A x \in Objects : oc[x] = j.outcomes[x]
    BY <1>6, <1>8
  <2>2. Kept(j.attempts, oc, j.entries, k)
    BY <1>1, <1>2, <2>1 DEF Kept
  <2>3. \A x \in Objects : oc[x] # None =>
          /\ oc[x].seq > j.attempts[x].deleted
          /\ \E t \in en : t.obj = x /\ t.op = oc[x].op /\ t.seq = oc[x].seq /\ t.state = oc[x].outcome
    <3>1. SUFFICES ASSUME NEW x \in Objects, oc[x] # None
                   PROVE  /\ oc[x].seq > j.attempts[x].deleted
                          /\ \E t \in en : t.obj = x /\ t.op = oc[x].op /\ t.seq = oc[x].seq /\ t.state = oc[x].outcome
      OBVIOUS
    <3>2. oc[x] = j.outcomes[x] /\ j.outcomes[x].outcome \in {"published", "failed"}
      BY <1>3, <2>1, <3>1
    <3>3. PICK t \in j.entries : t.obj = x /\ t.op = oc[x].op /\ t.seq = oc[x].seq /\ t.state = oc[x].outcome
      BY <1>1, <3>1, <3>2 DEF Truthful
    <3>4. t # old
      BY <3>2, <3>3 DEF Completed
    <3> QED
      BY <1>1, <1>5, <3>1, <3>2, <3>3, <3>4 DEF Truthful
  <2>4. Truthful(j.attempts, oc, en)
    BY <2>3 DEF Truthful
  <2>5. \A t, u \in en : t.op = u.op => t = u
    BY <1>1, <1>5 DEF Kept
  <2>6. \A t, u \in en : t.obj = u.obj /\ t.op < u.op => t.seq < u.seq
    <3>1. \A t, u \in j.entries : t.obj = u.obj /\ t.op < u.op => t.seq < u.seq
      BY <1>1 DEF Kept
    <3> QED
      BY <1>5, <3>1
  <2>7. \A t \in en : t.seq <= j.attempts[t.obj].sequence /\ t.op <= k
    BY <1>1, <1>5 DEF Kept
  <2>8. \A t \in en : Completed(t) /\ t.seq > j.attempts[t.obj].deleted =>
          oc[t.obj] # None /\ oc[t.obj].seq >= t.seq
    BY <1>1, <1>2, <1>5, <2>1 DEF Kept
  <2> QED
    BY <1>5, <2>2, <2>3, <2>4, <2>5, <2>6, <2>7, <2>8 DEF Kept
<1>9. CASE /\ oc[o] = [op |-> old.op, seq |-> old.seq, outcome |-> new.state]
           /\ ~Outdated(j, old) /\ Completed(new)
  <2>1. /\ oc[o].op = old.op /\ oc[o].seq = old.seq /\ oc[o].outcome = new.state /\ oc[o] # None
    BY <1>7, <1>9
  <2>2. /\ old.seq > j.attempts[o].deleted
        /\ j.outcomes[o] # None => j.outcomes[o].seq <= old.seq
    BY <1>2, <1>3, <1>4, <1>6, <1>9 DEF Outdated
  <2>3. \A t \in j.entries : Completed(t) /\ t.seq > j.attempts[t.obj].deleted =>
          oc[t.obj] # None /\ oc[t.obj].seq >= t.seq
    <3>1. SUFFICES ASSUME NEW t \in j.entries, Completed(t), t.seq > j.attempts[t.obj].deleted
                   PROVE  oc[t.obj] # None /\ oc[t.obj].seq >= t.seq
      OBVIOUS
    <3>2. j.outcomes[t.obj] # None /\ j.outcomes[t.obj].seq >= t.seq
      BY <1>1, <3>1 DEF Kept
    <3>3. CASE t.obj # o
      BY <1>2, <1>6, <3>2, <3>3
    <3>4. CASE t.obj = o
      BY <1>2, <1>3, <2>1, <2>2, <3>2, <3>4
    <3> QED
      BY <3>3, <3>4
  <2>4. \A x \in Objects : oc[x] # None =>
          \E t \in j.entries : /\ t.obj = x /\ t.op = oc[x].op /\ t.seq = oc[x].seq
                               /\ Completed(t) => t.state = oc[x].outcome
    <3>1. SUFFICES ASSUME NEW x \in Objects, oc[x] # None
                   PROVE  \E t \in j.entries : /\ t.obj = x /\ t.op = oc[x].op /\ t.seq = oc[x].seq
                                               /\ Completed(t) => t.state = oc[x].outcome
      OBVIOUS
    <3>2. CASE x = o
      BY <1>6, <2>1, <3>2
    <3>3. CASE x # o
      <4>1. oc[x] = j.outcomes[x]
        BY <1>6, <3>3
      <4> QED
        BY <1>1, <3>1, <4>1 DEF Kept
    <3> QED
      BY <3>2, <3>3
  <2>5. Kept(j.attempts, oc, j.entries, k)
    BY <1>1, <2>3, <2>4 DEF Kept
  <2>6. Truthful(j.attempts, oc, en)
    <3>1. SUFFICES ASSUME NEW x \in Objects, oc[x] # None
                   PROVE  /\ oc[x].seq > j.attempts[x].deleted
                          /\ \E t \in en : t.obj = x /\ t.op = oc[x].op /\ t.seq = oc[x].seq /\ t.state = oc[x].outcome
      BY DEF Truthful
    <3>2. CASE x = o
      BY <1>5, <1>6, <2>1, <2>2, <3>2
    <3>3. CASE x # o
      <4>1. oc[x] = j.outcomes[x]
        BY <1>6, <3>3
      <4>2. PICK t \in j.entries : t.obj = x /\ t.op = oc[x].op /\ t.seq = oc[x].seq /\ t.state = oc[x].outcome
        BY <1>1, <3>1, <4>1 DEF Truthful
      <4>3. t # old
        BY <1>6, <3>3, <4>2
      <4> QED
        BY <1>1, <1>5, <3>1, <4>1, <4>2, <4>3 DEF Truthful
    <3> QED
      BY <3>2, <3>3
  <2>7. \A x \in Objects : oc[x] # None =>
          \E t \in en : /\ t.obj = x /\ t.op = oc[x].op /\ t.seq = oc[x].seq
                        /\ Completed(t) => t.state = oc[x].outcome
    BY <2>6 DEF Truthful
  <2>8. \A t, u \in en : t.op = u.op => t = u
    BY <1>1, <1>5 DEF Kept
  <2>9. \A t, u \in en : t.obj = u.obj /\ t.op < u.op => t.seq < u.seq
    <3>1. \A t, u \in j.entries : t.obj = u.obj /\ t.op < u.op => t.seq < u.seq
      BY <1>1 DEF Kept
    <3> QED
      BY <1>5, <3>1
  <2>10. \A t \in en : t.seq <= j.attempts[t.obj].sequence /\ t.op <= k
    BY <1>1, <1>5 DEF Kept
  <2>11. \A t \in en : Completed(t) /\ t.seq > j.attempts[t.obj].deleted =>
          oc[t.obj] # None /\ oc[t.obj].seq >= t.seq
    BY <1>5, <1>6, <2>1, <2>3
  <2> QED
    BY <1>5, <2>5, <2>6, <2>7, <2>8, <2>9, <2>10, <2>11 DEF Kept
<1> QED
  BY <1>6, <1>8, <1>9

\* What a journal is after a ticket has taken a state: the others are there as they were.
Advanced(j, i, op, state) ==
    /\ i.attempts = j.attempts
    /\ \A t \in i.entries : t \in j.entries \/ (t.op = op /\ (Completed(t) \/ state = "pending"))
    /\ \A t \in i.entries : t.op = op => Completed(t) \/ state = "pending"
    /\ \A t \in j.entries : \E u \in i.entries : u.op = t.op

\* update: the outcome, if it is one, then the ticket.
LEMMA UpdateDoes ==
    ASSUME NEW d \in Disks, NEW n, NEW e, NEW f, NEW k \in Nat, Safe(d, n, e, f),
           NEW j, True(j, k), Has(d, j), NEW old \in j.entries,
           NEW state \in {"pending", "published", "failed"}
    PROVE  LET ended == update(j, old.op, state) IN
           /\ Does(Durables(n, e, f, k), d, ended) /\ True(ended.journal, k)
           /\ Advanced(j, ended.journal, old.op, state)
<1>0. /\ j \in Journals /\ KeptIn(j, k) /\ Truthful(j.attempts, j.outcomes, j.entries)
      /\ j.attempts \in [Objects -> Attempts] /\ j.outcomes \in Outcomes /\ j.entries \subseteq Ticket
  BY DEF True, KeptIn, Journals
<1>1. (CHOOSE t \in j.entries : t.op = old.op) = old
  BY <1>0 DEF KeptIn, Kept
<1>2. PICK new : new = [old EXCEPT !.state = state]
  OBVIOUS
<1>3. new \in Ticket /\ new.op = old.op /\ new.seq = old.seq /\ new.obj = old.obj /\ new.state = state
  BY <1>0, <1>2 DEF Ticket
<1>4. PICK c : c = Changed(j, old, new)
  OBVIOUS
<1>5. /\ c \in Journals /\ c.attempts = j.attempts /\ c.outcomes = j.outcomes
      /\ c.entries = (j.entries \ {old}) \cup {new}
  BY <1>0, <1>3, <1>4 DEF Changed, Journals
<1>6. update(j, old.op, state) =
         IF Completed(old) THEN Leaves(j, <<>>)
         ELSE IF Completed(new) THEN Leaves(rememberOutcome(c, new), <<"outcomes", "entries">>)
         ELSE Leaves(c, <<"entries">>)
  BY <1>1, <1>2, <1>4 DEF update, Changed
<1>7. d \in Durables(n, e, f, k) /\ Durables(n, e, f, k) \subseteq Disks
  BY <1>0 DEF Durables, KeptIn, Has
<1>8. "outcomes" \in Files /\ "entries" \in Files
  BY DEF Files
<1>9. CASE Completed(old)
  <2>1. update(j, old.op, state) = Leaves(j, <<>>)
    BY <1>6, <1>9
  <2>2. Does(Durables(n, e, f, k), d, Leaves(j, <<>>)) /\ Leaves(j, <<>>).journal = j
    BY <1>0, <1>7, DoesNothing DEF Leaves
  <2>3. Advanced(j, j, old.op, state)
    BY <1>0, <1>9 DEF Advanced, KeptIn, Kept
  <2> QED
    BY <2>1, <2>2, <2>3
<1>10. CASE ~Completed(old) /\ ~Completed(new)
  <2>1. update(j, old.op, state) = Leaves(c, <<"entries">>)
    BY <1>6, <1>10
  <2>2. KeptIn(c, k) /\ Truthful(c.attempts, c.outcomes, c.entries)
    <3>1. /\ Kept(j.attempts, j.outcomes, (j.entries \ {old}) \cup {new}, k)
          /\ Truthful(j.attempts, j.outcomes, (j.entries \ {old}) \cup {new})
      BY <1>0, <1>3, <1>10, ChangedKept
    <3> QED
      BY <1>5, <3>1 DEF KeptIn
  <2>3. Stepped(j, c, "entries") = c
    <3>1. PICK s : s = Stepped(j, c, "entries")
      OBVIOUS
    <3>2. s \in Journals /\ s.attempts = c.attempts /\ s.outcomes = c.outcomes /\ s.entries = c.entries
      BY <1>0, <1>5, <1>8, <3>1, SteppedIs
    <3> QED
      BY <1>5, <3>1, <3>2, SameJournal
  <2>4. Does(Durables(n, e, f, k), d, Leaves(c, <<"entries">>)) /\ Leaves(c, <<"entries">>).journal = c
    BY <1>0, <1>5, <1>8, <2>2, <2>3, DoesOne DEF Leaves
  <2>5. state = "pending"
    BY <1>3, <1>10 DEF Completed
  <2>6. Advanced(j, c, old.op, state)
    <3>1. \A t \in j.entries : \E u \in c.entries : u.op = t.op
      BY <1>3, <1>5
    <3>2. \A t \in c.entries : t \in j.entries \/ t.op = old.op
      BY <1>3, <1>5
    <3> QED
      BY <1>5, <2>5, <3>1, <3>2 DEF Advanced
  <2> QED
    BY <1>5, <2>1, <2>2, <2>4, <2>6 DEF True, KeptIn
<1>11. CASE ~Completed(old) /\ Completed(new)
  <2>1. PICK r : r = rememberOutcome(c, new)
    OBVIOUS
  <2>2. update(j, old.op, state) = Leaves(r, <<"outcomes", "entries">>)
    BY <1>6, <1>11, <2>1
  <2>3. Outdated(c, new) <=> Outdated(j, old)
    BY <1>3, <1>5 DEF Outdated
  <2>4. /\ r \in Journals /\ r.attempts = j.attempts /\ r.entries = (j.entries \ {old}) \cup {new}
        /\ \A o \in Objects \ {old.obj} : r.outcomes[o] = j.outcomes[o]
        /\ Outdated(j, old) => r.outcomes[old.obj] = j.outcomes[old.obj]
        /\ ~Outdated(j, old) => r.outcomes[old.obj] = [op |-> old.op, seq |-> old.seq, outcome |-> new.state]
    BY <1>3, <1>5, <1>11, <2>1, <2>3, RememberIs
  <2>5. r.outcomes \in Outcomes
    BY <2>4 DEF Journals
  <2>6. old.seq > j.attempts[old.obj].deleted => r.outcomes[old.obj] # None /\ r.outcomes[old.obj].seq >= old.seq
    <3>0. old.obj \in Objects /\ old.seq \in Nat /\ old.op \in Nat
      BY <1>0 DEF Ticket
    <3>1. CASE Outdated(j, old)
      <4>1. old.seq > j.attempts[old.obj].deleted =>
                j.outcomes[old.obj] # None /\ j.outcomes[old.obj].seq > old.seq
        <5>1. j.attempts[old.obj].deleted \in Int
          BY <1>0, <3>0 DEF Attempts
        <5> QED
          BY <3>0, <3>1, <5>1 DEF Outdated
      <4>2. j.outcomes[old.obj] # None => j.outcomes[old.obj].seq \in Nat
        BY <1>0, <3>0 DEF Outcomes, Outcome
      <4> QED
        BY <2>4, <3>0, <3>1, <4>1, <4>2
    <3>2. CASE ~Outdated(j, old)
      <4>1. [op |-> old.op, seq |-> old.seq, outcome |-> new.state] \in Outcome
        BY <1>3, <1>11, <3>0 DEF Outcome, Completed
      <4>2. r.outcomes[old.obj] # None /\ r.outcomes[old.obj].seq = old.seq
        BY <2>4, <3>2, <4>1, NothingAssumption
      <4> QED
        BY <3>0, <4>2
    <3> QED
      BY <3>1, <3>2
  <2>7. \/ r.outcomes[old.obj] = j.outcomes[old.obj]
        \/ /\ r.outcomes[old.obj] = [op |-> old.op, seq |-> old.seq, outcome |-> new.state]
           /\ ~Outdated(j, old) /\ Completed(new)
    BY <1>11, <2>4
  <2>8. /\ Kept(j.attempts, r.outcomes, j.entries, k)
        /\ Kept(j.attempts, r.outcomes, (j.entries \ {old}) \cup {new}, k)
        /\ Truthful(j.attempts, r.outcomes, (j.entries \ {old}) \cup {new})
    BY <1>3, <1>11, <2>4, <2>5, <2>6, <2>7, ChangedKept
  <2>9. KeptIn(r, k) /\ Truthful(r.attempts, r.outcomes, r.entries)
    BY <2>4, <2>8 DEF KeptIn
  <2>10. PICK m : m = Stepped(j, r, "outcomes")
    OBVIOUS
  <2>11. m \in Journals /\ m.attempts = r.attempts /\ m.outcomes = r.outcomes /\ m.entries = j.entries
    BY <1>0, <1>8, <2>4, <2>10, SteppedIs
  <2>12. KeptIn(m, k)
    BY <2>4, <2>8, <2>11 DEF KeptIn
  <2>13. Stepped(m, r, "entries") = r
    <3>1. PICK s : s = Stepped(m, r, "entries")
      OBVIOUS
    <3>2. s \in Journals /\ s.attempts = r.attempts /\ s.outcomes = r.outcomes /\ s.entries = r.entries
      BY <1>8, <2>4, <2>11, <3>1, SteppedIs
    <3> QED
      BY <2>4, <3>1, <3>2, SameJournal
  <2>14. Does(Durables(n, e, f, k), d, Leaves(r, <<"outcomes", "entries">>))
    BY <1>0, <1>8, <2>4, <2>9, <2>10, <2>12, <2>13, DoesTwo
  <2>15. Leaves(r, <<"outcomes", "entries">>).journal = r
    BY DEF Leaves
  <2>16. Advanced(j, r, old.op, state)
    <3>1. \A t \in j.entries : \E u \in r.entries : u.op = t.op
      BY <1>3, <2>4
    <3>2. \A t \in r.entries : t \in j.entries \/ (t.op = old.op /\ Completed(t))
      BY <1>3, <1>11, <2>4
    <3>3. \A t \in r.entries : t.op = old.op => Completed(t)
      <4>1. \A t \in j.entries : t.op = old.op => t = old
        BY <1>0 DEF KeptIn, Kept
      <4> QED
        BY <1>11, <2>4, <4>1
    <3> QED
      BY <2>4, <3>1, <3>2, <3>3 DEF Advanced
  <2>17. True(r, k)
    BY <2>4, <2>9 DEF True, KeptIn
  <2> QED
    BY <2>2, <2>14, <2>15, <2>16, <2>17
<1> QED
  BY <1>9, <1>10, <1>11

\* What a fence leaves.
LEMMA FencedIs ==
    ASSUME NEW j \in Journals, NEW g \in SUBSET Objects
    PROVE  /\ Fenced(j, g) \in Journals /\ Fenced(j, g).entries = j.entries
           /\ \A o \in Objects :
                 /\ o \notin g => /\ Fenced(j, g).attempts[o] = j.attempts[o]
                                  /\ Fenced(j, g).outcomes[o] = j.outcomes[o]
                 /\ o \in g => /\ Fenced(j, g).attempts[o].sequence = j.attempts[o].sequence + 1
                               /\ Fenced(j, g).attempts[o].deleted = j.attempts[o].sequence + 1
                               /\ Fenced(j, g).outcomes[o] = None
<1>1. PICK x : x = Fenced(j, g)
  OBVIOUS
<1>2. /\ x.attempts = [o \in Objects |-> IF o \in g THEN [sequence |-> j.attempts[o].sequence + 1,
                                                          deleted |-> j.attempts[o].sequence + 1]
                                         ELSE j.attempts[o]]
      /\ x.outcomes = [o \in Objects |-> IF o \in g THEN None ELSE j.outcomes[o]]
      /\ x.entries = j.entries
  BY <1>1 DEF Fenced, Journals
<1>3. x = [attempts |-> x.attempts, outcomes |-> x.outcomes, entries |-> x.entries]
  BY <1>1 DEF Fenced, Journals
<1>4. j.attempts \in [Objects -> Attempts] /\ j.outcomes \in [Objects -> Outcome \cup {None}]
  BY DEF Journals, Outcomes
<1>5. ASSUME NEW o \in Objects PROVE x.attempts[o] \in Attempts /\ x.outcomes[o] \in Outcome \cup {None}
  <2>1. j.attempts[o].sequence + 1 \in Nat /\ j.attempts[o] \in Attempts
    BY <1>4 DEF Attempts
  <2>2. [sequence |-> j.attempts[o].sequence + 1, deleted |-> j.attempts[o].sequence + 1] \in Attempts
    BY <2>1 DEF Attempts
  <2> QED
    BY <1>2, <1>4, <2>1, <2>2
<1>6. x.attempts \in [Objects -> Attempts] /\ x.outcomes \in Outcomes
  BY <1>2, <1>5 DEF Outcomes
<1>7. x \in Journals
  BY <1>2, <1>3, <1>6 DEF Journals
<1> QED
  BY <1>1, <1>2, <1>7

\* The fences may be there before the outcomes have gone.
LEMMA FencedKept ==
    ASSUME NEW k \in Nat, NEW j \in Journals, KeptIn(j, k), NEW g \in SUBSET Objects, NEW h \in SUBSET g
    PROVE  /\ Kept(Fenced(j, g).attempts, Fenced(j, h).outcomes, j.entries, k)
           /\ Truthful(j.attempts, j.outcomes, j.entries) => True(Fenced(j, g), k)
<1>1. PICK x, y : x = Fenced(j, g) /\ y = Fenced(j, h)
  OBVIOUS
<1>2. /\ x \in Journals /\ x.entries = j.entries
      /\ \A o \in Objects :
            /\ o \notin g => x.attempts[o] = j.attempts[o] /\ x.outcomes[o] = j.outcomes[o]
            /\ o \in g => /\ x.attempts[o].sequence = j.attempts[o].sequence + 1
                          /\ x.attempts[o].deleted = j.attempts[o].sequence + 1
                          /\ x.outcomes[o] = None
  BY <1>1, FencedIs
<1>3. \A o \in Objects : y.outcomes[o] = IF o \in h THEN None ELSE j.outcomes[o]
  <2>1. h \in SUBSET Objects
    OBVIOUS
  <2> QED
    BY <1>1, <2>1, FencedIs
<1>4. \A t \in j.entries : t.obj \in Objects /\ t.seq \in Nat /\ j.attempts[t.obj].sequence \in Nat
  BY DEF Journals, Ticket, Attempts
<1>5. \A t \in j.entries : t.seq <= j.attempts[t.obj].sequence /\ t.op <= k
  BY DEF KeptIn, Kept
<1>6. \A t \in j.entries : t.seq <= x.attempts[t.obj].sequence
  BY <1>2, <1>4, <1>5
<1>7. ASSUME NEW oc, \A o \in Objects : oc[o] = j.outcomes[o] \/ (o \in g /\ oc[o] = None)
      PROVE  Kept(x.attempts, oc, j.entries, k)
  <2>1. \A t \in j.entries : Completed(t) /\ t.seq > x.attempts[t.obj].deleted =>
            oc[t.obj] # None /\ oc[t.obj].seq >= t.seq
    <3>1. SUFFICES ASSUME NEW t \in j.entries, Completed(t), t.seq > x.attempts[t.obj].deleted
                   PROVE  oc[t.obj] # None /\ oc[t.obj].seq >= t.seq
      OBVIOUS
    <3>2. t.obj \notin g
      BY <1>2, <1>4, <1>5, <3>1
    <3> QED
      BY <1>2, <1>4, <1>7, <3>1, <3>2 DEF KeptIn, Kept
  <2>2. \A o \in Objects : oc[o] # None =>
          \E t \in j.entries : /\ t.obj = o /\ t.op = oc[o].op /\ t.seq = oc[o].seq
                               /\ Completed(t) => t.state = oc[o].outcome
    BY <1>7 DEF KeptIn, Kept
  <2> QED
    BY <1>5, <1>6, <2>1, <2>2 DEF KeptIn, Kept
<1>8. Kept(x.attempts, y.outcomes, j.entries, k)
  BY <1>3, <1>7
<1>9. Truthful(j.attempts, j.outcomes, j.entries) => True(x, k)
  <2>1. Kept(x.attempts, x.outcomes, x.entries, k)
    BY <1>2, <1>7
  <2>2. Truthful(j.attempts, j.outcomes, j.entries) => Truthful(x.attempts, x.outcomes, x.entries)
    BY <1>2 DEF Truthful
  <2> QED
    BY <1>2, <2>1, <2>2 DEF True
<1> QED
  BY <1>1, <1>8, <1>9

\* forgetObject: the fence, then the outcome.
LEMMA ForgetDoes ==
    ASSUME NEW d \in Disks, NEW n, NEW e, NEW f, NEW k \in Nat, Safe(d, n, e, f),
           NEW j, True(j, k), Has(d, j), NEW o \in Objects
    PROVE  LET forgot == forgetObject(j, o) IN
           /\ Does(Durables(n, e, f, k), d, forgot) /\ True(forgot.journal, k)
           /\ forgot.journal.entries = j.entries
<1>0. j \in Journals /\ KeptIn(j, k) /\ Truthful(j.attempts, j.outcomes, j.entries)
  BY DEF True, KeptIn
<1>1. PICK i : i = Fenced(j, {o})
  OBVIOUS
<1>2. i \in Journals /\ i.entries = j.entries
  BY <1>0, <1>1, FencedIs
<1>3. True(i, k)
  BY <1>0, <1>1, FencedKept
<1>4. PICK m : m = Stepped(j, i, "attempts")
  OBVIOUS
<1>5. m \in Journals /\ m.attempts = i.attempts /\ m.outcomes = j.outcomes /\ m.entries = j.entries
  BY <1>0, <1>2, <1>4, SteppedIs DEF Files
<1>6. KeptIn(m, k)
  <2>1. PICK y : y = Fenced(j, {})
    OBVIOUS
  <2>2. /\ y \in Journals /\ \A x \in Objects : y.outcomes[x] = j.outcomes[x]
    BY <1>0, <2>1, FencedIs
  <2>3. y.outcomes = j.outcomes
    BY <1>0, <2>2 DEF Journals, Outcomes
  <2>4. Kept(i.attempts, y.outcomes, j.entries, k)
    BY <1>0, <1>1, <2>1, FencedKept
  <2> QED
    BY <1>5, <2>3, <2>4 DEF KeptIn
<1>7. Stepped(m, i, "outcomes") = i
  <2>1. PICK s : s = Stepped(m, i, "outcomes")
    OBVIOUS
  <2>2. s \in Journals /\ s.attempts = i.attempts /\ s.outcomes = i.outcomes /\ s.entries = i.entries
    BY <1>2, <1>5, <2>1, SteppedIs DEF Files
  <2> QED
    BY <1>2, <2>1, <2>2, SameJournal
<1>8. Does(Durables(n, e, f, k), d, Leaves(i, <<"attempts", "outcomes">>))
  <2>1. "attempts" \in Files /\ "outcomes" \in Files /\ KeptIn(i, k)
    BY <1>3 DEF Files, True, KeptIn
  <2> QED
    BY <1>0, <1>2, <1>4, <1>6, <1>7, <2>1, DoesTwo
<1>9. Leaves(i, <<"attempts", "outcomes">>).journal = i
  BY DEF Leaves
<1> QED
  BY <1>1, <1>2, <1>3, <1>8, <1>9 DEF forgetObject

\* Odd and even numbers.
LEMMA Halves ==
    ASSUME NEW i \in Nat, i >= 1
    PROVE  \/ \E m \in Nat : /\ i = 2 * m + 1 /\ i % 2 = 1 /\ i \div 2 = m /\ (i - 1) \div 2 = m
                             /\ (i + 1) \div 2 = m + 1
           \/ \E m \in Nat : /\ i = 2 * m + 2 /\ i % 2 = 0 /\ i \div 2 = m + 1 /\ (i - 1) \div 2 = m
                             /\ (i + 1) \div 2 = m + 1
<1>1. (i - 1) \div 2 \in Nat /\ (i - 1) % 2 \in 0 .. 1 /\ i - 1 = 2 * ((i - 1) \div 2) + ((i - 1) % 2)
  OBVIOUS
<1>2. PICK m \in Nat, r \in 0 .. 1 : m = (i - 1) \div 2 /\ i - 1 = 2 * m + r
  BY <1>1
<1>3. CASE r = 0
  <2>1. i = 2 * m + 1
    BY <1>2, <1>3
  <2>2. i % 2 = 1 /\ i \div 2 = m /\ (i + 1) \div 2 = m + 1
    BY <2>1
  <2> QED
    BY <1>2, <2>1, <2>2
<1>4. CASE r = 1
  <2>1. i = 2 * m + 2
    BY <1>2, <1>4
  <2>2. i % 2 = 0 /\ i \div 2 = m + 1 /\ (i + 1) \div 2 = m + 1
    BY <2>1
  <2> QED
    BY <1>2, <2>1, <2>2
<1> QED
  BY <1>3, <1>4

\* The first m of an order.
Firsts(order, m) == {order[x] : x \in 1 .. m}

\* forgetMissingObjects: every object its fence, then its outcome, one after the other.
LEMMA ForgetMissingDoes ==
    ASSUME NEW d \in Disks, NEW n, NEW e, NEW f, NEW k \in Nat, Safe(d, n, e, f),
           NEW j, True(j, k), Has(d, j), NEW order \in Seq(Objects)
    PROVE  LET forgot == forgetMissingObjects(j, order) IN
           /\ Does(Durables(n, e, f, k), d, forgot) /\ True(forgot.journal, k)
           /\ forgot.journal.entries = j.entries
<1>0. j \in Journals /\ KeptIn(j, k) /\ Truthful(j.attempts, j.outcomes, j.entries)
  BY DEF True, KeptIn
<1>1. PICK len \in Nat : len = Len(order)
  OBVIOUS
<1>2. \A m \in Nat : m <= len => Firsts(order, m) \in SUBSET Objects
  BY <1>1 DEF Firsts
<1>3. \A m \in Nat : Firsts(order, m) \in SUBSET Firsts(order, m + 1)
  BY DEF Firsts
<1>4. PICK after : after = [m \in 0 .. len |-> Fenced(j, Firsts(order, m))]
  OBVIOUS
<1>5. \A m \in 0 .. len : after[m] = Fenced(j, Firsts(order, m)) /\ after[m] \in Journals /\ after[m].entries = j.entries
  BY <1>0, <1>2, <1>4, FencedIs
<1>6. PICK forgot, ws : forgot = forgetMissingObjects(j, order) /\ ws = forgot.writes
  OBVIOUS
<1>7. /\ forgot.journal = after[len]
      /\ ws = [i \in 1 .. 2 * len |->
                 IF i % 2 = 1 THEN Saved(Fenced(j, Firsts(order, (i + 1) \div 2)), "attempts")
                 ELSE Saved(Fenced(j, Firsts(order, i \div 2)), "outcomes")]
  BY <1>1, <1>4, <1>6 DEF forgetMissingObjects, Firsts
<1>8. Len(ws) = 2 * len /\ \E X : ws \in Seq(X)
  <2>1. 2 * len \in Nat
    OBVIOUS
  <2>2. PICK X : X = {ws[i] : i \in 1 .. 2 * len}
    OBVIOUS
  <2>3. ws \in [1 .. 2 * len -> X]
    BY <1>7, <2>2
  <2>4. ws \in Seq(X) /\ Len(ws) = 2 * len
    BY <2>1, <2>3
  <2> QED
    BY <2>4, Zenon
<1>9. PICK between, ds :
         /\ between = [i \in 1 .. 2 * len + 1 |-> Made(after[i \div 2].attempts, after[(i - 1) \div 2].outcomes, j.entries)]
         /\ ds = [i \in 1 .. 2 * len + 1 |-> Holding(d, between[i])]
  OBVIOUS
<1>10. ASSUME NEW i \in 1 .. 2 * len + 1
       PROVE  /\ between[i] \in Journals /\ ds[i] \in Durables(n, e, f, k) /\ ds[i] \in Disks /\ Has(ds[i], between[i])
              /\ i \div 2 \in 0 .. len /\ (i - 1) \div 2 \in 0 .. len
              /\ between[i].attempts = after[i \div 2].attempts
              /\ between[i].outcomes = after[(i - 1) \div 2].outcomes /\ between[i].entries = j.entries
  <2>1. PICK a \in 0 .. len, b \in 0 .. len : a = i \div 2 /\ b = (i - 1) \div 2 /\ (a = b \/ a = b + 1)
    <3>1. i \in Nat /\ i >= 1
      OBVIOUS
    <3>2. CASE \E m \in Nat : i = 2 * m + 1 /\ i \div 2 = m /\ (i - 1) \div 2 = m
      BY <3>2
    <3>3. CASE \E m \in Nat : i = 2 * m + 2 /\ i \div 2 = m + 1 /\ (i - 1) \div 2 = m
      <4>1. PICK m \in Nat : i = 2 * m + 2 /\ i \div 2 = m + 1 /\ (i - 1) \div 2 = m
        BY <3>3
      <4>2. m \in 0 .. len /\ m + 1 \in 0 .. len
        BY <4>1
      <4> QED
        BY <4>1, <4>2
    <3> QED
      BY <3>1, <3>2, <3>3, Halves
  <2>2. between[i] = Made(after[a].attempts, after[b].outcomes, j.entries) /\ ds[i] = Holding(d, between[i])
    BY <1>9, <2>1
  <2>3. PICK g : g = between[i]
    OBVIOUS
  <2>4. g.attempts = after[a].attempts /\ g.outcomes = after[b].outcomes /\ g.entries = j.entries
    BY <2>2, <2>3 DEF Made
  <2>5. g \in Journals
    <3>1. after[a] \in Journals /\ after[b] \in Journals
      BY <1>5
    <3> QED
      BY <1>0, <2>2, <2>3, <3>1 DEF Made, Journals
  <2>6. Kept(g.attempts, g.outcomes, g.entries, k)
    <3>1. Firsts(order, a) \in SUBSET Objects /\ Firsts(order, b) \in SUBSET Firsts(order, a)
      BY <1>2, <1>3, <2>1
    <3>2. after[a] = Fenced(j, Firsts(order, a)) /\ after[b] = Fenced(j, Firsts(order, b))
      BY <1>5
    <3>3. Kept(after[a].attempts, after[b].outcomes, j.entries, k)
      BY <1>0, <3>1, <3>2, FencedKept
    <3> QED
      BY <2>4, <3>3
  <2>7. ds[i] \in Durables(n, e, f, k) /\ ds[i] \in Disks /\ Has(ds[i], g)
    BY <2>2, <2>3, <2>5, <2>6, HoldingIs, HoldingSafe
  <2> QED
    BY <2>1, <2>3, <2>4, <2>5, <2>7
<1>11. ds \in Seq(Durables(n, e, f, k)) /\ Len(ds) = 2 * len + 1
  <2>1. 2 * len + 1 \in Nat
    OBVIOUS
  <2>2. ds \in [1 .. 2 * len + 1 -> Durables(n, e, f, k)]
    BY <1>9, <1>10
  <2> QED
    BY <2>1, <2>2
<1>12. ds[1] = d
  <2>1. 1 \in 1 .. 2 * len + 1 /\ 1 \div 2 = 0 /\ (1 - 1) \div 2 = 0 /\ 0 \in 0 .. len
    OBVIOUS
  <2>2. after[0] = Fenced(j, {})
    <3>1. Firsts(order, 0) = {}
      BY DEF Firsts
    <3> QED
      BY <1>5, <2>1, <3>1
  <2>3. /\ Fenced(j, {}) \in Journals
        /\ \A o \in Objects : /\ Fenced(j, {}).attempts[o] = j.attempts[o]
                              /\ Fenced(j, {}).outcomes[o] = j.outcomes[o]
    BY <1>0, FencedIs
  <2>4. Fenced(j, {}).attempts = j.attempts /\ Fenced(j, {}).outcomes = j.outcomes
    BY <1>0, <2>3 DEF Journals, Outcomes
  <2>5. between[1] \in Journals /\ between[1].attempts = j.attempts /\ between[1].outcomes = j.outcomes /\ between[1].entries = j.entries
    BY <1>10, <2>1, <2>2, <2>4
  <2>6. between[1] = j
    BY <1>0, <2>5, SameJournal
  <2> QED
    BY <1>0, <1>9, <2>1, <2>6, HoldingIs
<1>13. ds[2 * len + 1] = Holding(d, after[len])
  <2>1. PICK i \in 1 .. 2 * len + 1 : i = 2 * len + 1
    OBVIOUS
  <2>2. i \div 2 = len /\ (i - 1) \div 2 = len
    BY <2>1
  <2>3. between[i] \in Journals /\ between[i].attempts = after[len].attempts /\ between[i].outcomes = after[len].outcomes
        /\ between[i].entries = j.entries
    BY <1>10, <2>2
  <2>4. after[len] \in Journals /\ after[len].entries = j.entries
    BY <1>5
  <2>5. between[i] = after[len]
    BY <2>3, <2>4, SameJournal
  <2> QED
    BY <1>9, <2>1, <2>5
<1>14. ASSUME NEW i \in 1 .. 2 * len PROVE ds[i + 1] = Written(ds[i], ws[i])
  <2>1. i \in Nat /\ i >= 1 /\ i \in 1 .. 2 * len + 1 /\ i + 1 \in 1 .. 2 * len + 1 /\ (i + 1) - 1 = i
    OBVIOUS
  <2>2. PICK g, h : g = between[i] /\ h = between[i + 1]
    OBVIOUS
  <2>3. /\ g \in Journals /\ ds[i] \in Disks /\ Has(ds[i], g) /\ ds[i] = Holding(d, g)
        /\ g.attempts = after[i \div 2].attempts /\ g.outcomes = after[(i - 1) \div 2].outcomes /\ g.entries = j.entries
        /\ i \div 2 \in 0 .. len /\ (i - 1) \div 2 \in 0 .. len
    BY <1>9, <1>10, <2>1, <2>2
  <2>4. /\ h \in Journals /\ ds[i + 1] = Holding(d, h)
        /\ h.attempts = after[(i + 1) \div 2].attempts /\ h.outcomes = after[i \div 2].outcomes /\ h.entries = j.entries
        /\ (i + 1) \div 2 \in 0 .. len
    BY <1>9, <1>10, <2>1, <2>2
  <2>5. Holding(ds[i], h) = ds[i + 1]
    BY <2>3, <2>4, HoldingIs
  <2>6. ASSUME NEW m \in Nat, i = 2 * m + 1, i % 2 = 1, i \div 2 = m, (i - 1) \div 2 = m, (i + 1) \div 2 = m + 1
        PROVE  ds[i + 1] = Written(ds[i], ws[i])
    <3>1. PICK x : x = after[m + 1]
      OBVIOUS
    <3>2. x \in Journals /\ x = Fenced(j, Firsts(order, m + 1))
      BY <1>5, <2>4, <2>6, <3>1
    <3>3. ws[i] = Saved(x, "attempts")
      BY <1>7, <2>6, <3>2
    <3>4. Written(ds[i], ws[i]) = Holding(ds[i], Made(x.attempts, ds[i].outcomes, ds[i].entries))
      BY <2>3, <3>2, <3>3, WrittenFile
    <3>5. h.attempts = x.attempts /\ h.outcomes = ds[i].outcomes /\ h.entries = ds[i].entries
      BY <2>3, <2>4, <2>6, <3>1 DEF Has
    <3>6. h = Made(h.attempts, h.outcomes, h.entries)
      BY <2>4 DEF Made, Journals
    <3> QED
      BY <2>5, <3>4, <3>5, <3>6
  <2>7. ASSUME NEW m \in Nat, i = 2 * m + 2, i % 2 = 0, i \div 2 = m + 1, (i - 1) \div 2 = m, (i + 1) \div 2 = m + 1
        PROVE  ds[i + 1] = Written(ds[i], ws[i])
    <3>1. PICK x : x = after[m + 1]
      OBVIOUS
    <3>2. x \in Journals /\ x = Fenced(j, Firsts(order, m + 1))
      BY <1>5, <2>4, <2>7, <3>1
    <3>3. ws[i] = Saved(x, "outcomes")
      BY <1>7, <2>7, <3>2
    <3>4. Written(ds[i], ws[i]) = Holding(ds[i], Made(ds[i].attempts, x.outcomes, ds[i].entries))
      BY <2>3, <3>2, <3>3, WrittenFile
    <3>5. h.attempts = ds[i].attempts /\ h.outcomes = x.outcomes /\ h.entries = ds[i].entries
      BY <2>3, <2>4, <2>7, <3>1 DEF Has
    <3>6. h = Made(h.attempts, h.outcomes, h.entries)
      BY <2>4 DEF Made, Journals
    <3> QED
      BY <2>5, <3>4, <3>5, <3>6
  <2> QED
    BY <2>1, <2>6, <2>7, Halves
<1>15. Reaches(Durables(n, e, f, k), d, ws, Holding(d, after[len]))
  BY <1>8, <1>11, <1>12, <1>13, <1>14 DEF Reaches
<1>16. Does(Durables(n, e, f, k), d, forgot)
  BY <1>6, <1>7, <1>8, <1>15 DEF Does
<1>17. True(after[len], k) /\ after[len].entries = j.entries
  <2>1. Firsts(order, len) \in SUBSET Objects /\ after[len] = Fenced(j, Firsts(order, len))
    BY <1>2, <1>5
  <2> QED
    BY <1>0, <2>1, FencedIs, FencedKept
<1> QED
  BY <1>6, <1>7, <1>16, <1>17

EndedOf(j) == {IF Completed(t) THEN t ELSE [t EXCEPT !.state = "failed"] : t \in j.entries}
RememberedOf(j, o) == {t \in EndedOf(j) \ j.entries : t.obj = o /\ ~Outdated(j, t)}
LastOf(j, o) == CHOOSE t \in RememberedOf(j, o) : \A u \in RememberedOf(j, o) : u.seq <= t.seq

\* A ticket and the one it ends as.
EndsAs(s, t) ==
    /\ t \in Ticket /\ Completed(t) /\ t.op = s.op /\ t.seq = s.seq /\ t.obj = s.obj
    /\ Completed(s) => t = s
    /\ ~Completed(s) => t.state = "failed"

\* Every ticket ends as one, and every one is what a ticket ended as.
LEMMA EndedIs ==
    ASSUME NEW j \in Journals
    PROVE  /\ \A t \in EndedOf(j) : \E s \in j.entries : EndsAs(s, t)
           /\ \A s \in j.entries : \E t \in EndedOf(j) : EndsAs(s, t)
<1>1. ASSUME NEW s \in j.entries
      PROVE  EndsAs(s, IF Completed(s) THEN s ELSE [s EXCEPT !.state = "failed"])
  <2>1. s \in Ticket
    BY DEF Journals
  <2>2. CASE Completed(s)
    BY <2>1, <2>2 DEF EndsAs
  <2>3. CASE ~Completed(s)
    <3>1. PICK t : t = [s EXCEPT !.state = "failed"]
      OBVIOUS
    <3>2. t \in Ticket /\ t.op = s.op /\ t.seq = s.seq /\ t.obj = s.obj /\ t.state = "failed"
      BY <2>1, <3>1 DEF Ticket
    <3>3. Completed(t)
      BY <3>2 DEF Completed
    <3> QED
      BY <2>3, <3>1, <3>2, <3>3 DEF EndsAs
  <2> QED
    BY <2>2, <2>3
<1>2. ASSUME NEW t \in EndedOf(j) PROVE \E s \in j.entries : EndsAs(s, t)
  <2>1. PICK s \in j.entries : t = IF Completed(s) THEN s ELSE [s EXCEPT !.state = "failed"]
    BY DEF EndedOf
  <2> QED
    BY <1>1, <2>1, Zenon
<1>3. ASSUME NEW s \in j.entries PROVE \E t \in EndedOf(j) : EndsAs(s, t)
  <2>1. (IF Completed(s) THEN s ELSE [s EXCEPT !.state = "failed"]) \in EndedOf(j)
    BY DEF EndedOf
  <2> QED
    BY <1>1, <2>1, Zenon
<1> QED
  BY <1>2, <1>3

\* The last of the attempts that end in failure is there.
LEMMA LastIs ==
    ASSUME NEW j \in Journals, NEW k \in Nat, KeptIn(j, k), NEW o \in Objects, RememberedOf(j, o) # {}
    PROVE  /\ LastOf(j, o) \in RememberedOf(j, o)
           /\ \A u \in RememberedOf(j, o) : u.seq <= LastOf(j, o).seq
<1>1. PICK S : S = RememberedOf(j, o)
  OBVIOUS
<1>2. PICK m \in Nat : m = j.attempts[o].sequence
  BY DEF Journals, Attempts
<1>3. \A t \in S : t.seq \in 0 .. m
  <2>1. SUFFICES ASSUME NEW t \in S PROVE t.seq \in 0 .. m
    OBVIOUS
  <2>2. t \in EndedOf(j) /\ t.obj = o
    BY <1>1 DEF RememberedOf
  <2>3. PICK s \in j.entries : EndsAs(s, t)
    BY <2>2, EndedIs
  <2>4. s.seq <= j.attempts[s.obj].sequence
    BY DEF KeptIn, Kept
  <2>5. t.seq \in Nat /\ s.seq = t.seq /\ s.obj = o
    BY <2>2, <2>3 DEF EndsAs, Ticket
  <2> QED
    BY <1>2, <2>4, <2>5
<1>4. PICK T : T = {t.seq : t \in S}
  OBVIOUS
<1>5. T \in SUBSET (0 .. m) /\ T # {}
  BY <1>1, <1>3, <1>4
<1>6. PICK x \in T : \A y \in T : y <= x
  BY <1>5, Greatest
<1>7. \E t \in S : \A u \in S : u.seq <= t.seq
  BY <1>4, <1>6
<1> QED
  BY <1>1, <1>7 DEF LastOf

\* Recovered: every ticket has ended, and the outcomes are those of the last attempts.
LEMMA RecoveredKept ==
    ASSUME NEW j \in Journals, NEW k \in Nat, KeptIn(j, k),
           \A o \in Objects : j.outcomes[o] # None => j.outcomes[o].seq > j.attempts[o].deleted
    PROVE  LET r == Recovered(j) IN
           /\ True(r, k) /\ r.attempts = j.attempts
           /\ Kept(j.attempts, r.outcomes, j.entries, k)
           /\ \A t \in r.entries : Completed(t)
<1>1. PICK r : r = Recovered(j)
  OBVIOUS
<1>2. /\ r.attempts = j.attempts /\ r.entries = EndedOf(j)
      /\ r.outcomes = [o \in Objects |->
             IF RememberedOf(j, o) = {} THEN j.outcomes[o]
             ELSE [op |-> LastOf(j, o).op, seq |-> LastOf(j, o).seq, outcome |-> "failed"]]
      /\ r = [attempts |-> r.attempts, outcomes |-> r.outcomes, entries |-> r.entries]
  BY <1>1 DEF Recovered, Journals, EndedOf, RememberedOf, LastOf
<1>3. /\ j.attempts \in [Objects -> Attempts] /\ j.outcomes \in Outcomes /\ j.entries \subseteq Ticket
  BY DEF Journals
<1>4. \A t \in r.entries : /\ t \in Ticket /\ Completed(t) /\ t.seq \in Nat /\ t.op \in Nat /\ t.obj \in Objects
                           /\ \E s \in j.entries : EndsAs(s, t)
  BY <1>2, EndedIs DEF EndsAs, Ticket
<1>5. \A s \in j.entries : s.seq \in Nat /\ s.op \in Nat /\ s.obj \in Objects /\ \E t \in r.entries : EndsAs(s, t)
  BY <1>2, <1>3, EndedIs DEF Ticket
<1>6. \A o \in Objects : /\ j.attempts[o].deleted \in Int
                         /\ j.outcomes[o] # None => j.outcomes[o] \in Outcome /\ j.outcomes[o].seq \in Nat
  BY <1>3 DEF Attempts, Outcomes, Outcome
<1>7. \A s \in j.entries : \A t \in r.entries : EndsAs(s, t) /\ ~Completed(s) => t \notin j.entries
  BY DEF KeptIn, Kept, EndsAs
<1>8. ASSUME NEW o \in Objects, RememberedOf(j, o) # {}
      PROVE  /\ r.outcomes[o] \in Outcome /\ r.outcomes[o] # None
             /\ r.outcomes[o].seq > j.attempts[o].deleted
             /\ j.outcomes[o] # None => r.outcomes[o].seq >= j.outcomes[o].seq
             /\ \A u \in RememberedOf(j, o) : u.seq <= r.outcomes[o].seq
             /\ \E t \in r.entries : /\ t.obj = o /\ t.op = r.outcomes[o].op /\ t.seq = r.outcomes[o].seq
                                     /\ t.state = r.outcomes[o].outcome
             /\ \E s \in j.entries : /\ s.obj = o /\ s.op = r.outcomes[o].op /\ s.seq = r.outcomes[o].seq
                                     /\ ~Completed(s)
  <2>1. PICK l : l = LastOf(j, o)
    OBVIOUS
  <2>2. l \in RememberedOf(j, o) /\ \A u \in RememberedOf(j, o) : u.seq <= l.seq
    BY <1>8, <2>1, LastIs
  <2>3. l \in r.entries /\ l \notin j.entries /\ l.obj = o /\ ~Outdated(j, l)
    BY <1>2, <2>2 DEF RememberedOf
  <2>4. r.outcomes[o] = [op |-> l.op, seq |-> l.seq, outcome |-> "failed"]
    BY <1>2, <1>8, <2>1
  <2>5. l.op \in Nat /\ l.seq \in Nat
    BY <1>4, <2>3
  <2>6. r.outcomes[o] \in Outcome
    BY <2>4, <2>5 DEF Outcome
  <2>7. r.outcomes[o].op = l.op /\ r.outcomes[o].seq = l.seq /\ r.outcomes[o].outcome = "failed"
    BY <2>4
  <2>8. PICK s \in j.entries : EndsAs(s, l)
    BY <1>4, <2>3
  <2>9. ~Completed(s)
    BY <2>3, <2>8 DEF EndsAs
  <2>10. l.state = "failed" /\ s.op = l.op /\ s.seq = l.seq /\ s.obj = o
    BY <2>3, <2>8, <2>9 DEF EndsAs
  <2>11. l.seq > j.attempts[o].deleted /\ (j.outcomes[o] # None => l.seq >= j.outcomes[o].seq)
    BY <1>6, <2>3, <2>5 DEF Outdated
  <2>12. r.outcomes[o] # None
    BY <2>6, NothingAssumption
  <2>13. \E t \in r.entries : /\ t.obj = o /\ t.op = r.outcomes[o].op /\ t.seq = r.outcomes[o].seq
                              /\ t.state = r.outcomes[o].outcome
    BY <2>3, <2>7, <2>10
  <2> QED
    BY <2>2, <2>6, <2>7, <2>9, <2>10, <2>11, <2>12, <2>13
<1>9. ASSUME NEW o \in Objects, RememberedOf(j, o) = {} PROVE r.outcomes[o] = j.outcomes[o]
  BY <1>2, <1>9
<1>10. r.outcomes \in Outcomes
  <2>1. \A o \in Objects : r.outcomes[o] \in Outcome \cup {None}
    BY <1>3, <1>8, <1>9 DEF Outcomes
  <2> QED
    BY <1>2, <2>1 DEF Outcomes
<1>11. r \in Journals
  BY <1>2, <1>3, <1>4, <1>10 DEF Journals
<1>12. \A o \in Objects : j.outcomes[o] # None => r.outcomes[o] # None /\ r.outcomes[o].seq >= j.outcomes[o].seq
  <2>1. SUFFICES ASSUME NEW o \in Objects, j.outcomes[o] # None
                 PROVE  r.outcomes[o] # None /\ r.outcomes[o].seq >= j.outcomes[o].seq
    OBVIOUS
  <2> QED
    BY <1>6, <1>8, <1>9, <2>1
<1>13. Kept(j.attempts, r.outcomes, j.entries, k)
  <2>1. \A o \in Objects : r.outcomes[o] # None =>
          \E t \in j.entries : /\ t.obj = o /\ t.op = r.outcomes[o].op /\ t.seq = r.outcomes[o].seq
                               /\ Completed(t) => t.state = r.outcomes[o].outcome
    BY <1>8, <1>9 DEF KeptIn, Kept
  <2>2. \A t \in j.entries : Completed(t) /\ t.seq > j.attempts[t.obj].deleted =>
          r.outcomes[t.obj] # None /\ r.outcomes[t.obj].seq >= t.seq
    <3>1. SUFFICES ASSUME NEW t \in j.entries, Completed(t), t.seq > j.attempts[t.obj].deleted
                   PROVE  r.outcomes[t.obj] # None /\ r.outcomes[t.obj].seq >= t.seq
      OBVIOUS
    <3>2. j.outcomes[t.obj] # None /\ j.outcomes[t.obj].seq >= t.seq
      BY <3>1 DEF KeptIn, Kept
    <3>3. t.obj \in Objects /\ t.seq \in Nat
      BY <1>5
    <3>4. r.outcomes[t.obj] # None => r.outcomes[t.obj].seq \in Nat
      BY <1>10, <3>3 DEF Outcomes, Outcome
    <3> QED
      BY <1>6, <1>12, <3>2, <3>3, <3>4
  <2> QED
    BY <2>1, <2>2 DEF KeptIn, Kept
<1>14. Truthful(r.attempts, r.outcomes, r.entries)
  <2>1. SUFFICES ASSUME NEW o \in Objects, r.outcomes[o] # None
                 PROVE  /\ r.outcomes[o].seq > j.attempts[o].deleted
                        /\ \E t \in r.entries : /\ t.obj = o /\ t.op = r.outcomes[o].op /\ t.seq = r.outcomes[o].seq
                                                /\ t.state = r.outcomes[o].outcome
    BY <1>2 DEF Truthful
  <2>2. CASE RememberedOf(j, o) # {}
    BY <1>8, <2>2
  <2>3. CASE RememberedOf(j, o) = {}
    <3>1. r.outcomes[o] = j.outcomes[o] /\ j.outcomes[o].seq > j.attempts[o].deleted
      BY <1>9, <2>1, <2>3
    <3>2. PICK s \in j.entries : /\ s.obj = o /\ s.op = j.outcomes[o].op /\ s.seq = j.outcomes[o].seq
                                 /\ Completed(s) => s.state = j.outcomes[o].outcome
      BY <2>1, <3>1 DEF KeptIn, Kept
    <3>3. PICK t \in r.entries : EndsAs(s, t)
      BY <1>5
    <3>4. CASE Completed(s)
      BY <3>1, <3>2, <3>3, <3>4 DEF EndsAs
    <3>5. CASE ~Completed(s)
      <4>1. t \notin j.entries /\ t.obj = o /\ t.seq = j.outcomes[o].seq
        BY <1>7, <3>2, <3>3, <3>5 DEF EndsAs
      <4>2. ~Outdated(j, t)
        BY <1>5, <1>6, <3>1, <3>2, <4>1 DEF Outdated
      <4>3. t \in RememberedOf(j, o)
        BY <1>2, <4>1, <4>2 DEF RememberedOf
      <4> QED
        BY <2>3, <4>3
    <3> QED
      BY <3>4, <3>5
  <2> QED
    BY <2>2, <2>3
<1>15. Kept(r.attempts, r.outcomes, r.entries, k)
  <2>1. \A t \in r.entries : t.seq <= r.attempts[t.obj].sequence /\ t.op <= k
    BY <1>2, <1>4 DEF EndsAs, KeptIn, Kept
  <2>2. \A t, u \in r.entries : t.op = u.op => t = u
    <3>1. SUFFICES ASSUME NEW t \in r.entries, NEW u \in r.entries, t.op = u.op PROVE t = u
      OBVIOUS
    <3>2. PICK s \in j.entries : EndsAs(s, t)
      BY <1>4
    <3>3. PICK v \in j.entries : EndsAs(v, u)
      BY <1>4
    <3>4. s = v
      <4>1. s.op = v.op
        BY <3>1, <3>2, <3>3 DEF EndsAs
      <4> QED
        BY <4>1 DEF KeptIn, Kept
    <3> QED
      BY <3>1, <3>2, <3>3, <3>4 DEF EndsAs, Ticket
  <2>3. \A t, u \in r.entries : t.obj = u.obj /\ t.op < u.op => t.seq < u.seq
    <3>1. SUFFICES ASSUME NEW t \in r.entries, NEW u \in r.entries, t.obj = u.obj, t.op < u.op PROVE t.seq < u.seq
      OBVIOUS
    <3>2. PICK s \in j.entries : EndsAs(s, t)
      BY <1>4
    <3>3. PICK v \in j.entries : EndsAs(v, u)
      BY <1>4
    <3>4. s.obj = v.obj /\ s.op < v.op /\ s.seq = t.seq /\ v.seq = u.seq
      BY <3>1, <3>2, <3>3 DEF EndsAs
    <3> QED
      BY <3>4 DEF KeptIn, Kept
  <2>4. \A o \in Objects : r.outcomes[o] # None =>
          \E t \in r.entries : /\ t.obj = o /\ t.op = r.outcomes[o].op /\ t.seq = r.outcomes[o].seq
                               /\ Completed(t) => t.state = r.outcomes[o].outcome
    BY <1>14 DEF Truthful
  <2>5. \A t \in r.entries : Completed(t) /\ t.seq > r.attempts[t.obj].deleted =>
          r.outcomes[t.obj] # None /\ r.outcomes[t.obj].seq >= t.seq
    <3>1. SUFFICES ASSUME NEW t \in r.entries, t.seq > j.attempts[t.obj].deleted
                   PROVE  r.outcomes[t.obj] # None /\ r.outcomes[t.obj].seq >= t.seq
      BY <1>2
    <3>2. PICK s \in j.entries : EndsAs(s, t)
      BY <1>4
    <3>3. s.obj = t.obj /\ s.seq = t.seq /\ t.obj \in Objects /\ t.seq \in Nat
      BY <1>4, <3>2 DEF EndsAs
    <3>4. CASE Completed(s)
      BY <1>13, <3>1, <3>3, <3>4 DEF Kept
    <3>5. CASE ~Completed(s)
      <4>1. t \notin j.entries
        BY <1>7, <3>2, <3>5
      <4>2. CASE Outdated(j, t)
        <5>1. j.outcomes[t.obj] # None /\ j.outcomes[t.obj].seq > t.seq
          BY <1>6, <3>1, <3>3, <4>2 DEF Outdated
        <5>2. r.outcomes[t.obj] # None => r.outcomes[t.obj].seq \in Nat
          BY <1>10, <3>3 DEF Outcomes, Outcome
        <5> QED
          BY <1>6, <1>12, <3>3, <5>1, <5>2
      <4>3. CASE ~Outdated(j, t)
        <5>1. t \in RememberedOf(j, t.obj)
          BY <1>2, <4>1, <4>3 DEF RememberedOf
        <5>2. r.outcomes[t.obj] # None /\ t.seq <= r.outcomes[t.obj].seq /\ r.outcomes[t.obj] \in Outcome
          BY <1>8, <3>3, <5>1
        <5>3. r.outcomes[t.obj].seq \in Nat
          BY <5>2 DEF Outcome
        <5> QED
          BY <3>3, <5>2, <5>3
      <4> QED
        BY <4>2, <4>3
    <3> QED
      BY <3>4, <3>5
  <2> QED
    BY <2>1, <2>2, <2>3, <2>4, <2>5 DEF Kept
<1> QED
  BY <1>1, <1>2, <1>4, <1>11, <1>13, <1>14, <1>15 DEF True

\* The numbers the tickets and the outcome of an object have, with its counter.
NumbersOf(j, o) ==
    {t.seq : t \in {u \in j.entries : u.obj = o}}
    \cup (IF j.outcomes[o] = None THEN {} ELSE {j.outcomes[o].seq}) \cup {j.attempts[o].sequence}

\* The highest of them.
TopOf(j, o) == CHOOSE n \in NumbersOf(j, o) : \A m \in NumbersOf(j, o) : m <= n

\* The journal whose outcomes are all after the last delete.
Unfenced(j) ==
    Made(j.attempts,
         [o \in Objects |-> IF j.outcomes[o] # None /\ j.attempts[o].deleted >= j.outcomes[o].seq
                            THEN None ELSE j.outcomes[o]],
         j.entries)

\* No ticket has a number its object's counter has not reached.
LEMMA TopIs ==
    ASSUME NEW j \in Journals, NEW k \in Nat, KeptIn(j, k), NEW o \in Objects
    PROVE  TopOf(j, o) = j.attempts[o].sequence
<1>1. PICK s \in Nat : s = j.attempts[o].sequence
  BY DEF Journals, Attempts
<1>2. \A t \in j.entries : t.obj = o => t.seq <= s /\ t.seq \in Nat
  BY <1>1 DEF Journals, Ticket, KeptIn, Kept
<1>3. j.outcomes[o] # None => j.outcomes[o].seq <= s /\ j.outcomes[o].seq \in Nat
  BY <1>2 DEF KeptIn, Kept
<1>4. \A m \in NumbersOf(j, o) : m <= s /\ m \in Nat
  BY <1>1, <1>2, <1>3 DEF NumbersOf
<1>5. s \in NumbersOf(j, o)
  BY <1>1 DEF NumbersOf
<1>6. \A n \in NumbersOf(j, o) : (\A m \in NumbersOf(j, o) : m <= n) => n = s
  BY <1>4, <1>5
<1>7. \E n \in NumbersOf(j, o) : \A m \in NumbersOf(j, o) : m <= n
  BY <1>4, <1>5
<1> QED
  BY <1>1, <1>6, <1>7 DEF TopOf

\* The constructor leaves what Recovered makes of the outcomes after the last delete.
LEMMA OpenIs ==
    ASSUME NEW j \in Journals, NEW k \in Nat, KeptIn(j, k)
    PROVE  /\ open(j) = Leaves(Recovered(Unfenced(j)), <<"attempts", "outcomes", "entries">>)
           /\ Unfenced(j) \in Journals /\ KeptIn(Unfenced(j), k)
           /\ \A o \in Objects : Unfenced(j).outcomes[o] # None =>
                  Unfenced(j).outcomes[o].seq > Unfenced(j).attempts[o].deleted
<1>2. PICK counted : counted = [j EXCEPT !.attempts = [o \in Objects |-> [@[o] EXCEPT !.sequence = TopOf(j, o)]]]
  OBVIOUS
<1>3. \A o \in Objects : TopOf(j, o) = j.attempts[o].sequence
  BY TopIs
<1>4. /\ j.attempts \in [Objects -> Attempts] /\ j.outcomes \in Outcomes /\ j.entries \subseteq Ticket
  BY DEF Journals
<1>5. counted = j
  <2>1. \A o \in Objects : [j.attempts[o] EXCEPT !.sequence = TopOf(j, o)] = j.attempts[o]
    BY <1>3, <1>4 DEF Attempts
  <2>2. [o \in Objects |-> [j.attempts[o] EXCEPT !.sequence = TopOf(j, o)]] = j.attempts
    BY <1>4, <2>1
  <2> QED
    BY <1>2, <2>2 DEF Journals
<1>6. PICK fenced : fenced = [counted EXCEPT !.outcomes =
            [o \in Objects |-> IF @[o] # None /\ counted.attempts[o].deleted >= @[o].seq THEN None ELSE @[o]]]
  OBVIOUS
<1>7. fenced = Unfenced(j)
  BY <1>5, <1>6 DEF Unfenced, Made, Journals
<1>8. open(j) = Leaves(Recovered(fenced), <<"attempts", "outcomes", "entries">>)
  BY <1>2, <1>6 DEF open, NumbersOf, TopOf
<1>9. PICK u : u = Unfenced(j)
  OBVIOUS
<1>10. /\ u.attempts = j.attempts /\ u.entries = j.entries
       /\ u.outcomes = [o \in Objects |-> IF j.outcomes[o] # None /\ j.attempts[o].deleted >= j.outcomes[o].seq
                                          THEN None ELSE j.outcomes[o]]
       /\ u = [attempts |-> u.attempts, outcomes |-> u.outcomes, entries |-> u.entries]
  BY <1>9 DEF Unfenced, Made
<1>11. u \in Journals
  <2>1. u.outcomes \in Outcomes
    BY <1>4, <1>10 DEF Outcomes
  <2> QED
    BY <1>4, <1>10, <2>1 DEF Journals
<1>12. \A o \in Objects : /\ u.outcomes[o] # None => u.outcomes[o] = j.outcomes[o] /\ u.outcomes[o].seq > u.attempts[o].deleted
                          /\ j.outcomes[o] # None /\ j.outcomes[o].seq > j.attempts[o].deleted => u.outcomes[o] = j.outcomes[o]
  <2>1. \A o \in Objects : /\ j.attempts[o].deleted \in Int
                           /\ j.outcomes[o] # None => j.outcomes[o].seq \in Nat
    BY <1>4 DEF Attempts, Outcomes, Outcome
  <2> QED
    BY <1>10, <2>1
<1>13. KeptIn(u, k)
  <2>1. \A t \in j.entries : Completed(t) /\ t.seq > j.attempts[t.obj].deleted =>
          u.outcomes[t.obj] # None /\ u.outcomes[t.obj].seq >= t.seq
    <3>1. SUFFICES ASSUME NEW t \in j.entries, Completed(t), t.seq > j.attempts[t.obj].deleted
                   PROVE  u.outcomes[t.obj] # None /\ u.outcomes[t.obj].seq >= t.seq
      OBVIOUS
    <3>2. t.obj \in Objects /\ t.seq \in Nat /\ j.attempts[t.obj].deleted \in Int
      BY <1>4 DEF Ticket, Attempts
    <3>3. j.outcomes[t.obj] # None /\ j.outcomes[t.obj].seq >= t.seq
      BY <3>1 DEF KeptIn, Kept
    <3>4. j.outcomes[t.obj].seq \in Nat
      BY <1>4, <3>2, <3>3 DEF Outcomes, Outcome
    <3>5. u.outcomes[t.obj] = j.outcomes[t.obj]
      BY <1>12, <3>1, <3>2, <3>3, <3>4
    <3> QED
      BY <3>3, <3>5
  <2>2. \A o \in Objects : u.outcomes[o] # None =>
          \E t \in j.entries : /\ t.obj = o /\ t.op = u.outcomes[o].op /\ t.seq = u.outcomes[o].seq
                               /\ Completed(t) => t.state = u.outcomes[o].outcome
    BY <1>12 DEF KeptIn, Kept
  <2> QED
    BY <1>10, <2>1, <2>2 DEF KeptIn, Kept
<1> QED
  BY <1>7, <1>8, <1>9, <1>11, <1>12, <1>13

\* The constructor, from whatever files a dead process left.
LEMMA OpenDoes ==
    ASSUME NEW d \in Disks, NEW n, NEW e, NEW f, NEW k \in Nat, Safe(d, n, e, f),
           NEW j \in Journals, KeptIn(j, k), Has(d, j)
    PROVE  LET opened == open(j) IN
           /\ Does(Durables(n, e, f, k), d, opened) /\ True(opened.journal, k)
           /\ \A t \in opened.journal.entries : Completed(t)
<1>1. PICK u, r : u = Unfenced(j) /\ r = Recovered(u)
  OBVIOUS
<1>2. open(j) = Leaves(r, <<"attempts", "outcomes", "entries">>) /\ u \in Journals /\ KeptIn(u, k)
  BY <1>1, OpenIs
<1>3. u.attempts = j.attempts /\ u.entries = j.entries
  BY <1>1 DEF Unfenced, Made
<1>4. /\ True(r, k) /\ r.attempts = u.attempts /\ Kept(u.attempts, r.outcomes, u.entries, k)
      /\ \A t \in r.entries : Completed(t)
  <2>1. \A o \in Objects : u.outcomes[o] # None => u.outcomes[o].seq > u.attempts[o].deleted
    BY <1>1, OpenIs
  <2> QED
    BY <1>1, <1>2, <2>1, RecoveredKept
<1>5. r \in Journals /\ KeptIn(r, k)
  BY <1>4 DEF True, KeptIn
<1>6. PICK m, p, q : m = Stepped(j, r, "attempts") /\ p = Stepped(m, r, "outcomes") /\ q = Stepped(p, r, "entries")
  OBVIOUS
<1>7. "attempts" \in Files /\ "outcomes" \in Files /\ "entries" \in Files
  BY DEF Files
<1>8. m \in Journals /\ m.attempts = r.attempts /\ m.outcomes = j.outcomes /\ m.entries = j.entries
  BY <1>5, <1>6, <1>7, SteppedIs
<1>9. p \in Journals /\ p.attempts = r.attempts /\ p.outcomes = r.outcomes /\ p.entries = j.entries
  <2>1. p \in Journals /\ p.attempts = m.attempts /\ p.outcomes = r.outcomes /\ p.entries = m.entries
    BY <1>5, <1>6, <1>7, <1>8, SteppedIs
  <2> QED
    BY <1>8, <2>1
<1>10. q \in Journals /\ q.attempts = r.attempts /\ q.outcomes = r.outcomes /\ q.entries = r.entries
  <2>1. q \in Journals /\ q.attempts = p.attempts /\ q.outcomes = p.outcomes /\ q.entries = r.entries
    <3>1. q.attempts = p.attempts /\ q.outcomes = p.outcomes /\ q.entries = r.entries
      BY <1>6 DEF Stepped, Made
    <3>2. q \in Journals
      BY <1>5, <1>6, <1>7, <1>9, SteppedIs
    <3> QED
      BY <3>1, <3>2
  <2> QED
    BY <1>9, <2>1
<1>11. q = r
  BY <1>5, <1>10, SameJournal
<1>12. KeptIn(m, k) /\ KeptIn(p, k)
  BY <1>3, <1>4, <1>8, <1>9 DEF KeptIn
<1>13. Does(Durables(n, e, f, k), d, Leaves(r, <<"attempts", "outcomes", "entries">>))
  BY <1>5, <1>6, <1>7, <1>11, <1>12, DoesThree
<1>14. Leaves(r, <<"attempts", "outcomes", "entries">>).journal = r
  BY DEF Leaves
<1> QED
  BY <1>2, <1>4, <1>13, <1>14

-----------------------------------------------------------------------------
(* The files of the sources *)

\* Two disks that have the same journal.
SameJournals(d, e) == d.attempts = e.attempts /\ d.outcomes = e.outcomes /\ d.entries = e.entries

\* What a write of a source does to a disk.
LEMMA WrittenSource ==
    ASSUME NEW d \in Disks, NEW o \in Objects, NEW v \in Maybe
    PROVE  LET h == Written(d, File(o, v)) IN
           /\ h \in Disks /\ h.file = [d.file EXCEPT ![o] = v] /\ h.copy = d.copy
           /\ h.set = d.set /\ h.live = d.live /\ SameJournals(h, d)
<1>1. /\ d.file \in Views /\ d.copy \in Views /\ d.live \in Views /\ d.set \in Saveds \cup {NoFile}
      /\ d.attempts \in [Objects -> Attempts] /\ d.outcomes \in Outcomes /\ d.entries \in SUBSET Ticket
  BY DEF Disks
<1>2. [d.file EXCEPT ![o] = v] \in Views
  BY <1>1 DEF Views
<1>3. PICK w, h : w = File(o, v) /\ h = Written(d, w)
  OBVIOUS
<1>4. w.part = "file" /\ w.obj = o /\ w.value = v
  BY <1>3 DEF File
<1> QED
  BY <1>1, <1>2, <1>3, <1>4 DEF Written, Disks, SameJournals

\* What a write of an active copy does.
LEMMA WrittenCopy ==
    ASSUME NEW d \in Disks, NEW o \in Objects, NEW v \in Maybe
    PROVE  LET h == Written(d, Copy(o, v)) IN
           /\ h \in Disks /\ h.file = d.file /\ h.copy = [d.copy EXCEPT ![o] = v]
           /\ h.set = d.set /\ h.live = d.live /\ SameJournals(h, d)
<1>1. /\ d.file \in Views /\ d.copy \in Views /\ d.live \in Views /\ d.set \in Saveds \cup {NoFile}
      /\ d.attempts \in [Objects -> Attempts] /\ d.outcomes \in Outcomes /\ d.entries \in SUBSET Ticket
  BY DEF Disks
<1>2. [d.copy EXCEPT ![o] = v] \in Views
  BY <1>1 DEF Views
<1>3. PICK w, h : w = Copy(o, v) /\ h = Written(d, w)
  OBVIOUS
<1>4. w.part = "copy" /\ w.obj = o /\ w.value = v
  BY <1>3 DEF Copy
<1> QED
  BY <1>1, <1>2, <1>3, <1>4 DEF Written, Disks, SameJournals

\* What a write of inactive.json does.
LEMMA WrittenSet ==
    ASSUME NEW d \in Disks, NEW s \in Saveds
    PROVE  LET h == Written(d, Set(s)) IN
           /\ h \in Disks /\ h.file = d.file /\ h.copy = d.copy
           /\ h.set = s /\ h.live = d.live /\ SameJournals(h, d)
<1>1. /\ d.file \in Views /\ d.copy \in Views /\ d.live \in Views /\ d.set \in Saveds \cup {NoFile}
      /\ d.attempts \in [Objects -> Attempts] /\ d.outcomes \in Outcomes /\ d.entries \in SUBSET Ticket
  BY DEF Disks
<1>2. s \in Saveds \cup {NoFile}
  BY <1>1 DEF Views
<1>3. PICK w, h : w = Set(s) /\ h = Written(d, w)
  OBVIOUS
<1>4. w.part = "set" /\ w.value = s
  BY <1>3 DEF Set
<1> QED
  BY <1>1, <1>2, <1>3, <1>4 DEF Written, Disks, SameJournals

\* What is saved of the objects, with one more and with one less.
LEMMA SavedIs ==
    ASSUME NEW saved \in Saveds, NEW o \in Objects, NEW v \in Versions
    PROVE  /\ With(saved, o, v) \in Saveds /\ DOMAIN With(saved, o, v) = DOMAIN saved \cup {o}
           /\ Without(saved, o) \in Saveds /\ DOMAIN Without(saved, o) = DOMAIN saved \ {o}
           /\ o \notin DOMAIN saved => Without(saved, o) = saved
           /\ DOMAIN saved \subseteq Objects
<1>1. PICK objects \in SUBSET Objects : saved \in [objects -> Record]
  BY DEF Saveds
<1>2. DOMAIN saved = objects
  BY <1>1
<1>3. [digest |-> v, outside |-> FALSE] \in Record
  BY DEF Record
<1>4. With(saved, o, v) \in [objects \cup {o} -> Record]
  BY <1>1, <1>2, <1>3 DEF With
<1>5. Without(saved, o) \in [objects \ {o} -> Record]
  BY <1>1, <1>2 DEF Without
<1>6. objects \cup {o} \in SUBSET Objects /\ objects \ {o} \in SUBSET Objects
  OBVIOUS
<1>7. With(saved, o, v) \in Saveds /\ Without(saved, o) \in Saveds
  BY <1>4, <1>5, <1>6 DEF Saveds
<1>8. o \notin DOMAIN saved => Without(saved, o) = saved
  BY <1>1, <1>2 DEF Without
<1> QED
  BY <1>1, <1>2, <1>4, <1>5, <1>7, <1>8

\* A disk with the same journal as a durable one is durable if its sources are safe.
LEMMA DurableIf ==
    ASSUME NEW n, NEW e, NEW f, NEW k, NEW d, NEW h \in Disks, d \in Durables(n, e, f, k) \/ KeptIn(d, k),
           SameJournals(h, d), \A x \in Objects : SafeAt(h, x, n, e, f)
    PROVE  h \in Durables(n, e, f, k)
BY DEF Durables, KeptIn, SameJournals, Safe

\* Writing: a good disk, by writes to a good disk.
Leads(good, d, ws, h) == (\E X : ws \in Seq(X)) /\ Reaches(good, d, ws, h)

\* They lead to a disk that is settled and has these objects as they were.
Finishes(good, d, ws, j, s, n, e, same) ==
    \E g \in good : /\ Leads(good, d, ws, g) /\ Settles(g, j, s, n, e)
                    /\ \A x \in same : g.file[x] = d.file[x]

\* Nothing leads nowhere.
LEMMA LeadsNothing ==
    ASSUME NEW good, NEW d \in good
    PROVE  Leads(good, d, <<>>, d)
<1>0. <<>> \in Seq({})
  OBVIOUS
<1>1. PICK ws : ws = <<>> /\ ws \in Seq({})
  BY <1>0
<1>2. \E X : ws \in Seq(X)
  BY <1>1, Zenon
<1> QED
  BY <1>1, <1>2, ReachesNothing DEF Leads

\* One write leads to what it writes.
LEMMA LeadsOne ==
    ASSUME NEW good, NEW d \in good, NEW w, Written(d, w) \in good
    PROVE  Leads(good, d, <<w>>, Written(d, w))
<1>1. <<w>> \in Seq({w})
  OBVIOUS
<1>2. \E X : <<w>> \in Seq(X)
  BY <1>1, Zenon
<1> QED
  BY <1>2, ReachesOne DEF Leads

\* Two writes, one behind the other.
LEMMA Pair ==
    ASSUME NEW a, NEW b
    PROVE  <<a>> \o <<b>> = <<a, b>>
<1>1. PICK s, t, u : s = <<a>> /\ t = <<b>> /\ u = <<a, b>>
  OBVIOUS
<1>2. s \in Seq({a, b}) /\ t \in Seq({a, b}) /\ u \in Seq({a, b})
  BY <1>1
<1>3. Len(s) = 1 /\ Len(t) = 1 /\ Len(u) = 2 /\ s[1] = a /\ t[1] = b /\ u[1] = a /\ u[2] = b
  BY <1>1
<1>4. PICK c : c = s \o t
  OBVIOUS
<1>5. /\ c \in Seq({a, b}) /\ Len(c) = Len(s) + Len(t)
      /\ \A i \in 1 .. Len(s) + Len(t) : c[i] = IF i <= Len(s) THEN s[i] ELSE t[i - Len(s)]
  BY <1>2, <1>4, ConcatProperties
<1>6. Len(c) = 2 /\ c[1] = a /\ c[2] = b
  BY <1>3, <1>5
<1>7. \A i \in 1 .. Len(c) : c[i] = u[i]
  BY <1>3, <1>6
<1>8. c = u
  BY <1>2, <1>3, <1>5, <1>6, <1>7, SeqEqual
<1> QED
  BY <1>1, <1>4, <1>8

\* One sequence of writes behind another.
LEMMA LeadsThen ==
    ASSUME NEW good, NEW d, NEW h, NEW g, NEW ws, NEW vs, Leads(good, d, ws, h), Leads(good, h, vs, g)
    PROVE  Leads(good, d, ws \o vs, g)
<1>1. PICK X : ws \in Seq(X)
  BY DEF Leads
<1>2. PICK Y : vs \in Seq(Y)
  BY DEF Leads
<1>3. Reaches(good, d, ws \o vs, g) /\ ws \o vs \in Seq(X \cup Y)
  BY <1>1, <1>2, ReachesThen, Zenon DEF Leads
<1> QED
  BY <1>3, Zenon DEF Leads

\* What a disk that is settled says of an object that is inactive.
LEMMA SettledSet ==
    ASSUME NEW d, NEW j, NEW saved, NEW n, NEW e, Settles(d, j, saved, n, e), saved \in Saveds
    PROVE  /\ DOMAIN saved # {} => d.set = saved /\ d.set # NoFile
           /\ d.set # NoFile => d.set = saved
           /\ \A o \in Objects \ DOMAIN saved : Sound(d, o, n, e)
BY NothingThere DEF Settles

\* The writes of a save.
Saving(d, saved, o, v) ==
    (IF o \in DOMAIN saved \/ d.file[o] = Absent \/ d.live[o] = Absent THEN <<>> ELSE <<Copy(o, d.live[o])>>)
    \o <<Set(With(saved, o, v)), File(o, v)>>

\* The active version of an object that is saved.
Forced(d, saved, o, f) ==
    IF o \in DOMAIN saved THEN f
    ELSE [f EXCEPT ![o] = IF d.file[o] = Absent THEN Absent ELSE d.live[o]]

\* A save: the copy keeps the live version before the set says that the file may differ.
LEMMA SaveLeads ==
    ASSUME NEW n, NEW e, NEW f \in Views, NEW k, NEW d \in Durables(n, e, f, k), NEW j,
           NEW saved \in Saveds, Settles(d, j, saved, n, e), NEW o \in Objects, NEW v \in Versions
    PROVE  Finishes(Durables(n, e, Forced(d, saved, o, f), k), d, Saving(d, saved, o, v),
                    j, With(saved, o, v), n, e, Objects \ {o})
<1>0. d \in Disks /\ Safe(d, n, e, f) /\ Kept(d.attempts, d.outcomes, d.entries, k)
  BY DEF Durables
<1>1. /\ d.file \in [Objects -> Maybe] /\ d.copy \in [Objects -> Maybe] /\ d.live \in [Objects -> Maybe]
      /\ d.set \in Saveds \cup {NoFile}
  BY <1>0 DEF Disks, Views
<1>2. PICK F, s : F = Forced(d, saved, o, f) /\ s = With(saved, o, v)
  OBVIOUS
<1>3. /\ s \in Saveds /\ DOMAIN s = DOMAIN saved \cup {o} /\ DOMAIN saved \subseteq Objects /\ s # NoFile
  <2>1. s \in Saveds /\ DOMAIN s = DOMAIN saved \cup {o} /\ DOMAIN saved \subseteq Objects
    BY <1>2, SavedIs
  <2> QED
    BY <2>1, NothingThere
<1>4. /\ DOMAIN saved # {} => d.set = saved /\ d.set # NoFile
      /\ d.set # NoFile => d.set = saved
      /\ \A x \in Objects \ DOMAIN saved : Sound(d, x, n, e)
  BY SettledSet
<1>5. /\ \A x \in Objects \ {o} : F[x] = f[x]
      /\ o \in DOMAIN saved => F[o] = f[o]
      /\ o \notin DOMAIN saved => F[o] = IF d.file[o] = Absent THEN Absent ELSE d.live[o]
  BY <1>2 DEF Forced, Views
<1>6. PICK good : good = Durables(n, e, F, k)
  OBVIOUS
<1>7. PICK keep \in BOOLEAN : keep = (o \notin DOMAIN saved /\ d.file[o] # Absent /\ d.live[o] # Absent)
  OBVIOUS
<1>8. PICK c : c = IF keep THEN Written(d, Copy(o, d.live[o])) ELSE d
  OBVIOUS
<1>9. /\ c \in Disks /\ c.file = d.file /\ c.set = d.set /\ c.live = d.live /\ SameJournals(c, d)
      /\ c.copy = IF keep THEN [d.copy EXCEPT ![o] = d.live[o]] ELSE d.copy
  <2>1. d.live[o] \in Maybe
    BY <1>1
  <2>2. CASE keep
    BY <1>0, <1>8, <2>1, <2>2, WrittenCopy
  <2>3. CASE ~keep
    BY <1>0, <1>8, <2>3 DEF SameJournals
  <2> QED
    BY <2>2, <2>3
<1>10. d \in good
  <2>1. ASSUME NEW x \in Objects PROVE SafeAt(d, x, n, e, F)
    BY <1>0, <1>4, <1>5 DEF Safe, SafeAt
  <2> QED
    BY <1>0, <1>6, <2>1 DEF Durables, Safe
<1>11. c \in good
  <2>1. ASSUME NEW x \in Objects PROVE SafeAt(c, x, n, e, F)
    <3>1. SafeAt(d, x, n, e, F) /\ SafeAt(d, o, n, e, F)
      BY <1>6, <1>10 DEF Durables, Safe
    <3>2. Sound(c, x, n, e) <=> Sound(d, x, n, e)
      BY <1>9 DEF Sound
    <3>3. CASE ~keep \/ x # o
      <4>1. c.copy[x] = d.copy[x]
        BY <1>1, <1>9, <3>3
      <4>2. x \in Claimed(c) <=> x \in Claimed(d)
        BY <1>9, <4>1 DEF Claimed
      <4> QED
        BY <1>9, <3>1, <3>2, <4>1, <4>2 DEF SafeAt
    <3>4. CASE keep /\ x = o
      <4>1. c.copy[x] = d.live[x]
        BY <1>1, <1>9, <3>4
      <4>2. Sound(d, x, n, e)
        BY <1>4, <1>7, <3>4
      <4>3. c.set # NoFile => x \notin DOMAIN c.set
        BY <1>4, <1>7, <1>9, <3>4
      <4> QED
        BY <1>9, <3>1, <3>2, <4>1, <4>2, <4>3 DEF SafeAt
    <3> QED
      BY <3>3, <3>4
  <2> QED
    BY <1>6, <1>9, <1>10, <2>1, DurableIf
<1>12. PICK h : h = Written(c, Set(s))
  OBVIOUS
<1>13. h \in Disks /\ h.file = d.file /\ h.copy = c.copy /\ h.set = s /\ h.live = d.live /\ SameJournals(h, d)
  <2>1. h \in Disks /\ h.file = c.file /\ h.copy = c.copy /\ h.set = s /\ h.live = c.live /\ SameJournals(h, c)
    BY <1>3, <1>9, <1>12, WrittenSet
  <2> QED
    BY <1>9, <2>1 DEF SameJournals
<1>14. ASSUME NEW x \in Objects PROVE SafeAt(h, x, n, e, F)
  <2>1. SafeAt(c, x, n, e, F) /\ SafeAt(d, x, n, e, F)
    BY <1>6, <1>10, <1>11 DEF Durables, Safe
  <2>2. Claimed(h) = DOMAIN saved \cup {o}
    BY <1>3, <1>13 DEF Claimed
  <2>3. x \notin Claimed(h) => Sound(h, x, n, e)
    <3>1. Sound(h, x, n, e) <=> Sound(d, x, n, e)
      BY <1>13 DEF Sound
    <3> QED
      BY <1>4, <2>2, <3>1
  <2>4. x \in DOMAIN saved \cup {o} => F[x] \in {Absent, h.copy[x]}
    <3>1. CASE x \in DOMAIN saved
      <4>1. d.set = saved /\ d.set # NoFile /\ F[x] \in {Absent, d.copy[x]}
        BY <1>4, <2>1, <3>1 DEF SafeAt
      <4>2. h.copy[x] = d.copy[x]
        BY <1>1, <1>7, <1>9, <1>13, <3>1
      <4> QED
        BY <4>1, <4>2
    <3>2. CASE x = o /\ o \notin DOMAIN saved
      <4>1. CASE keep
        BY <1>1, <1>5, <1>7, <1>9, <1>13, <3>2, <4>1
      <4>2. CASE ~keep
        BY <1>5, <1>7, <3>2, <4>2
      <4> QED
        BY <4>1, <4>2
    <3> QED
      BY <3>1, <3>2
  <2>5. h.live[x] \in n[x] \cup {Absent} /\ h.copy[x] \in n[x] \cup {Absent}
    BY <1>9, <1>13, <2>1 DEF SafeAt
  <2> QED
    BY <1>3, <1>13, <2>2, <2>3, <2>4, <2>5 DEF SafeAt
<1>15. h \in good
  BY <1>6, <1>10, <1>13, <1>14, DurableIf
<1>16. PICK g : g = Written(h, File(o, v))
  OBVIOUS
<1>17. /\ g \in Disks /\ g.file = [d.file EXCEPT ![o] = v] /\ g.copy = h.copy /\ g.set = s
       /\ g.live = h.live /\ SameJournals(g, d)
  <2>1. v \in Maybe
    BY DEF Maybe
  <2>2. /\ g \in Disks /\ g.file = [h.file EXCEPT ![o] = v] /\ g.copy = h.copy /\ g.set = h.set
        /\ g.live = h.live /\ SameJournals(g, h)
    BY <1>13, <1>16, <2>1, WrittenSource
  <2> QED
    BY <1>13, <2>2 DEF SameJournals
<1>18. ASSUME NEW x \in Objects PROVE SafeAt(g, x, n, e, F)
  <2>1. SafeAt(h, x, n, e, F)
    BY <1>14
  <2>2. Claimed(g) = Claimed(h) /\ Claimed(h) = DOMAIN saved \cup {o}
    BY <1>3, <1>13, <1>17 DEF Claimed
  <2>3. x # o => g.file[x] = h.file[x]
    BY <1>1, <1>13, <1>17
  <2>4. x # o => (Sound(g, x, n, e) <=> Sound(h, x, n, e))
    BY <1>17, <2>3 DEF Sound
  <2> QED
    BY <1>13, <1>17, <2>1, <2>2, <2>4 DEF SafeAt
<1>19. g \in good
  BY <1>6, <1>10, <1>17, <1>18, DurableIf
<1>20. Settles(g, j, s, n, e)
  <2>1. \A x \in Objects \ DOMAIN s : Sound(g, x, n, e)
    <3>1. SUFFICES ASSUME NEW x \in Objects, x \notin DOMAIN s PROVE Sound(g, x, n, e)
      OBVIOUS
    <3>2. x # o /\ Sound(d, x, n, e)
      BY <1>3, <1>4, <3>1
    <3>3. g.file[x] = d.file[x] /\ g.live[x] = d.live[x]
      BY <1>1, <1>13, <1>17, <3>2
    <3> QED
      BY <3>2, <3>3 DEF Sound
  <2> QED
    BY <1>17, <2>1 DEF Settles, SameJournals
<1>21. Leads(good, d, Saving(d, saved, o, v), g)
  <2>1. PICK as : as = IF keep THEN <<Copy(o, d.live[o])>> ELSE <<>>
    OBVIOUS
  <2>2. Leads(good, d, as, c)
    <3>1. CASE keep
      <4>1. as = <<Copy(o, d.live[o])>> /\ c = Written(d, Copy(o, d.live[o]))
        BY <1>8, <2>1, <3>1
      <4> QED
        BY <1>10, <1>11, <4>1, LeadsOne
    <3>2. CASE ~keep
      <4>1. as = <<>> /\ c = d
        BY <1>8, <2>1, <3>2
      <4> QED
        BY <1>10, <4>1, LeadsNothing
    <3> QED
      BY <3>1, <3>2
  <2>3. PICK bs, ls : bs = <<Set(s)>> /\ ls = <<File(o, v)>>
    OBVIOUS
  <2>4. Leads(good, c, bs, h) /\ Leads(good, h, ls, g)
    BY <1>11, <1>12, <1>15, <1>16, <1>19, <2>3, LeadsOne
  <2>5. PICK ms : ms = bs \o ls
    OBVIOUS
  <2>6. Leads(good, c, ms, g)
    BY <2>4, <2>5, LeadsThen
  <2>7. Leads(good, d, as \o ms, g)
    BY <2>2, <2>6, LeadsThen
  <2>8. ms = <<Set(s), File(o, v)>>
    BY <2>3, <2>5, Pair, Zenon
  <2>9. Saving(d, saved, o, v) = as \o <<Set(s), File(o, v)>>
    <3>1. (IF o \in DOMAIN saved \/ d.file[o] = Absent \/ d.live[o] = Absent THEN <<>> ELSE <<Copy(o, d.live[o])>>) = as
      BY <1>7, <2>1
    <3> QED
      BY <1>2, <3>1 DEF Saving
  <2> QED
    BY <2>7, <2>8, <2>9
<1>22. \A x \in Objects \ {o} : g.file[x] = d.file[x]
  BY <1>1, <1>17
<1>23. Finishes(good, d, Saving(d, saved, o, v), j, s, n, e, Objects \ {o})
  BY <1>19, <1>20, <1>21, <1>22 DEF Finishes
<1> QED
  BY <1>2, <1>6, <1>23

Retiring(saved, o) ==
    (IF o \in DOMAIN saved THEN <<Set(Without(saved, o))>> ELSE <<>>) \o <<Copy(o, Absent)>>

\* An object that is active and sound leaves the set, then its copy goes.
LEMMA RetireLeads ==
    ASSUME NEW n, NEW e, NEW f, NEW k, NEW d \in Durables(n, e, f, k), NEW j,
           NEW saved \in Saveds, Settles(d, j, saved, n, e), NEW o \in Objects,
           f[o] = Absent, Sound(d, o, n, e)
    PROVE  Finishes(Durables(n, e, f, k), d, Retiring(saved, o), j, Without(saved, o), n, e, Objects)
<1>0. d \in Disks /\ \A x \in Objects : SafeAt(d, x, n, e, f)
  BY DEF Durables, Safe
<1>1. /\ d.file \in [Objects -> Maybe] /\ d.copy \in [Objects -> Maybe] /\ d.live \in [Objects -> Maybe]
      /\ d.set \in Saveds \cup {NoFile}
  BY <1>0 DEF Disks, Views
<1>2. PICK good, s : good = Durables(n, e, f, k) /\ s = Without(saved, o)
  OBVIOUS
<1>3. /\ s \in Saveds /\ DOMAIN s = DOMAIN saved \ {o} /\ DOMAIN saved \subseteq Objects
      /\ o \notin DOMAIN saved => s = saved
  <2>1. First \in Versions
    BY StoreAssumption
  <2> QED
    BY <1>2, <2>1, SavedIs
<1>4. s # NoFile
  BY <1>3, NothingThere
<1>5. /\ DOMAIN saved # {} => d.set = saved /\ d.set # NoFile
      /\ d.set # NoFile => d.set = saved
      /\ \A x \in Objects \ DOMAIN saved : Sound(d, x, n, e)
  BY SettledSet
<1>6. PICK h : h = IF o \in DOMAIN saved THEN Written(d, Set(s)) ELSE d
  OBVIOUS
<1>7. /\ h \in Disks /\ h.file = d.file /\ h.copy = d.copy /\ h.live = d.live /\ SameJournals(h, d)
      /\ h.set = IF o \in DOMAIN saved THEN s ELSE d.set
  <2>1. CASE o \in DOMAIN saved
    BY <1>0, <1>3, <1>6, <2>1, WrittenSet
  <2>2. CASE o \notin DOMAIN saved
    BY <1>0, <1>6, <2>2 DEF SameJournals
  <2> QED
    BY <2>1, <2>2
<1>8. \A x \in Objects : Sound(h, x, n, e) <=> Sound(d, x, n, e)
  BY <1>7 DEF Sound
<1>9. ASSUME NEW x \in Objects PROVE SafeAt(h, x, n, e, f)
  <2>1. CASE o \in DOMAIN saved
    <3>1. d.set = saved /\ d.set # NoFile /\ h.set = s
      BY <1>5, <1>7, <2>1
    <3>2. Claimed(h) = DOMAIN saved \ {o} /\ Claimed(d) = DOMAIN saved
      BY <1>3, <1>4, <3>1 DEF Claimed
    <3> QED
      BY <1>0, <1>3, <1>7, <1>8, <3>1, <3>2 DEF SafeAt
  <2>2. CASE o \notin DOMAIN saved
    <3>1. h = d
      BY <1>6, <2>2
    <3> QED
      BY <1>0, <3>1
  <2> QED
    BY <2>1, <2>2
<1>10. h \in good
  BY <1>2, <1>7, <1>9, DurableIf
<1>11. PICK g : g = Written(h, Copy(o, Absent))
  OBVIOUS
<1>12. /\ g \in Disks /\ g.file = d.file /\ g.copy = [d.copy EXCEPT ![o] = Absent] /\ g.set = h.set
       /\ g.live = d.live /\ SameJournals(g, d)
  <2>1. Absent \in Maybe
    BY DEF Maybe
  <2>2. /\ g \in Disks /\ g.file = h.file /\ g.copy = [h.copy EXCEPT ![o] = Absent] /\ g.set = h.set
        /\ g.live = h.live /\ SameJournals(g, h)
    BY <1>7, <1>11, <2>1, WrittenCopy
  <2> QED
    BY <1>7, <2>2 DEF SameJournals
<1>13. \A x \in Objects : Sound(g, x, n, e) <=> Sound(d, x, n, e)
  BY <1>12 DEF Sound
<1>14. ASSUME NEW x \in Objects PROVE SafeAt(g, x, n, e, f)
  <2>1. SafeAt(h, x, n, e, f)
    BY <1>9
  <2>2. CASE x # o
    <3>1. g.copy[x] = h.copy[x]
      BY <1>1, <1>7, <1>12, <2>2
    <3>2. x \in Claimed(g) <=> x \in Claimed(h)
      BY <1>12, <3>1 DEF Claimed
    <3> QED
      BY <1>7, <1>8, <1>12, <1>13, <2>1, <3>1, <3>2 DEF SafeAt
  <2>3. CASE x = o
    <3>1. g.copy[x] = Absent
      BY <1>1, <1>12, <2>3
    <3> QED
      BY <1>7, <1>12, <1>13, <2>1, <2>3, <3>1 DEF SafeAt
  <2> QED
    BY <2>2, <2>3
<1>15. g \in good
  BY <1>2, <1>12, <1>14, DurableIf
<1>16. Settles(g, j, s, n, e)
  <2>1. g.set = s \/ (g.set = NoFile /\ DOMAIN s = {})
    BY <1>3, <1>7, <1>12 DEF Settles
  <2>2. \A x \in Objects \ DOMAIN s : Sound(g, x, n, e)
    BY <1>3, <1>5, <1>13
  <2> QED
    BY <1>12, <2>1, <2>2 DEF Settles, SameJournals
<1>17. PICK as : as = IF o \in DOMAIN saved THEN <<Set(s)>> ELSE <<>>
  OBVIOUS
<1>18. Leads(good, d, as, h)
  <2>1. CASE o \in DOMAIN saved
    <3>1. as = <<Set(s)>> /\ h = Written(d, Set(s))
      BY <1>6, <1>17, <2>1
    <3> QED
      BY <1>2, <1>10, <3>1, LeadsOne
  <2>2. CASE o \notin DOMAIN saved
    <3>1. as = <<>> /\ h = d
      BY <1>6, <1>17, <2>2
    <3> QED
      BY <1>2, <3>1, LeadsNothing
  <2> QED
    BY <2>1, <2>2
<1>19. PICK cs : cs = <<Copy(o, Absent)>>
  OBVIOUS
<1>20. Leads(good, h, cs, g)
  BY <1>10, <1>11, <1>15, <1>19, LeadsOne
<1>21. Leads(good, d, as \o cs, g)
  BY <1>18, <1>20, LeadsThen
<1>22. as \o cs = Retiring(saved, o)
  BY <1>2, <1>17, <1>19 DEF Retiring
<1>23. Finishes(good, d, as \o cs, j, s, n, e, Objects)
  BY <1>12, <1>15, <1>16, <1>21 DEF Finishes
<1> QED
  BY <1>2, <1>22, <1>23

\* Its files are gone, and no version of it is active.
Removed(d, o) == Written(d, File(o, Absent))
Unforced(f, o) == [f EXCEPT ![o] = Absent]

\* From d to g, on which no version of o is active and the rest is as it was.
Clears(good, d, g, j, saved, n, e, o) ==
    /\ d \in good /\ g \in good /\ Settles(g, j, saved, n, e) /\ Sound(g, o, n, e)
    /\ \A x \in Objects \ {o} : g.file[x] = d.file[x]

\* The files of an object go: what is on disk is settled, and nothing is active of it.
LEMMA FileGone ==
    ASSUME NEW n, NEW e, NEW f \in Views, NEW k, NEW d \in Durables(n, e, f, k), NEW j,
           NEW saved \in Saveds, Settles(d, j, saved, n, e), NEW o \in Objects,
           NEW F, F = Unforced(f, o), NEW g, g = Removed(d, o)
    PROVE  Clears(Durables(n, e, F, k), d, g, j, saved, n, e, o)
<1>0. d \in Disks /\ \A x \in Objects : SafeAt(d, x, n, e, f)
  BY DEF Durables, Safe
<1>1. d.file \in [Objects -> Maybe] /\ f \in [Objects -> Maybe]
  BY <1>0 DEF Disks, Views
<1>3. /\ g \in Disks /\ g.file = [d.file EXCEPT ![o] = Absent] /\ g.copy = d.copy /\ g.set = d.set
      /\ g.live = d.live /\ SameJournals(g, d)
  <2>1. Absent \in Maybe
    BY DEF Maybe
  <2> QED
    BY <1>0, <2>1, WrittenSource DEF Removed
<1>4. \A x \in Objects : F[x] = IF x = o THEN Absent ELSE f[x]
  BY <1>1 DEF Unforced
<1>5. \A x \in Objects : SafeAt(d, x, n, e, F)
  BY <1>0, <1>4 DEF SafeAt
<1>6. g.file[o] = Absent /\ \A x \in Objects \ {o} : g.file[x] = d.file[x]
  BY <1>1, <1>3
<1>7. Sound(g, o, n, e) /\ \A x \in Objects \ {o} : Sound(g, x, n, e) <=> Sound(d, x, n, e)
  BY <1>3, <1>6 DEF Sound
<1>8. Claimed(g) = Claimed(d)
  BY <1>3 DEF Claimed
<1>9. ASSUME NEW x \in Objects PROVE SafeAt(g, x, n, e, F)
  <2>1. SafeAt(d, x, n, e, F)
    BY <1>5
  <2>2. Sound(d, x, n, e) => Sound(g, x, n, e)
    BY <1>7
  <2> QED
    BY <1>3, <1>8, <2>1, <2>2 DEF SafeAt
<1>10. d \in Durables(n, e, F, k)
  BY <1>0, <1>5 DEF Durables, Safe
<1>11. g \in Durables(n, e, F, k)
  BY <1>3, <1>9, <1>10, DurableIf
<1>12. Settles(g, j, saved, n, e)
  BY <1>3, <1>7 DEF Settles, SameJournals
<1> QED
  BY <1>6, <1>7, <1>10, <1>11, <1>12 DEF Clears

\* What comes behind writes that lead to a settled disk.
LEMMA FinishesThen ==
    ASSUME NEW good, NEW d, NEW ws, NEW j, NEW s, NEW n, NEW e, NEW same, NEW vs, NEW i, NEW r,
           Finishes(good, d, ws, j, s, n, e, same),
           \A g \in good : Settles(g, j, s, n, e) => Finishes(good, g, vs, i, r, n, e, same)
    PROVE  Finishes(good, d, ws \o vs, i, r, n, e, same)
<1>1. PICK g \in good : Leads(good, d, ws, g) /\ Settles(g, j, s, n, e) /\ \A x \in same : g.file[x] = d.file[x]
  BY DEF Finishes
<1>2. PICK h \in good : Leads(good, g, vs, h) /\ Settles(h, i, r, n, e) /\ \A x \in same : h.file[x] = g.file[x]
  BY <1>1 DEF Finishes
<1>3. Leads(good, d, ws \o vs, h)
  BY <1>1, <1>2, LeadsThen
<1> QED
  BY <1>1, <1>2, <1>3 DEF Finishes

\* Fewer objects as they were.
LEMMA FinishesLess ==
    ASSUME NEW good, NEW d, NEW ws, NEW j, NEW s, NEW n, NEW e, NEW all, NEW same,
           Finishes(good, d, ws, j, s, n, e, all), same \subseteq all
    PROVE  Finishes(good, d, ws, j, s, n, e, same)
BY Zenon DEF Finishes

\* A delete: the files, the set, the copy.
LEMMA DeleteLeads ==
    ASSUME NEW n, NEW e, NEW f \in Views, NEW k, NEW d \in Durables(n, e, f, k), NEW j,
           NEW saved \in Saveds, Settles(d, j, saved, n, e), NEW o \in Objects
    PROVE  Finishes(Durables(n, e, Unforced(f, o), k), d,
                    (<<File(o, Absent)>> \o (IF o \in DOMAIN saved THEN <<Set(Without(saved, o))>> ELSE <<>>))
                    \o <<Copy(o, Absent)>>, j, Without(saved, o), n, e, Objects \ {o})
<1>1. PICK F, c : F = Unforced(f, o) /\ c = Removed(d, o)
  OBVIOUS
<1>2. PICK good : good = Durables(n, e, F, k)
  OBVIOUS
<1>3. /\ d \in good /\ c \in good /\ Settles(c, j, saved, n, e) /\ Sound(c, o, n, e)
      /\ \A x \in Objects \ {o} : c.file[x] = d.file[x]
  <2>1. Clears(Durables(n, e, F, k), d, c, j, saved, n, e, o)
    BY <1>1, FileGone
  <2> QED
    BY <1>2, <2>1 DEF Clears
<1>4. F[o] = Absent
  BY <1>1 DEF Views, Unforced
<1>5. Finishes(good, c, Retiring(saved, o), j, Without(saved, o), n, e, Objects)
  BY <1>2, <1>3, <1>4, RetireLeads
<1>6. PICK ls, bs, cs : /\ ls = <<File(o, Absent)>> /\ cs = <<Copy(o, Absent)>>
                        /\ bs = IF o \in DOMAIN saved THEN <<Set(Without(saved, o))>> ELSE <<>>
  OBVIOUS
<1>7. PICK ms : ms = bs \o cs /\ ms = Retiring(saved, o)
  BY <1>6 DEF Retiring
<1>8. PICK h \in good : /\ Leads(good, c, ms, h) /\ Settles(h, j, Without(saved, o), n, e)
                        /\ \A x \in Objects : h.file[x] = c.file[x]
  BY <1>5, <1>7 DEF Finishes
<1>9. Leads(good, d, ls, c)
  BY <1>1, <1>3, <1>6, LeadsOne DEF Removed
<1>10. Leads(good, d, ls \o ms, h)
  BY <1>8, <1>9, LeadsThen
<1>11. ls \o ms = (ls \o bs) \o cs
  <2>1. PICK X : X = {File(o, Absent), Set(Without(saved, o)), Copy(o, Absent)}
    OBVIOUS
  <2>2. ls \in Seq(X) /\ cs \in Seq(X)
    BY <1>6, <2>1
  <2>3. bs \in Seq(X)
    <3>1. <<>> \in Seq(X) /\ <<Set(Without(saved, o))>> \in Seq(X)
      BY <2>1
    <3> QED
      BY <1>6, <3>1
  <2>4. ls \o (bs \o cs) = (ls \o bs) \o cs
    BY <2>2, <2>3, ConcatAssociative
  <2> QED
    BY <1>7, <2>4, Zenon
<1>12. Finishes(good, d, (ls \o bs) \o cs, j, Without(saved, o), n, e, Objects \ {o})
  BY <1>3, <1>8, <1>10, <1>11 DEF Finishes
<1> QED
  BY <1>1, <1>2, <1>6, <1>12

\* An operation of the journal, on a disk that is settled.
LEMMA JournalLeads ==
    ASSUME NEW n, NEW e, NEW f, NEW k, NEW g \in Durables(n, e, f, k), NEW j, NEW s,
           Settles(g, j, s, n, e), NEW op, op.journal \in Journals, Does(Durables(n, e, f, k), g, op)
    PROVE  Finishes(Durables(n, e, f, k), g, op.writes, op.journal, s, n, e, Objects)
<1>1. PICK good, h : good = Durables(n, e, f, k) /\ h = Holding(g, op.journal)
  OBVIOUS
<1>2. g \in Disks
  BY DEF Durables
<1>3. /\ h \in Disks /\ Has(h, op.journal) /\ h.file = g.file /\ h.copy = g.copy
      /\ h.live = g.live /\ h.set = g.set
  BY <1>1, <1>2, HoldingIs
<1>4. Leads(good, g, op.writes, h)
  BY <1>1 DEF Does, Leads
<1>5. h \in good
  <2>1. PICK X : op.writes \in Seq(X)
    BY DEF Does
  <2>2. Reaches(good, g, op.writes, h)
    BY <1>4 DEF Leads
  <2> QED
    BY <2>1, <2>2, ReachesFrom
<1>6. \A x \in Objects : Sound(h, x, n, e) <=> Sound(g, x, n, e)
  BY <1>3 DEF Sound
<1>7. Settles(h, op.journal, s, n, e)
  BY <1>3, <1>6 DEF Settles, Has
<1>8. Finishes(good, g, op.writes, op.journal, s, n, e, Objects)
  BY <1>3, <1>4, <1>5, <1>7 DEF Finishes
<1> QED
  BY <1>1, <1>8

\* A disk without the copies of these objects.
Dropped(d, gone) == [d EXCEPT !.copy = [x \in Objects |-> IF x \in gone THEN Absent ELSE @[x]]]

\* The copies of objects that are not in the set go, one after the other.
LEMMA OrphansLead ==
    ASSUME NEW n, NEW e, NEW f, NEW k, NEW d \in Durables(n, e, f, k), d.set # NoFile,
           NEW orphans \in Seq(Objects \ DOMAIN d.set)
    PROVE  \E g \in Durables(n, e, f, k) :
               /\ Leads(Durables(n, e, f, k), d, [i \in DOMAIN orphans |-> Copy(orphans[i], Absent)], g)
               /\ g.file = d.file /\ g.live = d.live /\ g.set = d.set /\ SameJournals(g, d)
<1>0. d \in Disks /\ \A x \in Objects : SafeAt(d, x, n, e, f)
  BY DEF Durables, Safe
<1>1. d.copy \in [Objects -> Maybe] /\ Absent \in Maybe
  BY <1>0 DEF Disks, Views, Maybe
<1>2. PICK len \in Nat : len = Len(orphans)
  OBVIOUS
<1>2a. PICK good : good = Durables(n, e, f, k)
  OBVIOUS
<1>3. \A i \in 1 .. len : orphans[i] \in Objects /\ orphans[i] \notin DOMAIN d.set
  BY <1>2
<1>4. PICK ws, ds : /\ ws = [i \in DOMAIN orphans |-> Copy(orphans[i], Absent)]
                    /\ ds = [i \in 1 .. len + 1 |-> Dropped(d, Firsts(orphans, i - 1))]
  OBVIOUS
<1>5. DOMAIN orphans = 1 .. len
  BY <1>2
<1>6. PICK X : ws \in Seq(X) /\ Len(ws) = len /\ \A i \in 1 .. len : ws[i] = Copy(orphans[i], Absent)
  <2>1. PICK X : X = {ws[i] : i \in 1 .. len}
    OBVIOUS
  <2>2. ws \in [1 .. len -> X]
    BY <1>4, <1>5, <2>1
  <2>3. ws \in Seq(X) /\ Len(ws) = len
    BY <2>2
  <2>4. \A i \in 1 .. len : ws[i] = Copy(orphans[i], Absent)
    BY <1>4, <1>5
  <2> QED
    BY <2>3, <2>4, Zenon
<1>7. ASSUME NEW i \in 1 .. len + 1
      PROVE  /\ ds[i] \in Disks /\ ds[i].file = d.file /\ ds[i].live = d.live /\ ds[i].set = d.set
             /\ SameJournals(ds[i], d)
             /\ ds[i].copy = [x \in Objects |-> IF x \in Firsts(orphans, i - 1) THEN Absent ELSE d.copy[x]]
  <2>1. PICK g, gone : g = ds[i] /\ gone = Firsts(orphans, i - 1)
    OBVIOUS
  <2>2. g = [d EXCEPT !.copy = [x \in Objects |-> IF x \in gone THEN Absent ELSE d.copy[x]]]
    BY <1>4, <2>1 DEF Dropped
  <2>3. [x \in Objects |-> IF x \in gone THEN Absent ELSE d.copy[x]] \in Views
    BY <1>1 DEF Views
  <2>4. /\ g \in Disks /\ g.file = d.file /\ g.live = d.live /\ g.set = d.set
        /\ g.attempts = d.attempts /\ g.outcomes = d.outcomes /\ g.entries = d.entries
        /\ g.copy = [x \in Objects |-> IF x \in gone THEN Absent ELSE d.copy[x]]
    BY <1>0, <2>2, <2>3 DEF Disks
  <2> QED
    BY <2>1, <2>4 DEF SameJournals
<1>8. ASSUME NEW i \in 1 .. len + 1 PROVE ds[i] \in good
  <2>1. PICK g : g = ds[i]
    OBVIOUS
  <2>2. ASSUME NEW x \in Objects PROVE SafeAt(g, x, n, e, f)
    <3>1. Claimed(g) = DOMAIN d.set /\ Claimed(d) = DOMAIN d.set
      BY <1>7, <2>1 DEF Claimed
    <3>2. Sound(g, x, n, e) <=> Sound(d, x, n, e)
      BY <1>7, <2>1 DEF Sound
    <3>3. g.copy[x] = d.copy[x] \/ (g.copy[x] = Absent /\ x \notin DOMAIN d.set)
      <4>1. g.copy[x] = IF x \in Firsts(orphans, i - 1) THEN Absent ELSE d.copy[x]
        BY <1>7, <2>1
      <4>2. x \in Firsts(orphans, i - 1) => x \notin DOMAIN d.set
        BY <1>3 DEF Firsts
      <4> QED
        BY <4>1, <4>2
    <3>4. g.live = d.live /\ g.set = d.set
      BY <1>7, <2>1
    <3> QED
      BY <1>0, <3>1, <3>2, <3>3, <3>4 DEF SafeAt
  <2> QED
    BY <1>2a, <1>7, <2>1, <2>2, DurableIf
<1>9. ds \in Seq(good) /\ Len(ds) = len + 1
  <2>1. ds \in [1 .. len + 1 -> good]
    BY <1>4, <1>8
  <2> QED
    BY <2>1
<1>10. ds[1] = d
  <2>1. 1 \in 1 .. len + 1 /\ 1 - 1 = 0 /\ Firsts(orphans, 0) = {}
    BY DEF Firsts
  <2>2. ds[1].copy = d.copy
    BY <1>1, <1>7, <2>1
  <2> QED
    BY <1>0, <1>7, <2>1, <2>2, SameDisk DEF SameJournals
<1>11. ASSUME NEW i \in 1 .. len PROVE ds[i + 1] = Written(ds[i], ws[i])
  <2>1. i \in 1 .. len + 1 /\ i + 1 \in 1 .. len + 1 /\ (i + 1) - 1 = i
    OBVIOUS
  <2>2. PICK o \in Objects : o = orphans[i]
    BY <1>3
  <2>3. PICK g, h, w : g = ds[i] /\ h = ds[i + 1] /\ w = Written(g, Copy(o, Absent))
    OBVIOUS
  <2>4. /\ g \in Disks /\ g.file = d.file /\ g.live = d.live /\ g.set = d.set /\ SameJournals(g, d)
        /\ g.copy = [x \in Objects |-> IF x \in Firsts(orphans, i - 1) THEN Absent ELSE d.copy[x]]
    BY <1>7, <2>1, <2>3
  <2>5. /\ h \in Disks /\ h.file = d.file /\ h.live = d.live /\ h.set = d.set /\ SameJournals(h, d)
        /\ h.copy = [x \in Objects |-> IF x \in Firsts(orphans, i) THEN Absent ELSE d.copy[x]]
    BY <1>7, <2>1, <2>3
  <2>6. /\ w \in Disks /\ w.file = g.file /\ w.copy = [g.copy EXCEPT ![o] = Absent]
        /\ w.set = g.set /\ w.live = g.live /\ SameJournals(w, g)
    <3>1. g \in Disks /\ Absent \in Maybe
      BY <1>1, <2>4
    <3> QED
      BY <2>3, <3>1, WrittenCopy
  <2>7. \A x : x \in Firsts(orphans, i) <=> x \in Firsts(orphans, i - 1) \/ x = o
    <3>1. Firsts(orphans, i) = Firsts(orphans, i - 1) \cup {o}
      <4>1. \A y \in 1 .. i : y \in 1 .. i - 1 \/ y = i
        OBVIOUS
      <4>2. \A y \in 1 .. i - 1 : y \in 1 .. i
        OBVIOUS
      <4> QED
        BY <2>2, <4>1, <4>2 DEF Firsts
    <3> QED
      BY <3>1
  <2>8. w.copy = h.copy
    BY <2>4, <2>5, <2>6, <2>7
  <2>9. w = h
    BY <2>4, <2>5, <2>6, <2>8, SameDisk DEF SameJournals
  <2> QED
    BY <1>6, <2>2, <2>3, <2>9
<1>12. Reaches(good, d, ws, ds[len + 1])
  <2>1. len = Len(ws) /\ ds \in Seq(good) /\ Len(ds) = Len(ws) + 1 /\ ds[1] = d
    BY <1>6, <1>9, <1>10
  <2>2. \A i \in 1 .. Len(ws) : ds[i + 1] = Written(ds[i], ws[i])
    BY <1>11, <2>1
  <2> QED
    BY <2>1, <2>2 DEF Reaches
<1>13. Leads(good, d, ws, ds[len + 1])
  BY <1>6, <1>12, Zenon DEF Leads
<1>14. PICK g : g = ds[len + 1]
  OBVIOUS
<1>15. g \in good /\ g.file = d.file /\ g.live = d.live /\ g.set = d.set /\ SameJournals(g, d)
  <2>1. PICK i \in 1 .. len + 1 : i = len + 1
    OBVIOUS
  <2>2. g = ds[i]
    BY <1>14, <2>1
  <2> QED
    BY <1>7, <1>8, <2>2
<1>16. \E x \in good : /\ Leads(good, d, ws, x) /\ x.file = d.file /\ x.live = d.live
                        /\ x.set = d.set /\ SameJournals(x, d)
  BY <1>13, <1>14, <1>15, Zenon
<1> QED
  BY <1>2a, <1>4, <1>16

\* What a store that starts makes of a disk: what it says is inactive, and its active version.
Restores(d, saved, f, F) ==
    /\ saved \in Saveds
    /\ d.set = NoFile => DOMAIN saved = {x \in Objects : d.file[x] # Absent /\ d.copy[x] # Absent}
    /\ d.set # NoFile => DOMAIN saved = DOMAIN d.set \cap {x \in Objects : d.file[x] # Absent}
    /\ \A x \in Objects : F[x] = IF x \notin DOMAIN saved THEN Absent
                                 ELSE IF d.set = NoFile THEN d.copy[x] ELSE f[x]

\* Whether it has to write the set.
Differs(d, saved) == IF d.set = NoFile THEN saved # <<>> ELSE saved # d.set

\* Before it writes anything.
LEMMA RestoresSafe ==
    ASSUME NEW n, NEW e, NEW f, NEW F, NEW k, NEW d \in Durables(n, e, f, k), NEW saved, Restores(d, saved, f, F)
    PROVE  d \in Durables(n, e, F, k) /\ \A x \in Objects \ DOMAIN saved : Sound(d, x, n, e)
<1>0. d \in Disks /\ \A x \in Objects : SafeAt(d, x, n, e, f)
  BY DEF Durables, Safe
<1>1. ASSUME NEW x \in Objects PROVE SafeAt(d, x, n, e, F)
  <2>1. SafeAt(d, x, n, e, f)
    BY <1>0
  <2>2. d.set # NoFile /\ x \in DOMAIN d.set => F[x] \in {Absent, d.copy[x]}
    BY <2>1 DEF SafeAt, Restores
  <2> QED
    BY <2>1, <2>2 DEF SafeAt
<1>2. ASSUME NEW x \in Objects, x \notin DOMAIN saved PROVE Sound(d, x, n, e)
  <2>1. CASE d.file[x] = Absent
    BY <2>1 DEF Sound
  <2>2. CASE d.file[x] # Absent
    <3>1. x \notin Claimed(d)
      BY <1>2, <2>2 DEF Restores, Claimed
    <3> QED
      BY <1>0, <3>1 DEF SafeAt
  <2> QED
    BY <2>1, <2>2
<1> QED
  BY <1>1, <1>2 DEF Durables, Safe

\* From d, by the writes ws and then vs, to a disk that is settled.
Restoring(good, d, ws, vs, j, saved, n, e) ==
    \E g, h \in good : Leads(good, d, ws, h) /\ Leads(good, h, vs, g) /\ Settles(g, j, saved, n, e)

\* The set, if it has changed, then the copies of what is not in it.
LEMMA RestoreLeads ==
    ASSUME NEW n, NEW e, NEW f, NEW F, NEW k, NEW d \in Durables(n, e, f, k), NEW saved, Restores(d, saved, f, F),
           NEW j, Has(d, j), NEW orphans \in Seq(Objects \ DOMAIN saved), d.set = NoFile => orphans = <<>>,
           NEW as, as = IF Differs(d, saved) THEN <<Set(saved)>> ELSE <<>>,
           NEW cs, cs = [i \in DOMAIN orphans |-> Copy(orphans[i], Absent)]
    PROVE  Restoring(Durables(n, e, F, k), d, as, cs, j, saved, n, e)
<1>0. d \in Disks
  BY DEF Durables
<1>1. PICK good : good = Durables(n, e, F, k)
  OBVIOUS
<1>2. d \in good /\ (\A x \in Objects : SafeAt(d, x, n, e, F)) /\ \A x \in Objects \ DOMAIN saved : Sound(d, x, n, e)
  <2>1. d \in good /\ \A x \in Objects \ DOMAIN saved : Sound(d, x, n, e)
    BY <1>1, RestoresSafe
  <2> QED
    BY <1>1, <2>1 DEF Durables, Safe
<1>3. saved \in Saveds /\ saved # NoFile
  BY NothingThere DEF Restores
<1>4. PICK h : h = IF Differs(d, saved) THEN Written(d, Set(saved)) ELSE d
  OBVIOUS
<1>5. /\ h \in Disks /\ h.file = d.file /\ h.copy = d.copy /\ h.live = d.live /\ SameJournals(h, d)
      /\ h.set = IF Differs(d, saved) THEN saved ELSE d.set
  <2>1. CASE Differs(d, saved)
    BY <1>0, <1>3, <1>4, <2>1, WrittenSet
  <2>2. CASE ~Differs(d, saved)
    BY <1>0, <1>4, <2>2 DEF SameJournals
  <2> QED
    BY <2>1, <2>2
<1>6. \A x \in Objects : Sound(h, x, n, e) <=> Sound(d, x, n, e)
  BY <1>5 DEF Sound
<1>7. ASSUME NEW x \in Objects PROVE SafeAt(h, x, n, e, F)
  <2>1. SafeAt(d, x, n, e, F)
    BY <1>2
  <2>2. CASE ~Differs(d, saved)
    BY <1>4, <2>1, <2>2
  <2>3. CASE Differs(d, saved)
    <3>1. h.set = saved /\ Claimed(h) = DOMAIN saved
      BY <1>3, <1>5, <2>3 DEF Claimed
    <3>2. x \in DOMAIN saved => F[x] \in {Absent, d.copy[x]}
      BY <2>1 DEF Restores, SafeAt
    <3> QED
      BY <1>2, <1>5, <1>6, <2>1, <3>1, <3>2 DEF SafeAt
  <2> QED
    BY <2>2, <2>3
<1>8. h \in good
  BY <1>1, <1>2, <1>5, <1>7, DurableIf
<1>10. Leads(good, d, as, h)
  <2>1. CASE Differs(d, saved)
    <3>1. as = <<Set(saved)>> /\ h = Written(d, Set(saved))
      BY <1>4, <2>1
    <3> QED
      BY <1>2, <1>8, <3>1, LeadsOne
  <2>2. CASE ~Differs(d, saved)
    <3>1. as = <<>> /\ h = d
      BY <1>4, <2>2
    <3> QED
      BY <1>2, <3>1, LeadsNothing
  <2> QED
    BY <2>1, <2>2
<1>11. h.set = saved \/ (d.set = NoFile /\ h.set = NoFile /\ DOMAIN saved = {})
  <2>1. CASE Differs(d, saved)
    BY <1>5, <2>1
  <2>2. CASE ~Differs(d, saved) /\ d.set = NoFile
    <3>1. saved = <<>>
      BY <2>2 DEF Differs
    <3>2. DOMAIN saved = {}
      BY <3>1
    <3> QED
      BY <1>5, <2>2, <3>2
  <2>3. CASE ~Differs(d, saved) /\ d.set # NoFile
    BY <1>5, <2>3 DEF Differs
  <2> QED
    BY <2>1, <2>2, <2>3
<1>13. PICK g \in good : /\ Leads(good, h, cs, g)
                         /\ g.file = h.file /\ g.live = h.live /\ g.set = h.set /\ SameJournals(g, h)
  <2>1. CASE d.set # NoFile
    <3>1. h.set = saved /\ h.set # NoFile
      BY <1>3, <1>11, <2>1
    <3>2. orphans \in Seq(Objects \ DOMAIN h.set)
      BY <3>1
    <3>3. \E g \in good : /\ Leads(good, h, cs, g)
                          /\ g.file = h.file /\ g.live = h.live /\ g.set = h.set /\ SameJournals(g, h)
      BY <1>1, <1>8, <3>1, <3>2, OrphansLead
    <3> QED
      BY <3>3
  <2>2. CASE d.set = NoFile
    <3>1. orphans = <<>>
      BY <2>2
    <3>2. cs = <<>>
      BY <3>1
    <3>3. Leads(good, h, cs, h) /\ SameJournals(h, h)
      BY <1>8, <3>2, LeadsNothing DEF SameJournals
    <3> QED
      BY <1>8, <3>3
  <2> QED
    BY <2>1, <2>2
<1>14. Settles(g, j, saved, n, e)
  <2>1. g.attempts = j.attempts /\ g.outcomes = j.outcomes /\ g.entries = j.entries
    BY <1>5, <1>13 DEF SameJournals, Has
  <2>2. g.set = saved \/ (g.set = NoFile /\ DOMAIN saved = {})
    BY <1>11, <1>13
  <2>3. \A x \in Objects \ DOMAIN saved : Sound(g, x, n, e)
    BY <1>2, <1>5, <1>13 DEF Sound
  <2> QED
    BY <2>1, <2>2, <2>3 DEF Settles
<1>15. Restoring(good, d, as, cs, j, saved, n, e)
  BY <1>8, <1>10, <1>13, <1>14, Zenon DEF Restoring
<1> QED
  BY <1>1, <1>15

-----------------------------------------------------------------------------
(* What the actions have in common *)

\* Between two operations the disk is settled.
LEMMA FreeSettled ==
    ASSUME IInv, up, todo = <<>>
    PROVE  /\ disk \in Durable /\ Settles(disk, journal, inactive, named, unbuilt) /\ Unmoved(disk, act)
           /\ Has(disk, journal) /\ disk \in Disks /\ Safe(disk, named, unbuilt, force)
           /\ True(journal, count.tickets)
<1>1. PICK e \in Settled : Reaches(Durable, disk, todo, e)
  BY DEF IInv, Writing
<1>2. PICK X : todo \in Seq(X)
  BY DEF IInv, Writing
<1>3. disk = e
  BY <1>1, <1>2, ReachesFrom
<1>4. disk \in Durable /\ Settles(disk, journal, inactive, named, unbuilt) /\ Unmoved(disk, act)
  BY <1>1, <1>3 DEF Settled
<1> QED
  BY <1>4 DEF Durable, Durables, Settles, Has, IInv, Told

\* What the writes of the next state have to lead to.
LEMMA WritingIf ==
    ASSUME up', NEW same, Finishes(Durable', disk', todo', journal', inactive', named', unbuilt', same),
           \A a \in Activators : act'[a].obj # None /\ ~act'[a].moved =>
               act'[a].obj \in same /\ disk'.file[act'[a].obj] = act'[a].rev
    PROVE  Writing'
<1>1. PICK g \in Durable' : /\ Leads(Durable', disk', todo', g) /\ Settles(g, journal', inactive', named', unbuilt')
                            /\ \A x \in same : g.file[x] = disk'.file[x]
  BY DEF Finishes
<1>2. Unmoved(g, act')
  BY <1>1 DEF Unmoved
<1>3. g \in Settled'
  BY <1>1, <1>2 DEF Settled
<1>4. (\E X : todo' \in Seq(X)) /\ Reaches(Durable', disk', todo', g)
  BY <1>1 DEF Leads
<1> QED
  BY <1>3, <1>4 DEF Writing

\* Nothing is written.
LEMMA WritingStill ==
    ASSUME IInv, Free, Unmoved(disk, act'), act' \in [Activators -> Actors], count'.tickets = count.tickets,
           UNCHANGED <<disk, up, inactive, journal, todo, named, force, unbuilt>>
    PROVE  Writing'
<1>1. /\ disk \in Durable /\ Settles(disk, journal, inactive, named, unbuilt)
  BY FreeSettled DEF Free
<1>2. Durable' = Durable
  BY DEF Durable
<1>3. Leads(Durable, disk, todo, disk)
  BY <1>1, LeadsNothing DEF Free
<1>4. Finishes(Durable, disk, todo, journal, inactive, named, unbuilt, Objects)
  BY <1>1, <1>3, Zenon DEF Finishes
<1>5. \A a \in Activators : act'[a].obj # None /\ ~act'[a].moved =>
           act'[a].obj \in Objects /\ disk.file[act'[a].obj] = act'[a].rev
  BY DEF Unmoved, Actors
<1>6. up' /\ Finishes(Durable', disk', todo', journal', inactive', named', unbuilt', Objects)
  BY <1>2, <1>4 DEF Free
<1> QED
  BY <1>5, <1>6, WritingIf

\* The tickets are the same, and so is who works on them.
LEMMA ToldStill ==
    ASSUME Told, journal' = journal, count'.tickets = count.tickets, up' => up,
           \A a \in Activators : act'[a].op = act[a].op
    PROVE  Told'
BY DEF Told, Holds, Worked

\* Those who wait are activators.
LEMMA QueueIs ==
    ASSUME Typed
    PROVE  \A i \in DOMAIN queue : queue[i].by \in SUBSET Activators /\ queue[i].objects \in SUBSET Objects
<1>1. queue \in Seq(Waitings)
  BY DEF Typed
<1>2. DOMAIN queue = 1 .. Len(queue)
  BY <1>1
<1>3. \A i \in DOMAIN queue : queue[i] \in Waitings
  BY <1>1, <1>2
<1> QED
  BY <1>3 DEF Waitings

\* An activator that is as it was, but for the mark that its object was written.
Same(x, y) == y = x \/ y = [x EXCEPT !.moved = TRUE]

\* A cell between two of its calls of the store, or a caller that is at nothing.
Between == {Idle(FALSE), Steps("writing"), Steps("written"), Steps("restored")}

\* An activator that is in no publication and has no ticket leaves its object.
Left(x, y) == x.pc \notin {"waiting", "joining"} /\ x.op = None /\ y \in Between

\* What a write of o makes of an activator.
Turns(o, x, y) == Left(x, y) \/ (Same(x, y) /\ (x.obj = o => y.moved))

\* Who is between two calls works on nothing.
LEMMA BetweenIs ==
    ASSUME NEW y \in Between, NEW live
    PROVE  /\ y \in Actors /\ Actor(y, live) /\ y.pc \in {"idle", "writing", "written", "restored"}
           /\ y.obj = None /\ y.op = None
<1>1. PICK pc \in {"idle", "writing", "written", "restored"} : (y = Idle(FALSE) /\ pc = "idle") \/ y = Steps(pc)
  BY DEF Between
<1>2. y = [pc |-> pc, obj |-> None, rev |-> Absent, op |-> None, key |-> None, built |-> None,
           moved |-> FALSE, wronged |-> FALSE]
  BY <1>1 DEF Steps, Idle
<1>3. y \in Actors
  BY <1>2 DEF Actors, Maybe
<1>4. Actor(y, live)
  BY <1>2 DEF Actor
<1> QED
  BY <1>2, <1>3, <1>4

\* A mark changes nothing else.
LEMMA SameIs ==
    ASSUME NEW x \in Actors, NEW y, Same(x, y)
    PROVE  /\ y \in Actors /\ y.pc = x.pc /\ y.obj = x.obj /\ y.rev = x.rev /\ y.op = x.op /\ y.key = x.key
           /\ y.built = x.built /\ y.wronged = x.wronged /\ (x.moved => y.moved)
BY DEF Same, Actors

\* What is marked is moved, and nobody else is.
LEMMA MovedIs ==
    ASSUME Typed, NEW o \in Objects, act' = Moved(o)
    PROVE  /\ act' \in [Activators -> Actors]
           /\ \A a \in Activators : Turns(o, act[a], act'[a]) /\ Same(act[a], act'[a])
<1>1. act \in [Activators -> Actors]
  BY DEF Typed
<1>2. ASSUME NEW a \in Activators
      PROVE  Same(act[a], act'[a]) /\ (act[a].obj = o => act'[a].moved) /\ act'[a] \in Actors
  <2>1. act'[a] = IF act[a].obj = o THEN [act[a] EXCEPT !.moved = TRUE] ELSE act[a]
    BY DEF Moved
  <2>2. Same(act[a], act'[a])
    BY <2>1 DEF Same
  <2>3. act[a].obj = o => act'[a].moved
    BY <1>1, <2>1 DEF Actors
  <2> QED
    BY <1>1, <2>2, <2>3, SameIs
<1>3. act' = [a \in Activators |-> act'[a]]
  BY DEF Moved
<1> QED
  BY <1>2, <1>3 DEF Turns

\* The one that writes leaves its object, the others are marked.
LEMMA MovedBy ==
    ASSUME Typed, NEW o \in Objects, NEW a \in Activators, NEW y \in Between, Left(act[a], y),
           act' = [Moved(o) EXCEPT ![a] = y]
    PROVE  act' \in [Activators -> Actors] /\ \A b \in Activators : Turns(o, act[b], act'[b])
<1>1. act \in [Activators -> Actors] /\ y \in Actors
  BY BetweenIs DEF Typed
<1>2. Moved(o) = [b \in Activators |-> IF act[b].obj = o THEN [act[b] EXCEPT !.moved = TRUE] ELSE act[b]]
  BY DEF Moved
<1>3. act' = [b \in Activators |-> IF b = a THEN y
                                  ELSE IF act[b].obj = o THEN [act[b] EXCEPT !.moved = TRUE] ELSE act[b]]
  BY <1>2
<1>4. ASSUME NEW b \in Activators PROVE act'[b] \in Actors /\ Turns(o, act[b], act'[b])
  <2>1. CASE b = a
    BY <1>1, <1>3, <2>1 DEF Turns
  <2>2. CASE b # a
    <3>1. act'[b] = IF act[b].obj = o THEN [act[b] EXCEPT !.moved = TRUE] ELSE act[b]
      BY <1>3, <2>2
    <3>2. Same(act[b], act'[b])
      BY <3>1 DEF Same
    <3>3. act[b].obj = o => act'[b].moved
      BY <1>1, <3>1 DEF Actors
    <3> QED
      BY <1>1, <3>2, <3>3, SameIs DEF Turns
  <2> QED
    BY <2>1, <2>2
<1> QED
  BY <1>3, <1>4

\* A write leaves everybody's ticket.
LEMMA SameOp ==
    ASSUME act \in [Activators -> Actors], NEW o, \A a \in Activators : Turns(o, act[a], act'[a])
    PROVE  \A a \in Activators : act'[a].op = act[a].op
BY SameIs, BetweenIs DEF Turns, Left

\* Who has no mark works on an object that was not written.
LEMMA MarksKept ==
    ASSUME act \in [Activators -> Actors], Unmoved(disk, act), NEW o \in Objects,
           \A a \in Activators : Turns(o, act[a], act'[a])
    PROVE  \A a \in Activators : act'[a].obj # None /\ ~act'[a].moved =>
               act'[a].obj \in Objects \ {o} /\ disk.file[act'[a].obj] = act'[a].rev
<1>1. SUFFICES ASSUME NEW a \in Activators, act'[a].obj # None, ~act'[a].moved
               PROVE  act'[a].obj \in Objects \ {o} /\ disk.file[act'[a].obj] = act'[a].rev
  OBVIOUS
<1>2. act'[a].obj = act[a].obj /\ act'[a].rev = act[a].rev /\ ~act[a].moved /\ act[a].obj # o
  <2>1. Same(act[a], act'[a]) /\ (act[a].obj = o => act'[a].moved)
    BY <1>1, BetweenIs DEF Turns, Left
  <2> QED
    BY <1>1, <2>1, SameIs
<1>3. act[a].obj \in Objects
  BY <1>1, <1>2 DEF Actors
<1> QED
  BY <1>1, <1>2, <1>3 DEF Unmoved

\* No publication moves, and no activator but for a mark or to leave its object.
LEMMA Quiet ==
    ASSUME Typed, Acting, Waiting, Published, running' = running, queue' = queue,
           disk'.live = disk.live, \A o \in Objects : named[o] \subseteq named'[o],
           \A a \in Activators : Left(act[a], act'[a]) \/ Same(act[a], act'[a])
    PROVE  Acting' /\ Waiting' /\ Published'
<1>0. act \in [Activators -> Actors] /\ queue \in Seq(Waitings) /\ running \in Publications \cup {None}
  BY DEF Typed
<1>1. \A a \in Activators : Same(act[a], act'[a]) =>
         /\ act'[a].pc = act[a].pc /\ act'[a].obj = act[a].obj /\ act'[a].rev = act[a].rev
         /\ act'[a].op = act[a].op /\ act'[a].key = act[a].key /\ act'[a].built = act[a].built
         /\ act'[a].wronged = act[a].wronged /\ (act[a].moved => act'[a].moved)
  BY <1>0, SameIs
<1>2. Acting'
  <2>1. SUFFICES ASSUME NEW a \in Activators PROVE Actor(act'[a], disk'.live)
    BY DEF Acting
  <2>2. Actor(act[a], disk.live)
    BY DEF Acting
  <2>3. CASE Left(act[a], act'[a])
    BY <2>3, BetweenIs DEF Left
  <2>4. CASE Same(act[a], act'[a])
    BY <1>1, <2>2, <2>4 DEF Actor
  <2> QED
    BY <2>3, <2>4
<1>3. \A i \in DOMAIN queue : queue[i].by \subseteq Activators
  BY QueueIs
<1>4. running # None => running.by \subseteq Activators
  BY <1>0 DEF Publications
<1>5. \A a \in Activators : act[a].pc \in {"waiting", "joining"} \/ act'[a].pc \in {"waiting", "joining"} =>
         Same(act[a], act'[a]) /\ ObjectsOf(a)' = ObjectsOf(a)
  <2>1. \A a \in Activators : act[a].pc \in {"waiting", "joining"} \/ act'[a].pc \in {"waiting", "joining"} =>
           Same(act[a], act'[a])
    BY BetweenIs DEF Left
  <2> QED
    BY <1>1, <2>1 DEF ObjectsOf
<1>6. Waiting'
  <2>1. \A i \in DOMAIN queue' : \A a \in queue'[i].by :
          /\ act'[a].pc = "waiting" /\ queue'[i].objects = ObjectsOf(a)'
          /\ \A j \in DOMAIN queue' : a \in queue'[j].by => i = j
          /\ running' # None => a \notin running'.by
    BY <1>1, <1>3, <1>5 DEF Waiting
  <2>2. running' # None => \A a \in running'.by : act'[a].pc = "waiting" /\ running'.objects = ObjectsOf(a)'
    BY <1>1, <1>4, <1>5 DEF Waiting
  <2>3. \A a \in Activators : act'[a].pc = "joining" => running' # None /\ running'.objects = ObjectsOf(a)'
    BY <1>1, <1>5 DEF Waiting
  <2> QED
    BY <2>1, <2>2, <2>3 DEF Waiting
<1>7. Published'
  <2>1. running # None => \A a \in running.by : Same(act[a], act'[a])
    BY <1>4, <1>5 DEF Waiting
  <2> QED
    BY <1>1, <1>4, <2>1 DEF Published
<1> QED
  BY <1>2, <1>6, <1>7

\* One activator, which is in no publication, goes elsewhere.
LEMMA Alone ==
    ASSUME Typed, Acting, Waiting, Published, NEW a \in Activators, NEW y \in Actors,
           running' = running, queue' = queue, disk'.live = disk.live, named' = named,
           act' = [act EXCEPT ![a] = y], act[a].pc \notin {"waiting", "joining"},
           y.pc \notin {"waiting", "joining"}, Actor(y, disk.live)
    PROVE  act' \in [Activators -> Actors] /\ Acting' /\ Waiting' /\ Published'
<1>0. act \in [Activators -> Actors] /\ queue \in Seq(Waitings) /\ running \in Publications \cup {None}
  BY DEF Typed
<1>1. act'[a] = y /\ \A b \in Activators \ {a} : act'[b] = act[b]
  BY <1>0
<1>2. Acting'
  BY <1>1 DEF Acting
<1>3. \A i \in DOMAIN queue : queue[i].by \subseteq Activators \ {a}
  BY QueueIs DEF Waiting
<1>4. running # None => running.by \subseteq Activators \ {a}
  BY <1>0 DEF Publications, Waiting
<1>5. \A b \in Activators \ {a} : ObjectsOf(b)' = ObjectsOf(b)
  BY <1>1 DEF ObjectsOf
<1>6. Waiting'
  <2>1. \A i \in DOMAIN queue' : \A b \in queue'[i].by :
          /\ act'[b].pc = "waiting" /\ queue'[i].objects = ObjectsOf(b)'
          /\ \A j \in DOMAIN queue' : b \in queue'[j].by => i = j
          /\ running' # None => b \notin running'.by
    BY <1>1, <1>3, <1>5 DEF Waiting
  <2>2. running' # None => \A b \in running'.by : act'[b].pc = "waiting" /\ running'.objects = ObjectsOf(b)'
    BY <1>1, <1>4, <1>5 DEF Waiting
  <2>3. \A b \in Activators : act'[b].pc = "joining" => running' # None /\ running'.objects = ObjectsOf(b)'
    BY <1>1, <1>5 DEF Waiting
  <2> QED
    BY <2>1, <2>2, <2>3 DEF Waiting
<1>7. Published'
  BY <1>1, <1>4 DEF Published
<1>8. act' \in [Activators -> Actors]
  BY <1>0
<1> QED
  BY <1>2, <1>6, <1>7, <1>8

-----------------------------------------------------------------------------
(* Every step keeps the invariant *)

\* A journal without tickets.
LEMMA NewJournalTrue ==
    ASSUME NEW k
    PROVE  True(NewJournal, k) /\ NewJournal.entries = {} /\ NewJournal.outcomes = [o \in Objects |-> None]
<1>1. [sequence |-> 0, deleted |-> -1] \in Attempts
  BY DEF Attempts
<1>2. NewJournal \in Journals
  BY <1>1 DEF NewJournal, Journals, Outcomes
<1> QED
  BY <1>2 DEF True, NewJournal, Kept, Truthful

\* Nobody is at anything.
LEMMA IdleIs ==
    ASSUME NEW live
    PROVE  /\ Idle(FALSE) \in Actors /\ Actor(Idle(FALSE), live)
           /\ Idle(FALSE).pc = "idle" /\ Idle(FALSE).obj = None /\ Idle(FALSE).op = None
BY DEF Idle, Actors, Actor, Maybe

\* An empty set of saved objects.
LEMMA NothingSaved == <<>> \in Saveds /\ DOMAIN <<>> = {}
<1>1. DOMAIN <<>> = {}
  OBVIOUS
<1>2. <<>> \in [{} -> Record] /\ {} \in SUBSET Objects
  BY <1>1
<1> QED
  BY <1>1, <1>2 DEF Saveds

\* The system starts with every object active and live.
LEMMA InitKeeps ==
    ASSUME Init
    PROVE  IInv
<1>1. First \in Maybe /\ Absent \in Maybe
  BY StoreAssumption DEF Maybe
<1>2. /\ [o \in Objects |-> First] \in Views /\ [o \in Objects |-> Absent] \in Views
  BY <1>1 DEF Views
<1>3. /\ True(NewJournal, 0) /\ NewJournal \in Journals /\ NewJournal.entries = {}
  BY NewJournalTrue DEF True
<1>4. disk \in Disks
  BY <1>2, <1>3 DEF Init, Disks, Journals
<1>5. \A a \in Activators : act[a] = Idle(FALSE)
  BY DEF Init
<1>6. Typed
  <2>1. act \in [Activators -> Actors]
    BY IdleIs DEF Init
  <2>2. named \in [Objects -> SUBSET Maybe] /\ force \in Views /\ unbuilt \subseteq Objects
    BY <1>1, <1>2 DEF Init
  <2>3. inactive \in Saveds /\ queue \in Seq(Waitings)
    BY NothingSaved DEF Init
  <2> QED
    BY <1>3, <1>4, <2>1, <2>2, <2>3 DEF Init, Typed
<1>7. \A o \in Objects : Sound(disk, o, named, unbuilt)
  BY DEF Init, Sound
<1>8. disk \in Durable
  <2>1. Safe(disk, named, unbuilt, force)
    BY <1>7 DEF Init, Safe, SafeAt
  <2>2. Kept(disk.attempts, disk.outcomes, disk.entries, count.tickets)
    BY <1>3 DEF Init, True
  <2> QED
    BY <1>4, <2>1, <2>2 DEF Durable, Durables
<1>9. Settles(disk, journal, inactive, named, unbuilt)
  BY <1>3, <1>7, NothingSaved DEF Init, Settles
<1>10. Unmoved(disk, act)
  BY <1>5, IdleIs DEF Unmoved
<1>11. Writing
  <2>1. disk \in Settled
    BY <1>8, <1>9, <1>10 DEF Settled
  <2>2. Leads(Durable, disk, todo, disk)
    BY <1>8, LeadsNothing DEF Init
  <2>3. (\E X : todo \in Seq(X)) /\ Reaches(Durable, disk, todo, disk)
    BY <2>2 DEF Leads
  <2> QED
    BY <2>1, <2>3 DEF Writing, Init
<1>12. Told
  BY <1>3, <1>5, IdleIs DEF Init, Told, Holds, Worked
<1>13. Acting
  BY <1>5, IdleIs DEF Acting
<1>14. Waiting
  <2>1. DOMAIN queue = {} /\ running = None
    BY NothingSaved DEF Init
  <2>2. \A a \in Activators : act[a].pc # "joining"
    BY <1>5 DEF Idle
  <2> QED
    BY <2>1, <2>2 DEF Waiting
<1>15. Published
  BY DEF Init, Published
<1> QED
  BY <1>6, <1>11, <1>12, <1>13, <1>14, <1>15 DEF IInv

\* The next write.
LEMMA FlushKeeps ==
    ASSUME IInv, Flush
    PROVE  IInv'
<1>0. /\ Typed /\ Writing /\ Told /\ Acting /\ Waiting /\ Published
  BY DEF IInv
<1>1. PICK e \in Settled : Reaches(Durable, disk, todo, e)
  BY <1>0 DEF Writing, Flush
<1>2. PICK X : todo \in Seq(X)
  BY <1>0 DEF Writing, Flush
<1>3. Tail(todo) \in Seq(X) /\ Reaches(Durable, Written(disk, Head(todo)), Tail(todo), e)
  BY <1>1, <1>2, ReachesNext DEF Flush
<1>4. todo' \in Seq(X) /\ Reaches(Durable, disk', todo', e)
  BY <1>3 DEF Flush
<1>5. Durable' = Durable /\ Settled' = Settled
  BY DEF Flush, Durable, Settled, history
<1>6. disk' \in Disks
  <2>1. disk' \in Durable
    BY <1>4, ReachesFrom
  <2> QED
    BY <2>1 DEF Durable, Durables
<1>7. disk'.live = disk.live
  BY DEF Flush, Written
<1>8. Writing'
  <2>1. (\E Y : todo' \in Seq(Y)) /\ e \in Settled' /\ Reaches(Durable', disk', todo', e) /\ up'
    BY <1>4, <1>5 DEF Flush
  <2> QED
    BY <2>1 DEF Writing
<1>9. Typed'
  BY <1>0, <1>6 DEF Flush, Typed, history
<1>10. Told'
  BY <1>0 DEF Flush, Told, history
<1>11. Acting' /\ Waiting' /\ Published'
  BY <1>0, <1>7, Quiet DEF Flush, history, Same
<1> QED
  BY <1>8, <1>9, <1>10, <1>11 DEF IInv

\* The process dies.
LEMMA CrashKeeps ==
    ASSUME IInv, Crash
    PROVE  IInv'
<1>0. /\ Typed /\ Writing /\ Told
  BY DEF IInv
<1>1. disk \in Durable
  <2>1. PICK e \in Settled : Reaches(Durable, disk, todo, e)
    BY <1>0 DEF Writing, Crash
  <2>2. PICK X : todo \in Seq(X)
    BY <1>0 DEF Writing, Crash
  <2> QED
    BY <2>1, <2>2, ReachesFrom
<1>2. count \in [saves : Nat, edits : Nat, tickets : Nat, crashes : Nat, cells : Nat]
  BY <1>0 DEF Typed
<1>3. count' \in [saves : Nat, edits : Nat, tickets : Nat, crashes : Nat, cells : Nat] /\ count'.tickets = count.tickets
  BY <1>2 DEF Crash
<1>4. Durable' = Durable
  BY <1>3 DEF Crash, Durable
<1>5. \A a \in Activators : act'[a] = Idle(FALSE)
  BY DEF Crash
<1>6. Writing'
  BY <1>1, <1>4, <1>5 DEF Crash, Writing
<1>7. Typed'
  <2>1. act' \in [Activators -> Actors]
    BY IdleIs DEF Crash
  <2>2. inactive' \in Saveds /\ queue' \in Seq(Waitings)
    BY NothingSaved DEF Crash
  <2>3. journal' \in Journals
    BY NewJournalTrue DEF Crash, True
  <2> QED
    BY <1>0, <1>3, <2>1, <2>2, <2>3 DEF Crash, Typed
<1>8. Told'
  BY <1>5, IdleIs, NewJournalTrue DEF Crash, Told, Holds
<1>9. Acting'
  BY <1>5, IdleIs DEF Acting
<1>10. Waiting'
  <2>1. DOMAIN queue' = {} /\ running' = None
    BY NothingSaved DEF Crash
  <2>2. \A a \in Activators : act'[a].pc # "joining"
    BY <1>5 DEF Idle
  <2> QED
    BY <2>1, <2>2 DEF Waiting
<1>11. Published'
  BY DEF Crash, Published
<1> QED
  BY <1>6, <1>7, <1>8, <1>9, <1>10, <1>11 DEF IInv

\* A write of o, by whomever.
LEMMA SavesKeep ==
    ASSUME IInv, NEW o \in Objects, NEW v \in Versions,
           Free, Saves(o, v), act' \in [Activators -> Actors], \A a \in Activators : Turns(o, act[a], act'[a]),
           count' \in [saves : Nat, edits : Nat, tickets : Nat, crashes : Nat, cells : Nat],
           count'.tickets = count.tickets
    PROVE  IInv'
<1>0. /\ Typed /\ Told /\ Acting /\ Waiting /\ Published
  BY DEF IInv
<1>1. up /\ todo = <<>>
  BY DEF Free
<1>2. /\ disk \in Durable /\ Settles(disk, journal, inactive, named, unbuilt) /\ Unmoved(disk, act)
  BY <1>1, FreeSettled
<1>3. /\ inactive \in Saveds /\ force \in Views /\ act \in [Activators -> Actors] /\ disk \in Disks
      /\ count \in [saves : Nat, edits : Nat, tickets : Nat, crashes : Nat, cells : Nat]
  BY <1>0 DEF Typed
<1>4. /\ inactive' = With(inactive, o, v) /\ force' = Forced(disk, inactive, o, force)
      /\ todo' = Saving(disk, inactive, o, v)
      /\ UNCHANGED <<disk, up, journal, queue, running, named, unbuilt>>
  BY DEF Saves, SaveWrites, keepActive, Saving, Forced
<1>7. Finishes(Durable', disk, todo', journal, inactive', named, unbuilt, Objects \ {o})
  <2>1. PICK ft, k, ws, s : /\ ft = Forced(disk, inactive, o, force) /\ k = count.tickets
                            /\ ws = Saving(disk, inactive, o, v) /\ s = With(inactive, o, v)
    OBVIOUS
  <2>2. disk \in Durables(named, unbuilt, force, k)
    BY <1>2, <2>1 DEF Durable
  <2>3. Finishes(Durables(named, unbuilt, ft, k), disk, ws, journal, s, named, unbuilt, Objects \ {o})
    BY <1>2, <1>3, <2>1, <2>2, SaveLeads, Zenon
  <2>4. Durable' = Durables(named, unbuilt, ft, k)
    BY <1>4, <2>1 DEF Durable
  <2> QED
    BY <1>4, <2>1, <2>3, <2>4
<1>10. \A a \in Activators : act'[a].obj # None /\ ~act'[a].moved =>
           act'[a].obj \in Objects \ {o} /\ disk.file[act'[a].obj] = act'[a].rev
  BY <1>2, <1>3, MarksKept
<1>11. Writing'
  <2>1. up' /\ Finishes(Durable', disk', todo', journal', inactive', named', unbuilt', Objects \ {o})
    BY <1>1, <1>4, <1>7
  <2>2. disk' = disk
    BY <1>4
  <2> QED
    BY <1>10, <2>1, <2>2, WritingIf
<1>12. Typed'
  <2>1. inactive' \in Saveds
    BY <1>3, <1>4, SavedIs
  <2>2. force' \in Views
    BY <1>3, <1>4 DEF Forced, Views, Disks, Maybe
  <2> QED
    BY <1>0, <1>4, <2>1, <2>2 DEF Typed
<1>13. Told'
  <2>1. \A a \in Activators : act'[a].op = act[a].op
    BY <1>3, SameOp
  <2> QED
    BY <1>0, <1>4, <2>1, ToldStill
<1>14. Acting' /\ Waiting' /\ Published'
  BY <1>0, <1>4, Quiet DEF Turns
<1> QED
  BY <1>11, <1>12, <1>13, <1>14 DEF IInv

\* A client saves.
LEMMA SaveKeeps ==
    ASSUME IInv, NEW o \in Objects, NEW v \in Versions, Save(o, v)
    PROVE  IInv'
<1>1. Typed
  BY DEF IInv
<1>2. act' \in [Activators -> Actors] /\ \A a \in Activators : Turns(o, act[a], act'[a])
  BY <1>1, MovedIs DEF Save
<1>3. count' \in [saves : Nat, edits : Nat, tickets : Nat, crashes : Nat, cells : Nat] /\ count'.tickets = count.tickets
  BY <1>1 DEF Save, Typed
<1> QED
  BY <1>2, <1>3, SavesKeep DEF Save

\* A delete of o, by whomever.
LEMMA DeletesKeep ==
    ASSUME IInv, NEW o \in Objects,
           Free, Deletes(o), act' \in [Activators -> Actors], \A a \in Activators : Turns(o, act[a], act'[a]),
           count' \in [saves : Nat, edits : Nat, tickets : Nat, crashes : Nat, cells : Nat],
           count'.tickets = count.tickets
    PROVE  IInv'
<1>0. /\ Typed /\ Told /\ Acting /\ Waiting /\ Published
  BY DEF IInv
<1>1. up /\ todo = <<>>
  BY DEF Free
<1>2. /\ disk \in Durable /\ Settles(disk, journal, inactive, named, unbuilt) /\ Unmoved(disk, act)
      /\ True(journal, count.tickets)
  BY <1>1, FreeSettled
<1>3. /\ inactive \in Saveds /\ force \in Views /\ act \in [Activators -> Actors] /\ disk \in Disks
      /\ count \in [saves : Nat, edits : Nat, tickets : Nat, crashes : Nat, cells : Nat]
  BY <1>0 DEF Typed
<1>4. PICK forgot, F, bs : /\ forgot = forgetObject(journal, o) /\ F = Unforced(force, o)
                           /\ bs = IF o \in DOMAIN inactive THEN <<Set(Without(inactive, o))>> ELSE <<>>
  OBVIOUS
<1>5. /\ inactive' = Without(inactive, o) /\ force' = F
      /\ todo' = ((<<File(o, Absent)>> \o bs) \o <<Copy(o, Absent)>>) \o forgot.writes /\ journal' = forgot.journal
      /\ UNCHANGED <<disk, up, queue, running, named, unbuilt>>
  BY <1>4 DEF Deletes, Unforced
<1>8. PICK good, k, s : /\ good = Durables(named, unbuilt, F, k) /\ k = count.tickets /\ s = Without(inactive, o)
  OBVIOUS
<1>9. Durable' = good
  BY <1>5, <1>8 DEF Durable
<1>10. PICK ws : ws = (<<File(o, Absent)>> \o bs) \o <<Copy(o, Absent)>>
  OBVIOUS
<1>11. F \in Views
  BY <1>3, <1>4 DEF Views, Maybe, Unforced
<1>12. Finishes(good, disk, ws, journal, s, named, unbuilt, Objects \ {o})
  <2>1. disk \in Durables(named, unbuilt, force, k)
    BY <1>2, <1>8 DEF Durable
  <2> QED
    BY <1>2, <1>3, <1>4, <1>8, <1>10, <2>1, DeleteLeads, Zenon
<1>13. True(forgot.journal, k) /\ forgot.journal.entries = journal.entries /\ forgot.journal \in Journals
  <2>1. disk \in Disks /\ Safe(disk, named, unbuilt, force) /\ Has(disk, journal) /\ k \in Nat
    BY <1>1, <1>3, <1>8, FreeSettled
  <2>2. True(forgot.journal, k) /\ forgot.journal.entries = journal.entries
    <3>1. True(journal, k)
      BY <1>2, <1>8
    <3>2. /\ Does(Durables(named, unbuilt, force, k), disk, forgetObject(journal, o))
          /\ True(forgetObject(journal, o).journal, k) /\ forgetObject(journal, o).journal.entries = journal.entries
      BY <2>1, <3>1, ForgetDoes
    <3> QED
      BY <1>4, <2>1, <3>1, <3>2
  <2> QED
    BY <2>2 DEF True
<1>14. ASSUME NEW h \in good, Settles(h, journal, s, named, unbuilt)
       PROVE  Finishes(good, h, forgot.writes, forgot.journal, s, named, unbuilt, Objects \ {o})
  <2>1. h \in Disks /\ Safe(h, named, unbuilt, F) /\ Has(h, journal) /\ k \in Nat
    BY <1>3, <1>8, <1>14 DEF Durables, Settles, Has
  <2>2. Does(good, h, forgot)
    BY <1>2, <1>4, <1>8, <2>1, ForgetDoes
  <2>3. Finishes(good, h, forgot.writes, forgot.journal, s, named, unbuilt, Objects)
    BY <1>8, <1>13, <1>14, <2>2, JournalLeads
  <2> QED
    BY <2>3, FinishesLess
<1>15. Finishes(good, disk, ws \o forgot.writes, forgot.journal, s, named, unbuilt, Objects \ {o})
  BY <1>12, <1>14, FinishesThen, Zenon
<1>16. todo' = ws \o forgot.writes
  BY <1>5, <1>10
<1>18. \A a \in Activators : act'[a].obj # None /\ ~act'[a].moved =>
           act'[a].obj \in Objects \ {o} /\ disk.file[act'[a].obj] = act'[a].rev
  BY <1>2, <1>3, MarksKept
<1>19. Writing'
  <2>1. up' /\ Finishes(Durable', disk', todo', journal', inactive', named', unbuilt', Objects \ {o}) /\ disk' = disk
    BY <1>1, <1>5, <1>8, <1>9, <1>15, <1>16
  <2> QED
    BY <1>18, <2>1, WritingIf
<1>20. Typed'
  <2>1. inactive' \in Saveds
    <3>1. First \in Versions
      BY StoreAssumption
    <3> QED
      BY <1>3, <1>5, <3>1, SavedIs
  <2> QED
    BY <1>0, <1>5, <1>11, <1>13, <2>1 DEF Typed
<1>21. Told'
  <2>1. \A a \in Activators : act'[a].op = act[a].op
    BY <1>3, SameOp
  <2> QED
    BY <1>0, <1>5, <1>8, <1>13, <2>1 DEF Told, Holds, Worked
<1>22. Acting' /\ Waiting' /\ Published'
  BY <1>0, <1>5, Quiet DEF Turns
<1> QED
  BY <1>19, <1>20, <1>21, <1>22 DEF IInv

\* A client deletes.
LEMMA DeleteKeeps ==
    ASSUME IInv, NEW o \in Objects, Delete(o)
    PROVE  IInv'
<1>1. Typed
  BY DEF IInv
<1>2. act' \in [Activators -> Actors] /\ \A a \in Activators : Turns(o, act[a], act'[a])
  BY <1>1, MovedIs DEF Delete
<1>3. count' \in [saves : Nat, edits : Nat, tickets : Nat, crashes : Nat, cells : Nat] /\ count'.tickets = count.tickets
  BY <1>1 DEF Delete, Typed
<1> QED
  BY <1>2, <1>3, DeletesKeep DEF Delete

\* Nothing finishes what is settled.
LEMMA FinishesNothing ==
    ASSUME NEW good, NEW d \in good, NEW j, NEW s, NEW n, NEW e, NEW same, Settles(d, j, s, n, e)
    PROVE  Finishes(good, d, <<>>, j, s, n, e, same)
BY LeadsNothing, Zenon DEF Finishes

\* From d to h, with another file of o.
Edits(good, d, h, n, e, N, E, o, v) ==
    /\ h \in good /\ h.live = d.live /\ h.set = d.set /\ SameJournals(h, d)
    /\ \A x \in Objects \ {o} : h.file[x] = d.file[x]
    /\ \A x \in Objects \ {o} : Sound(d, x, n, e) => Sound(h, x, N, E)
    /\ v \in N[o] \cup {Absent} => Sound(h, o, N, E)

\* A file that changed outside, or was put back, is that of an object which is unbuilt.
LEMMA EditSafe ==
    ASSUME NEW n, NEW e, NEW f, NEW k, NEW d \in Durables(n, e, f, k), NEW o \in Objects, NEW v \in Maybe,
           NEW N, NEW E, \A x \in Objects : n[x] \subseteq N[x], o \notin Claimed(d) => v \in N[o] \cup {Absent},
           E = e \cup {o}, NEW h, h = [d EXCEPT !.file[o] = v]
    PROVE  Edits(Durables(N, E, f, k), d, h, n, e, N, E, o, v)
<1>0. d \in Disks /\ \A x \in Objects : SafeAt(d, x, n, e, f)
  BY DEF Durables, Safe
<1>1. d.file \in [Objects -> Maybe]
  BY <1>0 DEF Disks, Views
<1>2. /\ h.file = [d.file EXCEPT ![o] = v] /\ h.copy = d.copy /\ h.live = d.live /\ h.set = d.set
      /\ h.attempts = d.attempts /\ h.outcomes = d.outcomes /\ h.entries = d.entries
  BY <1>0 DEF Disks
<1>3. h.file \in Views
  BY <1>1, <1>2 DEF Views
<1>4. h \in Disks
  BY <1>0, <1>3 DEF Disks
<1>5. h.file[o] = v /\ \A x \in Objects \ {o} : h.file[x] = d.file[x]
  BY <1>1, <1>2
<1>6. ASSUME NEW x \in Objects \ {o}, Sound(d, x, n, e) PROVE Sound(h, x, N, E)
  BY <1>2, <1>5, <1>6 DEF Sound
<1>7. v \in N[o] \cup {Absent} => Sound(h, o, N, E)
  BY <1>5 DEF Sound
<1>8. Claimed(h) = Claimed(d)
  BY <1>2 DEF Claimed
<1>9. ASSUME NEW x \in Objects PROVE SafeAt(h, x, N, E, f)
  <2>1. SafeAt(d, x, n, e, f)
    BY <1>0
  <2>2. h.live[x] \in N[x] \cup {Absent} /\ h.copy[x] \in N[x] \cup {Absent}
    BY <1>2, <2>1 DEF SafeAt
  <2>3. x \notin Claimed(h) => Sound(h, x, N, E)
    BY <1>6, <1>7, <1>8, <2>1 DEF SafeAt
  <2> QED
    BY <1>2, <2>1, <2>2, <2>3 DEF SafeAt
<1>10. SameJournals(h, d)
  BY <1>2 DEF SameJournals
<1>11. h \in Durables(N, E, f, k)
  BY <1>2, <1>4, <1>9 DEF Durables, Safe
<1> QED
  BY <1>2, <1>5, <1>6, <1>7, <1>10, <1>11 DEF Edits

\* A file changes outside.
LEMMA EditKeeps ==
    ASSUME IInv, NEW o \in Objects, NEW v \in Maybe, Edit(o, v)
    PROVE  IInv'
<1>0. /\ Typed /\ Writing /\ Told /\ Acting /\ Waiting /\ Published
  BY DEF IInv
<1>1. /\ act \in [Activators -> Actors] /\ disk \in Disks /\ named \in [Objects -> SUBSET Maybe]
      /\ count \in [saves : Nat, edits : Nat, tickets : Nat, crashes : Nat, cells : Nat] /\ unbuilt \subseteq Objects
  BY <1>0 DEF Typed
<1>2. /\ todo = <<>> /\ disk' = [disk EXCEPT !.file[o] = v] /\ act' = Moved(o) /\ unbuilt' = unbuilt \cup {o}
      /\ named' = IF o \in SetNow THEN named ELSE [named EXCEPT ![o] = @ \cup ({v} \ {Absent})]
      /\ UNCHANGED <<up, inactive, journal, todo, queue, running, force>>
  BY DEF Edit
<1>3. count' \in [saves : Nat, edits : Nat, tickets : Nat, crashes : Nat, cells : Nat] /\ count'.tickets = count.tickets
  BY <1>1 DEF Edit
<1>4. /\ act' \in [Activators -> Actors]
      /\ \A a \in Activators : Turns(o, act[a], act'[a])
  BY <1>0, <1>2, MovedIs
<1>5. /\ named' \in [Objects -> SUBSET Maybe] /\ \A x \in Objects : named[x] \subseteq named'[x]
      /\ o \notin SetNow => v \in named'[o] \cup {Absent}
  BY <1>1, <1>2
<1>6. disk \in Durable
  BY <1>0, <1>2, FreeSettled DEF Writing
<1>7. up => Settles(disk, journal, inactive, named, unbuilt) /\ Unmoved(disk, act)
  BY <1>2, FreeSettled
<1>8. o \notin Claimed(disk) => o \notin SetNow
  <2>1. CASE up
    <3>1. DOMAIN inactive # {} => disk.set = inactive /\ disk.set # NoFile
      BY <1>0, <1>7, <2>1, SettledSet DEF Typed
    <3> QED
      BY <2>1, <3>1 DEF Claimed, SetNow
  <2>2. CASE ~up
    BY <2>2 DEF Claimed, SetNow
  <2> QED
    BY <2>1, <2>2
<1>9. PICK k : k = count.tickets
  OBVIOUS
<1>10. PICK h, N, E : h = disk' /\ N = named' /\ E = unbuilt'
  OBVIOUS
<1>11. /\ h \in Durables(N, E, force, k) /\ h.live = disk.live /\ h.set = disk.set /\ SameJournals(h, disk)
       /\ \A x \in Objects \ {o} : h.file[x] = disk.file[x]
       /\ \A x \in Objects \ {o} : Sound(disk, x, named, unbuilt) => Sound(h, x, N, E)
       /\ v \in N[o] \cup {Absent} => Sound(h, o, N, E)
  <2>1. disk \in Durables(named, unbuilt, force, k)
    BY <1>6, <1>9 DEF Durable
  <2>2. /\ \A x \in Objects : named[x] \subseteq N[x]
        /\ o \notin Claimed(disk) => v \in N[o] \cup {Absent}
    BY <1>5, <1>8, <1>10
  <2>3. E = unbuilt \cup {o} /\ h = [disk EXCEPT !.file[o] = v]
    BY <1>2, <1>10
  <2>4. Edits(Durables(N, E, force, k), disk, h, named, unbuilt, N, E, o, v)
    BY <2>1, <2>2, <2>3, EditSafe
  <2> QED
    BY <2>4 DEF Edits
<1>12. Durable' = Durables(N, E, force, k) /\ disk' \in Durable'
  BY <1>2, <1>3, <1>9, <1>10, <1>11 DEF Durable
<1>13. ASSUME up PROVE Settles(h, journal, inactive, N, E)
  <2>1. o \notin DOMAIN inactive => Sound(h, o, N, E)
    BY <1>5, <1>10, <1>11, <1>13 DEF SetNow
  <2>2. \A x \in Objects \ DOMAIN inactive : Sound(h, x, N, E)
    BY <1>7, <1>11, <1>13, <2>1 DEF Settles
  <2> QED
    BY <1>7, <1>11, <1>13, <2>2 DEF Settles, SameJournals
<1>14. Writing'
  <2>1. CASE up
    <3>1. Finishes(Durable', disk', todo', journal', inactive', named', unbuilt', Objects)
      <4>1. Finishes(Durable', h, <<>>, journal, inactive, N, E, Objects)
        BY <1>10, <1>12, <1>13, <2>1, FinishesNothing
      <4> QED
        BY <1>2, <1>10, <4>1
    <3>2. \A a \in Activators : act'[a].obj # None /\ ~act'[a].moved =>
             act'[a].obj \in Objects \ {o} /\ disk.file[act'[a].obj] = act'[a].rev
      BY <1>1, <1>4, <1>7, <2>1, MarksKept
    <3>3. \A a \in Activators : act'[a].obj # None /\ ~act'[a].moved =>
             act'[a].obj \in Objects /\ disk'.file[act'[a].obj] = act'[a].rev
      BY <1>10, <1>11, <3>2
    <3> QED
      BY <1>2, <2>1, <3>1, <3>3, WritingIf
  <2>2. CASE ~up
    <3>1. \A a \in Activators : act'[a] = Idle(FALSE)
      <4>1. \A a \in Activators : act[a] = Idle(FALSE)
        BY <1>0, <2>2 DEF Writing
      <4> QED
        BY <1>2, <4>1, IdleIs, ObjectsAssumption DEF Moved
    <3> QED
      BY <1>0, <1>2, <1>12, <2>2, <3>1 DEF Writing
  <2> QED
    BY <1>0, <2>1, <2>2
<1>15. Typed'
  <2>1. disk' \in Disks
    BY <1>10, <1>11 DEF Durables
  <2>2. unbuilt' \subseteq Objects
    BY <1>1, <1>2
  <2> QED
    BY <1>0, <1>2, <1>3, <1>4, <1>5, <2>1, <2>2 DEF Typed
<1>16. Told'
  <2>1. \A a \in Activators : act'[a].op = act[a].op
    BY <1>1, <1>4, SameOp
  <2> QED
    BY <1>0, <1>2, <1>3, <2>1, ToldStill
<1>17. Acting' /\ Waiting' /\ Published'
  BY <1>0, <1>2, <1>4, <1>5, <1>10, <1>11, Quiet DEF Turns
<1> QED
  BY <1>14, <1>15, <1>16, <1>17 DEF IInv

\* What an activator is at when it has checked an object, or none.
LEMMA ActivatingIs ==
    ASSUME disk \in Disks, NEW a, NEW o \in Objects \cup {None}, NEW op \in Nat \cup {None}, o = None => op = None,
           o # None => disk.file[o] # Absent, NEW y, y = Activating(a, o, op)
    PROVE  /\ y \in Actors /\ Actor(y, disk.live) /\ y.pc = "checked" /\ y.op = op /\ y.obj = o
           /\ y.obj # None => y.rev = disk.file[y.obj]
<1>1. disk.file \in [Objects -> Maybe] /\ Absent \in Maybe
  BY DEF Disks, Views, Maybe
<1>2. y.rev = IF o = None THEN Absent ELSE disk.file[o]
  BY DEF Activating
<1>3. /\ y.pc = "checked" /\ y.op = op /\ y.obj = o /\ y.key = None /\ y.built = None
      /\ y.moved = FALSE /\ y.wronged = FALSE
  BY DEF Activating
<1>4. y.rev \in Maybe
  BY <1>1, <1>2
<1>5. y \in Actors
  BY <1>3, <1>4 DEF Actors, Activating
<1> QED
  BY <1>2, <1>3, <1>5 DEF Actor

\* Only the one that goes elsewhere has another file to care for.
LEMMA UnmovedAlone ==
    ASSUME act \in [Activators -> Actors], Unmoved(disk, act), NEW a \in Activators, NEW y,
           act' = [act EXCEPT ![a] = y], y.obj # None /\ ~y.moved => y.rev = disk.file[y.obj]
    PROVE  Unmoved(disk, act')
BY DEF Unmoved

\* One activator, without a ticket and in no publication, goes elsewhere; nothing is written.
LEMMA SoloKeeps ==
    ASSUME IInv, NEW a \in Activators, NEW y \in Actors, Free, act' = [act EXCEPT ![a] = y],
           act[a].pc \notin {"waiting", "joining"}, act[a].op = None,
           y.pc \notin {"waiting", "joining"}, y.op = None, Actor(y, disk.live),
           y.obj # None /\ ~y.moved => y.rev = disk.file[y.obj],
           count' \in [saves : Nat, edits : Nat, tickets : Nat, crashes : Nat, cells : Nat],
           count'.tickets = count.tickets,
           UNCHANGED <<disk, up, inactive, journal, todo, queue, running, named, force, unbuilt>>
    PROVE  IInv'
<1>0. /\ Typed /\ Told /\ Acting /\ Waiting /\ Published
  BY DEF IInv
<1>1. act \in [Activators -> Actors] /\ disk \in Disks
  BY <1>0 DEF Typed
<1>2. act' \in [Activators -> Actors] /\ Acting' /\ Waiting' /\ Published'
  BY <1>0, Alone
<1>3. Unmoved(disk, act')
  <2>1. Unmoved(disk, act)
    BY FreeSettled DEF Free
  <2> QED
    BY <1>1, <2>1, UnmovedAlone
<1>4. Writing'
  BY <1>2, <1>3, WritingStill
<1>5. Told'
  <2>1. \A b \in Activators : act'[b].op = act[b].op
    BY <1>1
  <2> QED
    BY <1>0, <2>1, ToldStill
<1>6. Typed'
  BY <1>0, <1>2 DEF Typed
<1> QED
  BY <1>2, <1>4, <1>5, <1>6 DEF IInv

\* A pass of the dev loop, over an object or none.
LEMMA PassKeeps ==
    ASSUME IInv, NEW a \in Activators, NEW o \in Objects \cup {None}, Free, At(a, "idle"),
           o # None => disk.file[o] # Absent, Sets(a, Activating(a, o, None)),
           UNCHANGED <<disk, up, inactive, journal, todo, queue, running, history>>
    PROVE  IInv'
<1>0. Typed /\ Acting
  BY DEF IInv
<1>1. disk \in Disks /\ count \in [saves : Nat, edits : Nat, tickets : Nat, crashes : Nat, cells : Nat]
  BY <1>0 DEF Typed
<1>2. PICK y, op : y = Activating(a, o, op) /\ op = None
  OBVIOUS
<1>3. /\ y \in Actors /\ Actor(y, disk.live) /\ y.pc = "checked" /\ y.op = op /\ y.obj = o
      /\ y.obj # None => y.rev = disk.file[y.obj]
  <2>1. op \in Nat \cup {None} /\ (o = None => op = None) /\ y = Activating(a, o, op)
    BY <1>2
  <2> QED
    BY <1>1, <2>1, ActivatingIs
<1>4. act' = [act EXCEPT ![a] = y]
  BY <1>2 DEF Sets
<1>5. act[a].pc = "idle" /\ act[a].op = None
  BY <1>0 DEF At, Acting, Actor
<1>6. UNCHANGED <<disk, up, inactive, journal, todo, queue, running, count, named, force, unbuilt>>
  BY DEF history
<1> QED
  BY <1>1, <1>2, <1>3, <1>4, <1>5, <1>6, SoloKeeps

\* A ticket that its activator leaves has ended.
LEMMA ToldEnded ==
    ASSUME Told, Typed, up, NEW a \in Activators, NEW y, act' = [act EXCEPT ![a] = y], y.op = None,
           True(journal', count'.tickets), NEW state, state # "pending",
           Advanced(journal, journal', act[a].op, state)
    PROVE  Told'
<1>1. act \in [Activators -> Actors]
  BY DEF Typed
<1>2. act'[a] = y /\ \A b \in Activators \ {a} : act'[b] = act[b]
  BY <1>1
<1>3. Holds(journal'.entries, act')
  <2>1. SUFFICES ASSUME NEW b \in Activators, act'[b].op # None
                 PROVE  \E u \in journal'.entries : u.op = act'[b].op
    BY DEF Holds
  <2>2. act'[b] = act[b]
    BY <1>2, <2>1
  <2>3. PICK t \in journal.entries : t.op = act[b].op
    BY <2>1, <2>2 DEF Told, Holds
  <2> QED
    BY <2>2, <2>3 DEF Advanced
<1>4. Worked(journal'.entries, act')
  <2>1. SUFFICES ASSUME NEW t \in journal'.entries, ~Completed(t)
                 PROVE  \E b \in Activators : act'[b].op = t.op
    BY DEF Worked
  <2>2. t \in journal.entries /\ t.op # act[a].op
    BY <2>1 DEF Advanced
  <2>3. PICK b \in Activators : act[b].op = t.op
    BY <2>1, <2>2 DEF Told, Worked
  <2> QED
    BY <1>2, <2>2, <2>3
<1> QED
  BY <1>3, <1>4 DEF Told

\* Writes of the journal alone.
LEMMA WritingJournal ==
    ASSUME IInv, Free, Unmoved(disk, act'), act' \in [Activators -> Actors], NEW k, count'.tickets = k,
           NEW op, op.journal \in Journals, Does(Durables(named, unbuilt, force, k), disk, op),
           disk \in Durables(named, unbuilt, force, k), journal' = op.journal, todo' = op.writes,
           UNCHANGED <<disk, up, inactive, named, force, unbuilt>>
    PROVE  Writing'
<1>1. Settles(disk, journal, inactive, named, unbuilt)
  BY FreeSettled DEF Free
<1>2. Durable' = Durables(named, unbuilt, force, k)
  BY DEF Durable
<1>3. Finishes(Durables(named, unbuilt, force, k), disk, op.writes, op.journal, inactive, named, unbuilt, Objects)
  BY <1>1, JournalLeads
<1>4. up' /\ Finishes(Durable', disk', todo', journal', inactive', named', unbuilt', Objects)
  BY <1>2, <1>3 DEF Free
<1>5. \A a \in Activators : act'[a].obj # None /\ ~act'[a].moved =>
          act'[a].obj \in Objects /\ disk'.file[act'[a].obj] = act'[a].rev
  BY DEF Unmoved, Actors
<1> QED
  BY <1>4, <1>5, WritingIf

\* The step that asked for an activation dumped.
LEMMA StepDumpedKeeps ==
    ASSUME IInv, NEW a \in Activators, StepDumped(a)
    PROVE  IInv'
<1>0. /\ Typed /\ Told /\ Acting /\ Waiting /\ Published
  BY DEF IInv
<1>1. act \in [Activators -> Actors] /\ disk \in Disks /\ count.tickets \in Nat
  BY <1>0 DEF Typed
<1>2. PICK y, failed, k : y = Idle(FALSE) /\ failed = update(journal, act[a].op, "failed") /\ k = count.tickets
  OBVIOUS
<1>3. /\ Free /\ act[a].pc = "checked" /\ act[a].op # None
      /\ journal' = failed.journal /\ todo' = failed.writes /\ act' = [act EXCEPT ![a] = y]
      /\ UNCHANGED <<disk, up, inactive, queue, running, count, named, force, unbuilt>>
  BY <1>2 DEF StepDumped, At, Sets, history
<1>4. /\ disk \in Durables(named, unbuilt, force, k) /\ Unmoved(disk, act) /\ Has(disk, journal)
      /\ Safe(disk, named, unbuilt, force) /\ True(journal, k)
  BY <1>2, <1>3, FreeSettled DEF Free, Durable
<1>5. PICK old \in journal.entries : old.op = act[a].op
  BY <1>0, <1>3 DEF Told, Holds
<1>6. /\ Does(Durables(named, unbuilt, force, k), disk, failed) /\ True(failed.journal, k)
      /\ Advanced(journal, failed.journal, act[a].op, "failed")
  BY <1>1, <1>2, <1>4, <1>5, UpdateDoes
<1>7. failed.journal \in Journals
  BY <1>6 DEF True
<1>8. /\ y \in Actors /\ Actor(y, disk.live) /\ y.pc = "idle" /\ y.obj = None /\ y.op = None
  BY <1>2, IdleIs
<1>9. act' \in [Activators -> Actors] /\ Acting' /\ Waiting' /\ Published'
  BY <1>0, <1>3, <1>8, Alone
<1>10. Unmoved(disk, act')
  BY <1>1, <1>3, <1>4, <1>8, UnmovedAlone
<1>11. Writing'
  BY <1>2, <1>3, <1>4, <1>6, <1>7, <1>9, <1>10, WritingJournal
<1>12. Told'
  <2>1. up /\ True(journal', count'.tickets) /\ Advanced(journal, journal', act[a].op, "failed")
    BY <1>2, <1>3, <1>6 DEF Free
  <2> QED
    BY <1>0, <1>3, <1>8, <2>1, ToldEnded
<1>13. Typed'
  BY <1>0, <1>3, <1>7, <1>9 DEF Typed
<1> QED
  BY <1>9, <1>11, <1>12, <1>13 DEF IInv

\* The journal i is j with a new ticket, which has ended or is pending.
Opens(j, i, op, state) ==
    /\ \A t \in i.entries : t \in j.entries \/ (t.op = op /\ (Completed(t) \/ state = "pending"))
    /\ \A t \in j.entries : \E u \in i.entries : u.op = t.op
    /\ \E t \in i.entries : t.op = op

\* Two operations make and judge the ticket op, from the journal j on disk d.
Asks(good, d, j, made, ended, op, state) ==
    /\ Does(good, d, Then(made, ended)) /\ True(ended.journal, op)
    /\ Then(made, ended).journal = ended.journal /\ Opens(j, ended.journal, op, state)

\* A ticket and its first verdict.
LEMMA ActivateDoes ==
    ASSUME NEW d \in Disks, NEW n, NEW e, NEW f, NEW k \in Nat, Safe(d, n, e, f),
           NEW j, True(j, k), Has(d, j), NEW o \in Objects, NEW state \in {"pending", "failed"},
           NEW made, made = create(j, o, k + 1), NEW ended, ended = update(made.journal, k + 1, state)
    PROVE  Asks(Durables(n, e, f, k + 1), d, j, made, ended, k + 1, state)
<1>1. PICK new : new = [op |-> k + 1, obj |-> o, seq |-> j.attempts[o].sequence + 1, state |-> "checked"]
  OBVIOUS
<1>2. /\ Does(Durables(n, e, f, k + 1), d, made) /\ True(made.journal, k + 1)
      /\ made.journal.entries = j.entries \cup {new}
  BY <1>1, CreateDoes
<1>3. made.journal \in Journals
  BY <1>2 DEF True
<1>4. PICK h : h = Holding(d, made.journal)
  OBVIOUS
<1>5. h \in Disks /\ Has(h, made.journal) /\ Safe(h, n, e, f)
  BY <1>2, <1>3, <1>4, HoldingIs, HoldingSafe DEF True
<1>6. new \in made.journal.entries /\ new.op = k + 1
  BY <1>1, <1>2
<1>7. /\ Does(Durables(n, e, f, k + 1), h, ended) /\ True(ended.journal, k + 1)
      /\ Advanced(made.journal, ended.journal, k + 1, state)
  <2>1. k + 1 \in Nat /\ state \in {"pending", "published", "failed"}
    OBVIOUS
  <2> QED
    BY <1>2, <1>5, <1>6, <2>1, UpdateDoes
<1>8. ended.journal \in Journals
  BY <1>7 DEF True
<1>9. Does(Durables(n, e, f, k + 1), d, Then(made, ended)) /\ Then(made, ended).journal = ended.journal
  BY <1>2, <1>3, <1>4, <1>7, <1>8, DoesThen
<1>10. Opens(j, ended.journal, k + 1, state)
  <2>1. \A t \in ended.journal.entries : t \in j.entries \/ (t.op = k + 1 /\ (Completed(t) \/ state = "pending"))
    BY <1>2, <1>6, <1>7 DEF Advanced
  <2> QED
    BY <1>2, <1>6, <1>7, <2>1 DEF Advanced, Opens
<1> QED
  BY <1>7, <1>9, <1>10 DEF Asks

\* Who was idle works on a ticket that is pending.
LEMMA ToldOpened ==
    ASSUME Told, Typed, up, NEW a \in Activators, NEW y, act' = [act EXCEPT ![a] = y], act[a].op = None,
           True(journal', count'.tickets), NEW op, NEW state, Opens(journal, journal', op, state),
           y.op = IF state = "pending" THEN op ELSE None
    PROVE  Told'
<1>1. act \in [Activators -> Actors] /\ journal \in Journals
  BY DEF Typed
<1>2. act'[a] = y /\ \A b \in Activators \ {a} : act'[b] = act[b]
  BY <1>1
<1>3. Holds(journal'.entries, act')
  <2>1. SUFFICES ASSUME NEW b \in Activators, act'[b].op # None
                 PROVE  \E u \in journal'.entries : u.op = act'[b].op
    BY DEF Holds
  <2>2. CASE b = a
    BY <1>2, <2>1, <2>2 DEF Opens
  <2>3. CASE b # a
    <3>1. act'[b] = act[b]
      BY <1>2, <2>3
    <3>2. PICK t \in journal.entries : t.op = act[b].op
      BY <2>1, <3>1 DEF Told, Holds
    <3> QED
      BY <3>1, <3>2 DEF Opens
  <2> QED
    BY <2>2, <2>3
<1>4. Worked(journal'.entries, act')
  <2>1. SUFFICES ASSUME NEW t \in journal'.entries, ~Completed(t)
                 PROVE  \E b \in Activators : act'[b].op = t.op
    BY DEF Worked
  <2>2. CASE t \in journal.entries
    <3>1. PICK b \in Activators : act[b].op = t.op
      BY <2>1, <2>2 DEF Told, Worked
    <3>2. t.op \in Nat
      BY <1>1, <2>2 DEF Journals, Ticket
    <3>3. b # a
      BY <3>1, <3>2, NothingAssumption
    <3> QED
      BY <1>2, <3>1, <3>3
  <2>3. CASE t \notin journal.entries
    BY <1>2, <2>1, <2>3 DEF Opens
  <2> QED
    BY <2>2, <2>3
<1> QED
  BY <1>3, <1>4 DEF Told

\* A ticket whose check was clean, or that has failed.
LEMMA ActivateStep ==
    ASSUME IInv, NEW a \in Activators, NEW o \in Objects, NEW state \in {"pending", "failed"},
           Free, act[a].pc = "idle", NEW k, k = count.tickets, count' = [count EXCEPT !.tickets = @ + 1],
           NEW made, made = create(journal, o, k + 1), NEW ended, ended = update(made.journal, k + 1, state),
           journal' = Then(made, ended).journal, todo' = Then(made, ended).writes,
           NEW y \in Actors, act' = [act EXCEPT ![a] = y], Actor(y, disk.live), y.pc \in {"idle", "checked"},
           y.op = IF state = "pending" THEN k + 1 ELSE None, y.obj # None => y.rev = disk.file[y.obj],
           UNCHANGED <<disk, up, inactive, queue, running, named, force, unbuilt>>
    PROVE  IInv'
<1>0. /\ Typed /\ Told /\ Acting /\ Waiting /\ Published
  BY DEF IInv
<1>1. /\ act \in [Activators -> Actors] /\ disk \in Disks /\ k \in Nat
      /\ count \in [saves : Nat, edits : Nat, tickets : Nat, crashes : Nat, cells : Nat]
  BY <1>0 DEF Typed
<1>2. count'.tickets = k + 1 /\ count' \in [saves : Nat, edits : Nat, tickets : Nat, crashes : Nat, cells : Nat]
  BY <1>1
<1>3. /\ disk \in Durables(named, unbuilt, force, k) /\ Unmoved(disk, act) /\ Has(disk, journal)
      /\ Safe(disk, named, unbuilt, force) /\ True(journal, k)
  BY FreeSettled DEF Free, Durable
<1>4. /\ Does(Durables(named, unbuilt, force, k + 1), disk, Then(made, ended)) /\ True(ended.journal, k + 1)
      /\ Then(made, ended).journal = ended.journal /\ Opens(journal, ended.journal, k + 1, state)
  <2>1. Asks(Durables(named, unbuilt, force, k + 1), disk, journal, made, ended, k + 1, state)
    BY <1>1, <1>3, ActivateDoes
  <2> QED
    BY <2>1 DEF Asks
<1>5. ended.journal \in Journals
  BY <1>4 DEF True
<1>6. disk \in Durables(named, unbuilt, force, k + 1)
  <2>1. journal \in Journals /\ KeptIn(journal, k + 1)
    BY <1>1, <1>3, KeptGrows DEF True, KeptIn
  <2> QED
    BY <1>1, <1>3, <2>1 DEF Durables, Has, KeptIn
<1>7. act[a].op = None
  BY <1>0 DEF Acting, Actor
<1>8. act' \in [Activators -> Actors] /\ Acting' /\ Waiting' /\ Published'
  BY <1>0, Alone
<1>9. Unmoved(disk, act')
  BY <1>1, <1>3, UnmovedAlone
<1>10. Writing'
  <2>1. PICK op, m : op = Then(made, ended) /\ m = k + 1
    OBVIOUS
  <2>2. /\ op.journal \in Journals /\ Does(Durables(named, unbuilt, force, m), disk, op) /\ count'.tickets = m
        /\ disk \in Durables(named, unbuilt, force, m) /\ journal' = op.journal /\ todo' = op.writes
    BY <1>2, <1>4, <1>5, <1>6, <2>1
  <2> QED
    BY <1>8, <1>9, <2>2, WritingJournal
<1>11. Told'
  <2>1. /\ up /\ True(journal', count'.tickets) /\ Opens(journal, journal', k + 1, state)
    BY <1>2, <1>4 DEF Free
  <2> QED
    BY <1>0, <1>7, <2>1, ToldOpened
<1>12. Typed'
  <2>1. journal' \in Journals
    BY <1>4, <1>5
  <2> QED
    BY <1>0, <1>2, <1>8, <2>1 DEF Typed
<1> QED
  BY <1>8, <1>10, <1>11, <1>12 DEF IInv

\* An activation is asked for.
LEMMA ActivateKeeps ==
    ASSUME IInv, NEW a \in Activators, NEW o \in Objects, Activate(a, o)
    PROVE  IInv'
<1>1. disk \in Disks /\ count.tickets \in Nat
  BY DEF IInv, Typed
<1>2. PICK k, made : k = count.tickets /\ made = create(journal, o, k + 1)
  OBVIOUS
<1>3. /\ Free /\ act[a].pc = "idle" /\ count' = [count EXCEPT !.tickets = @ + 1]
      /\ UNCHANGED <<disk, up, inactive, queue, running, named, force, unbuilt>>
  BY DEF Activate, At
<1>4. CASE /\ journal' = Then(made, update(made.journal, k + 1, "pending")).journal
           /\ todo' = Then(made, update(made.journal, k + 1, "pending")).writes
           /\ Sets(a, Activating(a, o, k + 1)) /\ disk.file[o] # Absent
  <2>1. PICK y, ended : y = Activating(a, o, k + 1) /\ ended = update(made.journal, k + 1, "pending")
    OBVIOUS
  <2>2. k + 1 \in Nat /\ o # None
    BY <1>1, <1>2, ObjectsAssumption
  <2>3. /\ y \in Actors /\ Actor(y, disk.live) /\ y.pc = "checked" /\ y.op = k + 1
        /\ y.obj # None => y.rev = disk.file[y.obj]
    BY <1>1, <1>4, <2>1, <2>2, ActivatingIs
  <2>4. journal' = Then(made, ended).journal /\ todo' = Then(made, ended).writes /\ act' = [act EXCEPT ![a] = y]
    BY <1>4, <2>1 DEF Sets
  <2> QED
    BY <1>2, <1>3, <2>1, <2>3, <2>4, ActivateStep
<1>5. CASE /\ journal' = Then(made, update(made.journal, k + 1, "failed")).journal
           /\ todo' = Then(made, update(made.journal, k + 1, "failed")).writes
           /\ Sets(a, Idle(FALSE))
  <2>1. PICK y, ended : y = Idle(FALSE) /\ ended = update(made.journal, k + 1, "failed")
    OBVIOUS
  <2>2. /\ y \in Actors /\ Actor(y, disk.live) /\ y.pc = "idle" /\ y.op = None /\ y.obj = None
    BY <2>1, IdleIs
  <2>3. journal' = Then(made, ended).journal /\ todo' = Then(made, ended).writes /\ act' = [act EXCEPT ![a] = y]
    BY <1>5, <2>1 DEF Sets
  <2> QED
    BY <1>2, <1>3, <2>1, <2>2, <2>3, ActivateStep
<1> QED
  BY <1>2, <1>4, <1>5 DEF Activate

\* What the store takes from the disk when it starts.
Found == IF disk.set = NoFile THEN recoverFromCopies ELSE Restored

\* It restores what the disk says.
LEMMA FoundIs ==
    ASSUME disk \in Disks, NEW saved, saved = Found, NEW f, NEW F,
           F = [o \in Objects |-> IF o \notin DOMAIN saved THEN Absent ELSE IF disk.set = NoFile THEN disk.copy[o] ELSE f[o]]
    PROVE  Restores(disk, saved, f, F)
<1>1. disk.file \in [Objects -> Maybe] /\ disk.set \in Saveds \cup {NoFile}
  BY DEF Disks, Views
<1>2. \A o \in Objects : disk.file[o] # Absent => disk.file[o] \in Versions
  BY <1>1 DEF Maybe
<1>3. PICK P : P = {o \in Objects : disk.file[o] # Absent} /\ P = Present
  BY DEF Present
<1>4. CASE disk.set = NoFile
  <2>1. saved = [o \in {k \in Present : disk.copy[k] # Absent} |-> [digest |-> disk.file[o], outside |-> TRUE]]
    BY <1>4 DEF Found, recoverFromCopies
  <2>2. DOMAIN saved = {x \in Objects : disk.file[x] # Absent /\ disk.copy[x] # Absent}
    BY <1>3, <2>1
  <2>3. DOMAIN saved \in SUBSET Objects
    BY <2>2
  <2>4. saved \in [DOMAIN saved -> Record]
    <3>1. ASSUME NEW x \in DOMAIN saved PROVE saved[x] \in Record
      <4>1. saved[x] = [digest |-> disk.file[x], outside |-> TRUE] /\ disk.file[x] \in Versions
        BY <1>2, <2>1, <2>2
      <4> QED
        BY <4>1 DEF Record
    <3>2. saved = [x \in DOMAIN saved |-> saved[x]]
      BY <2>1
    <3> QED
      BY <3>1, <3>2
  <2>5. saved \in Saveds
    BY <2>3, <2>4 DEF Saveds
  <2> QED
    BY <1>4, <2>2, <2>5 DEF Restores
<1>5. CASE disk.set # NoFile
  <2>0. PICK objects \in SUBSET Objects : disk.set \in [objects -> Record]
    BY <1>1, <1>5 DEF Saveds
  <2>1. saved = [o \in DOMAIN disk.set \cap Present |->
                    [digest |-> disk.file[o],
                     outside |-> disk.set[o].outside \/ disk.set[o].digest # disk.file[o]]]
    BY <1>5 DEF Found, Restored
  <2>2. DOMAIN saved = DOMAIN disk.set \cap {x \in Objects : disk.file[x] # Absent}
    BY <1>3, <2>1
  <2>3. DOMAIN saved \in SUBSET Objects
    BY <2>2
  <2>4. ASSUME NEW x \in DOMAIN saved PROVE saved[x] \in Record
    <3>1. disk.file[x] \in Versions /\ disk.set[x].outside \in BOOLEAN
      BY <1>2, <2>0, <2>2 DEF Record
    <3>2. (disk.set[x].outside \/ disk.set[x].digest # disk.file[x]) \in BOOLEAN
      BY <3>1
    <3>3. saved[x] = [digest |-> disk.file[x], outside |-> disk.set[x].outside \/ disk.set[x].digest # disk.file[x]]
      BY <2>1, <2>2
    <3> QED
      BY <3>1, <3>2, <3>3 DEF Record
  <2>5. saved \in Saveds
    <3>1. saved = [x \in DOMAIN saved |-> saved[x]]
      BY <2>1
    <3>2. saved \in [DOMAIN saved -> Record]
      BY <2>4, <3>1
    <3> QED
      BY <2>3, <3>2 DEF Saveds
  <2> QED
    BY <1>5, <2>2, <2>5 DEF Restores
<1> QED
  BY <1>4, <1>5

\* The journal is opened, and what is missing forgotten.
LEMMA StartDoes ==
    ASSUME NEW d \in Disks, NEW n, NEW e, NEW f, NEW k \in Nat, Safe(d, n, e, f),
           NEW j \in Journals, KeptIn(j, k), Has(d, j), NEW order \in Seq(Objects),
           NEW opened, opened = open(j), NEW missing, missing = forgetMissingObjects(opened.journal, order),
           NEW forgot, forgot = Then(opened, missing)
    PROVE  /\ Does(Durables(n, e, f, k), d, forgot) /\ True(forgot.journal, k)
           /\ \A t \in forgot.journal.entries : Completed(t)
<1>1. /\ Does(Durables(n, e, f, k), d, opened) /\ True(opened.journal, k)
      /\ \A t \in opened.journal.entries : Completed(t)
  BY OpenDoes
<1>2. opened.journal \in Journals
  BY <1>1 DEF True
<1>3. PICK h : h = Holding(d, opened.journal)
  OBVIOUS
<1>4. h \in Disks /\ Has(h, opened.journal) /\ Safe(h, n, e, f)
  BY <1>1, <1>2, <1>3, HoldingIs, HoldingSafe DEF True
<1>5. /\ Does(Durables(n, e, f, k), h, missing) /\ True(missing.journal, k)
      /\ missing.journal.entries = opened.journal.entries
  BY <1>1, <1>4, ForgetMissingDoes
<1>6. missing.journal \in Journals
  BY <1>5 DEF True
<1>7. Does(Durables(n, e, f, k), d, forgot) /\ forgot.journal = missing.journal
  BY <1>1, <1>2, <1>3, <1>5, <1>6, DoesThen
<1> QED
  BY <1>1, <1>5, <1>7

\* A sequence over a set is one over a larger set.
LEMMA LargerSeq ==
    ASSUME NEW S, NEW T, S \subseteq T, NEW s \in Seq(S)
    PROVE  s \in Seq(T)
OBVIOUS

\* An order of what is forgotten, and one of the copies that go.
Orders(order, orphans, saved) ==
    /\ order \in Seq(Objects) /\ orphans \in Seq(Objects \ DOMAIN saved)
    /\ disk.set = NoFile => orphans = <<>>

\* The objects that are forgotten, and the copies that go, are finitely many.
LEMMA OrdersAre ==
    ASSUME NEW j, NEW saved, NEW order, NEW orphans,
           NEW S, S = Forgettable(j, Objects \ Present), order \in SetToSeqs(S),
           NEW T, T = (IF disk.set = NoFile THEN {} ELSE Orphans(saved)), orphans \in SetToSeqs(T)
    PROVE  Orders(order, orphans, saved)
<1>2. S \subseteq Objects /\ T \subseteq Objects \ DOMAIN saved
  BY DEF Forgettable, Orphans
<1>3. IsFiniteSet(S) /\ IsFiniteSet(T)
  BY <1>2, ObjectsAssumption, FS_Subset
<1>4. order \in Seq(S) /\ orphans \in Seq(T)
  BY <1>3, OrderIs
<1>5. order \in Seq(Objects) /\ orphans \in Seq(Objects \ DOMAIN saved)
  BY <1>2, <1>4, LargerSeq, Zenon
<1>6. ASSUME disk.set = NoFile PROVE orphans = <<>>
  <2>1. T = {}
    BY <1>6
  <2> QED
    BY <1>4, <2>1
<1> QED
  BY <1>5, <1>6 DEF Orders

\* What Start does, for one order of what is forgotten and one of what goes.
Starts(opened, saved, order, orphans) ==
    /\ journal' = Then(opened, forgetMissingObjects(opened.journal, order)).journal
    /\ inactive' = saved
    /\ todo' = Then(opened, forgetMissingObjects(opened.journal, order)).writes
               \o (IF Differs(disk, saved) THEN <<Set(saved)>> ELSE <<>>)
               \o [i \in DOMAIN orphans |-> Copy(orphans[i], Absent)]
    /\ force' = [o \in Objects |-> IF o \notin DOMAIN saved THEN Absent
                                   ELSE IF disk.set = NoFile THEN disk.copy[o] ELSE force[o]]

\* The store starts.
LEMMA StartKeeps ==
    ASSUME IInv, Start
    PROVE  IInv'
<1>0. /\ Typed /\ Writing /\ Told /\ Acting /\ Waiting /\ Published
  BY DEF IInv
<1>1. /\ disk \in Disks /\ count.tickets \in Nat /\ act \in [Activators -> Actors]
  BY <1>0 DEF Typed
<1>2. /\ ~up /\ up' /\ UNCHANGED <<disk, queue, running, act, count, named, unbuilt>>
  BY DEF Start
<1>3. disk \in Durable /\ \A a \in Activators : act[a] = Idle(FALSE)
  BY <1>0, <1>2 DEF Writing
<1>4. PICK files, saved, k :
         /\ files = [attempts |-> disk.attempts, outcomes |-> disk.outcomes, entries |-> disk.entries]
         /\ saved = Found /\ k = count.tickets
  OBVIOUS
<1>5. PICK opened : opened = open(files)
  OBVIOUS
<1>6. PICK order \in SetToSeqs(Forgettable(opened.journal, Objects \ Present)),
           orphans \in SetToSeqs(IF disk.set = NoFile THEN {} ELSE Orphans(saved)) :
         /\ journal' = Then(opened, forgetMissingObjects(opened.journal, order)).journal
         /\ inactive' = saved
         /\ todo' = Then(opened, forgetMissingObjects(opened.journal, order)).writes
                    \o (IF Differs(disk, saved) THEN <<Set(saved)>> ELSE <<>>)
                    \o [i \in DOMAIN orphans |-> Copy(orphans[i], Absent)]
         /\ force' = [o \in Objects |-> IF o \notin DOMAIN saved THEN Absent
                                        ELSE IF disk.set = NoFile THEN disk.copy[o] ELSE force[o]]
  <2>1. \E ord \in SetToSeqs(Forgettable(opened.journal, Objects \ Present)),
            orp \in SetToSeqs(IF disk.set = NoFile THEN {} ELSE Orphans(saved)) : Starts(opened, saved, ord, orp)
    BY <1>4, <1>5 DEF Start, Found, Differs, Starts
  <2> QED
    BY <2>1 DEF Starts
<1>7. /\ order \in Seq(Objects) /\ orphans \in Seq(Objects \ DOMAIN saved)
      /\ disk.set = NoFile => orphans = <<>>
  <2>1. PICK S, T, j : /\ j = opened.journal /\ S = Forgettable(j, Objects \ Present)
                       /\ T = IF disk.set = NoFile THEN {} ELSE Orphans(saved)
    OBVIOUS
  <2>2. order \in SetToSeqs(S) /\ orphans \in SetToSeqs(T)
    BY <2>1
  <2>3. Orders(order, orphans, saved)
    BY <2>1, <2>2, OrdersAre
  <2> QED
    BY <2>3 DEF Orders
<1>8. PICK missing, forgot, F : /\ missing = forgetMissingObjects(opened.journal, order)
                                /\ forgot = Then(opened, missing) /\ F = force'
  OBVIOUS
<1>9. Restores(disk, saved, force, F)
  BY <1>1, <1>4, <1>6, <1>8, FoundIs
<1>10. PICK good : good = Durables(named, unbuilt, F, k)
  OBVIOUS
<1>11. disk \in good /\ Safe(disk, named, unbuilt, F)
  <2>1. disk \in Durables(named, unbuilt, force, k)
    BY <1>3, <1>4 DEF Durable
  <2>2. disk \in Durables(named, unbuilt, F, k)
    BY <1>9, <2>1, RestoresSafe
  <2> QED
    BY <1>10, <2>2 DEF Durables
<1>12. files \in Journals /\ KeptIn(files, k) /\ Has(disk, files) /\ k \in Nat
  BY <1>1, <1>4, <1>10, <1>11 DEF Disks, Journals, Durables, KeptIn, Has
<1>13. /\ Does(good, disk, forgot) /\ True(forgot.journal, k) /\ \A t \in forgot.journal.entries : Completed(t)
  BY <1>1, <1>5, <1>7, <1>8, <1>10, <1>11, <1>12, StartDoes
<1>14. forgot.journal \in Journals
  BY <1>13 DEF True
<1>15. PICK g : g = Holding(disk, forgot.journal)
  OBVIOUS
<1>16. /\ g \in good /\ g \in Disks /\ Has(g, forgot.journal)
       /\ g.file = disk.file /\ g.copy = disk.copy /\ g.live = disk.live /\ g.set = disk.set
  BY <1>1, <1>10, <1>11, <1>13, <1>14, <1>15, HoldingIs, HoldingSafe DEF True
<1>17. Restores(g, saved, F, F) /\ Differs(g, saved) = Differs(disk, saved)
  BY <1>9, <1>16 DEF Restores, Differs
<1>18. PICK ls, as, cs : /\ ls = forgot.writes
                         /\ as = IF Differs(g, saved) THEN <<Set(saved)>> ELSE <<>>
                         /\ cs = [i \in DOMAIN orphans |-> Copy(orphans[i], Absent)]
  OBVIOUS
<1>19. todo' = (ls \o as) \o cs
  BY <1>6, <1>8, <1>17, <1>18
<1>20. Restoring(good, g, as, cs, forgot.journal, saved, named, unbuilt)
  BY <1>7, <1>10, <1>16, <1>17, <1>18, RestoreLeads
<1>21. Leads(good, disk, ls, g)
  BY <1>13, <1>15, <1>18 DEF Does, Leads
<1>22. Finishes(good, disk, todo', forgot.journal, saved, named, unbuilt, {})
  <2>1. PICK x, h \in good :
           Leads(good, g, as, h) /\ Leads(good, h, cs, x) /\ Settles(x, forgot.journal, saved, named, unbuilt)
    BY <1>20 DEF Restoring
  <2>2. PICK ms : ms = ls \o as
    OBVIOUS
  <2>3. Leads(good, disk, ms, h)
    BY <1>21, <2>1, <2>2, LeadsThen
  <2>4. Leads(good, disk, ms \o cs, x)
    BY <2>1, <2>3, LeadsThen
  <2>5. Leads(good, disk, todo', x)
    BY <1>19, <2>2, <2>4
  <2> QED
    BY <2>1, <2>5 DEF Finishes
<1>23. Durable' = good /\ journal' = forgot.journal /\ inactive' = saved
  BY <1>2, <1>4, <1>6, <1>8, <1>10 DEF Durable
<1>24. Writing'
  <2>1. up' /\ Finishes(Durable', disk', todo', journal', inactive', named', unbuilt', {})
    BY <1>2, <1>22, <1>23
  <2>2. \A a \in Activators : act'[a].obj = None
    BY <1>2, <1>3, IdleIs
  <2> QED
    BY <2>1, <2>2, WritingIf
<1>25. Told'
  BY <1>2, <1>3, <1>4, <1>13, <1>23, IdleIs DEF Told, Holds, Worked
<1>26. Typed'
  <2>1. saved \in Saveds
    BY <1>9 DEF Restores
  <2>2. F \in Views
    <3>1. disk.copy \in [Objects -> Maybe] /\ force \in [Objects -> Maybe] /\ Absent \in Maybe
      BY <1>0, <1>1 DEF Typed, Disks, Views, Maybe
    <3>2. F = [o \in Objects |-> IF o \notin DOMAIN saved THEN Absent
                                 ELSE IF disk.set = NoFile THEN disk.copy[o] ELSE force[o]]
      BY <1>6, <1>8
    <3> QED
      BY <3>1, <3>2 DEF Views
  <2> QED
    BY <1>0, <1>2, <1>8, <1>14, <1>23, <2>1, <2>2 DEF Typed
<1>27. Acting' /\ Waiting' /\ Published'
  BY <1>0, <1>2, Quiet DEF Same
<1> QED
  BY <1>24, <1>25, <1>26, <1>27 DEF IInv

\* What a publication sees is a version of every object.
LEMMA ViewIs ==
    ASSUME disk \in Disks, NEW objects
    PROVE  /\ View(objects) \in Views /\ View(objects) # None
           /\ \A o \in Objects : o \in objects \/ o \notin DOMAIN inactive \/ disk.file[o] = Absent =>
                 View(objects)[o] = disk.file[o]
           /\ \A o \in Objects : View(objects)[o] \in {disk.file[o], disk.copy[o]}
<1>1. disk.file \in [Objects -> Maybe] /\ disk.copy \in [Objects -> Maybe]
  BY DEF Disks, Views
<1>2. View(objects) \in Views
  BY <1>1 DEF View, Views
<1>3. View(objects) # None
  BY <1>2, NothingThere
<1> QED
  BY <1>2, <1>3 DEF View

\* An activator whose object is the same is in the same publications.
LEMMA SameObjects ==
    ASSUME act \in [Activators -> Actors], NEW a \in Activators, NEW y, act' = [act EXCEPT ![a] = y],
           y.obj = act[a].obj
    PROVE  /\ act'[a] = y /\ \A b \in Activators \ {a} : act'[b] = act[b]
           /\ \A b \in Activators : ObjectsOf(b)' = ObjectsOf(b)
<1>1. act'[a] = y /\ \A b \in Activators \ {a} : act'[b] = act[b]
  OBVIOUS
<1> QED
  BY <1>1 DEF ObjectsOf

\* Who is in no publication.
LEMMA NotWaiting ==
    ASSUME Typed, Waiting, NEW a \in Activators, act[a].pc # "waiting"
    PROVE  /\ \A i \in DOMAIN queue : queue[i].by \subseteq Activators \ {a}
           /\ running # None => running.by \subseteq Activators \ {a}
<1>1. \A i \in DOMAIN queue : queue[i].by \subseteq Activators \ {a}
  BY QueueIs DEF Waiting
<1>2. running \in Publications \cup {None}
  BY DEF Typed
<1>3. running # None => running.by \subseteq Activators \ {a}
  BY <1>2 DEF Publications, Waiting
<1> QED
  BY <1>1, <1>3

\* The queue with one more who waits: at a place of its own, or with the last.
LEMMA WaitsIs ==
    ASSUME Typed, NEW a \in Activators, NEW objects \in SUBSET Objects, Waits(a, objects)
    PROVE  /\ queue' \in Seq(Waitings)
           /\ \E m \in DOMAIN queue' :
                 /\ a \in queue'[m].by /\ queue'[m].objects = objects
                 /\ \A i \in DOMAIN queue' : i # m => i \in DOMAIN queue /\ queue'[i] = queue[i]
                 /\ \A b \in queue'[m].by \ {a} : m \in DOMAIN queue /\ b \in queue[m].by /\ queue[m].objects = objects
<1>1. queue \in Seq(Waitings) /\ DOMAIN queue = 1 .. Len(queue) /\ Len(queue) \in Nat
  BY DEF Typed
<1>2. CASE Queued(objects)
  <2>1. PICK m : m = Len(queue)
    OBVIOUS
  <2>2. m \in 1 .. Len(queue) /\ queue[m].objects = objects /\ queue[m] \in Waitings
    BY <1>1, <1>2, <2>1 DEF Queued
  <2>3. queue' = [queue EXCEPT ![m].by = @ \cup {a}]
    BY <1>2, <2>1 DEF Waits
  <2>4. PICK w : w = [queue[m] EXCEPT !.by = @ \cup {a}]
    OBVIOUS
  <2>5. w \in Waitings /\ w.by = queue[m].by \cup {a} /\ w.objects = objects
    BY <2>2, <2>4 DEF Waitings
  <2>6. queue' = [queue EXCEPT ![m] = w]
    BY <2>3, <2>4
  <2>7. DOMAIN queue' = DOMAIN queue /\ queue'[m] = w /\ \A i \in DOMAIN queue : i # m => queue'[i] = queue[i]
    BY <1>1, <2>2, <2>6
  <2>8. queue' \in Seq(Waitings)
    BY <1>1, <2>2, <2>5, <2>6
  <2> QED
    BY <1>1, <2>2, <2>5, <2>7, <2>8
<1>3. CASE ~Queued(objects)
  <2>1. PICK w, m : w = [objects |-> objects, by |-> {a}] /\ m = Len(queue) + 1
    OBVIOUS
  <2>2. queue' = Append(queue, w) /\ w \in Waitings /\ w.by = {a} /\ w.objects = objects
    BY <1>3, <2>1 DEF Waits, Waitings
  <2>3. queue' \in Seq(Waitings) /\ DOMAIN queue' = 1 .. m /\ queue'[m] = w
    BY <1>1, <2>1, <2>2
  <2>4. \A i \in DOMAIN queue' : i # m => i \in DOMAIN queue /\ queue'[i] = queue[i]
    BY <1>1, <2>1, <2>2, <2>3
  <2>5. m \in DOMAIN queue'
    BY <1>1, <2>1, <2>3
  <2> QED
    BY <2>2, <2>3, <2>4, <2>5
<1> QED
  BY <1>2, <1>3

\* One activator, which is in no publication, waits for the next of its objects.
LEMMA WaitsKeeps ==
    ASSUME Typed, Acting, Waiting, Published, NEW a \in Activators, NEW y \in Actors,
           running' = running, disk'.live = disk.live, named' = named,
           act' = [act EXCEPT ![a] = y], act[a].pc # "waiting", y.pc = "waiting", y.obj = act[a].obj,
           Actor(y, disk.live), Waits(a, ObjectsOf(a))
    PROVE  act' \in [Activators -> Actors] /\ queue' \in Seq(Waitings) /\ Acting' /\ Waiting' /\ Published'
<1>0. act \in [Activators -> Actors]
  BY DEF Typed
<1>1. /\ act'[a] = y /\ \A b \in Activators \ {a} : act'[b] = act[b]
      /\ \A b \in Activators : ObjectsOf(b)' = ObjectsOf(b)
  BY <1>0, SameObjects
<1>2. /\ \A i \in DOMAIN queue : queue[i].by \subseteq Activators \ {a}
      /\ running # None => running.by \subseteq Activators \ {a}
  BY NotWaiting
<1>3. ObjectsOf(a) \in SUBSET Objects
  BY <1>0 DEF ObjectsOf, Actors
<1>4. queue' \in Seq(Waitings)
  BY <1>3, WaitsIs
<1>5. PICK m \in DOMAIN queue' :
         /\ a \in queue'[m].by /\ queue'[m].objects = ObjectsOf(a)
         /\ \A i \in DOMAIN queue' : i # m => i \in DOMAIN queue /\ queue'[i] = queue[i]
         /\ \A b \in queue'[m].by \ {a} : m \in DOMAIN queue /\ b \in queue[m].by /\ queue[m].objects = ObjectsOf(a)
  BY <1>3, WaitsIs
<1>6. Acting'
  BY <1>1 DEF Acting
<1>7. Published'
  BY <1>1, <1>2 DEF Published
<1>8. ASSUME NEW i \in DOMAIN queue', NEW b \in queue'[i].by
      PROVE  /\ act'[b].pc = "waiting" /\ queue'[i].objects = ObjectsOf(b)'
             /\ \A l \in DOMAIN queue' : b \in queue'[l].by => i = l
             /\ running' # None => b \notin running'.by
  <2>1. CASE b = a
    <3>1. \A l \in DOMAIN queue' : l # m => a \notin queue'[l].by
      BY <1>2, <1>5
    <3> QED
      BY <1>1, <1>2, <1>5, <1>8, <2>1, <3>1
  <2>2. CASE b # a
    <3>1. \A l \in DOMAIN queue' : b \in queue'[l].by => l \in DOMAIN queue /\ b \in queue[l].by
      BY <1>5, <2>2
    <3>2. i \in DOMAIN queue /\ b \in queue[i].by /\ b \in Activators /\ queue'[i].objects = queue[i].objects
      BY <1>2, <1>5, <1>8, <2>2, <3>1
    <3>3. /\ act[b].pc = "waiting" /\ queue[i].objects = ObjectsOf(b)
          /\ \A l \in DOMAIN queue : b \in queue[l].by => i = l
          /\ running # None => b \notin running.by
      BY <3>2 DEF Waiting
    <3> QED
      BY <1>1, <2>2, <3>1, <3>2, <3>3
  <2> QED
    BY <2>1, <2>2
<1>9. running' # None => \A b \in running'.by : act'[b].pc = "waiting" /\ running'.objects = ObjectsOf(b)'
  BY <1>1, <1>2 DEF Waiting
<1>10. \A b \in Activators : act'[b].pc = "joining" => running' # None /\ running'.objects = ObjectsOf(b)'
  BY <1>1 DEF Waiting
<1>11. Waiting'
  BY <1>8, <1>9, <1>10 DEF Waiting
<1>12. act' \in [Activators -> Actors]
  BY <1>0
<1> QED
  BY <1>4, <1>6, <1>7, <1>11, <1>12

\* publish: who may join the publication in its turn remembers the tree it saw, the others wait.
LEMMA PublishKeeps ==
    ASSUME IInv, NEW a \in Activators, Publish(a)
    PROVE  IInv'
<1>0. /\ Typed /\ Told /\ Acting /\ Waiting /\ Published
  BY DEF IInv
<1>1. act \in [Activators -> Actors] /\ act[a] \in Actors /\ disk \in Disks /\ queue \in Seq(Waitings)
  BY <1>0 DEF Typed
<1>2. /\ Free /\ act[a].pc = "checked"
      /\ UNCHANGED <<disk, up, inactive, journal, todo, running, count, named, force, unbuilt>>
  BY DEF Publish, At, history
<1>3. /\ Actor(act[a], disk.live) /\ act[a].built = None
  BY <1>0, <1>2 DEF Acting, Actor
<1>4. Unmoved(disk, act)
  BY <1>2, FreeSettled DEF Free
<1>5. \/ \E y : /\ y = [act[a] EXCEPT !.pc = "joining", !.key = View(ObjectsOf(a))] /\ act' = [act EXCEPT ![a] = y]
                /\ queue' = queue /\ running # None /\ running.objects = ObjectsOf(a)
      \/ \E y : /\ y = [act[a] EXCEPT !.pc = "waiting"] /\ act' = [act EXCEPT ![a] = y] /\ Waits(a, ObjectsOf(a))
  BY DEF Publish, Sets
<1>6. \E y \in Actors : /\ act' = [act EXCEPT ![a] = y] /\ y.obj = act[a].obj /\ y.op = act[a].op
                        /\ y.rev = act[a].rev /\ y.moved = act[a].moved /\ Actor(y, disk.live)
                        /\ \/ /\ y.pc = "joining" /\ queue' = queue /\ running # None
                              /\ running.objects = ObjectsOf(a)
                           \/ y.pc = "waiting" /\ Waits(a, ObjectsOf(a))
  <2>1. ASSUME NEW y, y = [act[a] EXCEPT !.pc = "joining", !.key = View(ObjectsOf(a))], act' = [act EXCEPT ![a] = y],
               queue' = queue, running # None, running.objects = ObjectsOf(a)
        PROVE  /\ y \in Actors /\ act' = [act EXCEPT ![a] = y] /\ y.obj = act[a].obj /\ y.op = act[a].op
               /\ y.rev = act[a].rev /\ y.moved = act[a].moved /\ Actor(y, disk.live) /\ y.pc = "joining"
    <3>1. PICK key : key = View(ObjectsOf(a))
      OBVIOUS
    <3>2. key \in Views /\ key # None
      BY <1>1, <3>1, ViewIs
    <3>3. act[a].obj # None => act[a].obj \in Objects /\ key[act[a].obj] = disk.file[act[a].obj]
      <4>1. act[a].obj # None => act[a].obj \in Objects /\ act[a].obj \in ObjectsOf(a)
        BY <1>1 DEF Actors, ObjectsOf
      <4> QED
        BY <1>1, <3>1, <4>1, ViewIs
    <3>4. /\ y \in Actors /\ y.pc = "joining" /\ y.key = key /\ y.obj = act[a].obj /\ y.rev = act[a].rev
          /\ y.op = act[a].op /\ y.built = act[a].built /\ y.moved = act[a].moved /\ y.wronged = act[a].wronged
      <4>1. y = [act[a] EXCEPT !.pc = "joining", !.key = key]
        BY <2>1, <3>1
      <4>2. key \in Views \cup {None}
        BY <3>2
      <4> QED
        BY <1>1, <4>1, <4>2 DEF Actors
    <3>5. act[a].obj # None /\ ~act[a].moved => key[act[a].obj] = act[a].rev
      BY <1>4, <3>3 DEF Unmoved
    <3>6. Actor(y, disk.live)
      BY <1>2, <1>3, <3>2, <3>4, <3>5 DEF Actor
    <3> QED
      BY <2>1, <3>4, <3>6
  <2>2. ASSUME NEW y, y = [act[a] EXCEPT !.pc = "waiting"], act' = [act EXCEPT ![a] = y], Waits(a, ObjectsOf(a))
        PROVE  /\ y \in Actors /\ act' = [act EXCEPT ![a] = y] /\ y.obj = act[a].obj /\ y.op = act[a].op
               /\ y.rev = act[a].rev /\ y.moved = act[a].moved /\ Actor(y, disk.live) /\ y.pc = "waiting"
    <3>1. /\ y \in Actors /\ y.pc = "waiting" /\ y.key = act[a].key /\ y.obj = act[a].obj /\ y.rev = act[a].rev
          /\ y.op = act[a].op /\ y.built = act[a].built /\ y.moved = act[a].moved /\ y.wronged = act[a].wronged
      BY <1>1, <2>2 DEF Actors
    <3>2. Actor(y, disk.live)
      BY <1>2, <1>3, <3>1 DEF Actor
    <3> QED
      BY <2>2, <3>1, <3>2
  <2> QED
    BY <1>5, <2>1, <2>2
<1>7. PICK y \in Actors : /\ act' = [act EXCEPT ![a] = y] /\ y.obj = act[a].obj /\ y.op = act[a].op
                          /\ y.rev = act[a].rev /\ y.moved = act[a].moved /\ Actor(y, disk.live)
                          /\ \/ /\ y.pc = "joining" /\ queue' = queue /\ running # None
                                /\ running.objects = ObjectsOf(a)
                             \/ y.pc = "waiting" /\ Waits(a, ObjectsOf(a))
  BY <1>6
<1>8. act' \in [Activators -> Actors] /\ queue' \in Seq(Waitings) /\ Acting' /\ Waiting' /\ Published'
  <2>1. CASE y.pc = "waiting" /\ Waits(a, ObjectsOf(a))
    BY <1>0, <1>2, <1>7, <2>1, WaitsKeeps
  <2>2. CASE y.pc = "joining" /\ queue' = queue /\ running # None /\ running.objects = ObjectsOf(a)
    <3>1. /\ act'[a] = y /\ \A b \in Activators \ {a} : act'[b] = act[b]
          /\ \A b \in Activators : ObjectsOf(b)' = ObjectsOf(b)
      BY <1>1, <1>7, SameObjects
    <3>2. /\ \A i \in DOMAIN queue : queue[i].by \subseteq Activators \ {a}
          /\ running # None => running.by \subseteq Activators \ {a}
      BY <1>0, <1>2, NotWaiting
    <3>3. Acting'
      BY <1>0, <1>2, <1>7, <3>1 DEF Acting
    <3>4. Waiting'
      <4>1. \A i \in DOMAIN queue' : \A b \in queue'[i].by :
              /\ act'[b].pc = "waiting" /\ queue'[i].objects = ObjectsOf(b)'
              /\ \A j \in DOMAIN queue' : b \in queue'[j].by => i = j
              /\ running' # None => b \notin running'.by
        BY <1>0, <1>2, <2>2, <3>1, <3>2 DEF Waiting
      <4>2. running' # None => \A b \in running'.by : act'[b].pc = "waiting" /\ running'.objects = ObjectsOf(b)'
        BY <1>0, <1>2, <3>1, <3>2 DEF Waiting
      <4>3. \A b \in Activators : act'[b].pc = "joining" => running' # None /\ running'.objects = ObjectsOf(b)'
        BY <1>0, <1>2, <2>2, <3>1 DEF Waiting
      <4> QED
        BY <4>1, <4>2, <4>3 DEF Waiting
    <3>5. Published'
      BY <1>0, <1>2, <3>1, <3>2 DEF Published
    <3> QED
      BY <1>1, <1>7, <2>2, <3>3, <3>4, <3>5
  <2> QED
    BY <1>7, <2>1, <2>2
<1>9. Writing'
  <2>1. Unmoved(disk, act')
    BY <1>1, <1>4, <1>7 DEF Unmoved
  <2> QED
    BY <1>2, <1>8, <2>1, WritingStill
<1>10. Told'
  <2>1. \A b \in Activators : act'[b].op = act[b].op
    BY <1>1, <1>7
  <2> QED
    BY <1>0, <1>2, <2>1, ToldStill
<1>11. Typed'
  BY <1>0, <1>2, <1>8 DEF Typed
<1> QED
  BY <1>8, <1>9, <1>10, <1>11 DEF IInv

\* The build of the publication in its turn answers who saw the same tree; who saw another waits.
LEMMA JoinKeeps ==
    ASSUME IInv, NEW a \in Activators, Join(a)
    PROVE  IInv'
<1>0. /\ Typed /\ Told /\ Acting /\ Waiting /\ Published
  BY DEF IInv
<1>1. /\ act \in [Activators -> Actors] /\ act[a] \in Actors /\ disk \in Disks /\ queue \in Seq(Waitings)
      /\ running \in Publications \cup {None}
  BY <1>0 DEF Typed
<1>2. /\ Free /\ act[a].pc = "joining" /\ running # None /\ running.at \in Built
      /\ UNCHANGED <<disk, up, inactive, journal, todo, count, named, force, unbuilt>>
  BY DEF Join, At, history
<1>3. /\ Actor(act[a], disk.live) /\ act[a].built = None /\ running.objects = ObjectsOf(a) /\ act[a].key # None
  BY <1>0, <1>2 DEF Acting, Actor, Waiting
<1>4. PICK y : y = [act[a] EXCEPT !.pc = "waiting", !.key = None]
  OBVIOUS
<1>5. /\ y \in Actors /\ y.pc = "waiting" /\ y.key = None /\ y.obj = act[a].obj /\ y.rev = act[a].rev
      /\ y.op = act[a].op /\ y.built = act[a].built /\ y.moved = act[a].moved /\ y.wronged = act[a].wronged
  BY <1>1, <1>4 DEF Actors
<1>6. Actor(y, disk.live)
  BY <1>2, <1>3, <1>5 DEF Actor
<1>7. act' = [act EXCEPT ![a] = y]
  BY <1>4 DEF Join, Sets
<1>8. /\ act' \in [Activators -> Actors] /\ queue' \in Seq(Waitings) /\ running' \in Publications \cup {None}
      /\ Acting' /\ Waiting' /\ Published'
  <2>1. CASE ~SameTree(a)
    <3>1. running' = running /\ Waits(a, ObjectsOf(a))
      BY <2>1 DEF Join
    <3> QED
      BY <1>0, <1>1, <1>2, <1>5, <1>6, <1>7, <3>1, WaitsKeeps
  <2>2. CASE SameTree(a)
    <3>0. running' = [running EXCEPT !.by = @ \cup {a}] /\ queue' = queue
      BY <2>2 DEF Join
    <3>1. /\ act'[a] = y /\ \A b \in Activators \ {a} : act'[b] = act[b]
          /\ \A b \in Activators : ObjectsOf(b)' = ObjectsOf(b)
      BY <1>1, <1>5, <1>7, SameObjects
    <3>2. /\ \A i \in DOMAIN queue : queue[i].by \subseteq Activators \ {a}
          /\ running.by \subseteq Activators \ {a}
      BY <1>0, <1>2, NotWaiting
    <3>3. /\ running' \in Publications /\ running'.by = running.by \cup {a} /\ running'.objects = running.objects
          /\ running'.at = running.at /\ running'.view = running.view
      BY <1>1, <1>2, <3>0 DEF Publications
    <3>4. running' # None
      BY <3>3, NothingThere
    <3>5. Acting'
      BY <1>0, <1>2, <1>6, <3>1 DEF Acting
    <3>6. Waiting'
      <4>1. \A i \in DOMAIN queue' : \A b \in queue'[i].by :
              /\ act'[b].pc = "waiting" /\ queue'[i].objects = ObjectsOf(b)'
              /\ \A j \in DOMAIN queue' : b \in queue'[j].by => i = j
              /\ running' # None => b \notin running'.by
        BY <1>0, <1>2, <3>0, <3>1, <3>2, <3>3 DEF Waiting
      <4>2. \A b \in running'.by : act'[b].pc = "waiting" /\ running'.objects = ObjectsOf(b)'
        BY <1>0, <1>2, <1>3, <1>5, <3>1, <3>2, <3>3 DEF Waiting
      <4>3. \A b \in Activators : act'[b].pc = "joining" => running'.objects = ObjectsOf(b)'
        BY <1>0, <1>2, <1>5, <3>1, <3>3 DEF Waiting
      <4> QED
        BY <3>4, <4>1, <4>2, <4>3 DEF Waiting
    <3>7. Published'
      <4>1. running.at # "begun" /\ running.at # "failed" /\ running.view = act[a].key
        BY <1>2, <2>2 DEF Built, SameTree
      <4>2. act[a].obj # None /\ ~act[a].moved => running.view[act[a].obj] = act[a].rev
        BY <1>3, <4>1 DEF Actor
      <4>3. \A b \in running'.by : act'[b].obj # None /\ ~act'[b].moved => running'.view[act'[b].obj] = act'[b].rev
        BY <1>0, <1>2, <1>5, <3>1, <3>2, <3>3, <4>1, <4>2 DEF Published
      <4>4. /\ running.view # None /\ \A o \in Objects : running.view[o] \in named[o] \cup {Absent}
            /\ running.at \in {"accepted", "loaded"} => disk.live = running.view
        BY <1>0, <1>2, <4>1 DEF Published
      <4> QED
        BY <1>2, <3>3, <4>3, <4>4 DEF Published
    <3>8. act' \in [Activators -> Actors]
      BY <1>1, <1>5, <1>7
    <3> QED
      BY <1>1, <3>0, <3>3, <3>5, <3>6, <3>7, <3>8
  <2> QED
    BY <2>1, <2>2
<1>9. Writing'
  <2>1. Unmoved(disk, act)
    BY <1>2, FreeSettled DEF Free
  <2>2. Unmoved(disk, act')
    BY <1>1, <1>5, <1>7, <2>1 DEF Unmoved
  <2> QED
    BY <1>2, <1>8, <2>2, WritingStill
<1>10. Told'
  <2>1. \A b \in Activators : act'[b].op = act[b].op
    BY <1>1, <1>5, <1>7
  <2> QED
    BY <1>0, <1>2, <2>1, ToldStill
<1>11. Typed'
  BY <1>0, <1>2, <1>8 DEF Typed
<1> QED
  BY <1>8, <1>9, <1>10, <1>11 DEF IInv

\* The next publication that waits has its turn.
LEMMA BeginKeeps ==
    ASSUME IInv, Begin
    PROVE  IInv'
<1>0. /\ Typed /\ Told /\ Acting /\ Waiting /\ Published
  BY DEF IInv
<1>1. /\ act \in [Activators -> Actors] /\ queue \in Seq(Waitings) /\ running = None /\ queue # <<>> /\ Free
      /\ UNCHANGED <<disk, up, inactive, journal, todo, act, count, named, force, unbuilt>>
  BY <1>0 DEF Typed, Begin, history
<1>2. /\ DOMAIN queue = 1 .. Len(queue) /\ Len(queue) \in Nat /\ Len(queue) # 0
      /\ queue' = Tail(queue) /\ queue' \in Seq(Waitings) /\ Head(queue) = queue[1] /\ queue[1] \in Waitings
  BY <1>1 DEF Begin
<1>3. /\ DOMAIN queue' = 1 .. (Len(queue) - 1)
      /\ \A i \in DOMAIN queue' : i + 1 \in DOMAIN queue /\ queue'[i] = queue[i + 1]
  BY <1>1, <1>2
<1>4. /\ running' = [objects |-> queue[1].objects, by |-> queue[1].by, at |-> "begun", view |-> None]
      /\ running' \in Publications
  BY <1>2 DEF Begin, Waitings, Publications
<1>5. running'.by = queue[1].by /\ running'.objects = queue[1].objects /\ running'.at = "begun" /\ running' # None
  BY <1>4, NothingThere
<1>6. \A a \in Activators : ObjectsOf(a)' = ObjectsOf(a)
  BY <1>1 DEF ObjectsOf
<1>7. \A i \in DOMAIN queue : queue[i].by \subseteq Activators
  BY <1>0, QueueIs
<1>8. 1 \in DOMAIN queue
  BY <1>2
<1>9. Waiting'
  <2>1. ASSUME NEW i \in DOMAIN queue', NEW b \in queue'[i].by
        PROVE  /\ act'[b].pc = "waiting" /\ queue'[i].objects = ObjectsOf(b)'
               /\ \A j \in DOMAIN queue' : b \in queue'[j].by => i = j
               /\ b \notin running'.by
    <3>1. i \in Nat /\ i + 1 \in DOMAIN queue /\ b \in queue[i + 1].by /\ b \in Activators
      BY <1>2, <1>3, <1>7, <2>1
    <3>2. /\ act[b].pc = "waiting" /\ queue[i + 1].objects = ObjectsOf(b)
          /\ \A j \in DOMAIN queue : b \in queue[j].by => i + 1 = j
      BY <1>0, <3>1 DEF Waiting
    <3>3. \A j \in DOMAIN queue' : b \in queue'[j].by => i = j
      <4>1. ASSUME NEW j \in DOMAIN queue', b \in queue'[j].by PROVE i = j
        <5>1. j \in Nat /\ j + 1 \in DOMAIN queue /\ b \in queue[j + 1].by
          BY <1>2, <1>3, <4>1
        <5> QED
          BY <3>1, <3>2, <5>1
      <4> QED
        BY <4>1
    <3>4. b \notin queue[1].by
      BY <1>8, <2>1, <1>3, <3>1, <3>2
    <3> QED
      BY <1>1, <1>3, <1>5, <1>6, <3>1, <3>2, <3>3, <3>4
  <2>2. \A b \in running'.by : act'[b].pc = "waiting" /\ running'.objects = ObjectsOf(b)'
    BY <1>0, <1>1, <1>5, <1>6, <1>7, <1>8 DEF Waiting
  <2>3. \A b \in Activators : act'[b].pc # "joining"
    BY <1>0, <1>1 DEF Waiting
  <2> QED
    BY <1>5, <2>1, <2>2, <2>3 DEF Waiting
<1>10. Acting'
  BY <1>0, <1>1 DEF Acting
<1>11. Published'
  BY <1>5 DEF Published
<1>12. Writing'
  <2>1. Unmoved(disk, act') /\ act' \in [Activators -> Actors]
    BY <1>1, FreeSettled DEF Free
  <2> QED
    BY <1>1, <2>1, WritingStill
<1>13. Told'
  BY <1>0, <1>1, ToldStill
<1>14. Typed'
  BY <1>0, <1>1, <1>2, <1>4 DEF Typed
<1> QED
  BY <1>9, <1>10, <1>11, <1>12, <1>13, <1>14 DEF IInv

\* Naming more versions makes no disk worse.
LEMMA NamedGrows ==
    ASSUME NEW n, NEW N, NEW e, NEW f, NEW k, NEW d \in Durables(n, e, f, k), NEW j, NEW s, Settles(d, j, s, n, e),
           \A x \in Objects : n[x] \subseteq N[x]
    PROVE  d \in Durables(N, e, f, k) /\ Settles(d, j, s, N, e)
<1>1. \A x \in Objects : Sound(d, x, n, e) => Sound(d, x, N, e)
  BY DEF Sound
<1>2. \A x \in Objects : SafeAt(d, x, n, e, f) => SafeAt(d, x, N, e, f)
  BY <1>1 DEF SafeAt
<1>3. d \in Durables(N, e, f, k)
  BY <1>2 DEF Durables, Safe
<1>4. Settles(d, j, s, N, e)
  BY <1>1 DEF Settles
<1> QED
  BY <1>3, <1>4

\* captureView.
LEMMA CaptureKeeps ==
    ASSUME IInv, Capture
    PROVE  IInv'
<1>0. /\ Typed /\ Told /\ Acting /\ Waiting /\ Published
  BY DEF IInv
<1>1. /\ act \in [Activators -> Actors] /\ running \in Publications \cup {None} /\ running # None /\ Free
      /\ disk \in Disks /\ named \in [Objects -> SUBSET Maybe]
      /\ UNCHANGED <<disk, up, inactive, journal, todo, queue, act, count, force, unbuilt>>
  BY <1>0 DEF Typed, Capture
<1>2. /\ disk \in Durable /\ Settles(disk, journal, inactive, named, unbuilt) /\ Unmoved(disk, act)
      /\ Safe(disk, named, unbuilt, force)
  BY <1>1, FreeSettled DEF Free
<1>3. PICK view, N : view = View(running.objects) /\ N = named'
  OBVIOUS
<1>4. /\ view \in Views /\ view # None
      /\ \A o \in Objects : o \in running.objects \/ o \notin DOMAIN inactive \/ disk.file[o] = Absent =>
            view[o] = disk.file[o]
      /\ \A o \in Objects : view[o] \in {disk.file[o], disk.copy[o]}
  BY <1>1, <1>3, ViewIs
<1>5. running' = [running EXCEPT !.at = "building", !.view = view]
  BY <1>3 DEF Capture
<1>6. /\ running' \in Publications /\ running'.by = running.by /\ running'.objects = running.objects
      /\ running'.at = "building" /\ running'.view = view
  BY <1>1, <1>4, <1>5 DEF Publications
<1>7. running' # None
  BY <1>6, NothingThere
<1>8. \A o \in Objects : N[o] = IF o \in running.objects THEN named[o] \cup {disk.file[o]} ELSE named[o]
  BY <1>3 DEF Capture
<1>9. N \in [Objects -> SUBSET Maybe]
  <2>1. disk.file \in [Objects -> Maybe]
    BY <1>1 DEF Disks, Views
  <2> QED
    BY <1>1, <1>3, <2>1 DEF Capture
<1>10. \A o \in Objects : named[o] \subseteq N[o]
  BY <1>8
<1>11. ASSUME NEW o \in Objects PROVE view[o] \in N[o] \cup {Absent}
  <2>1. CASE o \in running.objects
    BY <1>4, <1>8, <2>1
  <2>2. CASE o \notin DOMAIN inactive
    <3>1. Sound(disk, o, named, unbuilt)
      BY <1>2, <2>2 DEF Settles
    <3> QED
      BY <1>4, <1>10, <2>2, <3>1 DEF Sound
  <2>3. CASE view[o] = disk.copy[o]
    BY <1>2, <1>10, <2>3 DEF Safe, SafeAt
  <2>4. CASE view[o] = disk.file[o] /\ disk.file[o] = Absent
    BY <2>4
  <2>5. CASE o \notin running.objects /\ o \in DOMAIN inactive /\ disk.file[o] # Absent
    BY <1>3, <2>3, <2>5 DEF View
  <2> QED
    BY <1>4, <2>1, <2>2, <2>4, <2>5
<1>12. \A a \in Activators : ObjectsOf(a)' = ObjectsOf(a)
  BY <1>1 DEF ObjectsOf
<1>13. running.by \subseteq Activators
  BY <1>1 DEF Publications
<1>14. Waiting'
  <2>1. \A i \in DOMAIN queue : queue[i].by \subseteq Activators
    BY <1>0, QueueIs
  <2> QED
    BY <1>0, <1>1, <1>6, <1>7, <1>12, <1>13, <2>1 DEF Waiting
<1>15. Acting'
  BY <1>0, <1>1 DEF Acting
<1>16. Published'
  <2>1. ASSUME NEW a \in running.by, act[a].obj # None, ~act[a].moved PROVE view[act[a].obj] = act[a].rev
    <3>1. a \in Activators /\ act[a].obj \in Objects /\ act[a].obj \in running.objects
      BY <1>0, <1>1, <1>13, <2>1 DEF Waiting, ObjectsOf, Actors
    <3> QED
      BY <1>2, <1>4, <2>1, <3>1 DEF Unmoved
  <2> QED
    BY <1>1, <1>3, <1>4, <1>6, <1>11, <2>1 DEF Published
<1>17. Writing'
  <2>1. PICK k : k = count.tickets
    OBVIOUS
  <2>2. disk \in Durables(named, unbuilt, force, k)
    BY <1>2, <2>1 DEF Durable
  <2>3. disk \in Durables(N, unbuilt, force, k) /\ Settles(disk, journal, inactive, N, unbuilt)
    BY <1>2, <1>10, <2>2, NamedGrows
  <2>4. Durable' = Durables(N, unbuilt, force, k)
    BY <1>1, <1>3, <2>1 DEF Durable
  <2>5. Finishes(Durables(N, unbuilt, force, k), disk, <<>>, journal, inactive, N, unbuilt, Objects)
    BY <2>3, FinishesNothing
  <2>6. up' /\ Finishes(Durable', disk', todo', journal', inactive', named', unbuilt', Objects)
    BY <1>1, <1>3, <2>4, <2>5 DEF Free
  <2>7. \A a \in Activators : act'[a].obj # None /\ ~act'[a].moved =>
           act'[a].obj \in Objects /\ disk'.file[act'[a].obj] = act'[a].rev
    BY <1>1, <1>2 DEF Unmoved, Actors
  <2> QED
    BY <2>6, <2>7, WritingIf
<1>18. Told'
  BY <1>0, <1>1, ToldStill
<1>19. Typed'
  BY <1>0, <1>1, <1>3, <1>6, <1>9 DEF Typed
<1> QED
  BY <1>14, <1>15, <1>16, <1>17, <1>18, <1>19 DEF IInv

\* The publication in its turn comes to a point where what it has built is the same.
LEMMA GoesKeeps ==
    ASSUME IInv, Free, running # None,
           NEW at \in {"begun", "failed", "loaded"}, running' = [running EXCEPT !.at = at],
           at # "begun" => running.at # "begun", at = "loaded" => running.at = "accepted",
           UNCHANGED <<disk, up, inactive, journal, todo, queue, act, count, named, force, unbuilt>>
    PROVE  IInv'
<1>0. /\ Typed /\ Told /\ Acting /\ Waiting /\ Published
  BY DEF IInv
<1>1. act \in [Activators -> Actors] /\ running \in Publications
  BY <1>0 DEF Typed
<1>2. /\ running' \in Publications /\ running'.by = running.by /\ running'.objects = running.objects
      /\ running'.at = at /\ running'.view = running.view
  BY <1>1 DEF Publications
<1>3. running' # None
  BY <1>2, NothingThere
<1>4. \A a \in Activators : ObjectsOf(a)' = ObjectsOf(a)
  BY DEF ObjectsOf
<1>5. running.by \subseteq Activators
  BY <1>1 DEF Publications
<1>6. Waiting'
  <2>1. \A i \in DOMAIN queue : queue[i].by \subseteq Activators
    BY <1>0, QueueIs
  <2> QED
    BY <1>0, <1>2, <1>3, <1>4, <1>5, <2>1 DEF Waiting
<1>7. Acting'
  BY <1>0 DEF Acting
<1>8. Published'
  BY <1>0, <1>2 DEF Published
<1>9. Writing'
  <2>1. Unmoved(disk, act') /\ act' \in [Activators -> Actors]
    BY <1>1, FreeSettled DEF Free
  <2> QED
    BY <2>1, WritingStill
<1>10. Told'
  BY <1>0, ToldStill
<1>11. Typed'
  BY <1>0, <1>2 DEF Typed
<1> QED
  BY <1>6, <1>7, <1>8, <1>9, <1>10, <1>11 DEF IInv

\* The build fails, or its view is not current.
LEMMA BuildFailsKeeps ==
    ASSUME IInv, BuildFails
    PROVE  IInv'
<1>1. PICK at \in {"begun", "failed", "loaded"} : at = IF Current THEN "failed" ELSE "begun"
  OBVIOUS
<1>2. /\ Free /\ running # None /\ running.at = "building" /\ running' = [running EXCEPT !.at = at] /\ at # "loaded"
      /\ UNCHANGED <<disk, up, inactive, journal, todo, queue, act, count, named, force, unbuilt>>
  BY <1>1 DEF BuildFails, Goes, history
<1> QED
  BY <1>2, GoesKeeps

\* The generation is loaded, or not.
LEMMA LoadKeeps ==
    ASSUME IInv, Load
    PROVE  IInv'
<1>1. PICK at \in {"begun", "failed", "loaded"} : at # "begun" /\ running' = [running EXCEPT !.at = at]
  BY DEF Load, Goes
<1>2. /\ Free /\ running # None /\ running.at = "accepted"
      /\ UNCHANGED <<disk, up, inactive, journal, todo, queue, act, count, named, force, unbuilt>>
  BY DEF Load, history
<1> QED
  BY <1>1, <1>2, GoesKeeps

\* From d to h, which is settled and has this live generation.
Switches(good, d, h, view, j, s, n, e) ==
    h \in good /\ Settles(h, j, s, n, e) /\ h.file = d.file /\ h.live = view

\* The live generation is what is on disk of all that is active.
LEMMA SwitchSafe ==
    ASSUME NEW n, NEW e, NEW f, NEW k, NEW d \in Durables(n, e, f, k), NEW j, NEW s, Settles(d, j, s, n, e),
           s \in Saveds, NEW view \in Views, \A o \in Objects : view[o] \in n[o] \cup {Absent},
           \A o \in Objects \ DOMAIN s : view[o] = d.file[o],
           NEW E, E = {o \in e : view[o] # d.file[o]}, NEW h, h = [d EXCEPT !.live = view]
    PROVE  Switches(Durables(n, E, f, k), d, h, view, j, s, n, E)
<1>0. d \in Disks /\ \A x \in Objects : SafeAt(d, x, n, e, f)
  BY DEF Durables, Safe
<1>1. /\ h \in Disks /\ h.file = d.file /\ h.copy = d.copy /\ h.set = d.set /\ h.live = view
      /\ h.attempts = d.attempts /\ h.outcomes = d.outcomes /\ h.entries = d.entries
  BY <1>0 DEF Disks
<1>2. Claimed(h) = Claimed(d) /\ DOMAIN s \cap Objects \subseteq Claimed(d)
  <2>1. DOMAIN s # {} => d.set = s /\ d.set # NoFile
    BY SettledSet
  <2> QED
    BY <1>1, <2>1 DEF Claimed
<1>3. ASSUME NEW o \in Objects \ DOMAIN s PROVE Sound(h, o, n, E)
  BY <1>1, <1>3 DEF Sound
<1>4. ASSUME NEW o \in Objects PROVE SafeAt(h, o, n, E, f)
  <2>1. SafeAt(d, o, n, e, f)
    BY <1>0
  <2>2. o \notin Claimed(h) => Sound(h, o, n, E)
    BY <1>2, <1>3
  <2> QED
    BY <1>1, <2>1, <2>2 DEF SafeAt
<1>5. h \in Durables(n, E, f, k)
  BY <1>1, <1>4 DEF Durables, Safe
<1>6. Settles(h, j, s, n, E)
  BY <1>1, <1>3 DEF Settles
<1> QED
  BY <1>1, <1>5, <1>6 DEF Switches

\* acceptView.
LEMMA AcceptKeeps ==
    ASSUME IInv, Accept
    PROVE  IInv'
<1>0. /\ Typed /\ Told /\ Acting /\ Waiting /\ Published
  BY DEF IInv
<1>1. CASE ~Current
  <2>1. /\ Free /\ running # None /\ running' = [running EXCEPT !.at = "begun"]
        /\ UNCHANGED <<disk, up, inactive, journal, todo, queue, act, count, named, force, unbuilt>>
    BY <1>1 DEF Accept, Goes
  <2> QED
    BY <2>1, GoesKeeps
<1>2. CASE Current
  <2>1. PICK view : view = running.view
    OBVIOUS
  <2>2. /\ Free /\ running # None /\ running.at = "building" /\ running' = [running EXCEPT !.at = "accepted"]
        /\ (\A a \in Activators : act[a].pc # "promoting") /\ disk' = [disk EXCEPT !.live = view]
        /\ unbuilt' = {o \in unbuilt : view[o] # disk.file[o]}
        /\ UNCHANGED <<up, inactive, journal, todo, queue, act, count, named, force>>
    BY <1>2, <2>1 DEF Accept, Goes, Answered, At
  <2>3. /\ act \in [Activators -> Actors] /\ running \in Publications /\ disk \in Disks /\ inactive \in Saveds
        /\ unbuilt \subseteq Objects
    BY <1>0, <2>2 DEF Typed
  <2>4. /\ running' \in Publications /\ running'.by = running.by /\ running'.objects = running.objects
        /\ running'.at = "accepted" /\ running'.view = view
    BY <2>1, <2>2, <2>3 DEF Publications
  <2>5. running' # None
    BY <2>4, NothingThere
  <2>6. view # None /\ \A o \in Objects : view[o] \in named[o] \cup {Absent}
    BY <1>0, <2>1, <2>2 DEF Published
  <2>7. view \in Views
    BY <2>1, <2>3, <2>6 DEF Publications
  <2>8. \A o \in Objects \ DOMAIN inactive : view[o] = disk.file[o]
    <3>1. view = View(running.objects)
      BY <1>2, <2>1 DEF Current
    <3> QED
      BY <2>3, <3>1, ViewIs
  <2>9. PICK h, E, k : h = disk' /\ E = unbuilt' /\ k = count.tickets
    OBVIOUS
  <2>10. Settles(disk, journal, inactive, named, unbuilt) /\ Unmoved(disk, act)
    BY <2>2, FreeSettled DEF Free
  <2>11. /\ h \in Durables(named, E, force, k) /\ Settles(h, journal, inactive, named, E)
         /\ h.file = disk.file /\ h.live = view
    <3>1. disk \in Durables(named, unbuilt, force, k)
      BY <2>2, <2>9, FreeSettled DEF Free, Durable
    <3>2. E = {o \in unbuilt : view[o] # disk.file[o]} /\ h = [disk EXCEPT !.live = view]
      BY <2>2, <2>9
    <3>3. Switches(Durables(named, E, force, k), disk, h, view, journal, inactive, named, E)
      BY <2>3, <2>6, <2>7, <2>8, <2>10, <3>1, <3>2, SwitchSafe
    <3> QED
      BY <3>3 DEF Switches
  <2>12. \A a \in Activators : ObjectsOf(a)' = ObjectsOf(a)
    BY <2>2 DEF ObjectsOf
  <2>13. running.by \subseteq Activators
    BY <2>3 DEF Publications
  <2>14. Waiting'
    <3>1. \A i \in DOMAIN queue : queue[i].by \subseteq Activators
      BY <1>0, QueueIs
    <3> QED
      BY <1>0, <2>2, <2>4, <2>5, <2>12, <2>13, <3>1 DEF Waiting
  <2>15. Acting'
    <3>1. ASSUME NEW a \in Activators PROVE Actor(act[a], view)
      BY <1>0, <2>2 DEF Acting, Actor
    <3> QED
      BY <2>2, <2>9, <2>11, <3>1 DEF Acting
  <2>16. Published'
    BY <1>0, <2>1, <2>2, <2>4, <2>9, <2>11 DEF Published
  <2>17. Writing'
    <3>1. Durable' = Durables(named, E, force, k)
      BY <2>2, <2>9 DEF Durable
    <3>2. Finishes(Durables(named, E, force, k), h, <<>>, journal, inactive, named, E, Objects)
      BY <2>11, FinishesNothing
    <3>3. up' /\ Finishes(Durable', disk', todo', journal', inactive', named', unbuilt', Objects)
      BY <2>2, <2>9, <3>1, <3>2 DEF Free
    <3>4. \A a \in Activators : act'[a].obj # None /\ ~act'[a].moved =>
             act'[a].obj \in Objects /\ disk'.file[act'[a].obj] = act'[a].rev
      BY <2>2, <2>3, <2>9, <2>10, <2>11 DEF Unmoved, Actors
    <3> QED
      BY <3>3, <3>4, WritingIf
  <2>18. Told'
    BY <1>0, <2>2, ToldStill
  <2>19. Typed'
    <3>1. disk' \in Disks /\ unbuilt' \subseteq Objects
      BY <2>2, <2>3, <2>9, <2>11 DEF Durables
    <3> QED
      BY <1>0, <2>2, <2>4, <3>1 DEF Typed
  <2> QED
    BY <2>14, <2>15, <2>16, <2>17, <2>18, <2>19 DEF IInv
<1> QED
  BY <1>1, <1>2

\* The publication ends, and who waited for it goes on to its promotion.
LEMMA EndsKeeps ==
    ASSUME IInv, Ends
    PROVE  IInv'
<1>0. /\ Typed /\ Told /\ Acting /\ Waiting /\ Published
  BY DEF IInv
<1>1. PICK built : built = IF running.at = "failed" THEN None ELSE running.view
  OBVIOUS
<1>2. /\ Free /\ running # None /\ running.at \in {"loaded", "failed"} /\ running' = None
      /\ \A a \in Activators : act[a].pc # "joining"
      /\ UNCHANGED <<disk, up, inactive, journal, todo, queue, count, named, force, unbuilt>>
  BY DEF Ends, At, history
<1>3. act' = [a \in Activators |->
                 IF a \notin running.by THEN act[a]
                 ELSE IF act[a].obj = None THEN Idle(FALSE)
                 ELSE [act[a] EXCEPT !.pc = "promoting", !.built = built]]
  BY <1>1 DEF Ends
<1>4. act \in [Activators -> Actors] /\ running \in Publications
  BY <1>0, <1>2 DEF Typed
<1>5. built \in Views \cup {None}
  BY <1>1, <1>4 DEF Publications
<1>6. built # None => built = disk.live
  BY <1>0, <1>1, <1>2 DEF Published
<1>7. ASSUME NEW a \in Activators
      PROVE  /\ act'[a] \in Actors /\ Actor(act'[a], disk.live) /\ act'[a].pc # "joining"
             /\ act'[a].op = act[a].op /\ act'[a].obj = act[a].obj
             /\ act'[a].obj # None => act'[a].rev = act[a].rev /\ act'[a].moved = act[a].moved
             /\ a \notin running.by => act'[a] = act[a]
  <2>0. act[a] \in Actors /\ Actor(act[a], disk.live)
    BY <1>0, <1>4 DEF Acting
  <2>1. CASE a \notin running.by
    BY <1>2, <1>3, <2>0, <2>1
  <2>2. CASE a \in running.by /\ act[a].obj = None
    <3>1. act'[a] = Idle(FALSE) /\ act[a].op = None
      BY <1>3, <2>0, <2>2 DEF Actor
    <3>2. /\ Idle(FALSE) \in Actors /\ Actor(Idle(FALSE), disk.live)
          /\ Idle(FALSE).pc = "idle" /\ Idle(FALSE).obj = None /\ Idle(FALSE).op = None
      BY IdleIs
    <3> QED
      BY <2>2, <3>1, <3>2
  <2>3. CASE a \in running.by /\ act[a].obj # None
    <3>1. PICK y : y = act'[a] /\ y = [act[a] EXCEPT !.pc = "promoting", !.built = built]
      BY <1>3, <2>3
    <3>2. /\ y \in Actors /\ y.pc = "promoting" /\ y.built = built /\ y.key = act[a].key /\ y.obj = act[a].obj
          /\ y.rev = act[a].rev /\ y.op = act[a].op /\ y.moved = act[a].moved /\ y.wronged = act[a].wronged
      BY <1>5, <2>0, <3>1 DEF Actors
    <3>3. built # None /\ ~act[a].moved => built[act[a].obj] = act[a].rev
      BY <1>0, <1>1, <1>2, <2>3 DEF Published
    <3>4. Actor(y, disk.live)
      BY <1>6, <2>0, <2>3, <3>2, <3>3 DEF Actor
    <3> QED
      BY <2>3, <3>1, <3>2, <3>4
  <2> QED
    BY <2>1, <2>2, <2>3
<1>8. act' \in [Activators -> Actors]
  BY <1>3, <1>7
<1>9. Acting'
  BY <1>2, <1>7 DEF Acting
<1>10. Waiting'
  <2>1. \A i \in DOMAIN queue : queue[i].by \subseteq Activators
    BY <1>0, QueueIs
  <2>2. \A i \in DOMAIN queue : \A a \in queue[i].by : act'[a] = act[a]
    BY <1>0, <1>2, <1>7, <2>1 DEF Waiting
  <2>3. \A a \in Activators : ObjectsOf(a)' = ObjectsOf(a)
    BY <1>7 DEF ObjectsOf
  <2>4. \A a \in Activators : act'[a].pc # "joining"
    BY <1>7
  <2> QED
    BY <1>0, <1>2, <2>1, <2>2, <2>3, <2>4 DEF Waiting
<1>11. Published'
  BY <1>2 DEF Published
<1>12. Writing'
  <2>1. Unmoved(disk, act)
    BY <1>2, FreeSettled DEF Free
  <2>2. Unmoved(disk, act')
    BY <1>7, <2>1 DEF Unmoved
  <2> QED
    BY <1>2, <1>8, <2>2, WritingStill
<1>13. Told'
  BY <1>0, <1>2, <1>7, ToldStill
<1>14. Typed'
  BY <1>0, <1>2, <1>8 DEF Typed
<1> QED
  BY <1>9, <1>10, <1>11, <1>12, <1>13, <1>14 DEF IInv

\* The active version of an object is no longer asked for.
LEMMA UnforcedSafe ==
    ASSUME NEW n, NEW e, NEW f \in Views, NEW k, NEW d \in Durables(n, e, f, k), NEW o \in Objects,
           NEW F, F = Unforced(f, o)
    PROVE  d \in Durables(n, e, F, k) /\ F[o] = Absent /\ F \in Views
<1>1. \A x \in Objects : F[x] = IF x = o THEN Absent ELSE f[x]
  BY DEF Unforced, Views
<1>2. \A x \in Objects : SafeAt(d, x, n, e, F)
  BY <1>1 DEF Durables, Safe, SafeAt
<1>3. F \in Views
  BY DEF Unforced, Views, Maybe
<1> QED
  BY <1>1, <1>2, <1>3 DEF Durables, Safe

\* markActive, of an object whose live version is on disk.
LEMMA PromotionLeads ==
    ASSUME NEW n, NEW e, NEW f, NEW k, disk \in Durables(n, e, f, k), NEW j, inactive \in Saveds,
           Settles(disk, j, inactive, n, e), NEW o \in Objects, f[o] = Absent, Sound(disk, o, n, e),
           NEW ws, ws = ActivationWrites(o), NEW s, s = Without(inactive, o)
    PROVE  Finishes(Durables(n, e, f, k), disk, ws, j, s, n, e, Objects)
<1>1. CASE o \in DOMAIN inactive
  <2>1. Finishes(Durables(n, e, f, k), disk, Retiring(inactive, o), j, s, n, e, Objects)
    BY RetireLeads
  <2>2. ws = Retiring(inactive, o)
    BY <1>1, Pair DEF ActivationWrites, Retiring
  <2> QED
    BY <2>1, <2>2
<1>2. CASE o \notin DOMAIN inactive
  <2>1. First \in Versions
    BY StoreAssumption
  <2>2. s = inactive
    BY <1>2, <2>1, SavedIs
  <2>3. ws = <<>>
    BY <1>2 DEF ActivationWrites
  <2>4. Finishes(Durables(n, e, f, k), disk, <<>>, j, inactive, n, e, Objects)
    BY FinishesNothing
  <2> QED
    BY <2>2, <2>3, <2>4
<1> QED
  BY <1>1, <1>2

\* The ticket ends, on any disk that is settled.
LEMMA TicketEnds ==
    ASSUME IInv, up, todo = <<>>, NEW a \in Activators, NEW state \in {"published", "failed"},
           NEW ended, ended = TicketEnd(a, state), NEW k, k = count.tickets
    PROVE  /\ True(ended.journal, k)
           /\ act[a].op = None => ended.journal = journal
           /\ act[a].op # None => Advanced(journal, ended.journal, act[a].op, state)
           /\ \A d \in Disks : \A f : d \in Durables(named, unbuilt, f, k) /\ Has(d, journal) =>
                 Does(Durables(named, unbuilt, f, k), d, ended)
<1>0. True(journal, k) /\ journal \in Journals /\ k \in Nat /\ Has(disk, journal)
      /\ disk \in Disks /\ Safe(disk, named, unbuilt, force) /\ disk \in Durables(named, unbuilt, force, k)
  BY FreeSettled DEF True, IInv, Typed, Durable
<1>1. CASE act[a].op = None
  <2>1. ended = Leaves(journal, <<>>)
    BY <1>1 DEF TicketEnd
  <2>2. ended.journal = journal
    BY <2>1, LeavesIs
  <2>3. ASSUME NEW d \in Disks, NEW f, d \in Durables(named, unbuilt, f, k), Has(d, journal)
        PROVE  Does(Durables(named, unbuilt, f, k), d, ended)
    <3>1. Durables(named, unbuilt, f, k) \subseteq Disks
      BY DEF Durables
    <3> QED
      BY <1>0, <2>1, <2>3, <3>1, DoesNothing
  <2> QED
    BY <1>0, <1>1, <2>2, <2>3
<1>2. CASE act[a].op # None
  <2>1. ended = update(journal, act[a].op, state)
    BY <1>2 DEF TicketEnd
  <2>2. PICK old \in journal.entries : old.op = act[a].op
    BY <1>2 DEF IInv, Told, Holds
  <2>3. ASSUME NEW d \in Disks, NEW f, d \in Durables(named, unbuilt, f, k), Has(d, journal)
        PROVE  /\ Does(Durables(named, unbuilt, f, k), d, ended) /\ True(ended.journal, k)
               /\ Advanced(journal, ended.journal, act[a].op, state)
    <3>1. Safe(d, named, unbuilt, f) /\ state \in {"pending", "published", "failed"}
      BY <2>3 DEF Durables
    <3> QED
      BY <1>0, <2>1, <2>2, <2>3, <3>1, UpdateDoes
  <2> QED
    BY <1>0, <1>2, <2>3
<1> QED
  BY <1>1, <1>2

\* The answer of a publication: a promotion, or not, and the end of the ticket.
LEMMA PromoteKeeps ==
    ASSUME IInv, NEW a \in Activators, Promote(a)
    PROVE  IInv'
<1>0. /\ Typed /\ Told /\ Acting /\ Waiting /\ Published
  BY DEF IInv
<1>1. /\ act \in [Activators -> Actors] /\ act[a] \in Actors /\ disk \in Disks /\ inactive \in Saveds
      /\ force \in Views /\ named \in [Objects -> SUBSET Maybe]
  BY <1>0 DEF Typed
<1>2. /\ Free /\ act[a].pc = "promoting" /\ UNCHANGED <<disk, up, queue, running, count, named, unbuilt>>
  BY DEF Promote, At
<1>3. up /\ todo = <<>>
  BY <1>2 DEF Free
<1>4. Actor(act[a], disk.live)
  BY <1>0 DEF Acting
<1>5. PICK o \in Objects : o = act[a].obj
  BY <1>1, <1>2, <1>4 DEF Actor, Actors
<1>6. o # None
  BY ObjectsAssumption
<1>7. PICK pub \in BOOLEAN : pub = (act[a].built # None /\ Promotable(a))
  OBVIOUS
<1>8. /\ Unmoved(disk, act) /\ Settles(disk, journal, inactive, named, unbuilt) /\ Has(disk, journal)
      /\ Safe(disk, named, unbuilt, force) /\ disk \in Durable
  BY <1>3, FreeSettled
<1>9. ~act[a].moved /\ act[a].built # None => pub
  BY <1>4, <1>5, <1>6, <1>7, <1>8 DEF Actor, Unmoved, Promotable
<1>10. PICK state \in {"published", "failed"} : state = IF pub THEN "published" ELSE "failed"
  OBVIOUS
<1>11. PICK ended, y, k, s, F, ws :
          /\ ended = TicketEnd(a, state) /\ y = Idle(FALSE) /\ k = count.tickets
          /\ s = (IF pub THEN Without(inactive, o) ELSE inactive)
          /\ F = (IF pub THEN Unforced(force, o) ELSE force)
          /\ ws = IF pub THEN ActivationWrites(o) ELSE <<>>
  OBVIOUS
<1>12. /\ inactive' = s /\ todo' = ws \o ended.writes /\ journal' = ended.journal /\ force' = F
       /\ act' = [act EXCEPT ![a] = y]
  <2>1. PICK how : how = IF act[a].built = None THEN "build" ELSE IF Promotable(a) THEN "published" ELSE "revision"
    OBVIOUS
  <2>2. (how = "published") = pub /\ (how = "revision" /\ ~act[a].moved) = FALSE
    BY <1>7, <1>9, <2>1
  <2>3. /\ inactive' = IF how = "published" THEN Without(inactive, o) ELSE inactive
        /\ todo' = (IF how = "published" THEN ActivationWrites(o) ELSE <<>>)
                   \o TicketEnd(a, IF how = "published" THEN "published" ELSE "failed").writes
        /\ journal' = TicketEnd(a, IF how = "published" THEN "published" ELSE "failed").journal
        /\ force' = IF how = "published" THEN [force EXCEPT ![o] = Absent] ELSE force
        /\ act' = [act EXCEPT ![a] = Idle(how = "revision" /\ ~act[a].moved)]
    BY <1>5, <2>1 DEF Promote, Sets
  <2>4. (IF how = "published" THEN "published" ELSE "failed") = state
    BY <1>10, <2>2
  <2>5. inactive' = s /\ journal' = ended.journal /\ force' = F
    BY <1>11, <2>2, <2>3, <2>4 DEF Unforced
  <2>6. todo' = ws \o ended.writes
    BY <1>11, <2>2, <2>3, <2>4
  <2>7. act' = [act EXCEPT ![a] = y]
    BY <1>11, <2>2, <2>3
  <2> QED
    BY <2>5, <2>6, <2>7
<1>13. /\ True(ended.journal, k)
       /\ act[a].op = None => ended.journal = journal
       /\ act[a].op # None => Advanced(journal, ended.journal, act[a].op, state)
       /\ \A d \in Disks : \A f : d \in Durables(named, unbuilt, f, k) /\ Has(d, journal) =>
             Does(Durables(named, unbuilt, f, k), d, ended)
  BY <1>3, <1>11, TicketEnds
<1>14. ended.journal \in Journals
  BY <1>13 DEF True
<1>15. disk \in Durables(named, unbuilt, force, k)
  BY <1>8, <1>11 DEF Durable
<1>16. PICK good : good = Durables(named, unbuilt, F, k)
  OBVIOUS
<1>17. Finishes(good, disk, ws, journal, s, named, unbuilt, Objects) /\ s \in Saveds /\ F \in Views
  <2>1. CASE pub
    <3>1. F = Unforced(force, o) /\ s = Without(inactive, o) /\ ws = ActivationWrites(o)
      BY <1>11, <2>1
    <3>2. disk \in Durables(named, unbuilt, F, k) /\ F[o] = Absent /\ F \in Views
      BY <1>1, <1>15, <3>1, UnforcedSafe
    <3>3. disk.live[o] = disk.file[o]
      BY <1>2, <1>4, <1>5, <1>7, <2>1 DEF Actor, Promotable
    <3>4. Sound(disk, o, named, unbuilt)
      BY <1>8, <3>3 DEF Sound, Safe, SafeAt
    <3>5. Finishes(Durables(named, unbuilt, F, k), disk, ws, journal, s, named, unbuilt, Objects)
      BY <1>1, <1>8, <3>1, <3>2, <3>4, PromotionLeads
    <3>6. s \in Saveds
      <4>1. First \in Versions
        BY StoreAssumption
      <4> QED
        BY <1>1, <3>1, <4>1, SavedIs
    <3> QED
      BY <1>16, <3>2, <3>5, <3>6
  <2>2. CASE ~pub
    <3>1. F = force /\ s = inactive /\ ws = <<>>
      BY <1>11, <2>2
    <3>2. Finishes(Durables(named, unbuilt, force, k), disk, <<>>, journal, inactive, named, unbuilt, Objects)
      BY <1>8, <1>15, FinishesNothing
    <3> QED
      BY <1>1, <1>16, <3>1, <3>2
  <2> QED
    BY <2>1, <2>2
<1>18. ASSUME NEW d \in good, Settles(d, journal, s, named, unbuilt)
       PROVE  Finishes(good, d, ended.writes, ended.journal, s, named, unbuilt, Objects)
  <2>1. d \in Disks /\ Has(d, journal)
    BY <1>16, <1>18 DEF Durables, Settles, Has
  <2>2. Does(good, d, ended)
    BY <1>13, <1>16, <1>18, <2>1
  <2> QED
    BY <1>14, <1>16, <1>18, <2>2, JournalLeads
<1>19. Finishes(good, disk, ws \o ended.writes, ended.journal, s, named, unbuilt, Objects)
  BY <1>17, <1>18, FinishesThen, Zenon
<1>20. /\ y \in Actors /\ Actor(y, disk.live) /\ y.pc = "idle" /\ y.obj = None /\ y.op = None
  BY <1>11, IdleIs
<1>21. act' \in [Activators -> Actors] /\ Acting' /\ Waiting' /\ Published'
  BY <1>0, <1>2, <1>12, <1>20, Alone
<1>22. Writing'
  <2>1. Durable' = good
    BY <1>2, <1>11, <1>12, <1>16 DEF Durable
  <2>2. up' /\ Finishes(Durable', disk', todo', journal', inactive', named', unbuilt', Objects)
    BY <1>2, <1>3, <1>12, <1>19, <2>1
  <2>3. Unmoved(disk, act')
    BY <1>1, <1>8, <1>12, <1>20, UnmovedAlone
  <2>4. \A b \in Activators : act'[b].obj # None /\ ~act'[b].moved =>
           act'[b].obj \in Objects /\ disk'.file[act'[b].obj] = act'[b].rev
    BY <1>2, <1>21, <2>3 DEF Unmoved, Actors
  <2> QED
    BY <2>2, <2>4, WritingIf
<1>23. Told'
  <2>1. CASE act[a].op = None
    <3>1. \A b \in Activators : act'[b].op = act[b].op
      BY <1>1, <1>12, <1>20, <2>1
    <3> QED
      BY <1>0, <1>2, <1>12, <1>13, <2>1, <3>1, ToldStill
  <2>2. CASE act[a].op # None
    <3>1. up /\ True(journal', count'.tickets) /\ Advanced(journal, journal', act[a].op, state) /\ state # "pending"
      BY <1>2, <1>3, <1>11, <1>12, <1>13, <2>2
    <3> QED
      BY <1>0, <1>12, <1>20, <3>1, ToldEnded
  <2> QED
    BY <2>1, <2>2
<1>24. Typed'
  BY <1>0, <1>2, <1>12, <1>14, <1>17, <1>21 DEF Typed
<1> QED
  BY <1>21, <1>22, <1>23, <1>24 DEF IInv

-----------------------------------------------------------------------------
(* The cells of a notebook *)

\* The revision an activator takes without a check.
LEMMA WarmIs ==
    ASSUME disk \in Disks, NEW a, NEW pc \in {"checked", "reclaiming"}, NEW y, y = warmActivation(a, pc)
    PROVE  /\ y \in Actors /\ Actor(y, disk.live) /\ y.pc = pc /\ y.op = None /\ y.obj = CellClass
           /\ y.obj # None /\ ~y.moved => y.rev = disk.file[y.obj]
<1>1. CellClass \in Objects /\ CellClass # None
  BY StoreAssumption, ObjectsAssumption
<1>2. disk.file[CellClass] \in Maybe
  BY <1>1 DEF Disks, Views
<1>3. y = [pc |-> pc, obj |-> CellClass, rev |-> disk.file[CellClass], op |-> None, key |-> None, built |-> None,
           moved |-> disk.file[CellClass] = Absent, wronged |-> FALSE]
  BY <1>1 DEF warmActivation, Activating
<1>4. /\ y.pc = pc /\ y.op = None /\ y.obj = CellClass /\ y.rev = disk.file[CellClass] /\ y.key = None
      /\ y.built = None /\ y.moved = (disk.file[CellClass] = Absent) /\ y.wronged = FALSE
  BY <1>3
<1>5. y \in Actors
  BY <1>1, <1>2, <1>3 DEF Actors
<1> QED
  BY <1>1, <1>4, <1>5 DEF Actor

\* A cell begins.
LEMMA RunCellKeeps ==
    ASSUME IInv, NEW a \in Activators, RunCell(a)
    PROVE  IInv'
<1>1. Typed /\ Acting
  BY DEF IInv
<1>2. count' \in [saves : Nat, edits : Nat, tickets : Nat, crashes : Nat, cells : Nat] /\ count'.tickets = count.tickets
  BY <1>1 DEF RunCell, Typed
<1>3. PICK y : y = Steps("writing") /\ y \in Between
  BY DEF Between
<1>4. /\ Free /\ act' = [act EXCEPT ![a] = y] /\ act[a].pc = "idle"
      /\ UNCHANGED <<disk, up, inactive, journal, todo, queue, running, named, force, unbuilt>>
  BY <1>3 DEF RunCell, Sets, At
<1>5. act[a].op = None
  BY <1>1, <1>4 DEF Acting, Actor
<1>6. /\ y \in Actors /\ Actor(y, disk.live) /\ y.pc \in {"idle", "writing", "written", "restored"}
      /\ y.obj = None /\ y.op = None
  BY <1>3, BetweenIs
<1> QED
  BY <1>2, <1>4, <1>5, <1>6, SoloKeeps

\* It writes its candidate.
LEMMA WriteCellKeeps ==
    ASSUME IInv, NEW a \in Activators, NEW v \in Versions, WriteCell(a, v)
    PROVE  IInv'
<1>1. Typed /\ Acting /\ CellClass \in Objects
  BY StoreAssumption DEF IInv
<1>2. PICK y : y = Steps("written") /\ y \in Between
  BY DEF Between
<1>3. act' = [Moved(CellClass) EXCEPT ![a] = y] /\ act[a].pc = "writing"
  BY <1>2 DEF WriteCell, At
<1>4. Left(act[a], y)
  BY <1>1, <1>2, <1>3 DEF Left, Acting, Actor
<1>5. act' \in [Activators -> Actors] /\ \A b \in Activators : Turns(CellClass, act[b], act'[b])
  BY <1>1, <1>2, <1>3, <1>4, MovedBy
<1>6. count' \in [saves : Nat, edits : Nat, tickets : Nat, crashes : Nat, cells : Nat] /\ count'.tickets = count.tickets
  BY <1>1 DEF WriteCell, Typed
<1> QED
  BY <1>1, <1>5, <1>6, SavesKeep DEF WriteCell

\* It takes the revision of what is there, for its publication or its rollback.
LEMMA WarmsKeeps ==
    ASSUME IInv, NEW a \in Activators, NEW from \in {"written", "restored"}, NEW to \in {"checked", "reclaiming"},
           Warms(a, from, to)
    PROVE  IInv'
<1>1. Typed /\ Acting
  BY DEF IInv
<1>2. disk \in Disks /\ count \in [saves : Nat, edits : Nat, tickets : Nat, crashes : Nat, cells : Nat]
  BY <1>1 DEF Typed
<1>3. PICK y : y = warmActivation(a, to)
  OBVIOUS
<1>4. /\ y \in Actors /\ Actor(y, disk.live) /\ y.pc = to /\ y.op = None
      /\ y.obj # None /\ ~y.moved => y.rev = disk.file[y.obj]
  BY <1>2, <1>3, WarmIs
<1>5. /\ Free /\ act' = [act EXCEPT ![a] = y] /\ act[a].pc = from
      /\ UNCHANGED <<disk, up, inactive, journal, todo, queue, running, count, named, force, unbuilt>>
  BY <1>3 DEF Warms, Sets, At, history
<1>6. act[a].op = None
  BY <1>1, <1>5 DEF Acting, Actor
<1>7. act[a].pc \notin {"waiting", "joining"} /\ y.pc \notin {"waiting", "joining"}
  BY <1>4, <1>5
<1> QED
  BY <1>2, <1>4, <1>5, <1>6, <1>7, SoloKeeps

\* Who runs a cell has no ticket.
LEMMA InCellIs ==
    ASSUME CellKept, NEW a, InCell(a)
    PROVE  act[a].op = None /\ cell # None /\ cell \in Cells /\ (cell.passed \/ disk.live[CellClass] = cell.was)
BY DEF CellKept, InCell, Inside

\* The source that was there is written back.
LEMMA RestoreCellKeeps ==
    ASSUME IInv, CellKept, NEW a \in Activators, RestoreCell(a)
    PROVE  IInv'
<1>1. Typed /\ CellClass \in Objects
  BY StoreAssumption DEF IInv
<1>2. PICK y : y = (IF cell.active THEN Steps("restored") ELSE Idle(FALSE)) /\ y \in Between
  BY DEF Between
<1>3. act' = [Moved(CellClass) EXCEPT ![a] = y] /\ act[a].pc = "promoting" /\ InCell(a) /\ Free
  BY <1>2 DEF RestoreCell, Failed, At
<1>4. act[a].op = None /\ cell \in Cells
  BY <1>3, InCellIs
<1>5. PICK v \in Versions : v = cell.was
  BY <1>4 DEF RestoreCell, Cells, Maybe
<1>6. Left(act[a], y)
  BY <1>2, <1>3, <1>4 DEF Left
<1>7. act' \in [Activators -> Actors] /\ \A b \in Activators : Turns(CellClass, act[b], act'[b])
  BY <1>1, <1>2, <1>3, <1>6, MovedBy
<1>8. count' \in [saves : Nat, edits : Nat, tickets : Nat, crashes : Nat, cells : Nat] /\ count'.tickets = count.tickets
  BY <1>1 DEF RestoreCell, Typed
<1>9. Saves(CellClass, v)
  BY <1>5 DEF RestoreCell
<1> QED
  BY <1>1, <1>3, <1>7, <1>8, <1>9, SavesKeep

\* The class that was not there is deleted, or is gone.
LEMMA DropCellKeeps ==
    ASSUME IInv, CellKept, NEW a \in Activators, DropCell(a)
    PROVE  IInv'
<1>1. Typed /\ CellClass \in Objects
  BY StoreAssumption DEF IInv
<1>2. PICK y : y = Idle(FALSE) /\ y \in Between
  BY DEF Between
<1>3. act[a].pc = "promoting" /\ InCell(a) /\ Free
  BY DEF DropCell, Failed, At
<1>4. act[a].op = None
  BY <1>3, InCellIs
<1>5. count' \in [saves : Nat, edits : Nat, tickets : Nat, crashes : Nat, cells : Nat] /\ count'.tickets = count.tickets
  BY <1>1 DEF DropCell, Typed
<1>6. CASE disk.file[CellClass] # Absent
  <2>1. Deletes(CellClass) /\ act' = [Moved(CellClass) EXCEPT ![a] = y]
    BY <1>2, <1>6 DEF DropCell
  <2>2. Left(act[a], y)
    BY <1>2, <1>3, <1>4 DEF Left
  <2>3. act' \in [Activators -> Actors] /\ \A b \in Activators : Turns(CellClass, act[b], act'[b])
    BY <1>1, <1>2, <2>1, <2>2, MovedBy
  <2> QED
    BY <1>1, <1>3, <1>5, <2>1, <2>3, DeletesKeep
<1>7. CASE disk.file[CellClass] = Absent
  <2>1. /\ act' = [act EXCEPT ![a] = y]
        /\ UNCHANGED <<disk, up, inactive, journal, todo, queue, running, named, force, unbuilt>>
    BY <1>2, <1>7 DEF DropCell, Sets
  <2>2. y \in Actors /\ Actor(y, disk.live) /\ y.pc = "idle" /\ y.obj = None /\ y.op = None
    BY <1>2, IdleIs
  <2> QED
    BY <1>3, <1>4, <1>5, <2>1, <2>2, SoloKeeps
<1> QED
  BY <1>6, <1>7

\* What a rollback calls active is live, or counts as come unasked.
LEMMA PutBackSound ==
    ASSUME IInv, CellKept, NEW a \in Activators, PutBack(a), Promotable(a), NEW o, o = CellClass,
           NEW N, N = named', NEW E, E = unbuilt', NEW k, k = count.tickets
    PROVE  /\ disk \in Durables(N, E, force, k) /\ Settles(disk, journal, inactive, N, E) /\ Sound(disk, o, N, E)
           /\ N \in [Objects -> SUBSET Maybe] /\ E \subseteq Objects /\ \A x \in Objects : named[x] \subseteq N[x]
<1>1. /\ disk \in Disks /\ named \in [Objects -> SUBSET Maybe] /\ unbuilt \subseteq Objects /\ o \in Objects
      /\ act[a] \in Actors
  BY StoreAssumption DEF IInv, Typed
<1>2. /\ disk \in Durables(named, unbuilt, force, k) /\ Settles(disk, journal, inactive, named, unbuilt)
      /\ Safe(disk, named, unbuilt, force)
  BY FreeSettled DEF PutBack, Free, Durable
<1>3. act[a].obj = o
  BY DEF IInv, Acting, Actor, PutBack, At
<1>4. act[a].rev = disk.file[o] /\ act[a].rev # Absent
  BY <1>3 DEF Promotable
<1>5. PICK rev \in Maybe : rev = act[a].rev
  BY <1>1 DEF Actors
<1>6. CASE cell.passed \/ act[a].rev # cell.was
  <2>1. E = unbuilt \cup {o} /\ N = [named EXCEPT ![o] = @ \cup {rev}]
    BY <1>5, <1>6 DEF PutBack
  <2>2. N \in [Objects -> SUBSET Maybe] /\ (\A x \in Objects : named[x] \subseteq N[x]) /\ rev \in N[o]
    BY <1>1, <1>5, <2>1
  <2>3. disk = [disk EXCEPT !.file[o] = rev]
    BY <1>1, <1>4, <1>5 DEF Disks, Views
  <2>4. Edits(Durables(N, E, force, k), disk, disk, named, unbuilt, N, E, o, rev)
    BY <1>1, <1>2, <1>5, <2>1, <2>2, <2>3, EditSafe
  <2>5. /\ disk \in Durables(N, E, force, k) /\ Sound(disk, o, N, E)
        /\ \A x \in Objects \ {o} : Sound(disk, x, named, unbuilt) => Sound(disk, x, N, E)
    BY <2>2, <2>4 DEF Edits
  <2>6. Settles(disk, journal, inactive, N, E)
    BY <1>2, <2>5 DEF Settles
  <2> QED
    BY <1>1, <2>1, <2>2, <2>5, <2>6
<1>7. CASE ~(cell.passed \/ act[a].rev # cell.was)
  <2>1. E = unbuilt /\ N = named
    BY <1>7 DEF PutBack
  <2>2. disk.live[o] = disk.file[o]
    BY <1>4, <1>7, InCellIs DEF PutBack
  <2>3. Sound(disk, o, N, E)
    BY <1>1, <1>2, <2>1, <2>2 DEF Sound, Safe, SafeAt
  <2> QED
    BY <1>1, <1>2, <2>1, <2>3
<1> QED
  BY <1>6, <1>7

\* The end of a rollback.
LEMMA PutBackKeeps ==
    ASSUME IInv, CellKept, NEW a \in Activators, PutBack(a)
    PROVE  IInv'
<1>0. /\ Typed /\ Told /\ Acting /\ Waiting /\ Published
  BY DEF IInv
<1>1. /\ act \in [Activators -> Actors] /\ disk \in Disks /\ inactive \in Saveds /\ force \in Views
      /\ count \in [saves : Nat, edits : Nat, tickets : Nat, crashes : Nat, cells : Nat]
  BY <1>0 DEF Typed
<1>2. PICK y, o : y = Idle(FALSE) /\ o = CellClass
  OBVIOUS
<1>3. /\ Free /\ act[a].pc = "reclaiming" /\ InCell(a) /\ act' = [act EXCEPT ![a] = y]
      /\ UNCHANGED <<disk, up, journal, queue, running, count>>
  BY <1>2 DEF PutBack, At, Sets
<1>4. act[a].op = None
  BY <1>3, InCellIs
<1>5. y \in Actors /\ Actor(y, disk.live) /\ y.pc = "idle" /\ y.obj = None /\ y.op = None
  BY <1>2, IdleIs
<1>6. CASE ~Promotable(a)
  <2>1. UNCHANGED <<inactive, todo, force, named, unbuilt>>
    BY <1>6 DEF PutBack
  <2> QED
    BY <1>1, <1>3, <1>4, <1>5, <2>1, SoloKeeps
<1>7. CASE Promotable(a)
  <2>1. PICK N, E, F, k, s, ws : /\ N = named' /\ E = unbuilt' /\ F = Unforced(force, o) /\ k = count.tickets
                                 /\ s = Without(inactive, o) /\ ws = ActivationWrites(o)
    OBVIOUS
  <2>2. inactive' = s /\ todo' = ws /\ force' = F
    BY <1>2, <1>7, <2>1 DEF PutBack, Unforced
  <2>3. /\ disk \in Durables(N, E, force, k) /\ Settles(disk, journal, inactive, N, E) /\ Sound(disk, o, N, E)
        /\ N \in [Objects -> SUBSET Maybe] /\ E \subseteq Objects /\ \A x \in Objects : named[x] \subseteq N[x]
    BY <1>2, <1>7, <2>1, PutBackSound
  <2>4. o \in Objects /\ First \in Versions
    BY <1>2, StoreAssumption
  <2>5. disk \in Durables(N, E, F, k) /\ F[o] = Absent /\ F \in Views
    BY <1>1, <2>1, <2>3, <2>4, UnforcedSafe
  <2>6. Finishes(Durables(N, E, F, k), disk, ws, journal, s, N, E, Objects)
    BY <1>1, <2>1, <2>3, <2>4, <2>5, PromotionLeads
  <2>7. s \in Saveds
    BY <1>1, <2>1, <2>4, SavedIs
  <2>8. act' \in [Activators -> Actors]
    BY <1>1, <1>3, <1>5
  <2>9. Writing'
    <3>1. Durable' = Durables(N, E, F, k)
      BY <1>3, <2>1, <2>2 DEF Durable
    <3>2. up' /\ Finishes(Durable', disk', todo', journal', inactive', named', unbuilt', Objects)
      BY <1>3, <2>1, <2>2, <2>6, <3>1 DEF Free
    <3>3. Unmoved(disk, act)
      BY <1>3, FreeSettled DEF Free
    <3>4. Unmoved(disk, act')
      BY <1>1, <1>3, <1>5, <3>3, UnmovedAlone
    <3>5. \A b \in Activators : act'[b].obj # None /\ ~act'[b].moved =>
             act'[b].obj \in Objects /\ disk'.file[act'[b].obj] = act'[b].rev
      BY <1>3, <2>8, <3>4 DEF Unmoved, Actors
    <3> QED
      BY <3>2, <3>5, WritingIf
  <2>10. Told'
    <3>1. \A b \in Activators : act'[b].op = act[b].op
      BY <1>1, <1>3, <1>4, <1>5
    <3> QED
      BY <1>0, <1>3, <3>1, ToldStill
  <2>11. Acting' /\ Waiting' /\ Published'
    <3>1. Left(act[a], y)
      BY <1>2, <1>3, <1>4 DEF Left, Between
    <3>2. \A b \in Activators : Left(act[b], act'[b]) \/ Same(act[b], act'[b])
      BY <1>1, <1>3, <3>1 DEF Same
    <3> QED
      BY <1>0, <1>3, <2>1, <2>3, <3>2, Quiet
  <2>12. Typed'
    BY <1>0, <1>3, <2>1, <2>2, <2>3, <2>5, <2>7, <2>8 DEF Typed
  <2> QED
    BY <2>9, <2>10, <2>11, <2>12 DEF IInv
<1> QED
  BY <1>6, <1>7

\* Everything a cell does.
LEMMA CellKeeps ==
    ASSUME IInv, CellKept, NEW a \in Activators, Cell(a)
    PROVE  IInv'
<1>1. CASE PublishCell(a)
  BY <1>1, WarmsKeeps DEF PublishCell
<1>2. CASE Reclaim(a)
  BY <1>2, WarmsKeeps DEF Reclaim
<1> QED
  BY <1>1, <1>2, RunCellKeeps, WriteCellKeeps, RestoreCellKeeps, DropCellKeeps, PutBackKeeps DEF Cell

\* A step that switches nothing and leaves the cell to whom runs it.
LEMMA CellStill ==
    ASSUME CellKept, cell' = cell, disk'.live = disk.live,
           cell # None /\ cell.by \in Activators /\ Inside(act[cell.by]) => Inside(act'[cell.by])
    PROVE  CellKept'
<1>1. cell # None => cell.by \in Activators
  BY DEF CellKept, Cells
<1> QED
  BY <1>1 DEF CellKept

\* A write leaves who is inside a cell there.
LEMMA InsideSame ==
    ASSUME NEW x \in Actors, NEW y, Same(x, y), Inside(x)
    PROVE  Inside(y)
BY SameIs DEF Inside

\* The cell, when the process runs, publishes and writes.
LEMMA CellNext ==
    ASSUME IInv, CellKept, [Next]_vars
    PROVE  CellKept'
<1>0. Typed /\ Acting /\ Waiting
  BY DEF IInv
<1>1. act \in [Activators -> Actors] /\ disk \in Disks /\ CellClass \in Objects /\ CellClass # None
  BY <1>0, StoreAssumption, ObjectsAssumption DEF Typed
<1>2. CASE Flush \/ Start \/ Begin \/ Capture \/ BuildFails \/ Load \/ UNCHANGED vars
  <2>1. UNCHANGED <<cell, act>>
    BY <1>2 DEF Flush, Start, Begin, Capture, BuildFails, Load, vars, memory
  <2>2. disk'.live = disk.live
    <3>1. CASE Flush
      BY <3>1 DEF Flush, Written
    <3>2. CASE ~Flush
      BY <1>2, <3>2 DEF Start, Begin, Capture, BuildFails, Load, vars
    <3> QED
      BY <3>1, <3>2
  <2> QED
    BY <2>1, <2>2, CellStill
<1>3. CASE Crash
  BY <1>3 DEF Crash, CellKept
<1>4. CASE Accept
  <2>1. CASE Current
    <3>1. PICK v : v = running.view[CellClass]
      OBVIOUS
    <3>2. act' = act /\ cell' = Passed(v) /\ disk' = [disk EXCEPT !.live = running.view]
      BY <1>4, <2>1, <3>1 DEF Accept
    <3>3. disk'.live[CellClass] = v
      BY <1>1, <3>1, <3>2 DEF Disks
    <3> QED
      BY <3>2, <3>3 DEF Passed, CellKept, Cells
  <2>2. CASE ~Current
    BY <1>4, <2>2, CellStill DEF Accept
  <2> QED
    BY <2>1, <2>2
<1>5. CASE Ends
  <2>1. /\ cell' = cell /\ disk' = disk /\ running # None
        /\ act' = [a \in Activators |->
                      IF a \notin running.by THEN act[a]
                      ELSE IF act[a].obj = None THEN Idle(FALSE)
                      ELSE [act[a] EXCEPT !.pc = "promoting",
                                          !.built = IF running.at = "failed" THEN None ELSE running.view]]
    BY <1>5 DEF Ends
  <2>2. ASSUME NEW a \in Activators, Inside(act[a]) PROVE Inside(act'[a])
    <3>1. CASE a \notin running.by
      BY <2>1, <2>2, <3>1
    <3>2. CASE a \in running.by
      <4>1. act[a].pc = "waiting"
        BY <1>0, <2>1, <3>2 DEF Waiting
      <4>2. act[a].obj # None /\ act[a].op = None
        BY <2>2, <4>1 DEF Inside
      <4>3. act'[a] = [act[a] EXCEPT !.pc = "promoting",
                                     !.built = IF running.at = "failed" THEN None ELSE running.view]
        BY <2>1, <3>2, <4>2
      <4>4. act'[a].pc = "promoting" /\ act'[a].obj = act[a].obj /\ act'[a].op = act[a].op
        BY <1>1, <4>3 DEF Actors
      <4> QED
        BY <4>2, <4>4 DEF Inside
    <3> QED
      BY <3>1, <3>2
  <2> QED
    BY <2>1, <2>2, CellStill
<1>6. ASSUME NEW o \in Objects, Delete(o) \/ (\E v \in Versions : Save(o, v)) \/ (\E v \in Maybe : Edit(o, v))
      PROVE  CellKept'
  <2>1. act' = Moved(o) /\ cell' = cell
    BY <1>6 DEF Delete, Save, Edit
  <2>2. disk'.live = disk.live
    BY <1>1, <1>6 DEF Delete, Save, Edit, Deletes, Saves, Disks
  <2>3. \A a \in Activators : Same(act[a], act'[a])
    BY <1>0, <2>1, MovedIs
  <2> QED
    BY <1>1, <2>1, <2>2, <2>3, InsideSame, CellStill
<1>7. ASSUME NEW a \in Activators, NEW y, act' = [act EXCEPT ![a] = y], cell' = cell, disk' = disk,
             ~Inside(act[a]) \/ Inside(y) \/ ~InCell(a)
      PROVE  CellKept'
  <2>1. act'[a] = y /\ \A b \in Activators \ {a} : act'[b] = act[b]
    BY <1>1, <1>7
  <2> QED
    BY <1>7, <2>1, CellStill DEF InCell
<1>8. ASSUME NEW a \in Activators, PlainPass(a) \/ StepDumped(a) \/ (\E o \in Objects : Activate(a, o) \/ DevPass(a, o))
      PROVE  CellKept'
  <2>1. cell' = cell /\ disk' = disk /\ \E y : act' = [act EXCEPT ![a] = y]
    BY <1>8 DEF PlainPass, StepDumped, Activate, DevPass, Sets
  <2>2. ~Inside(act[a])
    BY <1>8 DEF PlainPass, StepDumped, Activate, DevPass, At, Inside
  <2> QED
    BY <1>7, <2>1, <2>2
<1>9. ASSUME NEW a \in Activators, Publish(a) \/ Join(a) PROVE CellKept'
  <2>1. cell' = cell /\ disk' = disk /\ act[a].pc \in {"checked", "joining"}
    BY <1>9 DEF Publish, Join, At
  <2>2. PICK y : /\ act' = [act EXCEPT ![a] = y] /\ y.pc \in {"joining", "waiting"}
                 /\ y.obj = act[a].obj /\ y.op = act[a].op
    <3>1. act[a] \in Actors
      BY <1>1
    <3>2. PICK view, y1, y2, y3 : /\ view = View(ObjectsOf(a)) /\ y1 = [act[a] EXCEPT !.pc = "joining", !.key = view]
                                  /\ y2 = [act[a] EXCEPT !.pc = "waiting"]
                                  /\ y3 = [act[a] EXCEPT !.pc = "waiting", !.key = None]
      OBVIOUS
    <3>3. \E y \in {y1, y2, y3} : act' = [act EXCEPT ![a] = y]
      BY <1>9, <3>2 DEF Publish, Join, Sets
    <3>4. \A y \in {y1, y2, y3} : y.pc \in {"joining", "waiting"} /\ y.obj = act[a].obj /\ y.op = act[a].op
      BY <3>1, <3>2 DEF Actors
    <3> QED
      BY <3>3, <3>4
  <2>3. Inside(act[a]) => Inside(y)
    BY <2>1, <2>2 DEF Inside
  <2> QED
    BY <1>7, <2>1, <2>2, <2>3
<1>10. ASSUME NEW a \in Activators, Promote(a) PROVE CellKept'
  <2>1. disk' = disk /\ (\E y : act' = [act EXCEPT ![a] = y]) /\ cell' = IF InCell(a) THEN None ELSE cell
    BY <1>10 DEF Promote, Sets
  <2>2. CASE InCell(a)
    BY <2>1, <2>2 DEF CellKept
  <2>3. CASE ~InCell(a)
    BY <1>7, <2>1, <2>3
  <2> QED
    BY <2>2, <2>3
<1>11. ASSUME NEW a \in Activators, RunCell(a) PROVE CellKept'
  <2>1. /\ act'[a] = Steps("writing") /\ disk' = disk
        /\ \E active, passed \in BOOLEAN :
              /\ cell' = [by |-> a, was |-> disk.file[CellClass], active |-> active, passed |-> passed]
              /\ passed = (disk.live[CellClass] # disk.file[CellClass])
    BY <1>1, <1>11, Zenon DEF RunCell, Sets
  <2>2. Inside(Steps("writing"))
    BY DEF Inside, Steps, Idle
  <2>3. disk.file[CellClass] \in Maybe
    BY <1>1 DEF Disks, Views
  <2>4. cell' \in Cells /\ cell'.by = a /\ (cell'.passed \/ disk.live[CellClass] = cell'.was)
    <3>1. PICK active, passed \in BOOLEAN :
             /\ cell' = [by |-> a, was |-> disk.file[CellClass], active |-> active, passed |-> passed]
             /\ passed = (disk.live[CellClass] # disk.file[CellClass])
      BY <2>1
    <3> QED
      BY <2>3, <3>1 DEF Cells
  <2> QED
    BY <2>1, <2>2, <2>4 DEF CellKept
<1>12. ASSUME NEW a \in Activators, NEW v \in Versions, WriteCell(a, v) PROVE CellKept'
  <2>1. PICK y : y = Steps("written")
    OBVIOUS
  <2>2. Inside(y)
    BY <2>1 DEF Inside, Steps, Idle
  <2>3. act' = [Moved(CellClass) EXCEPT ![a] = y] /\ cell' = cell /\ disk' = disk
    BY <1>12, <2>1 DEF WriteCell, Saves
  <2>4. ASSUME NEW b \in Activators, Inside(act[b]) PROVE Inside(act'[b])
    BY <1>1, <2>2, <2>3, <2>4, InsideSame DEF Moved, Same
  <2> QED
    BY <2>3, <2>4, CellStill
<1>13. ASSUME NEW a \in Activators, PublishCell(a) \/ Reclaim(a) PROVE CellKept'
  <2>1. PICK to \in {"checked", "reclaiming"} :
           /\ act' = [act EXCEPT ![a] = warmActivation(a, to)] /\ cell' = cell /\ disk' = disk
    BY <1>13 DEF PublishCell, Reclaim, Warms, Sets
  <2>2. PICK y : y = warmActivation(a, to)
    OBVIOUS
  <2>3. y.pc = to /\ y.op = None /\ y.obj = CellClass
    BY <1>1, <2>2, WarmIs
  <2>4. Inside(y)
    BY <1>1, <2>3 DEF Inside
  <2> QED
    BY <1>7, <2>1, <2>2, <2>4
<1>14. ASSUME NEW a \in Activators, RestoreCell(a) PROVE CellKept'
  <2>1. CASE cell.active
    <3>1. PICK y : y = Steps("restored")
      OBVIOUS
    <3>2. Inside(y)
      BY <3>1 DEF Inside, Steps, Idle
    <3>3. act' = [Moved(CellClass) EXCEPT ![a] = y] /\ cell' = cell /\ disk' = disk
      BY <1>14, <2>1, <3>1 DEF RestoreCell, Saves
    <3>4. ASSUME NEW b \in Activators, Inside(act[b]) PROVE Inside(act'[b])
      BY <1>1, <3>2, <3>3, <3>4, InsideSame DEF Moved, Same
    <3> QED
      BY <3>3, <3>4, CellStill
  <2>2. CASE ~cell.active
    BY <1>14, <2>2 DEF RestoreCell, CellKept
  <2> QED
    BY <2>1, <2>2
<1>15. ASSUME NEW a \in Activators, DropCell(a) \/ PutBack(a) PROVE CellKept'
  BY <1>15 DEF DropCell, PutBack, CellKept
<1> QED
  BY <1>2, <1>3, <1>4, <1>5, <1>6, <1>8, <1>9, <1>10, <1>11, <1>12, <1>13, <1>14, <1>15
  DEF Next, Publication, Goings, Cell

-----------------------------------------------------------------------------
(* The theorems *)

\* Every step keeps the invariant, those that change nothing too.
LEMMA NextKeeps ==
    ASSUME IInv, CellKept, [Next]_vars
    PROVE  IInv'
<1>1. CASE Flush
  BY <1>1, FlushKeeps
<1>2. CASE Crash
  BY <1>2, CrashKeeps
<1>3. CASE Start
  BY <1>3, StartKeeps
<1>4. CASE Publication
  BY <1>4, BeginKeeps, CaptureKeeps, AcceptKeeps, BuildFailsKeeps, LoadKeeps, EndsKeeps DEF Publication
<1>5. ASSUME NEW o \in Objects, Delete(o) \/ (\E v \in Versions : Save(o, v)) \/ (\E v \in Maybe : Edit(o, v))
      PROVE  IInv'
  BY <1>5, DeleteKeeps, SaveKeeps, EditKeeps
<1>6. ASSUME NEW a \in Activators, PlainPass(a)
      PROVE  IInv'
  <2>1. /\ Free /\ At(a, "idle") /\ Sets(a, Activating(a, None, None)) /\ None \in Objects \cup {None}
        /\ UNCHANGED <<disk, up, inactive, journal, todo, queue, running, history>>
    BY <1>6 DEF PlainPass
  <2> QED
    BY <2>1, PassKeeps
<1>7. ASSUME NEW a \in Activators, NEW o \in Objects, DevPass(a, o)
      PROVE  IInv'
  <2>1. /\ Free /\ At(a, "idle") /\ Sets(a, Activating(a, o, None)) /\ o \in Objects \cup {None}
        /\ disk.file[o] # Absent
        /\ UNCHANGED <<disk, up, inactive, journal, todo, queue, running, history>>
    BY <1>7 DEF DevPass
  <2> QED
    BY <2>1, PassKeeps
<1>8. ASSUME NEW a \in Activators, StepDumped(a) \/ Goings(a)
      PROVE  IInv'
  BY <1>8, StepDumpedKeeps, PublishKeeps, JoinKeeps, PromoteKeeps DEF Goings
<1>9. ASSUME NEW a \in Activators, NEW o \in Objects, Activate(a, o)
      PROVE  IInv'
  BY <1>9, ActivateKeeps
<1>10. ASSUME NEW a \in Activators, Cell(a)
       PROVE  IInv'
  BY <1>10, CellKeeps
<1>11. CASE UNCHANGED vars
  <2>1. UNCHANGED <<disk, up, inactive, journal, todo, queue, running, act, count, named, force, unbuilt>>
    BY <1>11 DEF vars, memory, history
  <2>2. Typed' /\ Told' /\ Acting'
    BY <2>1 DEF IInv, Typed, Told, Acting
  <2>3. Waiting' /\ Published'
    BY <2>1 DEF IInv, Waiting, Published, ObjectsOf
  <2>4. Writing'
    BY <2>1 DEF IInv, Writing, Settled, Durable
  <2> QED
    BY <2>2, <2>3, <2>4 DEF IInv
<1> QED
  BY <1>1, <1>2, <1>3, <1>4, <1>5, <1>6, <1>7, <1>8, <1>9, <1>10, <1>11 DEF Next

\* The inductive invariant: wherever an operation of the store is, what it has still to write
\* leads through disks a process can start from, and the journal, the activators and the
\* publications agree; and what a failed cell would put back is live unless it was passed.
THEOREM StoreInvariant == Spec => []Whole
<1>1. Init => Whole
  BY InitKeeps DEF Whole, CellKept, Init
<1>2. Whole /\ [Next]_vars => Whole'
  BY NextKeeps, CellNext DEF Whole
<1> QED
  BY <1>1, <1>2, PTL DEF Spec

\* The disk is one a process can start from, at any moment.
LEMMA AlwaysDurable ==
    ASSUME IInv
    PROVE  disk \in Durable /\ Safe(disk, named, unbuilt, force)
<1>1. disk \in Durable
  <2>1. CASE up
    <3>1. PICK e \in Settled : Reaches(Durable, disk, todo, e)
      BY <2>1 DEF IInv, Writing
    <3>2. PICK X : todo \in Seq(X)
      BY <2>1 DEF IInv, Writing
    <3> QED
      BY <3>1, <3>2, ReachesFrom
  <2>2. CASE ~up
    BY <2>2 DEF IInv, Writing
  <2> QED
    BY <2>1, <2>2
<1> QED
  BY <1>1 DEF Durable, Durables

\* No version that was only saved is live: the live generation has, of every object, a
\* version that a publication naming it saw, that came from outside, or that a failed cell
\* put back unasked.
THEOREM StoreLiveIsActivated == Spec => []LiveIsActivated
<1>1. IInv => LiveIsActivated
  BY AlwaysDurable DEF LiveIsActivated, Safe, SafeAt
<1> QED
  BY <1>1, StoreInvariant, PTL DEF Whole

\* What the store calls active is what the live generation was built from, but for what came
\* unasked since it was built: from outside, or by the rollback of a cell under which something
\* else went live or was saved.
THEOREM StoreActiveIsLive == Spec => []ActiveIsLive
<1>1. IInv => ActiveIsLive
  BY FreeSettled DEF ActiveIsLive, Free, Settles, Sound
<1> QED
  BY <1>1, StoreInvariant, PTL DEF Whole

\* Everything the store has is typed, and the copy of an inactive object is its active version.
THEOREM StoreIsKept == Spec => []StoreKept
<1>1. ASSUME IInv PROVE TypeOK
  <2>1. Typed
    BY <1>1 DEF IInv
  <2>2. disk \in Disks /\ journal \in Journals /\ inactive \in Saveds /\ running \in Publications \cup {None}
    BY <2>1 DEF Typed
  <2>3. \A a \in Activators : act[a].pc \in {"idle", "checked", "joining", "waiting", "promoting"}
                                                \cup {"writing", "written", "restored", "reclaiming"}
    BY <2>1 DEF Typed, Actors
  <2> QED
    BY <2>2, <2>3 DEF TypeOK, Disks, Journals, Outcomes
<1>2. ASSUME IInv PROVE ActiveKept
  <2>1. SUFFICES ASSUME up, todo = <<>>, NEW o \in DOMAIN inactive, force[o] # Absent
                 PROVE  disk.copy[o] = force[o]
    BY DEF ActiveKept, Free
  <2>2. Settles(disk, journal, inactive, named, unbuilt) /\ Safe(disk, named, unbuilt, force)
    BY <1>2, <2>1, FreeSettled
  <2>3. inactive \in Saveds
    BY <1>2 DEF IInv, Typed
  <2>4. disk.set = inactive /\ disk.set # NoFile
    BY <2>1, <2>2, <2>3, SettledSet
  <2>5. o \in Objects
    BY <2>1, <2>3 DEF Saveds
  <2> QED
    BY <2>1, <2>2, <2>4, <2>5 DEF Safe, SafeAt
<1>3. IInv => StoreKept
  BY <1>1, <1>2 DEF StoreKept
<1> QED
  BY <1>3, StoreInvariant, PTL DEF Whole

\* No activation is refused for its revision unless its object was written after the check.
THEOREM StoreRefusedOnlyIfWritten == Spec => []RefusedOnlyIfWritten
<1>1. IInv => RefusedOnlyIfWritten
  BY DEF IInv, Acting, Actor, RefusedOnlyIfWritten
<1> QED
  BY <1>1, StoreInvariant, PTL DEF Whole

\* The journal tells the truth of every object: its outcome is that of the last attempt that
\* ended since its last delete, and every ticket that has not ended is worked on.
THEOREM StoreJournalTrue == Spec => []JournalTrue
<1>1. ASSUME IInv, up, NEW o \in Objects, NEW ended,
             ended = {t \in journal.entries : t.obj = o /\ Completed(t) /\ t.seq > journal.attempts[o].deleted},
             NEW t \in ended, \A u \in ended : u.op <= t.op
      PROVE  journal.outcomes[o] = [op |-> t.op, seq |-> t.seq, outcome |-> t.state]
  <2>1. /\ journal \in Journals /\ Kept(journal.attempts, journal.outcomes, journal.entries, count.tickets)
        /\ Truthful(journal.attempts, journal.outcomes, journal.entries)
    BY <1>1 DEF IInv, Told, True
  <2>2. journal.outcomes \in [Objects -> Outcome \cup {None}] /\ journal.entries \subseteq Ticket
    BY <2>1 DEF Journals, Outcomes
  <2>3. PICK oc : oc = journal.outcomes[o]
    OBVIOUS
  <2>4. t \in journal.entries /\ t.obj = o /\ Completed(t) /\ t.seq > journal.attempts[o].deleted
    BY <1>1
  <2>5. oc # None /\ oc.seq >= t.seq
    BY <2>1, <2>3, <2>4 DEF Kept
  <2>6. oc \in Outcome
    BY <2>2, <2>3, <2>5
  <2>7. PICK u \in journal.entries : u.obj = o /\ u.op = oc.op /\ u.seq = oc.seq /\ u.state = oc.outcome
    BY <2>1, <2>3, <2>5 DEF Truthful
  <2>8. Completed(u) /\ u.seq > journal.attempts[o].deleted
    BY <2>1, <2>3, <2>5, <2>6, <2>7 DEF Completed, Outcome, Truthful
  <2>9. u \in ended
    BY <1>1, <2>7, <2>8
  <2>10. u.op \in Nat /\ t.op \in Nat /\ u.seq \in Nat /\ t.seq \in Nat
    BY <2>2, <2>4, <2>7 DEF Ticket
  <2>11. ~(u.op < t.op)
    BY <2>1, <2>4, <2>5, <2>7, <2>10 DEF Kept
  <2>12. u.op = t.op
    BY <1>1, <2>9, <2>10, <2>11
  <2>13. u = t
    BY <2>1, <2>4, <2>7, <2>12 DEF Kept
  <2>14. oc = [op |-> oc.op, seq |-> oc.seq, outcome |-> oc.outcome]
    BY <2>6 DEF Outcome
  <2> QED
    BY <2>3, <2>7, <2>13, <2>14
<1>2. IInv => OutcomeIsNewest
  BY <1>1 DEF OutcomeIsNewest, Free
<1>3. IInv => OutcomeOfThisObject
  BY DEF IInv, Told, True, Truthful, OutcomeOfThisObject
<1>4. IInv => TicketIsWorkedOn
  BY DEF IInv, Told, Worked, TicketIsWorkedOn, Free
<1>5. IInv => JournalTrue
  BY <1>2, <1>3, <1>4 DEF JournalTrue
<1> QED
  BY <1>5, StoreInvariant, PTL DEF Whole

=============================================================================
