------------------------------ MODULE EnqProofs ------------------------------
(***************************************************************************)
(* For any tables, keys, modes, scopes and bounds: the lock server keeps   *)
(* its locks exclusive and owned, the table of rows implements the owners' *)
(* bags, and two arguments collide exactly when they have a key in common. *)
(***************************************************************************)
EXTENDS EnqRefinement, EnqKeys, FiniteSetTheorems, SequenceTheorems,
        WellFoundedInduction, TLAPS

\* collide does not depend on which of two arguments was there first.
LEMMA CollideSymmetric ==
    ASSUME NEW a, NEW b
    PROVE  collide(a, b) <=> collide(b, a)
  <1>1. CASE Exact(a) /\ Exact(b)
    BY <1>1 DEF collide
  <1>2. CASE ~(Exact(a) /\ Exact(b))
    BY <1>2 DEF collide
  <1>3. QED
    BY <1>1, <1>2

\* Neither does the overlap of two rows, which compares their arguments with collide.
LEMMA OverlapSymmetric ==
    ASSUME NEW v, NEW w
    PROVE  Overlap(v, w) <=> Overlap(w, v)
  BY CollideSymmetric DEF Overlap

-----------------------------------------------------------------------------
(* What the steps that release do to the table *)

\* The rows that stay are the old ones, with no half taken anew.
Shrinks ==
    /\ DOMAIN rows' \subseteq DOMAIN rows
    /\ rows' = [i \in DOMAIN rows' |-> rows'[i]]
    /\ \A i \in DOMAIN rows' :
          /\ rows'[i] \in Row
          /\ rows'[i].table = rows[i].table /\ rows'[i].arg = rows[i].arg
          /\ rows'[i].mode = rows[i].mode /\ rows'[i].session = rows[i].session
          /\ rows'[i].dialogs <= rows[i].dialogs /\ rows'[i].updates <= rows[i].updates
          /\ rows'[i].dialogs > 0 => rows'[i].dialog = rows[i].dialog
          /\ rows'[i].updates > 0 => rows'[i].update = rows[i].update
          /\ Kept(rows'[i])

\* Sweeping a table of rows that lost counts leaves a table that shrank.
LEMMA SweepShrinks ==
    ASSUME TypeOK,
           NEW STATE t, DOMAIN t = DOMAIN rows,
           \A i \in DOMAIN rows :
              /\ t[i] \in Row
              /\ t[i].table = rows[i].table /\ t[i].arg = rows[i].arg
              /\ t[i].mode = rows[i].mode /\ t[i].session = rows[i].session
              /\ t[i].dialog = rows[i].dialog /\ t[i].update = rows[i].update
              /\ t[i].dialogs <= rows[i].dialogs /\ t[i].updates <= rows[i].updates,
           rows' = sweep(t)
    PROVE  Shrinks
  <1>1. DOMAIN rows' = {j \in DOMAIN t : Kept(t[j])}
    BY DEF sweep
  <1>2. \A i \in DOMAIN rows' : rows'[i] = Blanked(t[i])
    BY <1>1 DEF sweep
  <1>3. \A i \in DOMAIN rows' : Blanked(t[i]) \in Row
    <2> SUFFICES ASSUME NEW i \in DOMAIN rows'  PROVE Blanked(t[i]) \in Row
      OBVIOUS
    <2> DEFINE w == t[i]
    <2>1. w \in Row
      BY <1>1
    <2> HIDE DEF w
    <2>2. Blanked(w) \in Row
      BY <2>1 DEF Blanked, Row, NoOwner
    <2>3. QED
      BY <2>2 DEF w
  <1>4. rows' = [i \in DOMAIN rows' |-> rows'[i]]
    BY <1>1 DEF sweep
  <1>5. ASSUME NEW i \in DOMAIN rows'
        PROVE  /\ rows'[i].table = rows[i].table /\ rows'[i].arg = rows[i].arg
               /\ rows'[i].mode = rows[i].mode /\ rows'[i].session = rows[i].session
               /\ rows'[i].dialogs <= rows[i].dialogs /\ rows'[i].updates <= rows[i].updates
               /\ rows'[i].dialogs > 0 => rows'[i].dialog = rows[i].dialog
               /\ rows'[i].updates > 0 => rows'[i].update = rows[i].update
               /\ Kept(rows'[i])
    <2>1. i \in DOMAIN t /\ Kept(t[i]) /\ t[i] \in Row /\ rows'[i] = Blanked(t[i])
      BY <1>1, <1>2, <1>5
    <2>2. QED
      BY <2>1 DEF Blanked, Row, Kept
  <1>6. QED
    BY <1>1, <1>2, <1>3, <1>4, <1>5 DEF Shrinks

\* A table that shrank is as exclusive as it was.
LEMMA ShrinkKeepsExclusion ==
    ASSUME TypeOK, Shrinks, SessionExclusion, ExclusiveAlone
    PROVE  SessionExclusion' /\ ExclusiveAlone'
  <1>1. \A i, j \in DOMAIN rows' : Overlap(rows'[i], rows'[j]) => Overlap(rows[i], rows[j])
    BY DEF Shrinks, Overlap
  <1>2. SessionExclusion'
    BY <1>1 DEF SessionExclusion, Shrinks
  <1>3. ExclusiveAlone'
    <2> SUFFICES ASSUME NEW i \in DOMAIN rows', rows'[i].mode = "X"
                 PROVE  /\ rows'[i].dialogs <= 1 /\ rows'[i].updates <= 1
                        /\ \A j \in DOMAIN rows' : Overlap(rows'[i], rows'[j]) => i = j
      BY DEF ExclusiveAlone
    <2>1. i \in DOMAIN rows /\ rows[i].mode = "X" /\ rows[i] \in Row /\ rows'[i] \in Row
      BY DEF Shrinks, TypeOK
    <2>2. rows[i].dialogs <= 1 /\ rows[i].updates <= 1
      BY <2>1 DEF ExclusiveAlone
    <2>3. rows'[i].dialogs <= 1 /\ rows'[i].updates <= 1
      BY <2>1, <2>2 DEF Shrinks, Row
    <2>4. \A j \in DOMAIN rows' : Overlap(rows'[i], rows'[j]) => i = j
      BY <1>1, <2>1 DEF ExclusiveAlone, Shrinks
    <2>5. QED
      BY <2>3, <2>4
  <1>4. QED
    BY <1>2, <1>3

\* The row a DEQUEUE finds keeps its lock and its owners; it only loses counts.
LEMMA UncountedRow ==
    ASSUME NEW s, NEW w \in Row, NEW r
    PROVE  /\ Uncounted(s, w, r) \in Row
           /\ Uncounted(s, w, r).table = w.table /\ Uncounted(s, w, r).arg = w.arg
           /\ Uncounted(s, w, r).mode = w.mode /\ Uncounted(s, w, r).session = w.session
           /\ Uncounted(s, w, r).dialog = w.dialog /\ Uncounted(s, w, r).update = w.update
           /\ Uncounted(s, w, r).dialogs <= w.dialogs /\ Uncounted(s, w, r).updates <= w.updates
  <1> DEFINE a == IF TakesDialog(r) /\ HoldsDialog(s, w) THEN w.dialogs - 1 ELSE w.dialogs
             b == IF TakesUpdate(r) /\ HoldsUpdate(s, w) THEN w.updates - 1 ELSE w.updates
  <1>1. Uncounted(s, w, r) = [w EXCEPT !.dialogs = a, !.updates = b]
    BY DEF Uncounted
  <1>2. w.dialogs \in Nat /\ w.updates \in Nat
    BY DEF Row
  <1>3. a \in Nat /\ a <= w.dialogs
    BY <1>2 DEF HoldsDialog
  <1>4. b \in Nat /\ b <= w.updates
    BY <1>2 DEF HoldsUpdate
  <1> DEFINE v == Uncounted(s, w, r)
  <1>5. v = [w EXCEPT !.dialogs = a, !.updates = b]
    BY <1>1
  <1> HIDE DEF a, b, v
  <1>6. /\ v \in Row
        /\ v.table = w.table /\ v.arg = w.arg /\ v.mode = w.mode /\ v.session = w.session
        /\ v.dialog = w.dialog /\ v.update = w.update
        /\ v.dialogs = a /\ v.updates = b
    BY <1>3, <1>4, <1>5 DEF Row
  <1>7. QED
    BY <1>3, <1>4, <1>6 DEF v

\* Every step that gives locks back shrinks the table: dequeue ...
LEMMA DequeueShrinks ==
    ASSUME TypeOK, NEW sid \in DOMAIN sessions, NEW r \in Request, dequeue(sid, r)
    PROVE  Shrinks
  <1>1. PICK i \in DOMAIN rows :
           /\ Matches(sid, rows[i], r)
           /\ rows' = sweep([rows EXCEPT ![i] = Uncounted(sessions[sid], @, r)])
    BY DEF dequeue, IsFirst
  <1> DEFINE t == [rows EXCEPT ![i] = Uncounted(sessions[sid], @, r)]
             w == rows[i]
             s == sessions[sid]
  <1>2. w \in Row
    BY DEF TypeOK
  <1>3. DOMAIN t = DOMAIN rows /\ t[i] = Uncounted(s, w, r)
        /\ \A j \in DOMAIN rows \ {i} : t[j] = rows[j]
    OBVIOUS
  <1> HIDE DEF w, s
  <1>4. /\ Uncounted(s, w, r) \in Row
        /\ Uncounted(s, w, r).table = w.table /\ Uncounted(s, w, r).arg = w.arg
        /\ Uncounted(s, w, r).mode = w.mode /\ Uncounted(s, w, r).session = w.session
        /\ Uncounted(s, w, r).dialog = w.dialog /\ Uncounted(s, w, r).update = w.update
        /\ Uncounted(s, w, r).dialogs <= w.dialogs /\ Uncounted(s, w, r).updates <= w.updates
    BY <1>2, UncountedRow
  <1> HIDE DEF t
  <1>5. \A j \in DOMAIN rows : rows[j] \in Row /\ rows[j].dialogs <= rows[j].dialogs
                                              /\ rows[j].updates <= rows[j].updates
    BY DEF TypeOK, Row
  <1>6. \A j \in DOMAIN rows :
              /\ t[j] \in Row
              /\ t[j].table = rows[j].table /\ t[j].arg = rows[j].arg
              /\ t[j].mode = rows[j].mode /\ t[j].session = rows[j].session
              /\ t[j].dialog = rows[j].dialog /\ t[j].update = rows[j].update
              /\ t[j].dialogs <= rows[j].dialogs /\ t[j].updates <= rows[j].updates
    BY <1>3, <1>4, <1>5 DEF w
  <1>7. rows' = sweep(t)
    BY <1>1 DEF t
  <1>8. QED
    BY <1>3, <1>6, <1>7, SweepShrinks

\* ... the release of both owners' halves (DEQUEUE_ALL, the end of a session) ...
LEMMA ReleaseShrinks ==
    ASSUME TypeOK, NEW sid \in DOMAIN sessions, rows' = release(sid)
    PROVE  /\ Shrinks
           /\ \A i \in DOMAIN rows' : rows'[i].session = sid =>
                 /\ rows'[i].dialogs > 0 => rows'[i].dialog # sessions[sid].dialog
                 /\ rows'[i].updates > 0 => rows'[i].update # sessions[sid].update
  <1> DEFINE t == [i \in DOMAIN rows |-> ReleasedRow(sid, rows[i])]
  <1>1. ASSUME NEW w \in Row
        PROVE  /\ ReleasedRow(sid, w) \in Row
               /\ ReleasedRow(sid, w).table = w.table /\ ReleasedRow(sid, w).arg = w.arg
               /\ ReleasedRow(sid, w).mode = w.mode /\ ReleasedRow(sid, w).session = w.session
               /\ ReleasedRow(sid, w).dialog = w.dialog /\ ReleasedRow(sid, w).update = w.update
               /\ ReleasedRow(sid, w).dialogs <= w.dialogs
               /\ ReleasedRow(sid, w).updates <= w.updates
               /\ w.session = sid /\ w.dialog = sessions[sid].dialog => ReleasedRow(sid, w).dialogs = 0
               /\ w.session = sid /\ w.update = sessions[sid].update => ReleasedRow(sid, w).updates = 0
    <2> DEFINE a == IF w.session = sid /\ w.dialog = sessions[sid].dialog THEN 0 ELSE w.dialogs
               b == IF w.session = sid /\ w.update = sessions[sid].update THEN 0 ELSE w.updates
    <2>1. ReleasedRow(sid, w) = [w EXCEPT !.dialogs = a, !.updates = b]
      BY DEF ReleasedRow
    <2>2. a \in Nat /\ a <= w.dialogs /\ b \in Nat /\ b <= w.updates
      BY DEF Row
    <2> DEFINE v == ReleasedRow(sid, w)
    <2>3. v = [w EXCEPT !.dialogs = a, !.updates = b]
      BY <2>1
    <2> HIDE DEF a, b, v
    <2>4. /\ v \in Row
          /\ v.table = w.table /\ v.arg = w.arg /\ v.mode = w.mode /\ v.session = w.session
          /\ v.dialog = w.dialog /\ v.update = w.update
          /\ v.dialogs = a /\ v.updates = b
      BY <2>2, <2>3 DEF Row
    <2>5. QED
      BY <2>2, <2>4 DEF v, a, b
  <1>2. DOMAIN t = DOMAIN rows /\ \A i \in DOMAIN rows : t[i] = ReleasedRow(sid, rows[i])
    OBVIOUS
  <1>3. rows' = sweep(t)
    BY DEF release
  <1>4. \A i \in DOMAIN rows : rows[i] \in Row
    BY DEF TypeOK
  <1> HIDE DEF t
  <1>5. \A i \in DOMAIN rows :
              /\ t[i] \in Row
              /\ t[i].table = rows[i].table /\ t[i].arg = rows[i].arg
              /\ t[i].mode = rows[i].mode /\ t[i].session = rows[i].session
              /\ t[i].dialog = rows[i].dialog /\ t[i].update = rows[i].update
              /\ t[i].dialogs <= rows[i].dialogs /\ t[i].updates <= rows[i].updates
    BY <1>1, <1>2, <1>4
  <1>6. Shrinks
    BY <1>2, <1>3, <1>5, SweepShrinks
  <1>7. ASSUME NEW i \in DOMAIN rows', rows'[i].session = sid
        PROVE  /\ rows'[i].dialogs > 0 => rows'[i].dialog # sessions[sid].dialog
               /\ rows'[i].updates > 0 => rows'[i].update # sessions[sid].update
    <2>1. i \in DOMAIN rows /\ i \in DOMAIN t /\ rows'[i] = Blanked(t[i]) /\ t[i] \in Row
      BY <1>2, <1>3, <1>5 DEF sweep
    <2>2. rows'[i].updates = t[i].updates /\ rows'[i].dialogs = t[i].dialogs
      BY <2>1 DEF Blanked, Row
    <2>3. /\ rows[i].session = sid /\ rows[i] \in Row
          /\ rows'[i].dialogs > 0 => rows'[i].dialog = rows[i].dialog
          /\ rows'[i].updates > 0 => rows'[i].update = rows[i].update
      BY <1>4, <1>6, <1>7, <2>1 DEF Shrinks
    <2>4. t[i] = ReleasedRow(sid, rows[i])
      BY <1>2, <2>1
    <2>5. QED
      BY <1>1, <2>2, <2>3, <2>4
  <1>8. QED
    BY <1>6, <1>7

\* ... and the release of one LUW's halves (ROLLBACK WORK, the end of an update).
LEMMA ReleaseUpdateShrinks ==
    ASSUME TypeOK, NEW sid \in Nat, NEW owner \in Nat, rows' = releaseUpdate(sid, owner)
    PROVE  /\ Shrinks
           /\ \A i \in DOMAIN rows' :
                 rows'[i].session = sid /\ rows'[i].updates > 0 => rows'[i].update # owner
  <1> DEFINE u(w) == [w EXCEPT !.updates = IF w.session = sid /\ w.update = owner THEN 0 ELSE @]
             t == [i \in DOMAIN rows |-> u(rows[i])]
  <1>1. ASSUME NEW w \in Row
        PROVE  /\ u(w) \in Row
               /\ u(w).table = w.table /\ u(w).arg = w.arg
               /\ u(w).mode = w.mode /\ u(w).session = w.session
               /\ u(w).dialog = w.dialog /\ u(w).update = w.update
               /\ u(w).dialogs <= w.dialogs /\ u(w).updates <= w.updates
               /\ w.session = sid /\ w.update = owner => u(w).updates = 0
    BY DEF Row
  <1>2. DOMAIN t = DOMAIN rows /\ \A i \in DOMAIN rows : t[i] = u(rows[i])
    OBVIOUS
  <1>3. rows' = sweep(t)
    BY DEF releaseUpdate
  <1>4. \A i \in DOMAIN rows : rows[i] \in Row
    BY DEF TypeOK
  <1> HIDE DEF t, u
  <1>5. \A i \in DOMAIN rows :
              /\ t[i] \in Row
              /\ t[i].table = rows[i].table /\ t[i].arg = rows[i].arg
              /\ t[i].mode = rows[i].mode /\ t[i].session = rows[i].session
              /\ t[i].dialog = rows[i].dialog /\ t[i].update = rows[i].update
              /\ t[i].dialogs <= rows[i].dialogs /\ t[i].updates <= rows[i].updates
    BY <1>1, <1>2, <1>4
  <1>6. Shrinks
    BY <1>2, <1>3, <1>5, SweepShrinks
  <1>7. ASSUME NEW i \in DOMAIN rows', rows'[i].session = sid, rows'[i].updates > 0,
               rows'[i].update = owner
        PROVE  FALSE
    <2>1. i \in DOMAIN rows /\ i \in DOMAIN t /\ rows'[i] = Blanked(t[i]) /\ t[i] \in Row
      BY <1>2, <1>3, <1>5 DEF sweep
    <2>2. rows'[i].updates = t[i].updates /\ t[i].updates > 0
      BY <2>1, <1>7 DEF Blanked, Row
    <2>3. rows[i].session = sid /\ rows[i].update = owner
      BY <1>6, <1>7, <2>1 DEF Shrinks
    <2>4. QED
      BY <1>1, <1>2, <1>4, <2>1, <2>2, <2>3
  <1>8. QED
    BY <1>6, <1>7

-----------------------------------------------------------------------------
(* A granted ENQUEUE *)

\* What a grant says about the rows that touch the request's key.
LEMMA GrantMeans ==
    ASSUME NEW sid, NEW r, Answer(sid, r) = "granted", NEW i \in DOMAIN rows,
           Touches(rows[i], r)
    PROVE  /\ live(sid)
           /\ \/ rows[i].session = sid /\ ~Stale(sessions[sid], rows[i])
              \/ shared(rows[i].mode) /\ shared(r.mode)
           /\ owns(sessions[sid], rows[i]) => rows[i].mode # "X" /\ r.mode # "X"
  <1>1. live(sid) /\ Refusals(sid, r) = {}
    BY DEF Answer
  <1>2. ~Foreign(sid, rows[i], r) /\ ~OwnX(sid, rows[i], r)
    BY <1>1 DEF Refusals
  <1>3. QED
    BY <1>1, <1>2 DEF Foreign, OwnX

\* A row of the session that no update task holds is the session's own, so an X
\* request, or a request on an X row, is never granted beside it.
LEMMA GrantAvoidsX ==
    ASSUME IInv, NEW sid \in DOMAIN sessions, NEW r \in Request,
           Answer(sid, r) = "granted", NEW i \in DOMAIN rows, Touches(rows[i], r)
    PROVE  rows[i].mode # "X" /\ r.mode # "X"
  <1>1. CASE shared(rows[i].mode) /\ shared(r.mode)
    BY <1>1 DEF shared
  <1>2. CASE rows[i].session = sid /\ ~Stale(sessions[sid], rows[i])
    <2>1. ~closed
      BY GrantMeans DEF live
    <2>2. Kept(rows[i]) /\ DialogHalfOwned(rows[i])
      BY <2>1 DEF IInv, NoOrphanLock
    <2>3. owns(sessions[sid], rows[i])
      BY <1>2, <2>2 DEF Kept, DialogHalfOwned, owns, HoldsDialog, HoldsUpdate, Stale
    <2>4. QED
      BY <2>3, GrantMeans
  <1>3. QED
    BY <1>1, <1>2, GrantMeans

\* Owner ids are the session's alone: a row it owns a half of is a row of its own.
LEMMA OwnedIsOwn ==
    ASSUME IInv, ~closed, NEW sid \in DOMAIN sessions, NEW i \in DOMAIN rows,
           owns(sessions[sid], rows[i])
    PROVE  rows[i].session = sid
  <1>1. DialogHalfOwned(rows[i]) /\ UpdateHalfOwned(rows[i]) /\ rows[i] \in Row /\ sid \in Nat
    BY DEF IInv, NoOrphanLock, TypeOK
  <1>2. CASE HoldsDialog(sessions[sid], rows[i])
    <2>1. /\ rows[i].session \in DOMAIN sessions
          /\ sessions[rows[i].session].dialog = sessions[sid].dialog
      BY <1>1, <1>2 DEF HoldsDialog, DialogHalfOwned
    <2>2. rows[i].session + 1 = sid + 1
      BY <2>1 DEF IInv, OwnersDistinct
    <2>3. rows[i].session \in Nat
      BY <1>1 DEF Row
    <2>4. QED
      BY <1>1, <2>2, <2>3
  <1>3. CASE HoldsUpdate(sessions[sid], rows[i])
    <2>1. CASE <<rows[i].session, rows[i].update>> \in tasks
      BY <1>3, <2>1 DEF HoldsUpdate, IInv, OwnersDistinct
    <2>2. CASE /\ rows[i].session \in DOMAIN sessions
               /\ rows[i].update = sessions[rows[i].session].update
      BY <1>3, <2>2 DEF HoldsUpdate, IInv, OwnersDistinct
    <2>3. QED
      BY <1>1, <1>3, <2>1, <2>2 DEF UpdateHalfOwned, HoldsUpdate
  <1>4. QED
    BY <1>2, <1>3 DEF owns

\* The row a request is counted on keeps its lock; its halves are the session's.
LEMMA CountedRow ==
    ASSUME NEW s \in Session, NEW w \in Row, NEW r
    PROVE  LET v == Counted(s, w, r) IN
           /\ v \in Row
           /\ v.table = w.table /\ v.arg = w.arg /\ v.mode = w.mode /\ v.session = w.session
           /\ v.dialogs = IF TakesDialog(r) THEN w.dialogs + 1 ELSE w.dialogs
           /\ v.dialog  = IF TakesDialog(r) THEN s.dialog ELSE w.dialog
           /\ v.updates = IF TakesUpdate(r) THEN w.updates + 1 ELSE w.updates
           /\ v.update  = IF TakesUpdate(r) THEN s.update ELSE w.update
           /\ Kept(v)
  <1> DEFINE a == IF TakesDialog(r) THEN w.dialogs + 1 ELSE w.dialogs
             b == IF TakesDialog(r) THEN s.dialog ELSE w.dialog
             c == IF TakesUpdate(r) THEN w.updates + 1 ELSE w.updates
             d == IF TakesUpdate(r) THEN s.update ELSE w.update
             v == Counted(s, w, r)
  <1>1. v = [w EXCEPT !.dialogs = a, !.dialog = b, !.updates = c, !.update = d]
    BY DEF Counted
  <1>2. w.dialogs \in Nat /\ w.updates \in Nat /\ w.dialog \in Nat /\ w.update \in Nat
        /\ s.dialog \in Nat /\ s.update \in Nat
    BY DEF Row, Session
  <1>3. a \in Nat /\ b \in Nat /\ c \in Nat /\ d \in Nat
    BY <1>2
  <1>4. a > 0 \/ c > 0
    BY <1>2 DEF TakesDialog, TakesUpdate, scopeOf
  <1> HIDE DEF a, b, c, d, v
  <1>5. /\ v \in Row
        /\ v.table = w.table /\ v.arg = w.arg /\ v.mode = w.mode /\ v.session = w.session
        /\ v.dialogs = a /\ v.dialog = b /\ v.updates = c /\ v.update = d
    BY <1>1, <1>3 DEF Row
  <1>6. Kept(v)
    BY <1>4, <1>5 DEF Kept
  <1>7. QED
    BY <1>5, <1>6 DEF a, b, c, d, v

\* ENQUEUE counted on a row the session has.
LEMMA CumulateKeepsIInv ==
    ASSUME IInv, NEW sid \in DOMAIN sessions, NEW r \in Request,
           Answer(sid, r) = "granted",
           NEW i \in Cumulates(sid, r),
           rows' = [rows EXCEPT ![i] = Counted(sessions[sid], @, r)],
           UNCHANGED <<seq, sessions, closed, tasks>>
    PROVE  IInv'
  <1> DEFINE s == sessions[sid]
             w == rows[i]
             v == Counted(s, w, r)
  <1>1. s \in Session /\ i \in DOMAIN rows /\ w \in Row /\ ~closed
    BY DEF IInv, TypeOK, Cumulates, Answer, live
  <1>2. /\ DOMAIN rows' = DOMAIN rows
        /\ rows'[i] = v /\ \A j \in DOMAIN rows \ {i} : rows'[j] = rows[j]
        /\ rows' = [j \in DOMAIN rows' |-> rows'[j]]
    BY <1>1 DEF IInv, TypeOK
  <1>3. /\ Touches(w, r) /\ owns(s, w) /\ ~Stale(s, w)
        /\ w.mode # "X" /\ w.session = sid
    BY <1>1, GrantAvoidsX, OwnedIsOwn DEF Cumulates
  <1>4. /\ v \in Row
        /\ v.table = w.table /\ v.arg = w.arg /\ v.mode = w.mode /\ v.session = w.session
        /\ v.dialogs = IF TakesDialog(r) THEN w.dialogs + 1 ELSE w.dialogs
        /\ v.dialog  = IF TakesDialog(r) THEN s.dialog ELSE w.dialog
        /\ v.updates = IF TakesUpdate(r) THEN w.updates + 1 ELSE w.updates
        /\ v.update  = IF TakesUpdate(r) THEN s.update ELSE w.update
        /\ Kept(v)
    BY <1>1, CountedRow
  <1> HIDE DEF v
  <1>5. TypeOK'
    BY <1>2, <1>4 DEF IInv, TypeOK
  <1>6. \A j, k \in DOMAIN rows' : Overlap(rows'[j], rows'[k]) => Overlap(rows[j], rows[k])
    BY <1>1, <1>2, <1>4 DEF Overlap
  <1>7. \A j \in DOMAIN rows' : rows'[j].mode = rows[j].mode /\ rows'[j].session = rows[j].session
    BY <1>1, <1>2, <1>4
  <1>8. SessionExclusion'
    BY <1>2, <1>6, <1>7 DEF IInv, SessionExclusion
  <1>9. ExclusiveAlone'
    BY <1>2, <1>3, <1>6, <1>7 DEF IInv, ExclusiveAlone
  <1>10. OwnersDistinct'
    BY DEF IInv, OwnersDistinct
  <1>11. NoOrphanLock'
    <2>1. ASSUME NEW j \in DOMAIN rows'
          PROVE  Kept(rows'[j]) /\ DialogHalfOwned(rows[j])' /\ UpdateHalfOwned(rows[j])'
      <3>1. CASE j # i
        BY <1>1, <1>2, <2>1, <3>1 DEF IInv, NoOrphanLock, DialogHalfOwned, UpdateHalfOwned
      <3>2. CASE j = i
        <4>1. DialogHalfOwned(w) /\ UpdateHalfOwned(w) /\ w.dialogs \in Nat /\ w.updates \in Nat
          BY <1>1 DEF IInv, NoOrphanLock, Row
        <4>2. DialogHalfOwned(rows[j])'
          BY <1>2, <1>3, <1>4, <3>2, <4>1 DEF DialogHalfOwned
        <4>3. UpdateHalfOwned(rows[j])'
          BY <1>2, <1>3, <1>4, <3>2, <4>1 DEF UpdateHalfOwned
        <4>4. QED
          BY <1>2, <1>4, <3>2, <4>2, <4>3
      <3>3. QED
        BY <3>1, <3>2
    <2>2. QED
      BY <2>1 DEF NoOrphanLock
  <1>12. QED
    BY <1>5, <1>8, <1>9, <1>10, <1>11 DEF IInv

\* ENQUEUE that puts a row at the end of the table.
LEMMA NewRowKeepsIInv ==
    ASSUME IInv, NEW sid \in DOMAIN sessions, NEW r \in Request,
           Answer(sid, r) = "granted",
           NEW n \in Slots, IsNextSlot(n),
           rows' = [i \in DOMAIN rows \cup {n} |->
                       IF i = n THEN Counted(sessions[sid], NewRow(sid, r), r) ELSE rows[i]],
           UNCHANGED <<seq, sessions, closed, tasks>>
    PROVE  IInv'
  <1> DEFINE s == sessions[sid]
             w == NewRow(sid, r)
             v == Counted(s, w, r)
  <1>1. s \in Session /\ sid \in Nat /\ ~closed
    BY DEF IInv, TypeOK, Answer, live
  <1>2. /\ w \in Row /\ w.table = r.table /\ w.arg = garg(r.fields) /\ w.mode = r.mode
        /\ w.session = sid /\ w.dialogs = 0 /\ w.updates = 0 /\ w.dialog = 0 /\ w.update = 0
    BY <1>1 DEF NewRow, Row, Request, Args, NoOwner
  <1>3. n \notin DOMAIN rows
    <2>1. n \in Nat /\ ~(n < n)
      BY SlotsAssumption
    <2>2. QED
      BY <2>1 DEF IsNextSlot
  <1>4. /\ DOMAIN rows' = DOMAIN rows \cup {n}
        /\ rows'[n] = v /\ \A j \in DOMAIN rows : rows'[j] = rows[j]
        /\ rows' = [j \in DOMAIN rows' |-> rows'[j]]
    BY <1>3
  <1>5. /\ v \in Row
        /\ v.table = w.table /\ v.arg = w.arg /\ v.mode = w.mode /\ v.session = w.session
        /\ v.dialogs = IF TakesDialog(r) THEN w.dialogs + 1 ELSE w.dialogs
        /\ v.dialog  = IF TakesDialog(r) THEN s.dialog ELSE w.dialog
        /\ v.updates = IF TakesUpdate(r) THEN w.updates + 1 ELSE w.updates
        /\ v.update  = IF TakesUpdate(r) THEN s.update ELSE w.update
        /\ Kept(v)
    BY <1>1, <1>2, CountedRow
  <1> HIDE DEF v, w
  <1>6. TypeOK'
    BY <1>4, <1>5 DEF IInv, TypeOK
  <1>7. \A j \in DOMAIN rows :
           Overlap(rows[j], v) \/ Overlap(v, rows[j]) => Touches(rows[j], r)
    BY <1>2, <1>5, OverlapSymmetric DEF Overlap, Touches
  <1>8. \A j \in DOMAIN rows : Touches(rows[j], r) =>
           /\ rows[j].session # sid => shared(rows[j].mode) /\ shared(v.mode)
           /\ rows[j].mode # "X" /\ v.mode # "X"
    BY <1>2, <1>5, GrantMeans, GrantAvoidsX
  <1>9. SessionExclusion'
    BY <1>2, <1>4, <1>5, <1>7, <1>8 DEF IInv, SessionExclusion
  <1>10. ExclusiveAlone'
    BY <1>2, <1>4, <1>5, <1>7, <1>8 DEF IInv, ExclusiveAlone
  <1>11. OwnersDistinct'
    BY DEF IInv, OwnersDistinct
  <1>12. NoOrphanLock'
    <2>1. ASSUME NEW j \in DOMAIN rows'
          PROVE  Kept(rows'[j]) /\ DialogHalfOwned(rows[j])' /\ UpdateHalfOwned(rows[j])'
      <3>1. CASE j \in DOMAIN rows
        BY <1>1, <1>4, <2>1, <3>1 DEF IInv, NoOrphanLock, DialogHalfOwned, UpdateHalfOwned
      <3>2. CASE j = n
        BY <1>2, <1>4, <1>5, <3>2 DEF DialogHalfOwned, UpdateHalfOwned
      <3>3. QED
        BY <1>4, <3>1, <3>2
    <2>2. QED
      BY <2>1 DEF NoOrphanLock
  <1>13. QED
    BY <1>6, <1>9, <1>10, <1>11, <1>12 DEF IInv

-----------------------------------------------------------------------------
(* The steps that release *)

\* A table that only lost counts and rows is still a table of rows (sweep).
LEMMA ShrinkKeepsType ==
    ASSUME TypeOK, Shrinks, seq' \in Nat, sessions' = [sid \in DOMAIN sessions' |-> sessions'[sid]],
           DOMAIN sessions' \subseteq Nat, \A sid \in DOMAIN sessions' : sessions'[sid] \in Session,
           closed' \in BOOLEAN, tasks' \subseteq Nat \X Nat
    PROVE  TypeOK'
  BY DEF TypeOK, Shrinks

\* A row of the smaller table had its owners before.
LEMMA ShrinkHadOwners ==
    ASSUME IInv, ~closed, Shrinks, NEW i \in DOMAIN rows'
    PROVE  /\ i \in DOMAIN rows /\ rows'[i] \in Row /\ Kept(rows'[i])
           /\ rows'[i].dialogs > 0 =>
                 /\ rows'[i].session \in DOMAIN sessions
                 /\ rows'[i].dialog = sessions[rows'[i].session].dialog
           /\ rows'[i].updates > 0 =>
                 \/ /\ rows'[i].session \in DOMAIN sessions
                    /\ rows'[i].update = sessions[rows'[i].session].update
                 \/ <<rows'[i].session, rows'[i].update>> \in tasks
  <1>1. i \in DOMAIN rows /\ rows'[i] \in Row /\ rows[i] \in Row
    BY DEF Shrinks, IInv, TypeOK
  <1>2. DialogHalfOwned(rows[i]) /\ UpdateHalfOwned(rows[i])
    BY <1>1 DEF IInv, NoOrphanLock
  <1>3. /\ rows'[i].session = rows[i].session /\ Kept(rows'[i])
        /\ rows'[i].dialogs > 0 => rows[i].dialogs > 0 /\ rows'[i].dialog = rows[i].dialog
        /\ rows'[i].updates > 0 => rows[i].updates > 0 /\ rows'[i].update = rows[i].update
    BY <1>1 DEF Shrinks, Row
  <1>4. QED
    BY <1>1, <1>2, <1>3 DEF DialogHalfOwned, UpdateHalfOwned

\* DEQUEUE keeps the invariant: the table shrinks and no owner changes.
LEMMA DequeueKeepsIInv ==
    ASSUME IInv, NEW sid \in DOMAIN sessions,
           (\E r \in Request : dequeue(sid, r)) \/ dequeueAll(sid)
    PROVE  IInv'
  <1>1. Shrinks /\ ~closed /\ UNCHANGED <<seq, sessions, closed, tasks>>
    <2>1. ASSUME NEW r \in Request, dequeue(sid, r)
          PROVE  Shrinks /\ ~closed /\ UNCHANGED <<seq, sessions, closed, tasks>>
      BY <2>1, DequeueShrinks DEF IInv, dequeue, live
    <2>2. CASE dequeueAll(sid)
      BY <2>2, ReleaseShrinks DEF IInv, dequeueAll, live
    <2>3. QED
      BY <2>1, <2>2
  <1>2. TypeOK'
    BY <1>1, ShrinkKeepsType DEF IInv, TypeOK
  <1>3. SessionExclusion' /\ ExclusiveAlone'
    BY <1>1, ShrinkKeepsExclusion DEF IInv
  <1>4. OwnersDistinct'
    BY <1>1 DEF IInv, OwnersDistinct
  <1>5. NoOrphanLock'
    BY <1>1, ShrinkHadOwners DEF NoOrphanLock, DialogHalfOwned, UpdateHalfOwned
  <1>6. QED
    BY <1>2, <1>3, <1>4, <1>5 DEF IInv

\* The session sid has a new update owner, which no session and no task had.
FreshOwner(sid) ==
    /\ DOMAIN sessions' = DOMAIN sessions
    /\ sessions' = [x \in DOMAIN sessions' |-> sessions'[x]]
    /\ \A x \in DOMAIN sessions :
          /\ sessions'[x] \in Session
          /\ sessions'[x].dialog = sessions[x].dialog
          /\ x # sid => sessions'[x].update = sessions[x].update
          /\ x <= seq' /\ sessions'[x].update <= seq' /\ sessions'[x].dialog = x + 1
    /\ sessions'[sid].update = seq + 1
    /\ \A x, y \in DOMAIN sessions : x # y => sessions'[x].update # sessions'[y].update
    /\ \A n \in Nat : n <= seq /\ (\A x \in DOMAIN sessions \ {sid} : n # sessions[x].update)
                     => n <= seq' /\ \A x \in DOMAIN sessions : n # sessions'[x].update

\* ROLLBACK WORK and COMMIT WORK give the session an update owner nobody has.
LEMMA NewUpdateOwner ==
    ASSUME IInv, NEW sid \in DOMAIN sessions, seq' = seq + 1,
           sessions' = WithUpdateOwner(sid, seq + 1)
    PROVE  FreshOwner(sid)
  <1>1. seq \in Nat /\ sessions = [x \in DOMAIN sessions |-> sessions[x]]
    BY DEF IInv, TypeOK
  <1>2. \A x \in DOMAIN sessions : /\ x \in Nat /\ sessions[x] \in Session
                                   /\ sessions[x].update \in Nat
                                   /\ x <= seq /\ sessions[x].update <= seq
                                   /\ sessions[x].dialog = x + 1
    BY DEF IInv, TypeOK, Session, OwnersDistinct
  <1>3. /\ DOMAIN sessions' = DOMAIN sessions
        /\ sessions' = [x \in DOMAIN sessions' |-> sessions'[x]]
        /\ sessions'[sid] = [sessions[sid] EXCEPT !.update = seq + 1]
        /\ \A x \in DOMAIN sessions \ {sid} : sessions'[x] = sessions[x]
    BY <1>1 DEF WithUpdateOwner
  <1>4. /\ sessions'[sid] \in Session /\ sessions'[sid].update = seq + 1
        /\ sessions'[sid].dialog = sessions[sid].dialog
    BY <1>1, <1>2, <1>3 DEF Session
  <1> DEFINE u(x) == sessions[x].update
             v(x) == sessions'[x].update
  <1>5. \A x \in DOMAIN sessions : /\ u(x) \in Nat /\ u(x) <= seq
                                   /\ x # sid => v(x) = u(x)
    BY <1>2, <1>3
  <1>6. v(sid) = seq + 1
    BY <1>4
  <1>7. \A x, y \in DOMAIN sessions : x # y => u(x) # u(y)
    BY DEF IInv, OwnersDistinct
  <1>8. \A x \in DOMAIN sessions :
                 /\ sessions'[x] \in Session
                 /\ sessions'[x].dialog = sessions[x].dialog
                 /\ sessions'[x].dialog = x + 1
    BY <1>2, <1>3, <1>4
  <1> HIDE DEF u, v
  <1>9. /\ \A x \in DOMAIN sessions : x <= seq' /\ v(x) <= seq'
        /\ \A x, y \in DOMAIN sessions : x # y => v(x) # v(y)
        /\ \A n \in Nat : n <= seq /\ (\A x \in DOMAIN sessions \ {sid} : n # u(x))
                         => n <= seq' /\ \A x \in DOMAIN sessions : n # v(x)
    <2>1. seq' = seq + 1 /\ \A x \in DOMAIN sessions : x \in Nat /\ x <= seq
      BY <1>2
    <2>2. ASSUME NEW n \in Nat, n <= seq
          PROVE  n # seq + 1 /\ n <= seq'
      BY <1>1, <2>1, <2>2
    <2>3. \A x \in DOMAIN sessions : x <= seq' /\ v(x) <= seq'
      BY <1>1, <1>5, <1>6, <2>1, <2>2
    <2>4. \A x, y \in DOMAIN sessions : x # y => v(x) # v(y)
      BY <1>5, <1>6, <1>7, <2>2
    <2>5. \A n \in Nat : n <= seq /\ (\A x \in DOMAIN sessions \ {sid} : n # u(x))
                         => n <= seq' /\ \A x \in DOMAIN sessions : n # v(x)
      BY <1>5, <1>6, <2>2
    <2>6. QED
      BY <2>3, <2>4, <2>5
  <1>10. QED
    BY <1>3, <1>4, <1>5, <1>8, <1>9 DEF u, v, FreshOwner

\* ROLLBACK WORK keeps it: the ended update owner has no half left, the new one none yet.
LEMMA RollbackKeepsIInv ==
    ASSUME IInv, NEW sid \in DOMAIN sessions, rollback(sid)
    PROVE  IInv'
  <1>1. /\ ~closed /\ sid \in Nat /\ seq \in Nat /\ sessions[sid].update \in Nat
        /\ seq' = seq + 1 /\ sessions' = WithUpdateOwner(sid, seq + 1)
        /\ UNCHANGED <<closed, tasks>>
    BY DEF IInv, TypeOK, rollback, live, Session
  <1>2. /\ Shrinks
        /\ \A i \in DOMAIN rows' :
              rows'[i].session = sid /\ rows'[i].updates > 0 => rows'[i].update # sessions[sid].update
    BY <1>1, ReleaseUpdateShrinks DEF IInv, rollback
  <1>new. FreshOwner(sid)
    BY <1>1, NewUpdateOwner
  <1>3. TypeOK'
    BY <1>1, <1>2, <1>new, ShrinkKeepsType DEF IInv, TypeOK, FreshOwner
  <1>4. SessionExclusion' /\ ExclusiveAlone'
    BY <1>2, ShrinkKeepsExclusion DEF IInv
  <1>5. OwnersDistinct'
    <2>1. \A t \in tasks : t[2] \in Nat /\ t[2] <= seq
                           /\ \A x \in DOMAIN sessions : t[2] # sessions[x].update
      BY DEF IInv, TypeOK, OwnersDistinct
    <2>2. \A t \in tasks' : /\ t[2] <= seq'
                            /\ \A x \in DOMAIN sessions' : t[2] # sessions'[x].update
      BY <1>1, <1>new, <2>1 DEF FreshOwner
    <2>3. QED
      BY <1>new, <2>2 DEF OwnersDistinct, FreshOwner
  <1>6. NoOrphanLock'
    <2>1. ASSUME NEW i \in DOMAIN rows'
          PROVE  Kept(rows'[i]) /\ DialogHalfOwned(rows[i])' /\ UpdateHalfOwned(rows[i])'
      <3> DEFINE w == rows'[i]
      <3>1. /\ Kept(w)
            /\ w.dialogs > 0 => w.session \in DOMAIN sessions /\ w.dialog = sessions[w.session].dialog
            /\ w.updates > 0 =>
                  \/ w.session \in DOMAIN sessions /\ w.update = sessions[w.session].update
                  \/ <<w.session, w.update>> \in tasks
            /\ w.session = sid /\ w.updates > 0 => w.update # sessions[sid].update
        BY <1>1, <1>2, <2>1, ShrinkHadOwners
      <3> HIDE DEF w
      <3>2. w.dialogs > 0 => w.session \in DOMAIN sessions' /\ w.dialog = sessions'[w.session].dialog
        BY <1>new, <3>1 DEF FreshOwner
      <3>3. w.updates > 0 =>
                  \/ w.session \in DOMAIN sessions' /\ w.update = sessions'[w.session].update
                  \/ <<w.session, w.update>> \in tasks'
        BY <1>1, <1>new, <3>1 DEF FreshOwner
      <3>4. QED
        BY <3>1, <3>2, <3>3 DEF DialogHalfOwned, UpdateHalfOwned, w
    <2>2. QED
      BY <2>1 DEF NoOrphanLock
  <1>7. QED
    BY <1>3, <1>4, <1>5, <1>6 DEF IInv

\* COMMIT WORK keeps it: the halves of the ended update owner are the update task's.
LEMMA CommitKeepsIInv ==
    ASSUME IInv, NEW sid \in DOMAIN sessions, commit(sid)
    PROVE  IInv'
  <1>1. /\ ~closed /\ sid \in Nat /\ seq \in Nat /\ sessions[sid].update \in Nat
        /\ seq' = seq + 1 /\ sessions' = WithUpdateOwner(sid, seq + 1)
        /\ tasks' = tasks \cup {<<sid, sessions[sid].update>>}
        /\ UNCHANGED <<closed, rows>>
    BY DEF IInv, TypeOK, commit, live, Session
  <1>new. FreshOwner(sid)
    BY <1>1, NewUpdateOwner
  <1>2. TypeOK'
    BY <1>1, <1>new DEF IInv, TypeOK, FreshOwner
  <1>3. SessionExclusion' /\ ExclusiveAlone'
    BY <1>1 DEF IInv, SessionExclusion, ExclusiveAlone
  <1>4. OwnersDistinct'
    <2>1. ASSUME NEW t \in tasks'
          PROVE  /\ t[2] \in Nat /\ t[2] <= seq
                 /\ \A x \in DOMAIN sessions \ {sid} : t[2] # sessions[x].update
      <3>1. CASE t \in tasks
        BY <3>1 DEF IInv, TypeOK, OwnersDistinct
      <3>2. CASE t = <<sid, sessions[sid].update>>
        BY <1>1, <3>2 DEF IInv, OwnersDistinct
      <3>3. QED
        BY <1>1, <2>1, <3>1, <3>2
    <2>2. \A t \in tasks' : /\ t[2] <= seq'
                            /\ \A x \in DOMAIN sessions' : t[2] # sessions'[x].update
      BY <1>new, <2>1 DEF FreshOwner
    <2>3. QED
      BY <1>new, <2>2 DEF OwnersDistinct, FreshOwner
  <1>5. NoOrphanLock'
    <2>1. ASSUME NEW i \in DOMAIN rows'
          PROVE  Kept(rows'[i]) /\ DialogHalfOwned(rows[i])' /\ UpdateHalfOwned(rows[i])'
      <3> DEFINE w == rows'[i]
      <3>1. Kept(w) /\ DialogHalfOwned(w) /\ UpdateHalfOwned(w)
        BY <1>1, <2>1 DEF IInv, NoOrphanLock
      <3> HIDE DEF w
      <3>2. w.dialogs > 0 => w.session \in DOMAIN sessions' /\ w.dialog = sessions'[w.session].dialog
        BY <1>new, <3>1 DEF DialogHalfOwned, FreshOwner
      <3>3. w.updates > 0 =>
                  \/ w.session \in DOMAIN sessions' /\ w.update = sessions'[w.session].update
                  \/ <<w.session, w.update>> \in tasks'
        BY <1>1, <1>new, <3>1 DEF UpdateHalfOwned, FreshOwner
      <3>4. QED
        BY <3>1, <3>2, <3>3 DEF DialogHalfOwned, UpdateHalfOwned, w
    <2>2. QED
      BY <2>1 DEF NoOrphanLock
  <1>6. QED
    BY <1>2, <1>3, <1>4, <1>5 DEF IInv

\* updateDone keeps it: the task goes, and with it every half it owned.
LEMMA UpdateDoneKeepsIInv ==
    ASSUME IInv, NEW t \in tasks, updateDone(t)
    PROVE  IInv'
  <1>1. /\ UNCHANGED <<seq, sessions, closed>> /\ tasks' = tasks \ {t}
        /\ t \in Nat \X Nat /\ t = <<t[1], t[2]>>
    BY DEF updateDone, IInv, TypeOK
  <1>2. OwnersDistinct'
    BY <1>1 DEF IInv, OwnersDistinct
  <1>3. CASE closed
    BY <1>1, <1>2, <1>3 DEF updateDone, IInv, TypeOK, SessionExclusion, ExclusiveAlone, NoOrphanLock
  <1>4. CASE ~closed
    <2>1. /\ Shrinks
          /\ \A i \in DOMAIN rows' :
                rows'[i].session = t[1] /\ rows'[i].updates > 0 => rows'[i].update # t[2]
      BY <1>1, <1>4, ReleaseUpdateShrinks DEF IInv, updateDone
    <2>2. TypeOK'
      BY <1>1, <2>1, ShrinkKeepsType DEF IInv, TypeOK
    <2>3. SessionExclusion' /\ ExclusiveAlone'
      BY <2>1, ShrinkKeepsExclusion DEF IInv
    <2>4. NoOrphanLock'
      <3>1. ASSUME NEW i \in DOMAIN rows'
            PROVE  Kept(rows'[i]) /\ DialogHalfOwned(rows[i])' /\ UpdateHalfOwned(rows[i])'
        BY <1>1, <1>4, <2>1, <3>1, ShrinkHadOwners DEF DialogHalfOwned, UpdateHalfOwned
      <3>2. QED
        BY <3>1 DEF NoOrphanLock
    <2>5. QED
      BY <1>2, <2>2, <2>3, <2>4 DEF IInv
  <1>5. QED
    BY <1>3, <1>4

\* The end of a session keeps it: both its owners' halves go before the session does.
LEMMA EndKeepsIInv ==
    ASSUME IInv, NEW sid \in DOMAIN sessions, end(sid)
    PROVE  IInv'
  <1>1. /\ UNCHANGED <<seq, closed, tasks>>
        /\ DOMAIN sessions' = DOMAIN sessions \ {sid}
        /\ \A x \in DOMAIN sessions' : sessions'[x] = sessions[x]
        /\ sessions' = [x \in DOMAIN sessions' |-> sessions'[x]]
    BY DEF end
  <1>2. OwnersDistinct'
    BY <1>1 DEF IInv, OwnersDistinct
  <1>3. CASE closed
    BY <1>1, <1>2, <1>3 DEF end, IInv, TypeOK, SessionExclusion, ExclusiveAlone, NoOrphanLock
  <1>4. CASE ~closed
    <2>1. /\ Shrinks
          /\ \A i \in DOMAIN rows' : rows'[i].session = sid =>
                /\ rows'[i].dialogs > 0 => rows'[i].dialog # sessions[sid].dialog
                /\ rows'[i].updates > 0 => rows'[i].update # sessions[sid].update
      BY <1>4, ReleaseShrinks DEF IInv, end
    <2>2. TypeOK'
      BY <1>1, <2>1, ShrinkKeepsType DEF IInv, TypeOK
    <2>3. SessionExclusion' /\ ExclusiveAlone'
      BY <2>1, ShrinkKeepsExclusion DEF IInv
    <2>4. NoOrphanLock'
      <3>1. ASSUME NEW i \in DOMAIN rows'
            PROVE  Kept(rows'[i]) /\ DialogHalfOwned(rows[i])' /\ UpdateHalfOwned(rows[i])'
        BY <1>1, <1>4, <2>1, <3>1, ShrinkHadOwners DEF DialogHalfOwned, UpdateHalfOwned
      <3>2. QED
        BY <3>1 DEF NoOrphanLock
    <2>5. QED
      BY <1>2, <2>2, <2>3, <2>4 DEF IInv
  <1>5. QED
    BY <1>3, <1>4

\* open keeps it: handle and owners are numbers nobody was given before.
LEMMA OpenKeepsIInv ==
    ASSUME IInv, open
    PROVE  IInv'
  <1> DEFINE new == [dialog |-> seq + 2, update |-> seq + 3]
  <1>1. /\ seq \in Nat /\ seq' = seq + 3 /\ UNCHANGED <<rows, closed, tasks>>
        /\ new \in Session /\ new.dialog = seq + 2 /\ new.update = seq + 3
    BY DEF open, IInv, TypeOK, Session
  <1>2. \A x \in DOMAIN sessions : /\ x \in Nat /\ x <= seq /\ sessions[x] \in Session
                                   /\ sessions[x].update \in Nat /\ sessions[x].update <= seq
    BY DEF IInv, TypeOK, Session, OwnersDistinct
  <1>3. seq + 1 \notin DOMAIN sessions
    BY <1>1, <1>2
  <1>4. /\ DOMAIN sessions' = DOMAIN sessions \cup {seq + 1}
        /\ sessions'[seq + 1] = new
        /\ \A x \in DOMAIN sessions : sessions'[x] = sessions[x]
        /\ sessions' = [x \in DOMAIN sessions' |-> sessions'[x]]
    BY <1>3 DEF open
  <1> HIDE DEF new
  <1>5. TypeOK'
    BY <1>1, <1>2, <1>4 DEF IInv, TypeOK
  <1>6. OwnersDistinct'
    <2>1. \A t \in tasks : t[2] \in Nat /\ t[2] <= seq
      BY DEF IInv, TypeOK, OwnersDistinct
    <2>2. QED
      BY <1>1, <1>2, <1>4, <2>1 DEF IInv, OwnersDistinct
  <1>7. SessionExclusion' /\ ExclusiveAlone'
    BY <1>1 DEF IInv, SessionExclusion, ExclusiveAlone
  <1>8. NoOrphanLock'
    BY <1>1, <1>4 DEF IInv, NoOrphanLock, DialogHalfOwned, UpdateHalfOwned
  <1>9. QED
    BY <1>5, <1>6, <1>7, <1>8 DEF IInv

-----------------------------------------------------------------------------
(* The theorems *)

\* Every operation of the lock server keeps the inductive invariant: its types,
\* the distinct owners, the exclusion of sessions, X alone and no orphan.
THEOREM LockTableInductive == Spec => []IInv
  <1>1. Init => IInv
    <2> SUFFICES ASSUME Init PROVE IInv
      OBVIOUS
    <2>1. DOMAIN sessions = {} /\ DOMAIN rows = {} /\ tasks = {} /\ seq = 0 /\ closed = FALSE
      BY DEF Init
    <2>2. /\ sessions = [sid \in DOMAIN sessions |-> sessions[sid]]
          /\ rows = [i \in DOMAIN rows |-> rows[i]]
      BY DEF Init
    <2>3. QED
      BY <2>1, <2>2 DEF IInv, TypeOK, OwnersDistinct, NoOrphanLock, SessionExclusion, ExclusiveAlone
  <1>2. IInv /\ [Next]_vars => IInv'
    <2> SUFFICES ASSUME IInv, [Next]_vars PROVE IInv'
      OBVIOUS
    <2>1. CASE open
      BY <2>1, OpenKeepsIInv
    <2>2. ASSUME NEW sid \in DOMAIN sessions, SessionStep(sid)
          PROVE  IInv'
      <3>1. ASSUME NEW r \in Request, enqueue(sid, r)
            PROVE  IInv'
        <4>1. CASE Cumulates(sid, r) = {}
          BY <3>1, <4>1, NewRowKeepsIInv DEF enqueue, IsLast
        <4>2. CASE Cumulates(sid, r) # {}
          BY <3>1, <4>2, CumulateKeepsIInv DEF enqueue, IsLast
        <4>3. QED
          BY <4>1, <4>2
      <3>2. CASE (\E r \in Request : dequeue(sid, r)) \/ dequeueAll(sid)
        BY <3>2, DequeueKeepsIInv
      <3>3. CASE rollback(sid)
        BY <3>3, RollbackKeepsIInv
      <3>4. CASE commit(sid)
        BY <3>4, CommitKeepsIInv
      <3>5. CASE end(sid)
        BY <3>5, EndKeepsIInv
      <3>6. QED
        BY <2>2, <3>1, <3>2, <3>3, <3>4, <3>5 DEF SessionStep
    <2>3. ASSUME NEW t \in tasks, updateDone(t)
          PROVE  IInv'
      BY <2>3, UpdateDoneKeepsIInv
    <2>4. CASE close
      BY <2>4 DEF close, IInv, TypeOK, OwnersDistinct, NoOrphanLock, SessionExclusion, ExclusiveAlone
    <2>5. CASE UNCHANGED vars
      BY <2>5 DEF vars, IInv, TypeOK, OwnersDistinct, NoOrphanLock, SessionExclusion,
                  ExclusiveAlone, DialogHalfOwned, UpdateHalfOwned
    <2>6. QED
      BY <2>1, <2>2, <2>3, <2>4, <2>5 DEF Next
  <1>3. QED
    BY <1>1, <1>2, PTL DEF Spec

\* The tables of the lock server have their types.
THEOREM LockTableTyped == Spec => []TypeOK
  BY LockTableInductive, PTL DEF IInv

\* tryEnqueue never lets two sessions hold one key unless both locks are shared.
THEOREM SessionsExclude == Spec => []SessionExclusion
  BY LockTableInductive, PTL DEF IInv

\* An X lock has no other lock beside it, of whatever owner, and counts once.
THEOREM XStandsAlone == Spec => []ExclusiveAlone
  BY LockTableInductive, PTL DEF IInv

\* Every lock has somebody who will release it: an open session or an update task.
THEOREM NoLockOrphaned == Spec => []NoOrphanLock
  BY LockTableInductive, PTL DEF IInv

\* Until updateDone nobody, the session that committed included, is granted a lock
\* beside one of an update task: the task's owner is no session's current one.
THEOREM TasksProtected == Spec => []UpdateTaskProtected
  <1>1. IInv => UpdateTaskProtected
    <2> SUFFICES ASSUME IInv,
                        NEW t \in tasks, NEW i \in DOMAIN rows,
                        NEW sid \in DOMAIN sessions, NEW r \in Request,
                        rows[i].session = t[1], rows[i].updates > 0, rows[i].update = t[2],
                        Touches(rows[i], r),
                        ~shared(rows[i].mode) \/ ~shared(r.mode)
                 PROVE  Answer(sid, r) # "granted"
      BY DEF UpdateTaskProtected
    <2>1. t[2] # sessions[sid].update
      BY DEF IInv, OwnersDistinct
    <2>2. Foreign(sid, rows[i], r)
      BY <2>1 DEF Foreign, Stale
    <2>3. Refusals(sid, r) # {}
      BY <2>2 DEF Refusals
    <2>4. QED
      BY <2>3 DEF Answer
  <1>2. QED
    BY <1>1, LockTableInductive, PTL

-----------------------------------------------------------------------------
(* Bags of single counts *)

\* The single counts of one half.
CountsOf(S, k) == {c \in S : c[1] = k}

\* A bag has the halves of which there is a single count.
LEMMA BagOfHas ==
    ASSUME NEW S
    PROVE  /\ \A k : k \in DOMAIN BagOf(S) <=> \E c \in S : c[1] = k
           /\ \A k \in DOMAIN BagOf(S) : BagOf(S)[k] = Cardinality(CountsOf(S, k))
  <1>1. DOMAIN BagOf(S) = {c[1] : c \in S}
    BY DEF BagOf
  <1>2. \A k \in DOMAIN BagOf(S) : BagOf(S)[k] = Cardinality(CountsOf(S, k))
    BY DEF BagOf, CountsOf
  <1>3. QED
    BY <1>1, <1>2, Zenon

\* How many single counts of a half there are, of one the bag does not have too.
LEMMA CountsAre ==
    ASSUME NEW S, IsFiniteSet(S), NEW k
    PROVE  /\ IsFiniteSet(CountsOf(S, k))
           /\ Cardinality(CountsOf(S, k)) \in Nat
           /\ Cardinality(CountsOf(S, k)) = 0 <=> k \notin DOMAIN BagOf(S)
  <1>1. IsFiniteSet(CountsOf(S, k))
    BY FS_Subset DEF CountsOf
  <1>2. CountsOf(S, k) = {} <=> k \notin DOMAIN BagOf(S)
    <2>1. k \in DOMAIN BagOf(S) <=> \E c \in S : c[1] = k
      BY BagOfHas, Zenon
    <2>2. QED
      BY <2>1 DEF CountsOf
  <1>3. QED
    BY <1>1, <1>2, FS_EmptySet, FS_CardinalityType

\* A value that is a function.
IsFcn(f) == f = [k \in DOMAIN f |-> f[k]]

\* Two functions with one domain and the same values are one function.
LEMMA SameFunction ==
    ASSUME NEW f, NEW g, IsFcn(f), IsFcn(g),
           DOMAIN f = DOMAIN g, \A k \in DOMAIN g : f[k] = g[k]
    PROVE  f = g
  <1>1. [k \in DOMAIN f |-> f[k]] = [k \in DOMAIN g |-> g[k]]
    OBVIOUS
  <1>2. f = [k \in DOMAIN f |-> f[k]] /\ g = [k \in DOMAIN g |-> g[k]]
    BY DEF IsFcn
  <1>3. QED
    BY <1>1, <1>2, Zenon

\* Counts of different halves, added to a table, are added to its bag.
LEMMA BagOfAdds ==
    ASSUME NEW S, IsFiniteSet(S), NEW N, S \cap N = {},
           NEW K, \A k : k \in K <=> \E c \in N : c[1] = k,
           \A c, d \in N : c[1] = d[1] => c = d
    PROVE  BagOf(S \cup N) = BagOf(S) (+) SetToBag(K)
  <1> DEFINE Both == BagOf(S) (+) SetToBag(K)
  <1>1. DOMAIN BagOf(S \cup N) = DOMAIN BagOf(S) \cup K
    <2>1. \A k : k \in DOMAIN BagOf(S \cup N) <=> \E c \in S \cup N : c[1] = k
      BY BagOfHas, Zenon
    <2>2. \A k : k \in DOMAIN BagOf(S) <=> \E c \in S : c[1] = k
      BY BagOfHas, Zenon
    <2>3. QED
      BY <2>1, <2>2
  <1>2. DOMAIN Both = DOMAIN BagOf(S) \cup K
    BY DEF (+), SetToBag
  <1>3. ASSUME NEW k \in DOMAIN BagOf(S) \cup K
        PROVE  BagOf(S \cup N)[k] = Both[k]
    <2>1. BagOf(S \cup N)[k] = Cardinality(CountsOf(S \cup N, k))
      BY <1>1, BagOfHas
    <2>2. Both[k] = (IF k \in DOMAIN BagOf(S) THEN BagOf(S)[k] ELSE 0)
                       + (IF k \in K THEN 1 ELSE 0)
      BY DEF (+), SetToBag
    <2>3. Cardinality(CountsOf(S, k)) = IF k \in DOMAIN BagOf(S) THEN BagOf(S)[k] ELSE 0
      BY BagOfHas, CountsAre
    <2>4. IsFiniteSet(CountsOf(S, k)) /\ Cardinality(CountsOf(S, k)) \in Nat
      BY CountsAre
    <2> HIDE DEF Both
    <2>5. CASE k \in K
      <3>1. PICK c \in N : c[1] = k
        BY <2>5
      <3>2. CountsOf(S \cup N, k) = CountsOf(S, k) \cup {c}
        BY <3>1 DEF CountsOf
      <3>3. c \notin CountsOf(S, k)
        BY DEF CountsOf
      <3>4. Cardinality(CountsOf(S, k) \cup {c}) = Cardinality(CountsOf(S, k)) + 1
        BY <2>4, <3>3, FS_AddElement
      <3>5. QED
        BY <2>1, <2>2, <2>3, <2>4, <2>5, <3>2, <3>4
    <2>6. CASE k \notin K
      <3>1. CountsOf(S \cup N, k) = CountsOf(S, k)
        BY <2>6 DEF CountsOf
      <3>2. QED
        BY <2>1, <2>2, <2>3, <2>4, <2>6, <3>1
    <2>7. QED
      BY <2>5, <2>6
  <1>4. IsFcn(BagOf(S \cup N))
    BY DEF BagOf, IsFcn
  <1>5. IsFcn(Both)
    BY DEF (+), IsFcn
  <1> HIDE DEF Both
  <1>6. BagOf(S \cup N) = Both
    <2>1. DOMAIN BagOf(S \cup N) = DOMAIN Both
      BY <1>1, <1>2
    <2>2. \A k \in DOMAIN Both : BagOf(S \cup N)[k] = Both[k]
      BY <1>2, <1>3
    <2>3. QED
      BY <1>4, <1>5, <2>1, <2>2, SameFunction, Zenon
  <1>7. QED
    BY <1>6 DEF Both

\* Counts of different halves, taken from a table, are taken from its bag.
LEMMA BagOfTakes ==
    ASSUME NEW S, IsFiniteSet(S), NEW N \in SUBSET S,
           NEW K, \A k : k \in K <=> \E c \in N : c[1] = k,
           \A c, d \in N : c[1] = d[1] => c = d
    PROVE  BagOf(S \ N) = BagOf(S) (-) SetToBag(K)
  <1> DEFINE Rest == [k \in DOMAIN BagOf(S) |-> IF k \in K THEN BagOf(S)[k] - 1 ELSE BagOf(S)[k]]
             Less == BagOf(S) (-) SetToBag(K)
  <1>1. Less = [k \in {d \in DOMAIN Rest : Rest[d] > 0} |-> Rest[k]]
    BY DEF (-), SetToBag
  <1>2. IsFiniteSet(S \ N)
    BY FS_Difference
  <1>3. ASSUME NEW k \in DOMAIN BagOf(S)
        PROVE  /\ Rest[k] = Cardinality(CountsOf(S \ N, k))
               /\ Rest[k] > 0 <=> k \in DOMAIN BagOf(S \ N)
    <2>1. BagOf(S)[k] = Cardinality(CountsOf(S, k)) /\ IsFiniteSet(CountsOf(S, k))
      BY BagOfHas, CountsAre
    <2>2. Rest[k] = Cardinality(CountsOf(S \ N, k))
      <3>1. CASE k \in K
        <4>1. PICK c \in N : c[1] = k
          BY <3>1
        <4>2. CountsOf(S \ N, k) = CountsOf(S, k) \ {c}
          BY <4>1 DEF CountsOf
        <4>3. c \in CountsOf(S, k)
          BY <4>1 DEF CountsOf
        <4>4. Cardinality(CountsOf(S, k) \ {c}) = Cardinality(CountsOf(S, k)) - 1
          BY <2>1, <4>3, FS_RemoveElement
        <4>5. QED
          BY <2>1, <3>1, <4>2, <4>4
      <3>2. CASE k \notin K
        <4>1. CountsOf(S \ N, k) = CountsOf(S, k)
          BY <3>2 DEF CountsOf
        <4>2. QED
          BY <2>1, <3>2, <4>1
      <3>3. QED
        BY <3>1, <3>2
    <2>3. /\ Cardinality(CountsOf(S \ N, k)) \in Nat
          /\ Cardinality(CountsOf(S \ N, k)) = 0 <=> k \notin DOMAIN BagOf(S \ N)
      BY <1>2, CountsAre
    <2> HIDE DEF Rest
    <2>4. QED
      BY <2>2, <2>3
  <1>4. DOMAIN BagOf(S \ N) \subseteq DOMAIN BagOf(S)
    <2>1. \A k : k \in DOMAIN BagOf(S \ N) <=> \E c \in S \ N : c[1] = k
      BY BagOfHas, Zenon
    <2>2. \A k : k \in DOMAIN BagOf(S) <=> \E c \in S : c[1] = k
      BY BagOfHas, Zenon
    <2>3. QED
      BY <2>1, <2>2
  <1>5. DOMAIN BagOf(S \ N) = {d \in DOMAIN Rest : Rest[d] > 0}
    BY <1>3, <1>4
  <1>6. BagOf(S \ N) = [k \in DOMAIN BagOf(S \ N) |-> BagOf(S \ N)[k]]
    BY DEF BagOf
  <1> HIDE DEF Rest, Less
  <1>7. \A k \in DOMAIN BagOf(S \ N) : BagOf(S \ N)[k] = Rest[k]
    BY <1>3, <1>4, BagOfHas
  <1>8. BagOf(S \ N) = Less
    BY <1>1, <1>5, <1>6, <1>7
  <1>9. QED
    BY <1>8 DEF Less

\* Leaving out all counts of some owners leaves them out of the bag.
LEMMA BagOfWithout ==
    ASSUME NEW S, NEW O
    PROVE  BagOf({c \in S : c[1][1] \notin O})
               = [k \in {d \in DOMAIN BagOf(S) : d[1] \notin O} |-> BagOf(S)[k]]
  <1> DEFINE T == {c \in S : c[1][1] \notin O}
             D == {d \in DOMAIN BagOf(S) : d[1] \notin O}
  <1>1. DOMAIN BagOf(T) = D
    <2>1. \A k : k \in DOMAIN BagOf(T) <=> \E c \in T : c[1] = k
      BY BagOfHas, Zenon
    <2>2. \A k : k \in DOMAIN BagOf(S) <=> \E c \in S : c[1] = k
      BY BagOfHas, Zenon
    <2>3. QED
      BY <2>1, <2>2
  <1>2. ASSUME NEW k \in D
        PROVE  BagOf(T)[k] = BagOf(S)[k]
    <2>1. CountsOf(T, k) = CountsOf(S, k)
      BY DEF CountsOf
    <2>2. k \in DOMAIN BagOf(T) /\ k \in DOMAIN BagOf(S)
      BY <1>1
    <2>3. BagOf(T)[k] = Cardinality(CountsOf(T, k))
      BY <2>2, BagOfHas, Zenon
    <2>4. BagOf(S)[k] = Cardinality(CountsOf(S, k))
      BY <2>2, BagOfHas, Zenon
    <2>5. QED
      BY <2>1, <2>3, <2>4, Zenon
  <1>3. BagOf(T) = [k \in DOMAIN BagOf(T) |-> BagOf(T)[k]]
    BY DEF BagOf
  <1> HIDE DEF T, D
  <1>4. BagOf(T) = [k \in D |-> BagOf(S)[k]]
    BY <1>1, <1>2, <1>3
  <1>5. QED
    BY <1>4 DEF T, D

-----------------------------------------------------------------------------
(* The single counts of a table *)

\* A single count is one of a dialog half or of an update half.
LEMMA SinglesAre ==
    ASSUME NEW t, NEW c
    PROVE  c \in Singles(t) <=>
               \E i \in DOMAIN t :
                  \/ \E n \in 1 .. t[i].dialogs : c = <<DialogHalf(t[i]), i, n>>
                  \/ \E n \in 1 .. t[i].updates : c = <<UpdateHalf(t[i]), i, n>>
  <1> DEFINE Of(i) == ({DialogHalf(t[i])} \X {i} \X (1 .. t[i].dialogs))
                         \cup ({UpdateHalf(t[i])} \X {i} \X (1 .. t[i].updates))
  <1>1. c \in Singles(t) <=> \E i \in DOMAIN t : c \in Of(i)
    BY Zenon DEF Singles
  <1>2. ASSUME NEW i
        PROVE  c \in Of(i) <=>
                  \/ \E n \in 1 .. t[i].dialogs : c = <<DialogHalf(t[i]), i, n>>
                  \/ \E n \in 1 .. t[i].updates : c = <<UpdateHalf(t[i]), i, n>>
    OBVIOUS
  <1> HIDE DEF Of
  <1>3. QED
    BY <1>1, <1>2

\* sweep only takes away what has no counts.
LEMMA SweepKeepsSingles ==
    ASSUME NEW t, \A i \in DOMAIN t : t[i] \in Row
    PROVE  Singles(sweep(t)) = Singles(t)
  <1> DEFINE u == sweep(t)
  <1>1. DOMAIN u = {i \in DOMAIN t : Kept(t[i])}
    BY DEF sweep
  <1>2. ASSUME NEW i \in DOMAIN u
        PROVE  /\ u[i].dialogs = t[i].dialogs /\ u[i].updates = t[i].updates
               /\ t[i].dialogs > 0 => DialogHalf(u[i]) = DialogHalf(t[i])
               /\ t[i].updates > 0 => UpdateHalf(u[i]) = UpdateHalf(t[i])
    <2>1. u[i] = Blanked(t[i]) /\ t[i] \in Row
      BY <1>1 DEF sweep
    <2> HIDE DEF u
    <2>2. QED
      BY <2>1 DEF Blanked, DialogHalf, UpdateHalf, Row
  <1>3. \A i \in DOMAIN t \ DOMAIN u : t[i].dialogs = 0 /\ t[i].updates = 0
    BY <1>1 DEF Kept, Row
  <1>4. \A i \in DOMAIN t : t[i].dialogs \in Nat /\ t[i].updates \in Nat
    BY DEF Row
  <1> HIDE DEF u
  <1>5. ASSUME NEW c
        PROVE  c \in Singles(u) <=> c \in Singles(t)
    <2>1. ASSUME c \in Singles(u)  PROVE c \in Singles(t)
      <3>1. PICK i \in DOMAIN u :
                  \/ \E n \in 1 .. u[i].dialogs : c = <<DialogHalf(u[i]), i, n>>
                  \/ \E n \in 1 .. u[i].updates : c = <<UpdateHalf(u[i]), i, n>>
        BY <2>1, SinglesAre
      <3>2. i \in DOMAIN t
        BY <1>1
      <3>3. \/ \E n \in 1 .. t[i].dialogs : c = <<DialogHalf(t[i]), i, n>>
            \/ \E n \in 1 .. t[i].updates : c = <<UpdateHalf(t[i]), i, n>>
        BY <1>2, <1>4, <3>1, <3>2
      <3>4. QED
        BY <3>2, <3>3, SinglesAre
    <2>2. ASSUME c \in Singles(t)  PROVE c \in Singles(u)
      <3>1. PICK i \in DOMAIN t :
                  \/ \E n \in 1 .. t[i].dialogs : c = <<DialogHalf(t[i]), i, n>>
                  \/ \E n \in 1 .. t[i].updates : c = <<UpdateHalf(t[i]), i, n>>
        BY <2>2, SinglesAre
      <3>2. i \in DOMAIN u
        BY <1>3, <3>1
      <3>3. \/ \E n \in 1 .. u[i].dialogs : c = <<DialogHalf(u[i]), i, n>>
            \/ \E n \in 1 .. u[i].updates : c = <<UpdateHalf(u[i]), i, n>>
        BY <1>2, <1>4, <3>1, <3>2
      <3>4. QED
        BY <3>2, <3>3, SinglesAre
    <2>3. QED
      BY <2>1, <2>2
  <1>6. Singles(u) = Singles(t)
    BY <1>5
  <1>7. QED
    BY <1>6 DEF u

\* The lock a request names, held by an owner.
LockOf(owner, r) == <<owner, r.table, garg(r.fields), r.mode>>

\* The single counts a granted request adds to row j ...
Taken(s, r, j, w) ==
    (IF TakesDialog(r) THEN {<<LockOf(s.dialog, r), j, w.dialogs + 1>>} ELSE {})
        \cup (IF TakesUpdate(r) THEN {<<LockOf(s.update, r), j, w.updates + 1>>} ELSE {})

\* ... and the ones a DEQUEUE takes from it.
Given(s, r, j, w) ==
    (IF TakesDialog(r) /\ HoldsDialog(s, w)
     THEN {<<LockOf(s.dialog, r), j, w.dialogs>>} ELSE {})
        \cup (IF TakesUpdate(r) /\ HoldsUpdate(s, w)
              THEN {<<LockOf(s.update, r), j, w.updates>>} ELSE {})

\* Counting a request on a row, new or the session's own, adds what it takes.
LEMMA CountedSingles ==
    ASSUME NEW t, NEW u, NEW j, NEW w \in Row, NEW s \in Session, NEW r \in Request,
           s.dialog # s.update,
           w.dialogs > 0 => w.dialog = s.dialog,
           w.updates > 0 => w.update = s.update,
           w.table = r.table, w.arg = garg(r.fields), w.mode = r.mode,
           \A i \in DOMAIN t : t[i] \in Row,
           j \in DOMAIN t => t[j] = w,
           j \notin DOMAIN t => w.dialogs = 0 /\ w.updates = 0,
           DOMAIN u = DOMAIN t \cup {j},
           u[j] = Counted(s, w, r),
           \A i \in DOMAIN t \ {j} : u[i] = t[i]
    PROVE  /\ Singles(u) = Singles(t) \cup Taken(s, r, j, w)
           /\ Singles(t) \cap Taken(s, r, j, w) = {}
  <1>1. /\ u[j].dialogs = IF TakesDialog(r) THEN w.dialogs + 1 ELSE w.dialogs
        /\ u[j].updates = IF TakesUpdate(r) THEN w.updates + 1 ELSE w.updates
        /\ u[j].dialogs > 0 => DialogHalf(u[j]) = LockOf(s.dialog, r)
        /\ u[j].updates > 0 => UpdateHalf(u[j]) = LockOf(s.update, r)
    BY DEF Counted, DialogHalf, UpdateHalf, LockOf, Row
  <1>2. /\ w.dialogs > 0 => DialogHalf(w) = LockOf(s.dialog, r)
        /\ w.updates > 0 => UpdateHalf(w) = LockOf(s.update, r)
    BY DEF DialogHalf, UpdateHalf, LockOf
  <1>3. w.dialogs \in Nat /\ w.updates \in Nat
    BY DEF Row
  <1>4. LockOf(s.dialog, r) # LockOf(s.update, r)
    BY DEF LockOf
  <1>5. ASSUME NEW c
        PROVE  c \in Singles(u) <=> c \in Singles(t) \/ c \in Taken(s, r, j, w)
    <2>1. ASSUME c \in Singles(u)  PROVE c \in Singles(t) \/ c \in Taken(s, r, j, w)
      <3>1. PICK i \in DOMAIN u :
                  \/ \E n \in 1 .. u[i].dialogs : c = <<DialogHalf(u[i]), i, n>>
                  \/ \E n \in 1 .. u[i].updates : c = <<UpdateHalf(u[i]), i, n>>
        BY <2>1, SinglesAre
      <3>2. CASE i # j
        <4>1. i \in DOMAIN t /\ u[i] = t[i]
          BY <3>2
        <4>2. QED
          BY <3>1, <4>1, SinglesAre
      <3>3. CASE i = j
        <4>1. ASSUME NEW n \in 1 .. u[j].dialogs, c = <<DialogHalf(u[j]), j, n>>
              PROVE  c \in Singles(t) \/ c \in Taken(s, r, j, w)
          <5>1. c = <<LockOf(s.dialog, r), j, n>>
            BY <1>1, <1>3, <4>1
          <5>2. CASE n \in 1 .. w.dialogs
            <6>1. j \in DOMAIN t /\ t[j] = w
              BY <1>3, <5>2
            <6>2. c = <<DialogHalf(t[j]), j, n>>
              BY <1>2, <1>3, <5>1, <5>2, <6>1
            <6>3. QED
              BY <5>2, <6>1, <6>2, SinglesAre
          <5>3. CASE n \notin 1 .. w.dialogs
            <6>1. TakesDialog(r) /\ n = w.dialogs + 1
              BY <1>1, <1>3, <5>3
            <6>2. QED
              BY <5>1, <6>1 DEF Taken
          <5>4. QED
            BY <5>2, <5>3
        <4>2. ASSUME NEW n \in 1 .. u[j].updates, c = <<UpdateHalf(u[j]), j, n>>
              PROVE  c \in Singles(t) \/ c \in Taken(s, r, j, w)
          <5>1. c = <<LockOf(s.update, r), j, n>>
            BY <1>1, <1>3, <4>2
          <5>2. CASE n \in 1 .. w.updates
            <6>1. j \in DOMAIN t /\ t[j] = w
              BY <1>3, <5>2
            <6>2. c = <<UpdateHalf(t[j]), j, n>>
              BY <1>2, <1>3, <5>1, <5>2, <6>1
            <6>3. QED
              BY <5>2, <6>1, <6>2, SinglesAre
          <5>3. CASE n \notin 1 .. w.updates
            <6>1. TakesUpdate(r) /\ n = w.updates + 1
              BY <1>1, <1>3, <5>3
            <6>2. QED
              BY <5>1, <6>1 DEF Taken
          <5>4. QED
            BY <5>2, <5>3
        <4>3. QED
          BY <3>1, <3>3, <4>1, <4>2
      <3>4. QED
        BY <3>2, <3>3
    <2>2. ASSUME c \in Singles(t)  PROVE c \in Singles(u)
      <3>1. PICK i \in DOMAIN t :
                  \/ \E n \in 1 .. t[i].dialogs : c = <<DialogHalf(t[i]), i, n>>
                  \/ \E n \in 1 .. t[i].updates : c = <<UpdateHalf(t[i]), i, n>>
        BY <2>2, SinglesAre
      <3>2. i \in DOMAIN u
        OBVIOUS
      <3>3. \/ \E n \in 1 .. u[i].dialogs : c = <<DialogHalf(u[i]), i, n>>
            \/ \E n \in 1 .. u[i].updates : c = <<UpdateHalf(u[i]), i, n>>
        <4>1. CASE i # j
          BY <3>1, <4>1
        <4>2. CASE i = j
          BY <1>1, <1>2, <1>3, <3>1, <4>2
        <4>3. QED
          BY <4>1, <4>2
      <3>4. QED
        BY <3>2, <3>3, SinglesAre
    <2>3. ASSUME c \in Taken(s, r, j, w)  PROVE c \in Singles(u)
      <3>1. \/ TakesDialog(r) /\ c = <<LockOf(s.dialog, r), j, w.dialogs + 1>>
            \/ TakesUpdate(r) /\ c = <<LockOf(s.update, r), j, w.updates + 1>>
        BY <2>3 DEF Taken
      <3>2. \/ \E n \in 1 .. u[j].dialogs : c = <<DialogHalf(u[j]), j, n>>
            \/ \E n \in 1 .. u[j].updates : c = <<UpdateHalf(u[j]), j, n>>
        BY <1>1, <1>3, <3>1
      <3>3. QED
        BY <3>2, SinglesAre
    <2>4. QED
      BY <2>1, <2>2, <2>3
  <1>6. ASSUME NEW c, c \in Singles(t), c \in Taken(s, r, j, w)
        PROVE  FALSE
    <2>1. PICK i \in DOMAIN t :
                \/ \E n \in 1 .. t[i].dialogs : c = <<DialogHalf(t[i]), i, n>>
                \/ \E n \in 1 .. t[i].updates : c = <<UpdateHalf(t[i]), i, n>>
      BY <1>6, SinglesAre
    <2>2. \/ TakesDialog(r) /\ c = <<LockOf(s.dialog, r), j, w.dialogs + 1>>
          \/ TakesUpdate(r) /\ c = <<LockOf(s.update, r), j, w.updates + 1>>
      BY <1>6 DEF Taken
    <2>3. i = j /\ t[j] = w
      BY <2>1, <2>2
    <2>4. QED
      BY <1>2, <1>3, <1>4, <2>1, <2>2, <2>3
  <1>7. QED
    BY <1>5, <1>6

\* Giving back one count of the halves a request names takes them away.
LEMMA UncountedSingles ==
    ASSUME NEW t, NEW u, NEW j \in DOMAIN t, NEW s \in Session, NEW r \in Request,
           t[j].dialogs > 0 => t[j].dialog # s.update,
           t[j].updates > 0 => t[j].update # s.dialog,
           t[j].table = r.table, t[j].arg = garg(r.fields), t[j].mode = r.mode,
           \A i \in DOMAIN t : t[i] \in Row,
           DOMAIN u = DOMAIN t,
           u[j] = Uncounted(s, t[j], r),
           \A i \in DOMAIN t \ {j} : u[i] = t[i]
    PROVE  /\ Singles(u) = Singles(t) \ Given(s, r, j, t[j])
           /\ Given(s, r, j, t[j]) \subseteq Singles(t)
  <1> DEFINE w == t[j]
             dhalf == DialogHalf(w)
             uhalf == UpdateHalf(w)
  <1>1. w \in Row /\ w.dialogs \in Nat /\ w.updates \in Nat
    BY DEF Row
  <1>2. /\ DialogHalf(u[j]) = dhalf /\ UpdateHalf(u[j]) = uhalf
        /\ u[j].dialogs = IF TakesDialog(r) /\ HoldsDialog(s, w) THEN w.dialogs - 1 ELSE w.dialogs
        /\ u[j].updates = IF TakesUpdate(r) /\ HoldsUpdate(s, w) THEN w.updates - 1 ELSE w.updates
    <2>1. u[j] = Uncounted(s, w, r)
      OBVIOUS
    <2> HIDE DEF w
    <2>2. QED
      BY <1>1, <2>1 DEF Uncounted, DialogHalf, UpdateHalf, Row, dhalf, uhalf
  <1>3. /\ HoldsDialog(s, w) => w.dialogs > 0 /\ LockOf(s.dialog, r) = dhalf
        /\ HoldsUpdate(s, w) => w.updates > 0 /\ LockOf(s.update, r) = uhalf
    BY DEF HoldsDialog, HoldsUpdate, LockOf, DialogHalf, UpdateHalf
  <1>4. w.dialogs > 0 /\ w.updates > 0 /\ (HoldsDialog(s, w) \/ HoldsUpdate(s, w)) => dhalf # uhalf
    BY DEF HoldsDialog, HoldsUpdate, DialogHalf, UpdateHalf
  <1>5. ASSUME NEW c
        PROVE  c \in Given(s, r, j, w) <=>
                  \/ TakesDialog(r) /\ HoldsDialog(s, w) /\ c = <<dhalf, j, w.dialogs>>
                  \/ TakesUpdate(r) /\ HoldsUpdate(s, w) /\ c = <<uhalf, j, w.updates>>
    <2> HIDE DEF w, dhalf, uhalf
    <2>1. QED
      BY <1>3 DEF Given
  <1>6. \A i \in DOMAIN t \ {j} : u[i] = t[i]
    OBVIOUS
  <1>7. t[j] = w /\ DialogHalf(t[j]) = dhalf /\ UpdateHalf(t[j]) = uhalf
    OBVIOUS
  <1> HIDE DEF w, dhalf, uhalf
  <1>8. ASSUME NEW c
        PROVE  c \in Singles(u) <=> c \in Singles(t) /\ c \notin Given(s, r, j, w)
    <2>1. ASSUME c \in Singles(u)  PROVE c \in Singles(t) /\ c \notin Given(s, r, j, w)
      <3>1. PICK i \in DOMAIN t :
                  \/ \E n \in 1 .. u[i].dialogs : c = <<DialogHalf(u[i]), i, n>>
                  \/ \E n \in 1 .. u[i].updates : c = <<UpdateHalf(u[i]), i, n>>
        BY <2>1, SinglesAre
      <3>2. CASE i # j
        BY <1>5, <1>6, <3>1, <3>2, SinglesAre
      <3>3. CASE i = j
        <4>1. \/ \E n \in 1 .. w.dialogs : c = <<dhalf, j, n>>
              \/ \E n \in 1 .. w.updates : c = <<uhalf, j, n>>
          BY <1>1, <1>2, <1>3, <3>1, <3>3
        <4>2. c \notin Given(s, r, j, w)
          BY <1>1, <1>2, <1>3, <1>4, <1>5, <3>1, <3>3
        <4>3. QED
          BY <1>7, <4>1, <4>2, SinglesAre
      <3>4. QED
        BY <3>2, <3>3
    <2>2. ASSUME c \in Singles(t), c \notin Given(s, r, j, w)  PROVE c \in Singles(u)
      <3>1. PICK i \in DOMAIN t :
                  \/ \E n \in 1 .. t[i].dialogs : c = <<DialogHalf(t[i]), i, n>>
                  \/ \E n \in 1 .. t[i].updates : c = <<UpdateHalf(t[i]), i, n>>
        BY <2>2, SinglesAre
      <3>2. CASE i # j
        BY <1>6, <3>1, <3>2, SinglesAre
      <3>3. CASE i = j
        <4>1. \/ \E n \in 1 .. u[j].dialogs : c = <<DialogHalf(u[j]), j, n>>
              \/ \E n \in 1 .. u[j].updates : c = <<UpdateHalf(u[j]), j, n>>
          BY <1>1, <1>2, <1>5, <1>7, <2>2, <3>1, <3>3
        <4>2. QED
          BY <4>1, SinglesAre
      <3>4. QED
        BY <3>2, <3>3
    <2>3. QED
      BY <2>1, <2>2
  <1>9. ASSUME NEW c \in Given(s, r, j, w)
        PROVE  c \in Singles(t)
    <2>1. \/ \E n \in 1 .. w.dialogs : c = <<dhalf, j, n>>
          \/ \E n \in 1 .. w.updates : c = <<uhalf, j, n>>
      BY <1>1, <1>3, <1>5
    <2>2. QED
      BY <1>7, <2>1, SinglesAre
  <1>10. Singles(u) = Singles(t) \ Given(s, r, j, w)
    BY <1>8
  <1>11. QED
    BY <1>7, <1>9, <1>10

\* Table u is t with the counts of exactly the halves set to zero that some owners hold.
Zeroed(t, u, O) ==
    /\ DOMAIN u = DOMAIN t
    /\ \A i \in DOMAIN t :
          /\ t[i] \in Row /\ u[i] \in Row
          /\ u[i].dialog = t[i].dialog /\ u[i].update = t[i].update
          /\ u[i].table = t[i].table /\ u[i].arg = t[i].arg /\ u[i].mode = t[i].mode
          /\ t[i].dialogs > 0 => u[i].dialogs = IF t[i].dialog \in O THEN 0 ELSE t[i].dialogs
          /\ t[i].updates > 0 => u[i].updates = IF t[i].update \in O THEN 0 ELSE t[i].updates
          /\ t[i].dialogs = 0 => u[i].dialogs = 0
          /\ t[i].updates = 0 => u[i].updates = 0

\* It has the single counts of the other owners.
LEMMA ZeroedSingles ==
    ASSUME NEW t, NEW u, NEW O, Zeroed(t, u, O)
    PROVE  \A c : c \in Singles(u) <=> c \in Singles(t) /\ c[1][1] \notin O
  <1>1. ASSUME NEW i \in DOMAIN t
        PROVE  /\ t[i].dialogs \in Nat /\ t[i].updates \in Nat
               /\ DialogHalf(u[i]) = DialogHalf(t[i]) /\ UpdateHalf(u[i]) = UpdateHalf(t[i])
               /\ DialogHalf(t[i])[1] = t[i].dialog /\ UpdateHalf(t[i])[1] = t[i].update
               /\ u[i].dialogs = IF t[i].dialog \in O THEN 0 ELSE t[i].dialogs
               /\ u[i].updates = IF t[i].update \in O THEN 0 ELSE t[i].updates
    BY DEF Zeroed, Row, DialogHalf, UpdateHalf
  <1>2. DOMAIN u = DOMAIN t
    BY DEF Zeroed
  <1>3. ASSUME NEW c
        PROVE  c \in Singles(u) <=> c \in Singles(t) /\ c[1][1] \notin O
    <2>1. ASSUME c \in Singles(u)  PROVE c \in Singles(t) /\ c[1][1] \notin O
      <3>1. PICK i \in DOMAIN t :
                  \/ \E n \in 1 .. u[i].dialogs : c = <<DialogHalf(u[i]), i, n>>
                  \/ \E n \in 1 .. u[i].updates : c = <<UpdateHalf(u[i]), i, n>>
        BY <1>2, <2>1, SinglesAre
      <3>2. /\ \/ \E n \in 1 .. t[i].dialogs : c = <<DialogHalf(t[i]), i, n>>
               \/ \E n \in 1 .. t[i].updates : c = <<UpdateHalf(t[i]), i, n>>
            /\ c[1][1] \notin O
        BY <1>1, <3>1
      <3>3. QED
        BY <1>2, <3>2, SinglesAre
    <2>2. ASSUME c \in Singles(t), c[1][1] \notin O  PROVE c \in Singles(u)
      <3>1. PICK i \in DOMAIN t :
                  \/ \E n \in 1 .. t[i].dialogs : c = <<DialogHalf(t[i]), i, n>>
                  \/ \E n \in 1 .. t[i].updates : c = <<UpdateHalf(t[i]), i, n>>
        BY <2>2, SinglesAre
      <3>2. \/ \E n \in 1 .. u[i].dialogs : c = <<DialogHalf(u[i]), i, n>>
            \/ \E n \in 1 .. u[i].updates : c = <<UpdateHalf(u[i]), i, n>>
        BY <1>1, <2>2, <3>1
      <3>3. QED
        BY <1>2, <3>2, SinglesAre
    <2>3. QED
      BY <2>1, <2>2
  <1>4. QED
    BY <1>3

-----------------------------------------------------------------------------
(* The rest of the inductive invariant *)

\* A dialog owner is no update owner, neither of a session's LUW nor of an update
\* task, and no two tasks have one owner.
OwnersApart ==
    /\ \A s1, s2 \in DOMAIN sessions : sessions[s1].update # sessions[s2].dialog
    /\ \A sid \in DOMAIN sessions : sessions[sid].dialog <= seq
    /\ \A t \in tasks, sid \in DOMAIN sessions : t[2] # sessions[sid].dialog
    /\ \A t1, t2 \in tasks : t1[2] = t2[2] => t1 = t2

FiniteTable == IsFiniteSet(Singles(rows))

\* A new LUW takes an owner nobody had; the old one is the task's or gone.
LEMMA NewLuwKeepsApart ==
    ASSUME IInv, OwnersApart, NEW sid \in DOMAIN sessions,
           seq' = seq + 1, sessions' = WithUpdateOwner(sid, seq + 1),
           tasks' = tasks \/ tasks' = tasks \cup {<<sid, sessions[sid].update>>}
    PROVE  OwnersApart'
  <1>1. /\ seq \in Nat
        /\ \A s \in DOMAIN sessions : sessions[s] \in Session
        /\ \A t \in tasks : t = <<t[1], t[2]>> /\ t[2] \in Nat /\ t[2] <= seq
    BY DEF IInv, TypeOK, OwnersDistinct
  <1>2. /\ DOMAIN sessions' = DOMAIN sessions
        /\ \A s \in DOMAIN sessions :
              /\ sessions'[s].dialog = sessions[s].dialog
              /\ sessions'[s].update = IF s = sid THEN seq + 1 ELSE sessions[s].update
    BY <1>1 DEF WithUpdateOwner, Session
  <1>3. \A s1, s2 \in DOMAIN sessions' : sessions'[s1].update # sessions'[s2].dialog
    BY <1>1, <1>2 DEF OwnersApart, Session
  <1>4. \A s \in DOMAIN sessions' : sessions'[s].dialog <= seq'
    BY <1>1, <1>2 DEF OwnersApart, Session
  <1>5. \A t \in tasks', s \in DOMAIN sessions' : t[2] # sessions'[s].dialog
    BY <1>1, <1>2 DEF OwnersApart
  <1>6. \A t1, t2 \in tasks' : t1[2] = t2[2] => t1 = t2
    BY <1>1 DEF OwnersApart, IInv, OwnersDistinct
  <1>7. QED
    BY <1>3, <1>4, <1>5, <1>6 DEF OwnersApart

\* The owners of a new session are two new numbers.
LEMMA OpenKeepsApart ==
    ASSUME IInv, OwnersApart, open
    PROVE  OwnersApart'
  <1>1. /\ seq \in Nat
        /\ \A s \in DOMAIN sessions : sessions[s] \in Session /\ sessions[s].update <= seq
        /\ \A t \in tasks : t[2] \in Nat /\ t[2] <= seq
    BY DEF IInv, TypeOK, OwnersDistinct
  <1>2. /\ seq' = seq + 3 /\ tasks' = tasks
        /\ DOMAIN sessions' = DOMAIN sessions \cup {seq + 1}
        /\ \A s \in DOMAIN sessions' :
              sessions'[s] = IF s = seq + 1 THEN [dialog |-> seq + 2, update |-> seq + 3]
                             ELSE sessions[s]
    BY DEF open
  <1>3. \A s \in DOMAIN sessions' :
           \/ s \in DOMAIN sessions /\ sessions'[s] = sessions[s]
           \/ sessions'[s].dialog = seq + 2 /\ sessions'[s].update = seq + 3
    BY <1>2
  <1>4. \A s1, s2 \in DOMAIN sessions' : sessions'[s1].update # sessions'[s2].dialog
    BY <1>1, <1>3 DEF OwnersApart, Session
  <1>5. \A s \in DOMAIN sessions' : sessions'[s].dialog <= seq'
    BY <1>1, <1>2, <1>3 DEF OwnersApart, Session
  <1>6. \A t \in tasks', s \in DOMAIN sessions' : t[2] # sessions'[s].dialog
    BY <1>1, <1>2, <1>3 DEF OwnersApart
  <1>7. \A t1, t2 \in tasks' : t1[2] = t2[2] => t1 = t2
    BY <1>2 DEF OwnersApart
  <1>8. QED
    BY <1>4, <1>5, <1>6, <1>7 DEF OwnersApart

\* No operation gives an owner id twice.
LEMMA OwnersStayApart ==
    ASSUME IInv, OwnersApart, [Next]_vars
    PROVE  OwnersApart'
  <1>1. CASE open
    BY <1>1, OpenKeepsApart
  <1>2. ASSUME NEW sid \in DOMAIN sessions, SessionStep(sid)
        PROVE  OwnersApart'
    <2>1. CASE \/ \E r \in Request : enqueue(sid, r) \/ dequeue(sid, r)
               \/ dequeueAll(sid)
      BY <2>1 DEF enqueue, dequeue, dequeueAll, OwnersApart
    <2>2. CASE rollback(sid)
      BY <1>2, <2>2, NewLuwKeepsApart DEF rollback
    <2>3. CASE commit(sid)
      BY <1>2, <2>3, NewLuwKeepsApart DEF commit
    <2>4. CASE end(sid)
      <3>1. /\ seq' = seq /\ tasks' = tasks /\ DOMAIN sessions' \subseteq DOMAIN sessions
            /\ \A s \in DOMAIN sessions' : sessions'[s] = sessions[s]
        BY <2>4 DEF end
      <3>2. QED
        BY <3>1 DEF OwnersApart
    <2>5. QED
      BY <1>2, <2>1, <2>2, <2>3, <2>4 DEF SessionStep
  <1>3. ASSUME NEW t \in tasks, updateDone(t)
        PROVE  OwnersApart'
    BY <1>3 DEF updateDone, OwnersApart
  <1>4. CASE close
    BY <1>4 DEF close, OwnersApart
  <1>5. CASE UNCHANGED vars
    BY <1>5 DEF vars, OwnersApart
  <1>6. QED
    BY <1>1, <1>2, <1>3, <1>4, <1>5 DEF Next

-----------------------------------------------------------------------------
(* The contract in the terms of the table *)

\* The contract reads arguments as the table does.
LEMMA SameArguments ==
    /\ \A f : Owners!garg(f) = garg(f)
    /\ \A a, b : Owners!collide(a, b) <=> collide(a, b)
  <1>1. \A f : Owners!garg(f) = garg(f)
    BY DEF Owners!garg, Owners!TrimRight, Owners!Laid, Owners!Blank, Owners!AnyChar,
           Owners!Max, Owners!FlattenSeq, garg, TrimRight, Laid, Blank, AnyChar, Max, FlattenSeq
  <1>2. \A a, b : Owners!collide(a, b) <=> collide(a, b)
    BY DEF Owners!collide, Owners!TrimRight, Owners!Exact, Owners!At, Owners!Blank,
           Owners!AnyChar, Owners!Max, collide, TrimRight, Exact, At, Blank, AnyChar, Max
  <1>3. QED
    BY <1>1, <1>2

\* Its requests and locks are the table's.
LEMMA SameRequests ==
    /\ Owners!Request = Request
    /\ \A o, r : Owners!Key(o, r) = LockOf(o, r)
    /\ \A sid : Owners!Own(sid) = {sessions[sid].dialog, sessions[sid].update}
    /\ \A sid : \A r \in Request :
          Owners!Wanted(sid, r) = (IF TakesDialog(r) THEN {sessions[sid].dialog} ELSE {})
                                      \cup (IF TakesUpdate(r) THEN {sessions[sid].update} ELSE {})
  <1>1. Owners!Request = Request
    BY DEF Owners!Request, Request
  <1>2. \A o, r : Owners!Key(o, r) = LockOf(o, r)
    BY SameArguments DEF Owners!Key, LockOf
  <1>3. \A sid : Owners!Own(sid) = {sessions[sid].dialog, sessions[sid].update}
    BY DEF Owners!Own
  <1>4. ASSUME NEW sid, NEW r \in Request
        PROVE  Owners!Wanted(sid, r) = (IF TakesDialog(r) THEN {sessions[sid].dialog} ELSE {})
                                      \cup (IF TakesUpdate(r) THEN {sessions[sid].update} ELSE {})
    <2>1. r.scope \in 0 .. 3
      BY ScopesAssumption DEF Request
    <2>2. TakesDialog(r) <=> r.scope \in {1, 3}
      BY <2>1 DEF TakesDialog, scopeOf
    <2>3. TakesUpdate(r) <=> r.scope # 1
      BY <2>1 DEF TakesUpdate, scopeOf
    <2>4. QED
      BY <2>2, <2>3 DEF Owners!Wanted
  <1>5. QED
    BY <1>1, <1>2, <1>3, <1>4

\* The bag has the halves of the rows that are counted.
LEMMA HeldHas ==
    ASSUME TypeOK, NEW k
    PROVE  k \in DOMAIN Held <=>
              \E i \in DOMAIN rows :
                 \/ rows[i].dialogs > 0 /\ k = DialogHalf(rows[i])
                 \/ rows[i].updates > 0 /\ k = UpdateHalf(rows[i])
  <1>1. k \in DOMAIN Held <=> \E c \in Singles(rows) : c[1] = k
    BY BagOfHas, Zenon DEF Held
  <1>2. \A i \in DOMAIN rows : rows[i].dialogs \in Nat /\ rows[i].updates \in Nat
    BY DEF TypeOK, Row
  <1>3. ASSUME NEW c \in Singles(rows), c[1] = k
        PROVE  \E i \in DOMAIN rows :
                  \/ rows[i].dialogs > 0 /\ k = DialogHalf(rows[i])
                  \/ rows[i].updates > 0 /\ k = UpdateHalf(rows[i])
    <2>1. PICK i \in DOMAIN rows :
              \/ \E n \in 1 .. rows[i].dialogs : c = <<DialogHalf(rows[i]), i, n>>
              \/ \E n \in 1 .. rows[i].updates : c = <<UpdateHalf(rows[i]), i, n>>
      BY SinglesAre
    <2>2. QED
      BY <1>2, <1>3, <2>1
  <1>4. ASSUME NEW i \in DOMAIN rows,
               \/ rows[i].dialogs > 0 /\ k = DialogHalf(rows[i])
               \/ rows[i].updates > 0 /\ k = UpdateHalf(rows[i])
        PROVE  \E c \in Singles(rows) : c[1] = k
    <2>1. PICK c : c = <<k, i, 1>>
      OBVIOUS
    <2>2. \/ \E n \in 1 .. rows[i].dialogs : c = <<DialogHalf(rows[i]), i, n>>
          \/ \E n \in 1 .. rows[i].updates : c = <<UpdateHalf(rows[i]), i, n>>
      BY <1>2, <1>4, <2>1
    <2>3. c \in Singles(rows) /\ c[1] = k
      BY <2>1, <2>2, SinglesAre
    <2>4. QED
      BY <2>3
  <1>5. QED
    BY <1>1, <1>3, <1>4

\* What a half of a counted row means to a session: its own, or another owner's.
LEMMA HalfOwners ==
    ASSUME IInv, OwnersApart, ~closed, NEW sid \in DOMAIN sessions, NEW i \in DOMAIN rows
    PROVE  /\ rows[i].dialogs > 0 =>
                 (/\ rows[i].dialog # sessions[sid].update
                  /\ rows[i].dialog = sessions[sid].dialog <=> rows[i].session = sid)
           /\ rows[i].updates > 0 =>
                 (/\ rows[i].update # sessions[sid].dialog
                  /\ rows[i].update = sessions[sid].update => rows[i].session = sid)
  <1>1. DialogHalfOwned(rows[i]) /\ UpdateHalfOwned(rows[i])
    BY DEF IInv, NoOrphanLock
  <1>2. ASSUME rows[i].dialogs > 0
        PROVE  /\ rows[i].dialog # sessions[sid].update
               /\ rows[i].dialog = sessions[sid].dialog <=> rows[i].session = sid
    <2>1. rows[i].session \in DOMAIN sessions /\ rows[i].dialog = sessions[rows[i].session].dialog
      BY <1>1, <1>2 DEF DialogHalfOwned
    <2>2. rows[i].dialog = sessions[sid].dialog => rows[i].session = sid
      BY <1>2, OwnedIsOwn DEF owns, HoldsDialog
    <2>3. QED
      BY <2>1, <2>2 DEF OwnersApart
  <1>3. ASSUME rows[i].updates > 0
        PROVE  /\ rows[i].update # sessions[sid].dialog
               /\ rows[i].update = sessions[sid].update => rows[i].session = sid
    <2>1. rows[i].update # sessions[sid].dialog
      BY <1>1, <1>3 DEF UpdateHalfOwned, OwnersApart
    <2>2. rows[i].update = sessions[sid].update => rows[i].session = sid
      BY <1>3, OwnedIsOwn DEF owns, HoldsUpdate
    <2>3. QED
      BY <2>1, <2>2
  <1>4. QED
    BY <1>2, <1>3

\* What the bags allow, read from the rows.
LEMMA GrantableIs ==
    ASSUME IInv, OwnersApart, ~closed, NEW sid \in DOMAIN sessions, NEW r \in Request
    PROVE  Owners!Grantable(sid, r) <=>
              \A i \in DOMAIN rows : Touches(rows[i], r) =>
                 /\ owns(sessions[sid], rows[i]) => rows[i].mode # "X" /\ r.mode # "X"
                 /\ \/ rows[i].dialogs > 0 /\ rows[i].session # sid
                    \/ Stale(sessions[sid], rows[i])
                    => shared(rows[i].mode) /\ shared(r.mode)
  <1> DEFINE own == {sessions[sid].dialog, sessions[sid].update}
             Fits(o, mode) == IF o \in own THEN "X" \notin {mode, r.mode}
                              ELSE shared(mode) /\ shared(r.mode)
  <1>1. Owners!Grantable(sid, r) <=>
           \A k \in DOMAIN Held :
              k[2] = r.table /\ collide(k[3], garg(r.fields)) => Fits(k[1], k[4])
    BY SameArguments, SameRequests
       DEF Owners!Grantable, Owners!BagToSet, Owners!Compatible, shared
  <1>2. TypeOK
    BY DEF IInv
  <1>3. ASSUME NEW i \in DOMAIN rows
        PROVE  /\ DialogHalf(rows[i])[1] = rows[i].dialog /\ DialogHalf(rows[i])[2] = rows[i].table
               /\ DialogHalf(rows[i])[3] = rows[i].arg /\ DialogHalf(rows[i])[4] = rows[i].mode
               /\ UpdateHalf(rows[i])[1] = rows[i].update /\ UpdateHalf(rows[i])[2] = rows[i].table
               /\ UpdateHalf(rows[i])[3] = rows[i].arg /\ UpdateHalf(rows[i])[4] = rows[i].mode
    BY DEF DialogHalf, UpdateHalf
  <1> DEFINE FitsRow(i) == /\ rows[i].dialogs > 0 => Fits(rows[i].dialog, rows[i].mode)
                           /\ rows[i].updates > 0 => Fits(rows[i].update, rows[i].mode)
  <1> HIDE DEF Fits
  <1>4. Owners!Grantable(sid, r) <=> \A i \in DOMAIN rows : Touches(rows[i], r) => FitsRow(i)
    <2>1. ASSUME Owners!Grantable(sid, r), NEW i \in DOMAIN rows, Touches(rows[i], r)
          PROVE  FitsRow(i)
      <3>1. rows[i].dialogs > 0 => DialogHalf(rows[i]) \in DOMAIN Held
        BY <1>2, HeldHas
      <3>2. rows[i].updates > 0 => UpdateHalf(rows[i]) \in DOMAIN Held
        BY <1>2, HeldHas
      <3>3. QED
        BY <1>1, <1>3, <2>1, <3>1, <3>2 DEF Touches
    <2>2. ASSUME \A i \in DOMAIN rows : Touches(rows[i], r) => FitsRow(i),
                 NEW k \in DOMAIN Held, k[2] = r.table, collide(k[3], garg(r.fields))
          PROVE  Fits(k[1], k[4])
      <3>1. PICK i \in DOMAIN rows :
                    \/ rows[i].dialogs > 0 /\ k = DialogHalf(rows[i])
                    \/ rows[i].updates > 0 /\ k = UpdateHalf(rows[i])
        BY <1>2, HeldHas
      <3>2. Touches(rows[i], r)
        BY <1>3, <2>2, <3>1 DEF Touches
      <3>3. QED
        BY <1>3, <2>2, <3>1, <3>2
    <2>3. QED
      BY <1>1, <2>1, <2>2
  <1>5. ASSUME NEW i \in DOMAIN rows
        PROVE  FitsRow(i) <=>
                 /\ owns(sessions[sid], rows[i]) => rows[i].mode # "X" /\ r.mode # "X"
                 /\ \/ rows[i].dialogs > 0 /\ rows[i].session # sid
                    \/ Stale(sessions[sid], rows[i])
                    => shared(rows[i].mode) /\ shared(r.mode)
    <2>1. rows[i].dialogs > 0 => (rows[i].dialog \in own <=> rows[i].session = sid)
      BY HalfOwners
    <2>2. rows[i].updates > 0 => (rows[i].update \in own <=> rows[i].update = sessions[sid].update)
      BY HalfOwners
    <2>3. owns(sessions[sid], rows[i]) <=>
             \/ rows[i].dialogs > 0 /\ rows[i].dialog \in own
             \/ rows[i].updates > 0 /\ rows[i].update \in own
      BY HalfOwners DEF owns, HoldsDialog, HoldsUpdate
    <2>4. Stale(sessions[sid], rows[i]) <=> rows[i].updates > 0 /\ rows[i].update \notin own
      BY <2>2 DEF Stale
    <2> HIDE DEF own
    <2>5. QED
      BY <2>1, <2>2, <2>3, <2>4 DEF Fits
  <1>6. QED
    BY <1>4, <1>5

\* tryEnqueue grants what the owners' bags allow, and nothing else.
LEMMA GrantsAsOwners ==
    ASSUME IInv, OwnersApart
    PROVE  GrantsByOwners
  <1> SUFFICES ASSUME NEW sid \in DOMAIN sessions, NEW r \in Request, ~closed
               PROVE  Answer(sid, r) = "granted" <=> Owners!Grantable(sid, r)
    BY DEF GrantsByOwners
  <1>1. Answer(sid, r) = "granted" <=> Refusals(sid, r) = {}
    BY DEF Answer, live
  <1>2. Refusals(sid, r) = {} <=>
           \A i \in DOMAIN rows : ~Foreign(sid, rows[i], r) /\ ~OwnX(sid, rows[i], r)
    BY DEF Refusals
  <1>3. ASSUME NEW i \in DOMAIN rows, Touches(rows[i], r)
        PROVE  ~Foreign(sid, rows[i], r) /\ ~OwnX(sid, rows[i], r) <=>
                 /\ owns(sessions[sid], rows[i]) => rows[i].mode # "X" /\ r.mode # "X"
                 /\ \/ rows[i].dialogs > 0 /\ rows[i].session # sid
                    \/ Stale(sessions[sid], rows[i])
                    => shared(rows[i].mode) /\ shared(r.mode)
    <2>1. \/ rows[i].session # sid
          \/ Stale(sessions[sid], rows[i])
          <=> \/ rows[i].dialogs > 0 /\ rows[i].session # sid
              \/ Stale(sessions[sid], rows[i])
      <3>1. Kept(rows[i]) /\ (rows[i].updates > 0 =>
                (rows[i].update = sessions[sid].update => rows[i].session = sid))
        BY HalfOwners DEF IInv, NoOrphanLock
      <3>2. QED
        BY <3>1 DEF Kept, Stale
    <2>2. QED
      BY <1>3, <2>1 DEF Foreign, OwnX
  <1>4. \A i \in DOMAIN rows :
           ~Touches(rows[i], r) => ~Foreign(sid, rows[i], r) /\ ~OwnX(sid, rows[i], r)
    BY DEF Foreign, OwnX
  <1>5. QED
    BY <1>1, <1>2, <1>3, <1>4, GrantableIs

-----------------------------------------------------------------------------
(* Every operation does to the bags what the contract says *)

\* The locks a request takes or gives back, one count each of different halves.
LEMMA DistinctLocks ==
    ASSUME NEW s, NEW r, NEW j, NEW w, s.dialog # s.update
    PROVE  /\ \A c, d \in Taken(s, r, j, w) : c[1] = d[1] => c = d
           /\ \A c, d \in Given(s, r, j, w) : c[1] = d[1] => c = d
  <1>1. LockOf(s.dialog, r) # LockOf(s.update, r)
    BY DEF LockOf
  <1>2. \A c, d \in Taken(s, r, j, w) : c[1] = d[1] => c = d
    BY <1>1 DEF Taken
  <1>3. \A c, d \in Given(s, r, j, w) : c[1] = d[1] => c = d
    BY <1>1 DEF Given
  <1>4. QED
    BY <1>2, <1>3

\* A request takes at most two counts.
LEMMA TakenFinite ==
    ASSUME NEW s, NEW r, NEW j, NEW w
    PROVE  IsFiniteSet(Taken(s, r, j, w))
  <1> DEFINE D == IF TakesDialog(r) THEN {<<LockOf(s.dialog, r), j, w.dialogs + 1>>} ELSE {}
             U == IF TakesUpdate(r) THEN {<<LockOf(s.update, r), j, w.updates + 1>>} ELSE {}
  <1>1. IsFiniteSet(D)
    BY FS_EmptySet, FS_Singleton
  <1>2. IsFiniteSet(U)
    BY FS_EmptySet, FS_Singleton
  <1>3. Taken(s, r, j, w) = D \cup U
    BY DEF Taken
  <1> HIDE DEF D, U
  <1>4. QED
    BY <1>1, <1>2, <1>3, FS_Union

\* A granted request is added to the bag, whichever row it is counted on.
LEMMA CountedImplements ==
    ASSUME IInv, OwnersApart, FiniteTable,
           NEW sid \in DOMAIN sessions, NEW r \in Request, ~closed,
           NEW j, NEW w \in Row,
           w.dialogs > 0 => w.dialog = sessions[sid].dialog,
           w.updates > 0 => w.update = sessions[sid].update,
           w.table = r.table, w.arg = garg(r.fields), w.mode = r.mode,
           j \in DOMAIN rows => rows[j] = w,
           j \notin DOMAIN rows => w.dialogs = 0 /\ w.updates = 0,
           DOMAIN rows' = DOMAIN rows \cup {j},
           rows'[j] = Counted(sessions[sid], w, r),
           \A i \in DOMAIN rows \ {j} : rows'[i] = rows[i]
    PROVE  /\ FiniteTable'
           /\ Held' = Held (+) SetToBag({Owners!Key(o, r) : o \in Owners!Wanted(sid, r)})
  <1> DEFINE s == sessions[sid]
             N == Taken(s, r, j, w)
             K == {Owners!Key(o, r) : o \in Owners!Wanted(sid, r)}
  <1>1. s \in Session /\ s.dialog # s.update
    BY DEF IInv, TypeOK, OwnersApart
  <1>2. \A i \in DOMAIN rows : rows[i] \in Row
    BY DEF IInv, TypeOK
  <1>3. Singles(rows') = Singles(rows) \cup N /\ Singles(rows) \cap N = {}
    <2> HIDE DEF s
    <2>1. /\ w.dialogs > 0 => w.dialog = s.dialog
          /\ w.updates > 0 => w.update = s.update
          /\ rows'[j] = Counted(s, w, r)
      BY DEF s
    <2>2. QED
      BY <1>1, <1>2, <2>1, CountedSingles
  <1>4. ASSUME NEW k
        PROVE  k \in K <=> \E c \in N : c[1] = k
    <2>1. k \in K <=> \/ TakesDialog(r) /\ k = LockOf(s.dialog, r)
                      \/ TakesUpdate(r) /\ k = LockOf(s.update, r)
      <3>1. k \in K <=> \E o \in Owners!Wanted(sid, r) : k = Owners!Key(o, r)
        BY Zenon
      <3>2. \A o : o \in Owners!Wanted(sid, r) <=>
               (TakesDialog(r) /\ o = s.dialog) \/ (TakesUpdate(r) /\ o = s.update)
        BY SameRequests
      <3> HIDE DEF K, s
      <3>3. QED
        BY <3>1, <3>2, SameRequests
    <2>2. PICK dc, uc : /\ dc = <<LockOf(s.dialog, r), j, w.dialogs + 1>>
                        /\ uc = <<LockOf(s.update, r), j, w.updates + 1>>
      OBVIOUS
    <2>3. \A c : c \in N <=> (TakesDialog(r) /\ c = dc) \/ (TakesUpdate(r) /\ c = uc)
      BY <2>2 DEF Taken
    <2>4. dc[1] = LockOf(s.dialog, r) /\ uc[1] = LockOf(s.update, r)
      BY <2>2
    <2> HIDE DEF N, s
    <2>5. QED
      BY <2>1, <2>3, <2>4
  <1>5. \A c, d \in N : c[1] = d[1] => c = d
    <2> HIDE DEF s
    <2>1. QED
      BY <1>1, DistinctLocks
  <1>6. IsFiniteSet(Singles(rows'))
    <2>1. IsFiniteSet(Singles(rows) \cup N)
      BY TakenFinite, FS_Union DEF FiniteTable
    <2>2. QED
      BY <1>3, <2>1
  <1> HIDE DEF N, K
  <1>7. BagOf(Singles(rows')) = BagOf(Singles(rows)) (+) SetToBag(K)
    BY <1>3, <1>4, <1>5, BagOfAdds DEF FiniteTable
  <1>8. QED
    BY <1>6, <1>7 DEF Held, FiniteTable, K

\* A granted ENQUEUE is a grant of the contract.
LEMMA EnqueueImplements ==
    ASSUME IInv, OwnersApart, FiniteTable,
           NEW sid \in DOMAIN sessions, NEW r \in Request, enqueue(sid, r)
    PROVE  FiniteTable' /\ Owners!Enqueue(sid, r)
  <1>1. live(sid) /\ Answer(sid, r) = "granted"
    BY DEF enqueue, Answer
  <1>2. ~closed
    BY <1>1 DEF live
  <1>3. Owners!Grantable(sid, r)
    BY <1>1, <1>2, GrantsAsOwners DEF GrantsByOwners
  <1>4. /\ FiniteTable'
        /\ Held' = Held (+) SetToBag({Owners!Key(o, r) : o \in Owners!Wanted(sid, r)})
    <2>1. ASSUME NEW n \in Slots, IsNextSlot(n),
                 rows' = [i \in DOMAIN rows \cup {n} |->
                            IF i = n THEN Counted(sessions[sid], NewRow(sid, r), r) ELSE rows[i]]
          PROVE  /\ FiniteTable'
                 /\ Held' = Held (+) SetToBag({Owners!Key(o, r) : o \in Owners!Wanted(sid, r)})
      <3>1. n \notin DOMAIN rows
        BY <2>1, SlotsAssumption DEF IsNextSlot, IInv, TypeOK
      <3>2. /\ DOMAIN rows' = DOMAIN rows \cup {n}
            /\ rows'[n] = Counted(sessions[sid], NewRow(sid, r), r)
            /\ \A i \in DOMAIN rows \ {n} : rows'[i] = rows[i]
        BY <2>1
      <3>3. PICK w : w = NewRow(sid, r)
        OBVIOUS
      <3>4. /\ w \in Row /\ w.dialogs = 0 /\ w.updates = 0
            /\ w.table = r.table /\ w.arg = garg(r.fields) /\ w.mode = r.mode
        <4>1. sid \in Nat
          BY DEF IInv, TypeOK
        <4>2. QED
          BY <3>3, <4>1 DEF NewRow, Row, NoOwner, Args, Request
      <3>5. QED
        BY <1>2, <3>1, <3>2, <3>3, <3>4, CountedImplements
    <2>2. ASSUME NEW i \in DOMAIN rows, IsLast(i, Cumulates(sid, r)),
                 rows' = [rows EXCEPT ![i] = Counted(sessions[sid], @, r)]
          PROVE  /\ FiniteTable'
                 /\ Held' = Held (+) SetToBag({Owners!Key(o, r) : o \in Owners!Wanted(sid, r)})
      <3>1. /\ Touches(rows[i], r) /\ owns(sessions[sid], rows[i])
            /\ rows[i].arg = garg(r.fields) /\ rows[i].mode = r.mode
            /\ ~Stale(sessions[sid], rows[i])
        BY <2>2 DEF IsLast, Cumulates
      <3>2. /\ DOMAIN rows' = DOMAIN rows
            /\ rows'[i] = Counted(sessions[sid], rows[i], r)
            /\ \A j \in DOMAIN rows \ {i} : rows'[j] = rows[j]
        BY <2>2
      <3>3. rows[i].session = sid
        BY <1>2, <3>1, OwnedIsOwn
      <3>4. /\ rows[i].dialogs > 0 => rows[i].dialog = sessions[sid].dialog
            /\ rows[i].updates > 0 => rows[i].update = sessions[sid].update
        BY <1>2, <3>1, <3>3, HalfOwners DEF Stale
      <3>5. PICK w : w = rows[i]
        OBVIOUS
      <3>6. w \in Row /\ w.table = r.table
        BY <3>1, <3>5 DEF IInv, TypeOK, Touches
      <3>7. DOMAIN rows' = DOMAIN rows \cup {i}
        BY <3>2
      <3>8. QED
        BY <1>2, <3>1, <3>2, <3>4, <3>5, <3>6, <3>7, CountedImplements
    <2>3. QED
      BY <2>1, <2>2 DEF enqueue
  <1>5. UNCHANGED <<seq, sessions, closed, tasks>>
    BY DEF enqueue
  <1>6. QED
    BY <1>2, <1>3, <1>4, <1>5 DEF Owners!Enqueue, Owners!(+), Owners!SetToBag, (+), SetToBag

\* A DEQUEUE gives back one count of each half it names and holds, and of no other.
LEMMA DequeueImplements ==
    ASSUME IInv, OwnersApart, FiniteTable,
           NEW sid \in DOMAIN sessions, NEW r \in Request, dequeue(sid, r)
    PROVE  FiniteTable' /\ Owners!Dequeue(sid, r)
  <1>1. ~closed
    BY DEF dequeue, live
  <1>2. PICK j \in DOMAIN rows :
               /\ Matches(sid, rows[j], r)
               /\ rows' = sweep([rows EXCEPT ![j] = Uncounted(sessions[sid], @, r)])
    BY DEF dequeue, IsFirst
  <1> DEFINE s == sessions[sid]
             w == rows[j]
             u == [rows EXCEPT ![j] = Uncounted(s, @, r)]
             N == Given(s, r, j, w)
             K == (IF TakesDialog(r) /\ HoldsDialog(s, w) THEN {LockOf(s.dialog, r)} ELSE {})
                     \cup (IF TakesUpdate(r) /\ HoldsUpdate(s, w) THEN {LockOf(s.update, r)} ELSE {})
  <1>3. s \in Session /\ s.dialog # s.update
    BY DEF IInv, TypeOK, OwnersApart
  <1>4. \A i \in DOMAIN rows : rows[i] \in Row
    BY DEF IInv, TypeOK
  <1>5. /\ DOMAIN u = DOMAIN rows /\ u[j] = Uncounted(s, w, r)
        /\ \A i \in DOMAIN rows \ {j} : u[i] = rows[i]
    OBVIOUS
  <1>6. /\ w.table = r.table /\ w.arg = garg(r.fields) /\ w.mode = r.mode
        /\ \/ TakesDialog(r) /\ HoldsDialog(s, w)
           \/ TakesUpdate(r) /\ HoldsUpdate(s, w)
    BY <1>2 DEF Matches
  <1>7. /\ w.dialogs > 0 => w.dialog # s.update
        /\ w.updates > 0 => w.update # s.dialog
    BY <1>1, HalfOwners
  <1>8. rows' = sweep(u)
    BY <1>2
  <1>9. \A i \in DOMAIN u : u[i] \in Row
    <2>1. w \in Row
      BY <1>4
    <2> HIDE DEF u, s, w
    <2>2. Uncounted(s, w, r) \in Row
      BY <2>1, UncountedRow
    <2>3. QED
      BY <1>4, <1>5, <2>2
  <1>10. Singles(u) = Singles(rows) \ N /\ N \subseteq Singles(rows)
    <2>1. rows[j] = w
      OBVIOUS
    <2> HIDE DEF u, s, w
    <2>2. QED
      BY <1>3, <1>4, <1>5, <1>6, <1>7, <2>1, UncountedSingles
  <1>11. Singles(rows') = Singles(rows) \ N
    <2> HIDE DEF u, N
    <2>1. QED
      BY <1>8, <1>9, <1>10, SweepKeepsSingles
  <1>12. ASSUME NEW k
         PROVE  k \in K <=> \E c \in N : c[1] = k
    <2>1. PICK dc, uc : /\ dc = <<LockOf(s.dialog, r), j, w.dialogs>>
                        /\ uc = <<LockOf(s.update, r), j, w.updates>>
      OBVIOUS
    <2>2. \A c : c \in N <=> \/ TakesDialog(r) /\ HoldsDialog(s, w) /\ c = dc
                             \/ TakesUpdate(r) /\ HoldsUpdate(s, w) /\ c = uc
      BY <2>1 DEF Given
    <2>3. dc[1] = LockOf(s.dialog, r) /\ uc[1] = LockOf(s.update, r)
      BY <2>1
    <2> HIDE DEF N, s, w
    <2>4. QED
      BY <2>2, <2>3
  <1>13. \A c, d \in N : c[1] = d[1] => c = d
    <2> HIDE DEF s, w
    <2>1. QED
      BY <1>3, DistinctLocks
  <1>14. IsFiniteSet(Singles(rows) \ N)
    BY FS_Difference DEF FiniteTable
  <1>15. K \in SUBSET {Owners!Key(o, r) : o \in Owners!Wanted(sid, r)}
    <2>1. \A o : o \in Owners!Wanted(sid, r) <=>
             (TakesDialog(r) /\ o = s.dialog) \/ (TakesUpdate(r) /\ o = s.update)
      BY SameRequests
    <2>2. \A o : Owners!Key(o, r) = LockOf(o, r)
      BY SameRequests
    <2> HIDE DEF s, w
    <2>3. \A k \in K : \E o \in Owners!Wanted(sid, r) : k = Owners!Key(o, r)
      BY <2>1, <2>2
    <2>4. QED
      BY <2>3
  <1>16. K # {}
    BY <1>6
  <1>17. K \subseteq DOMAIN Held
    <2>1. \A k \in K : \E c \in Singles(rows) : c[1] = k
      BY <1>10, <1>12
    <2>2. \A k : k \in DOMAIN Held <=> \E c \in Singles(rows) : c[1] = k
      BY BagOfHas, Zenon DEF Held
    <2> HIDE DEF K
    <2>3. QED
      BY <2>1, <2>2
  <1> HIDE DEF N, K
  <1>18. BagOf(Singles(rows')) = BagOf(Singles(rows)) (-) SetToBag(K)
    BY <1>10, <1>11, <1>12, <1>13, BagOfTakes DEF FiniteTable
  <1>19. Held' = Held (-) SetToBag(K)
    BY <1>18 DEF Held
  <1>20. FiniteTable'
    BY <1>11, <1>14 DEF FiniteTable
  <1>21. UNCHANGED <<seq, sessions, closed, tasks>>
    BY DEF dequeue
  <1>22. Held' = Owners!(-)(Held, Owners!SetToBag(K))
    BY <1>19 DEF Owners!(-), Owners!SetToBag, (-), SetToBag
  <1>23. K \subseteq Owners!BagToSet(Held)
    BY <1>17 DEF Owners!BagToSet
  <1>24. QED
    BY <1>1, <1>15, <1>16, <1>20, <1>21, <1>22, <1>23 DEF Owners!Dequeue

\* Setting the counts of exactly some owners' halves to zero and sweeping takes
\* these owners out of the bag.
LEMMA ZeroedImplements ==
    ASSUME FiniteTable, NEW STATE t, NEW STATE O, Zeroed(rows, t, O), rows' = sweep(t)
    PROVE  FiniteTable' /\ Held' = Owners!WithoutOwners(O)
  <1> DEFINE T == {c \in Singles(rows) : c[1][1] \notin O}
  <1>1. Singles(t) = T
    <2>1. \A c : c \in Singles(t) <=> c \in Singles(rows) /\ c[1][1] \notin O
      BY ZeroedSingles
    <2>2. QED
      BY <2>1
  <1>2. \A i \in DOMAIN t : t[i] \in Row
    BY DEF Zeroed
  <1>3. Singles(rows') = T
    BY <1>1, <1>2, SweepKeepsSingles
  <1>4. IsFiniteSet(T)
    BY FS_Subset DEF FiniteTable
  <1>5. BagOf(T) = [k \in {d \in DOMAIN BagOf(Singles(rows)) : d[1] \notin O} |-> BagOf(Singles(rows))[k]]
    BY BagOfWithout
  <1>6. Owners!WithoutOwners(O)
            = [k \in {d \in DOMAIN Held : d[1] \notin O} |-> Held[k]]
    BY DEF Owners!WithoutOwners, Owners!BagToSet
  <1> HIDE DEF T
  <1>7. QED
    BY <1>3, <1>4, <1>5, <1>6 DEF Held, FiniteTable

\* release takes both owners of the session out of the bag ...
LEMMA ReleaseImplements ==
    ASSUME IInv, OwnersApart, FiniteTable, ~closed, NEW sid \in DOMAIN sessions,
           rows' = release(sid)
    PROVE  FiniteTable' /\ Held' = Owners!WithoutOwners(Owners!Own(sid))
  <1> DEFINE O == Owners!Own(sid)
             t == [i \in DOMAIN rows |-> ReleasedRow(sid, rows[i])]
  <1>1. O = {sessions[sid].dialog, sessions[sid].update}
    BY SameRequests
  <1>2. ASSUME NEW i \in DOMAIN rows
        PROVE  /\ rows[i] \in Row /\ t[i] \in Row
               /\ t[i].dialog = rows[i].dialog /\ t[i].update = rows[i].update
               /\ t[i].table = rows[i].table /\ t[i].arg = rows[i].arg /\ t[i].mode = rows[i].mode
               /\ rows[i].dialogs > 0 =>
                     t[i].dialogs = IF rows[i].dialog \in O THEN 0 ELSE rows[i].dialogs
               /\ rows[i].updates > 0 =>
                     t[i].updates = IF rows[i].update \in O THEN 0 ELSE rows[i].updates
               /\ rows[i].dialogs = 0 => t[i].dialogs = 0
               /\ rows[i].updates = 0 => t[i].updates = 0
    <2> DEFINE w == rows[i]
               s == sessions[sid]
    <2>1. w \in Row
      BY DEF IInv, TypeOK
    <2>2. /\ w.dialogs > 0 => (w.dialog # s.update /\ (w.dialog = s.dialog <=> w.session = sid))
          /\ w.updates > 0 => (w.update # s.dialog /\ (w.update = s.update => w.session = sid))
      BY HalfOwners
    <2>3. O = {s.dialog, s.update}
      BY <1>1
    <2> DEFINE a == IF w.session = sid /\ w.dialog = s.dialog THEN 0 ELSE w.dialogs
               b == IF w.session = sid /\ w.update = s.update THEN 0 ELSE w.updates
    <2>4. t[i] = [w EXCEPT !.dialogs = a, !.updates = b]
      BY DEF ReleasedRow
    <2> HIDE DEF w, s, t, O
    <2>5. a \in Nat /\ b \in Nat
      BY <2>1 DEF Row
    <2>6. /\ t[i] \in Row
          /\ t[i].dialog = w.dialog /\ t[i].update = w.update
          /\ t[i].table = w.table /\ t[i].arg = w.arg /\ t[i].mode = w.mode
          /\ t[i].dialogs = a /\ t[i].updates = b
      <3> HIDE DEF a, b
      <3>1. QED
        BY <2>1, <2>4, <2>5 DEF Row
    <2>7. /\ w.dialogs > 0 => t[i].dialogs = IF w.dialog \in O THEN 0 ELSE w.dialogs
          /\ w.updates > 0 => t[i].updates = IF w.update \in O THEN 0 ELSE w.updates
          /\ w.dialogs = 0 => t[i].dialogs = 0
          /\ w.updates = 0 => t[i].updates = 0
      <3>1. w.dialogs > 0 => (w.session = sid /\ w.dialog = s.dialog <=> w.dialog \in O)
        BY <2>2, <2>3
      <3>2. w.updates > 0 => (w.session = sid /\ w.update = s.update <=> w.update \in O)
        BY <2>2, <2>3
      <3>3. QED
        BY <2>6, <3>1, <3>2
    <2>8. QED
      BY <2>1, <2>6, <2>7 DEF w
  <1>3. DOMAIN t = DOMAIN rows /\ rows' = sweep(t)
    BY DEF release
  <1> HIDE DEF t, O
  <1>4. FiniteTable' /\ Held' = Owners!WithoutOwners(O)
    <2>1. Zeroed(rows, t, O)
      BY <1>2, <1>3 DEF Zeroed
    <2>2. QED
      BY <1>3, <2>1, ZeroedImplements
  <1>5. QED
    BY <1>4 DEF O

\* ... and releaseUpdate one update owner, whose halves are all of one session.
LEMMA ReleaseUpdateImplements ==
    ASSUME IInv, FiniteTable, NEW sid, NEW owner, rows' = releaseUpdate(sid, owner),
           \A i \in DOMAIN rows :
              /\ rows[i].dialogs > 0 => rows[i].dialog # owner
              /\ rows[i].updates > 0 /\ rows[i].update = owner => rows[i].session = sid
    PROVE  FiniteTable' /\ Held' = Owners!WithoutOwners({owner})
  <1> DEFINE t == [i \in DOMAIN rows |->
                      [rows[i] EXCEPT !.updates = IF rows[i].session = sid /\ rows[i].update = owner
                                                  THEN 0 ELSE @]]
  <1>1. ASSUME NEW i \in DOMAIN rows
        PROVE  /\ rows[i] \in Row /\ t[i] \in Row
               /\ t[i].dialog = rows[i].dialog /\ t[i].update = rows[i].update
               /\ t[i].table = rows[i].table /\ t[i].arg = rows[i].arg /\ t[i].mode = rows[i].mode
               /\ rows[i].dialogs > 0 =>
                     t[i].dialogs = IF rows[i].dialog \in {owner} THEN 0 ELSE rows[i].dialogs
               /\ rows[i].updates > 0 =>
                     t[i].updates = IF rows[i].update \in {owner} THEN 0 ELSE rows[i].updates
               /\ rows[i].dialogs = 0 => t[i].dialogs = 0
               /\ rows[i].updates = 0 => t[i].updates = 0
    <2> DEFINE w == rows[i]
    <2>1. w \in Row
      BY DEF IInv, TypeOK
    <2>2. /\ w.dialogs > 0 => w.dialog # owner
          /\ w.updates > 0 /\ w.update = owner => w.session = sid
      OBVIOUS
    <2>3. t[i] = [w EXCEPT !.updates = IF w.session = sid /\ w.update = owner THEN 0 ELSE @]
      OBVIOUS
    <2> HIDE DEF w, t
    <2>4. /\ t[i] \in Row
          /\ t[i].dialog = w.dialog /\ t[i].update = w.update
          /\ t[i].table = w.table /\ t[i].arg = w.arg /\ t[i].mode = w.mode
          /\ t[i].dialogs = w.dialogs
          /\ t[i].updates = IF w.session = sid /\ w.update = owner THEN 0 ELSE w.updates
      BY <2>1, <2>3 DEF Row
    <2>5. QED
      BY <2>1, <2>2, <2>4 DEF w
  <1>2. DOMAIN t = DOMAIN rows /\ rows' = sweep(t)
    BY DEF releaseUpdate
  <1> HIDE DEF t
  <1>3. QED
    <2>1. Zeroed(rows, t, {owner})
      BY <1>1, <1>2 DEF Zeroed
    <2>2. QED
      BY <1>2, <2>1, ZeroedImplements

\* What rollback releases is the session's alone ...
LEMMA RollbackImplements ==
    ASSUME IInv, OwnersApart, FiniteTable, NEW sid \in DOMAIN sessions, rollback(sid)
    PROVE  FiniteTable' /\ Owners!Rollback(sid)
  <1>1. ~closed /\ rows' = releaseUpdate(sid, sessions[sid].update)
    BY DEF rollback, live
  <1>2. \A i \in DOMAIN rows :
           /\ rows[i].dialogs > 0 => rows[i].dialog # sessions[sid].update
           /\ rows[i].updates > 0 /\ rows[i].update = sessions[sid].update => rows[i].session = sid
    BY <1>1, HalfOwners
  <1>3. FiniteTable' /\ Held' = Owners!WithoutOwners({sessions[sid].update})
    <2>1. PICK owner : owner = sessions[sid].update
      OBVIOUS
    <2>2. FiniteTable' /\ Held' = Owners!WithoutOwners({owner})
      BY <1>1, <1>2, <2>1, ReleaseUpdateImplements
    <2>3. QED
      BY <2>1, <2>2
  <1>4. Owners!NewLuw(sid)
    BY <1>1 DEF Owners!NewLuw, rollback, WithUpdateOwner
  <1>5. QED
    BY <1>3, <1>4 DEF Owners!Rollback, rollback

\* ... and what updateDone releases the update task's, of a session that may be gone.
LEMMA UpdateDoneImplements ==
    ASSUME IInv, OwnersApart, FiniteTable, NEW t \in tasks, updateDone(t)
    PROVE  FiniteTable' /\ Owners!UpdateDone(t)
  <1>1. CASE closed
    <2>1. rows' = rows
      BY <1>1 DEF updateDone
    <2>2. QED
      BY <1>1, <2>1 DEF updateDone, Owners!UpdateDone, Held, FiniteTable
  <1>2. CASE ~closed
    <2>1. rows' = releaseUpdate(t[1], t[2])
      BY <1>2 DEF updateDone
    <2>2. ASSUME NEW i \in DOMAIN rows
          PROVE  /\ rows[i].dialogs > 0 => rows[i].dialog # t[2]
                 /\ rows[i].updates > 0 /\ rows[i].update = t[2] => rows[i].session = t[1]
      <3>1. DialogHalfOwned(rows[i]) /\ UpdateHalfOwned(rows[i])
        BY <1>2 DEF IInv, NoOrphanLock
      <3>2. rows[i].dialogs > 0 => rows[i].dialog # t[2]
        BY <3>1 DEF DialogHalfOwned, OwnersApart
      <3>3. ASSUME rows[i].updates > 0, rows[i].update = t[2]
            PROVE  rows[i].session = t[1]
        <4>1. <<rows[i].session, rows[i].update>> \in tasks
          BY <3>1, <3>3 DEF UpdateHalfOwned, IInv, OwnersDistinct
        <4>2. PICK x \in tasks : x = <<rows[i].session, rows[i].update>>
          BY <4>1
        <4>3. x = t
          BY <3>3, <4>2 DEF OwnersApart
        <4>4. QED
          BY <4>2, <4>3
      <3>4. QED
        BY <3>2, <3>3
    <2>3. FiniteTable' /\ Held' = Owners!WithoutOwners({t[2]})
      <3>1. PICK sid, owner : sid = t[1] /\ owner = t[2]
        OBVIOUS
      <3>2. FiniteTable' /\ Held' = Owners!WithoutOwners({owner})
        BY <2>1, <2>2, <3>1, ReleaseUpdateImplements
      <3>3. QED
        BY <3>1, <3>2
    <2>4. QED
      BY <1>2, <2>3 DEF updateDone, Owners!UpdateDone
  <1>3. QED
    BY <1>1, <1>2

\* The end of a session releases both its owners and leaves its update tasks theirs.
LEMMA EndImplements ==
    ASSUME IInv, OwnersApart, FiniteTable, NEW sid \in DOMAIN sessions, end(sid)
    PROVE  FiniteTable' /\ Owners!End(sid)
  <1>1. CASE closed
    <2>1. rows' = rows
      BY <1>1 DEF end
    <2>2. QED
      BY <1>1, <2>1 DEF end, Owners!End, Held, FiniteTable
  <1>2. CASE ~closed
    <2>1. rows' = release(sid)
      BY <1>2 DEF end
    <2>2. FiniteTable' /\ Held' = Owners!WithoutOwners(Owners!Own(sid))
      BY <1>2, <2>1, ReleaseImplements
    <2>3. QED
      BY <1>2, <2>2 DEF end, Owners!End
  <1>3. QED
    BY <1>1, <1>2

\* Every operation of the table is the operation of the contract.
LEMMA StepImplements ==
    ASSUME IInv, OwnersApart, FiniteTable, [Next]_vars
    PROVE  FiniteTable' /\ [Owners!Next]_(Owners!vars)
  <1>1. CASE open
    <2>1. rows' = rows
      BY <1>1 DEF open
    <2>2. FiniteTable' /\ Held' = Held
      BY <2>1 DEF FiniteTable, Held
    <2>3. Owners!Open
      BY <1>1, <2>2 DEF open, Owners!Open
    <2>4. QED
      BY <2>2, <2>3 DEF Owners!Next
  <1>2. ASSUME NEW sid \in DOMAIN sessions, SessionStep(sid)
        PROVE  FiniteTable' /\ Owners!Next
    <2>1. ASSUME NEW r \in Request, enqueue(sid, r)
          PROVE  FiniteTable' /\ Owners!Next
      <3>1. FiniteTable' /\ Owners!Enqueue(sid, r)
        BY <2>1, EnqueueImplements
      <3>2. QED
        BY <3>1, SameRequests DEF Owners!Next
    <2>2. ASSUME NEW r \in Request, dequeue(sid, r)
          PROVE  FiniteTable' /\ Owners!Next
      <3>1. FiniteTable' /\ Owners!Dequeue(sid, r)
        BY <2>2, DequeueImplements
      <3>2. QED
        BY <3>1, SameRequests DEF Owners!Next
    <2>3. CASE dequeueAll(sid)
      <3>1. ~closed /\ rows' = release(sid)
        BY <2>3 DEF dequeueAll, live
      <3>2. FiniteTable' /\ Held' = Owners!WithoutOwners(Owners!Own(sid))
        BY <3>1, ReleaseImplements
      <3>3. Owners!DequeueAll(sid)
        BY <2>3, <3>1, <3>2 DEF dequeueAll, Owners!DequeueAll
      <3>4. QED
        BY <3>2, <3>3 DEF Owners!Next
    <2>4. CASE rollback(sid)
      BY <2>4, RollbackImplements DEF Owners!Next
    <2>5. CASE commit(sid)
      <3>1. rows' = rows /\ ~closed
        BY <2>5 DEF commit, live
      <3>2. FiniteTable' /\ Held' = Held
        BY <3>1 DEF FiniteTable, Held
      <3>3. Owners!NewLuw(sid)
        BY <2>5, <3>1 DEF commit, Owners!NewLuw, WithUpdateOwner
      <3>4. Owners!Commit(sid)
        BY <2>5, <3>2, <3>3 DEF commit, Owners!Commit
      <3>5. QED
        BY <3>2, <3>4 DEF Owners!Next
    <2>6. CASE end(sid)
      BY <2>6, EndImplements DEF Owners!Next
    <2>7. QED
      BY <1>2, <2>1, <2>2, <2>3, <2>4, <2>5, <2>6 DEF SessionStep
  <1>3. ASSUME NEW t \in tasks, updateDone(t)
        PROVE  FiniteTable' /\ Owners!Next
    BY <1>3, UpdateDoneImplements DEF Owners!Next
  <1>4. CASE close
    <2>1. rows' = rows
      BY <1>4 DEF close
    <2>2. FiniteTable' /\ Held' = Held
      BY <2>1 DEF FiniteTable, Held
    <2>3. Owners!Close
      BY <1>4, <2>2 DEF close, Owners!Close
    <2>4. QED
      BY <2>2, <2>3 DEF Owners!Next
  <1>5. CASE UNCHANGED vars
    <2>1. rows' = rows
      BY <1>5 DEF vars
    <2>2. FiniteTable' /\ Held' = Held
      BY <2>1 DEF FiniteTable, Held
    <2>3. QED
      BY <1>5, <2>2 DEF vars, Owners!vars
  <1>6. QED
    BY <1>1, <1>2, <1>3, <1>4, <1>5 DEF Next

\* The table of rows implements the contract of the owners' bags: every operation
\* changes the bags as the contract says, and tryEnqueue grants what they allow and
\* nothing else.
THEOREM TableImplementsOwners == Spec => ImplementsOwners
  <1>1. Init => Owners!Init /\ OwnersApart /\ FiniteTable
    <2> SUFFICES ASSUME Init PROVE Owners!Init /\ OwnersApart /\ FiniteTable
      OBVIOUS
    <2>1. DOMAIN sessions = {} /\ DOMAIN rows = {} /\ tasks = {}
      BY DEF Init
    <2>2. Singles(rows) = {}
      BY <2>1, SinglesAre
    <2>3. Held = Owners!EmptyBag
      BY <2>2 DEF Held, BagOf, Owners!EmptyBag, Owners!SetToBag
    <2>4. Owners!Init
      BY <2>3 DEF Init, Owners!Init
    <2>5. OwnersApart
      BY <2>1 DEF OwnersApart
    <2>6. FiniteTable
      BY <2>2, FS_EmptySet DEF FiniteTable
    <2>7. QED
      BY <2>4, <2>5, <2>6
  <1>2. IInv /\ OwnersApart /\ FiniteTable /\ [Next]_vars
            => OwnersApart' /\ FiniteTable' /\ [Owners!Next]_(Owners!vars)
    BY OwnersStayApart, StepImplements
  <1>3. IInv /\ OwnersApart => GrantsByOwners
    BY GrantsAsOwners
  <1>4. QED
    BY <1>1, <1>2, <1>3, LockTableInductive, PTL DEF Spec, ImplementsOwners, Owners!Spec

-----------------------------------------------------------------------------
(* Numbers *)

Below == {ss \in Nat \X Nat : ss[1] < ss[2]}

\* The numbers are well ordered, in a form that names no operator.
LEMMA BelowFounded == IsWellFoundedOn(Below, Nat)
  BY NatLessThanWellFounded DEF OpToRel, Below

\* A set of numbers has a least one.
LEMMA Least ==
    ASSUME NEW T \in SUBSET Nat, T # {}
    PROVE  \E x \in T : \A y \in T : x <= y
  <1>1. T \subseteq Nat
    OBVIOUS
  <1>2. PICK x \in T : \A y \in T : ~(<<y, x>> \in Below)
    BY BelowFounded, WFMin, <1>1, Zenon
  <1>3. ASSUME NEW y \in T PROVE x <= y
    <2>1. <<y, x>> \in Nat \X Nat /\ ~(<<y, x>> \in Below)
      BY <1>2
    <2>2. ~(y < x)
      BY <2>1 DEF Below
    <2>3. QED
      BY <2>1, <2>2
  <1>4. QED
    BY <1>3

\* A set of numbers up to n has a greatest one.
LEMMA Greatest ==
    ASSUME NEW n \in Nat, NEW T \in SUBSET (0 .. n), T # {}
    PROVE  \E x \in T : \A y \in T : y <= x
  <1>1. PICK D \in SUBSET Nat : D = {d \in Nat : \E x \in T : d = n - x}
    OBVIOUS
  <1>2. \A x \in T : x \in Nat /\ x <= n
    OBVIOUS
  <1>3. \A x \in T : n - x \in D
    BY <1>1, <1>2
  <1>4. PICK m \in D : \A y \in D : m <= y
    <2>1. D # {}
      BY <1>3
    <2>2. QED
      BY <2>1, Least
  <1>5. PICK x \in T : m = n - x
    BY <1>1
  <1>6. ASSUME NEW y \in T PROVE y <= x
    <2>1. n - y \in D
      BY <1>3
    <2>2. n - x <= n - y
      BY <1>4, <1>5, <2>1
    <2>3. QED
      BY <1>2, <2>2
  <1>7. QED
    BY <1>6

-----------------------------------------------------------------------------
(* Arguments, put together from their fields, position by position *)

\* What FlattenSeq has put together after the first i parts.
IsFlat(f, p, n) == f = [i \in 1 .. n |-> IF i = 1 THEN p[i] ELSE f[i - 1] \o p[i]]

\* There is such a function: the least number of parts without one would follow
\* a number with one.
LEMMA FlatExists ==
    ASSUME NEW p, NEW n \in Nat
    PROVE  \E f : IsFlat(f, p, n)
  <1> DEFINE T == {m \in Nat : ~\E f : IsFlat(f, p, m)}
  <1>1. SUFFICES ASSUME T # {}  PROVE FALSE
    OBVIOUS
  <1>2. PICK m \in T : \A y \in T : m <= y
    BY <1>1, Least
  <1>3. m # 0
    <2>1. PICK f : f = [i \in 1 .. 0 |-> 0]
      OBVIOUS
    <2>2. IsFlat(f, p, 0)
      BY <2>1 DEF IsFlat
    <2>3. QED
      BY <2>2
  <1>4. m - 1 \in Nat /\ m - 1 \notin T
    BY <1>2, <1>3
  <1>5. PICK k \in Nat : k = m - 1
    BY <1>4
  <1>6. PICK f : IsFlat(f, p, k)
    BY <1>4, <1>5
  <1>7. PICK g : g = [i \in 1 .. m |-> IF i = 1 THEN p[i] ELSE f[i - 1] \o p[i]]
    OBVIOUS
  <1>8. \A i \in 1 .. k : g[i] = f[i]
    <2>1. \A i \in 1 .. k : f[i] = IF i = 1 THEN p[i] ELSE f[i - 1] \o p[i]
      BY <1>6 DEF IsFlat
    <2>2. QED
      BY <1>5, <1>7, <2>1
  <1>9. \A i \in 1 .. m : (IF i = 1 THEN p[i] ELSE f[i - 1] \o p[i])
                             = (IF i = 1 THEN p[i] ELSE g[i - 1] \o p[i])
    <2> SUFFICES ASSUME NEW i \in 1 .. m, i # 1  PROVE f[i - 1] = g[i - 1]
      OBVIOUS
    <2>1. i - 1 \in 1 .. k
      BY <1>5
    <2>2. QED
      BY <1>8, <2>1
  <1>10. IsFlat(g, p, m)
    BY <1>7, <1>9 DEF IsFlat
  <1>11. QED
    BY <1>10

\* No parts put together are nothing ...
LEMMA FlattenNone ==
    ASSUME NEW p, Len(p) = 0
    PROVE  FlattenSeq(p) = p
  BY DEF FlattenSeq

\* ... and some are what the last step has put together.
LEMMA FlattenIs ==
    ASSUME NEW p, Len(p) \in Nat \ {0}
    PROVE  \E f : IsFlat(f, p, Len(p)) /\ FlattenSeq(p) = f[Len(p)]
  <1> DEFINE flat == CHOOSE f : f = [i \in 1 .. Len(p) |-> IF i = 1 THEN p[i] ELSE f[i - 1] \o p[i]]
  <1>1. \E f : f = [i \in 1 .. Len(p) |-> IF i = 1 THEN p[i] ELSE f[i - 1] \o p[i]]
    BY FlatExists DEF IsFlat
  <1>2. flat = [i \in 1 .. Len(p) |-> IF i = 1 THEN p[i] ELSE flat[i - 1] \o p[i]]
    BY <1>1, Zenon
  <1>3. FlattenSeq(p) = flat[Len(p)]
    BY DEF FlattenSeq
  <1>4. QED
    BY <1>2, <1>3, Zenon DEF IsFlat

\* Two positions match.
Same(x, y) == x = y \/ x = AnyChar \/ y = AnyChar

\* Two strings of one length match in all positions.
Alike(a, b) == \A i \in 1 .. Len(a) : Same(a[i], b[i])

\* Putting one more part to both of two strings of one length.
LEMMA AppendMatches ==
    ASSUME NEW S, NEW a \in Seq(S), NEW b \in Seq(S), NEW x \in Seq(S), NEW y \in Seq(S),
           Len(a) = Len(b), Len(x) = Len(y)
    PROVE  /\ Len(a \o x) = Len(b \o y)
           /\ Alike(a \o x, b \o y) <=> Alike(a, b) /\ Alike(x, y)
  <1> DEFINE c == a \o x
             d == b \o y
             n == Len(a)
             m == Len(x)
  <1>1. n \in Nat /\ m \in Nat /\ Len(c) = n + m /\ Len(d) = n + m
    <2>1. n \in Nat /\ m \in Nat
      OBVIOUS
    <2>2. Len(c) = Len(a) + Len(x)
      OBVIOUS
    <2>3. Len(d) = Len(b) + Len(y)
      OBVIOUS
    <2>4. QED
      BY <2>1, <2>2, <2>3
  <1>2. \A i \in 1 .. n : c[i] = a[i] /\ d[i] = b[i]
    OBVIOUS
  <1>3. \A i \in 1 .. m : n + i \in 1 .. n + m /\ c[n + i] = x[i] /\ d[n + i] = y[i]
    OBVIOUS
  <1>4. \A i \in 1 .. n + m : i \notin 1 .. n => i - n \in 1 .. m /\ c[i] = x[i - n] /\ d[i] = y[i - n]
    OBVIOUS
  <1>5. Len(c) = Len(d)
    BY <1>1
  <1>6. ASSUME \A i \in 1 .. n + m : Same(c[i], d[i])
        PROVE  (\A i \in 1 .. n : Same(a[i], b[i])) /\ (\A i \in 1 .. m : Same(x[i], y[i]))
    <2> HIDE DEF c, d, n, m
    <2>1. \A i \in 1 .. n : i \in 1 .. n + m
      BY <1>1
    <2>2. QED
      BY <1>2, <1>3, <1>6, <2>1
  <1>7. ASSUME \A i \in 1 .. n : Same(a[i], b[i]), \A i \in 1 .. m : Same(x[i], y[i]),
               NEW i \in 1 .. n + m
        PROVE  Same(c[i], d[i])
    <2> HIDE DEF c, d, n, m
    <2>1. CASE i \in 1 .. n
      BY <1>2, <1>7, <2>1
    <2>2. CASE i \notin 1 .. n
      <3>1. PICK k \in 1 .. m : c[i] = x[k] /\ d[i] = y[k]
        BY <1>4, <2>2
      <3>2. QED
        BY <1>7, <3>1
    <2>3. QED
      BY <2>1, <2>2
  <1> HIDE DEF c, d, n, m
  <1>8. /\ Len(c) = Len(d)
        /\ (\A i \in 1 .. Len(c) : Same(c[i], d[i]))
                 <=> /\ \A i \in 1 .. n : Same(a[i], b[i])
                     /\ \A i \in 1 .. m : Same(x[i], y[i])
    BY <1>1, <1>5, <1>6, <1>7
  <1>9. QED
    BY <1>8 DEF c, d, n, m, Alike

\* Two lists of parts of the same lengths match, put together, when all parts do.
LEMMA FlattenMatches ==
    ASSUME NEW S, NEW p \in Seq(Seq(S)), NEW q \in Seq(Seq(S)), Len(p) = Len(q),
           \A k \in 1 .. Len(p) : Len(p[k]) = Len(q[k])
    PROVE  /\ FlattenSeq(p) \in Seq(S) /\ FlattenSeq(q) \in Seq(S)
           /\ Len(FlattenSeq(p)) = Len(FlattenSeq(q))
           /\ Alike(FlattenSeq(p), FlattenSeq(q)) <=> \A k \in 1 .. Len(p) : Alike(p[k], q[k])
  <1> DEFINE N == Len(p)
  <1>1. N \in Nat /\ \A k \in 1 .. N : p[k] \in Seq(S) /\ q[k] \in Seq(S)
    OBVIOUS
  <1>2. CASE N = 0
    <2>1. p = <<>> /\ q = <<>>
      BY <1>2, EmptySeq
    <2>2. FlattenSeq(p) = p /\ FlattenSeq(q) = q
      <3>1. Len(p) = 0 /\ Len(q) = 0
        BY <1>2
      <3>2. QED
        BY <3>1, FlattenNone
    <2>3. Len(p) = 0 /\ <<>> \in Seq(S) /\ Len(<<>>) = 0
      BY <1>2
    <2>4. Alike(<<>>, <<>>) /\ \A k \in 1 .. Len(p) : Alike(p[k], q[k])
      BY <2>3 DEF Alike
    <2>5. QED
      BY <2>1, <2>2, <2>3, <2>4
  <1>3. CASE N # 0
    <2>1. PICK f : IsFlat(f, p, N) /\ FlattenSeq(p) = f[N]
      BY <1>1, <1>3, FlattenIs
    <2>2. PICK g : IsFlat(g, q, N) /\ FlattenSeq(q) = g[N]
      BY <1>1, <1>3, FlattenIs
    <2> DEFINE Good(m) ==
                  /\ f[m] \in Seq(S) /\ g[m] \in Seq(S)
                  /\ Len(f[m]) = Len(g[m])
                  /\ Alike(f[m], g[m]) <=> \A k \in 1 .. m : Alike(p[k], q[k])
               T == {m \in Nat : m \in 1 .. N /\ ~Good(m)}
    <2>3. f[1] = p[1] /\ g[1] = q[1]
      <3>1. 1 \in 1 .. N
        BY <1>1, <1>3
      <3>2. QED
        BY <2>1, <2>2, <3>1 DEF IsFlat
    <2>4. \A m \in 2 .. N : f[m] = f[m - 1] \o p[m] /\ g[m] = g[m - 1] \o q[m]
      <3> SUFFICES ASSUME NEW m \in 2 .. N
                   PROVE  f[m] = f[m - 1] \o p[m] /\ g[m] = g[m - 1] \o q[m]
        OBVIOUS
      <3>1. m \in 1 .. N /\ m # 1
        BY <1>1
      <3>2. QED
        BY <2>1, <2>2, <3>1 DEF IsFlat
    <2>5. Good(1)
      <3>1. p[1] \in Seq(S) /\ q[1] \in Seq(S) /\ Len(p[1]) = Len(q[1])
        BY <1>1, <1>3
      <3>2. QED
        BY <2>3, <3>1
    <2>6. ASSUME NEW m \in 2 .. N, Good(m - 1)
          PROVE  Good(m)
      <3>1. PICK l \in Nat : l = m - 1
        BY <1>1
      <3>2. /\ f[l] \in Seq(S) /\ g[l] \in Seq(S) /\ Len(f[l]) = Len(g[l])
            /\ Alike(f[l], g[l]) <=> \A k \in 1 .. l : Alike(p[k], q[k])
        BY <2>6, <3>1
      <3>3. f[m] = f[l] \o p[m] /\ g[m] = g[l] \o q[m]
        BY <2>4, <3>1
      <3>4. p[m] \in Seq(S) /\ q[m] \in Seq(S) /\ Len(p[m]) = Len(q[m])
        BY <1>1
      <3>5. /\ Len(f[m]) = Len(g[m])
            /\ Alike(f[m], g[m]) <=> Alike(f[l], g[l]) /\ Alike(p[m], q[m])
        <4>1. PICK a \in Seq(S), b \in Seq(S), x \in Seq(S), y \in Seq(S) :
                 a = f[l] /\ b = g[l] /\ x = p[m] /\ y = q[m]
          BY <3>2, <3>4
        <4>2. Len(a) = Len(b) /\ Len(x) = Len(y)
          BY <3>2, <3>4, <4>1
        <4>3. /\ Len(a \o x) = Len(b \o y)
              /\ Alike(a \o x, b \o y) <=> Alike(a, b) /\ Alike(x, y)
          BY <4>2, AppendMatches
        <4>4. a \o x = f[m] /\ b \o y = g[m]
          BY <3>3, <4>1
        <4>5. QED
          BY <4>1, <4>3, <4>4, Zenon
      <3>6. f[m] \in Seq(S) /\ g[m] \in Seq(S)
        BY <3>2, <3>3, <3>4
      <3>7. (\A k \in 1 .. m : Alike(p[k], q[k]))
                <=> (\A k \in 1 .. l : Alike(p[k], q[k])) /\ Alike(p[m], q[m])
        <4>1. 1 .. m = (1 .. l) \cup {m}
          BY <1>1, <3>1
        <4>2. QED
          BY <4>1
      <3>8. QED
        BY <3>2, <3>5, <3>6, <3>7
    <2> HIDE DEF Good
    <2>7. T = {}
      <3>1. SUFFICES ASSUME T # {}  PROVE FALSE
        OBVIOUS
      <3>2. PICK m \in T : \A y \in T : m <= y
        BY <3>1, Least
      <3>3. m \in 1 .. N /\ ~Good(m) /\ m # 1
        BY <2>5
      <3>4. m \in 2 .. N /\ m - 1 \in 1 .. N /\ m - 1 \notin T
        BY <1>1, <3>2, <3>3
      <3>5. Good(m - 1)
        BY <3>4
      <3>6. QED
        BY <2>6, <3>3, <3>4, <3>5
    <2>8. Good(N)
      <3>1. N \in Nat /\ N \in 1 .. N
        BY <1>1, <1>3
      <3>2. N \notin T
        BY <2>7
      <3>3. QED
        BY <3>1, <3>2
    <2>9. /\ f[N] \in Seq(S) /\ g[N] \in Seq(S) /\ Len(f[N]) = Len(g[N])
          /\ Alike(f[N], g[N]) <=> \A k \in 1 .. N : Alike(p[k], q[k])
      BY <2>8 DEF Good
    <2>10. FlattenSeq(p) = f[N] /\ FlattenSeq(q) = g[N]
      BY <2>1, <2>2
    <2>11. PICK x, y : x = f[N] /\ y = g[N]
      OBVIOUS
    <2>12. FlattenSeq(p) = x /\ FlattenSeq(q) = y
      BY <2>10, <2>11
    <2>13. /\ x \in Seq(S) /\ y \in Seq(S) /\ Len(x) = Len(y)
           /\ Alike(x, y) <=> \A k \in 1 .. Len(p) : Alike(p[k], q[k])
      BY <2>9, <2>11
    <2>14. QED
      BY <2>12, <2>13
  <1>4. QED
    BY <1>2, <1>3

\* The positions of a string that are not blank, and 0.
Filled(a) == {0} \cup {i \in DOMAIN a : a[i] # Blank}

\* Trimmed is what stands up to the last position that is not blank.
LEMMA TrimIs ==
    ASSUME NEW S, NEW a \in Seq(S)
    PROVE  /\ Max(Filled(a)) \in 0 .. Len(a)
           /\ \A i \in 1 .. Len(a) : i > Max(Filled(a)) => a[i] = Blank
           /\ TrimRight(a) = SubSeq(a, 1, Max(Filled(a)))
  <1> DEFINE F == Filled(a)
             m == Max(F)
  <1>1. Len(a) \in Nat /\ DOMAIN a = 1 .. Len(a)
    OBVIOUS
  <1>2. F \in SUBSET (0 .. Len(a)) /\ 0 \in F
    BY <1>1 DEF Filled
  <1>3. \A i \in 1 .. Len(a) : a[i] # Blank => i \in F
    BY <1>1 DEF Filled
  <1> HIDE DEF F
  <1>4. \E x \in F : \A y \in F : y <= x
    BY <1>1, <1>2, Greatest
  <1>5. \E x \in F : \A y \in F : x >= y
    BY <1>1, <1>2, <1>4
  <1>6. m \in F /\ \A y \in F : m >= y
    BY <1>5 DEF Max
  <1>7. TrimRight(a) = SubSeq(a, 1, m)
    BY DEF TrimRight, F, Filled
  <1> HIDE DEF m
  <1>8. m \in 0 .. Len(a)
    BY <1>2, <1>6
  <1>9. \A i \in 1 .. Len(a) : i > m => a[i] = Blank
    BY <1>1, <1>3, <1>6, <1>8
  <1>10. QED
    BY <1>7, <1>8, <1>9 DEF m, F

\* Trimming is not seen by At.
LEMMA TrimAt ==
    ASSUME NEW S, NEW a \in Seq(S)
    PROVE  /\ TrimRight(a) \in Seq(S)
           /\ \A i \in Nat \ {0} : At(TrimRight(a), i) = At(a, i)
  <1>1. PICK m \in 0 .. Len(a) : /\ \A i \in 1 .. Len(a) : i > m => a[i] = Blank
                                 /\ TrimRight(a) = SubSeq(a, 1, m)
    BY TrimIs
  <1>2. /\ SubSeq(a, 1, m) \in Seq(S) /\ DOMAIN SubSeq(a, 1, m) = 1 .. m
        /\ \A i \in 1 .. m : SubSeq(a, 1, m)[i] = a[i]
    OBVIOUS
  <1>3. PICK t : t = TrimRight(a)
    OBVIOUS
  <1>4. t \in Seq(S) /\ DOMAIN t = 1 .. m /\ \A i \in 1 .. m : t[i] = a[i]
    BY <1>1, <1>2, <1>3
  <1>5. ASSUME NEW i \in Nat \ {0}
        PROVE  At(t, i) = At(a, i)
    <2>1. CASE i <= m
      BY <1>4, <2>1 DEF At
    <2>2. CASE i > m /\ i <= Len(a)
      BY <1>1, <1>4, <2>2 DEF At
    <2>3. CASE i > Len(a)
      BY <1>4, <2>3 DEF At
    <2>4. QED
      BY <2>1, <2>2, <2>3
  <1>6. QED
    BY <1>3, <1>4, <1>5

\* Strings with the same characters everywhere are the same when trimmed.
LEMMA TrimEqual ==
    ASSUME NEW S, NEW a \in Seq(S), NEW b \in Seq(S),
           \A i \in Nat \ {0} : At(a, i) = At(b, i)
    PROVE  TrimRight(a) = TrimRight(b)
  <1>1. Filled(a) = Filled(b)
    <2>1. \A i : i \in Filled(a) <=> i = 0 \/ (i \in Nat \ {0} /\ At(a, i) # Blank)
      BY DEF Filled, At
    <2>2. \A i : i \in Filled(b) <=> i = 0 \/ (i \in Nat \ {0} /\ At(b, i) # Blank)
      BY DEF Filled, At
    <2>3. QED
      BY <2>1, <2>2
  <1>2. PICK m : m = Max(Filled(a)) /\ m = Max(Filled(b))
    BY <1>1
  <1>3. m \in 0 .. Len(a) /\ TrimRight(a) = SubSeq(a, 1, m)
    BY <1>2, TrimIs
  <1>4. m \in 0 .. Len(b) /\ TrimRight(b) = SubSeq(b, 1, m)
    BY <1>2, TrimIs
  <1>5. \A i \in 1 .. m : a[i] = b[i]
    <2> SUFFICES ASSUME NEW i \in 1 .. m  PROVE a[i] = b[i]
      OBVIOUS
    <2>1. i \in DOMAIN a /\ i \in DOMAIN b /\ i \in Nat \ {0}
      BY <1>3, <1>4
    <2>2. QED
      BY <2>1 DEF At
  <1>6. SubSeq(a, 1, m) = SubSeq(b, 1, m)
    <2>1. /\ SubSeq(a, 1, m) = [i \in 1 .. m |-> a[i]]
          /\ SubSeq(b, 1, m) = [i \in 1 .. m |-> b[i]]
      BY <1>3, <1>4
    <2>2. QED
      BY <1>5, <2>1
  <1>7. QED
    BY <1>3, <1>4, <1>6

\* collide says that all positions match, also where it takes the shortcut.
LEMMA CollideMeans ==
    ASSUME NEW S, NEW a \in Seq(S), NEW b \in Seq(S)
    PROVE  collide(a, b) <=> \A i \in Nat \ {0} : Same(At(a, i), At(b, i))
  <1>1. DOMAIN a \subseteq Nat \ {0} /\ DOMAIN b \subseteq Nat \ {0}
    OBVIOUS
  <1>2. \A i \in Nat \ {0} : i \notin DOMAIN a \cup DOMAIN b => At(a, i) = At(b, i)
    BY DEF At
  <1>3. CASE ~(Exact(a) /\ Exact(b))
    <2>1. collide(a, b) <=> \A i \in DOMAIN a \cup DOMAIN b : Same(At(a, i), At(b, i))
      BY <1>3 DEF collide, Same
    <2>2. QED
      BY <1>1, <1>2, <2>1 DEF Same
  <1>4. CASE Exact(a) /\ Exact(b)
    <2>1. \A i : At(a, i) # AnyChar /\ At(b, i) # AnyChar
      BY <1>4 DEF Exact, At, Blank, AnyChar
    <2>2. collide(a, b) <=> TrimRight(a) = TrimRight(b)
      BY <1>4 DEF collide
    <2>3. TrimRight(a) = TrimRight(b) <=> \A i \in Nat \ {0} : At(a, i) = At(b, i)
      <3>1. ASSUME TrimRight(a) = TrimRight(b), NEW i \in Nat \ {0}
            PROVE  At(a, i) = At(b, i)
        BY <3>1, TrimAt
      <3>2. QED
        BY <3>1, TrimEqual
    <2>4. QED
      BY <2>1, <2>2, <2>3 DEF Same
  <1>5. QED
    BY <1>3, <1>4

-----------------------------------------------------------------------------
(* Requests and the keys they cover *)

\* What stands in a position of an argument.
Position == Char \cup {Blank, AnyChar}

\* The fields of a request.
LEMMA ListFields ==
    ASSUME NEW fs \in Lists
    PROVE  /\ DOMAIN fs = DOMAIN Lengths
           /\ \A k \in DOMAIN Lengths :
                 /\ fs[k].generic \in BOOLEAN /\ fs[k].value \in Seq(Char)
                 /\ fs[k].length = Lengths[k] /\ Lengths[k] \in Nat
  <1>1. /\ fs \in [DOMAIN Lengths -> UNION {Field(Lengths[i]) : i \in DOMAIN Lengths}]
        /\ \A k \in DOMAIN Lengths : fs[k].length = Lengths[k]
    BY DEF Lists
  <1>2. ASSUME NEW k \in DOMAIN Lengths
        PROVE  /\ fs[k].generic \in BOOLEAN /\ fs[k].value \in Seq(Char)
               /\ fs[k].length = Lengths[k] /\ Lengths[k] \in Nat
    <2>1. fs[k] \in UNION {Field(Lengths[i]) : i \in DOMAIN Lengths}
      BY <1>1
    <2>2. PICK i \in DOMAIN Lengths : fs[k] \in Field(Lengths[i])
      BY <2>1, Zenon
    <2>3. /\ fs[k].generic \in BOOLEAN
          /\ fs[k].value \in BoundedSeq(Char, Lengths[i] + Excess)
      BY <2>2 DEF Field
    <2>4. Lengths[i] + Excess \in Nat /\ Lengths[k] \in Nat
      BY LengthsAssumption, ExcessAssumption
    <2>5. PICK N \in Nat : N = Lengths[i] + Excess
      BY <2>4
    <2>6. \E m \in 0 .. N : fs[k].value \in [1 .. m -> Char]
      BY <2>3, <2>5, Zenon DEF BoundedSeq, SeqOf
    <2>7. fs[k].value \in Seq(Char)
      BY <2>5, <2>6
    <2>8. QED
      BY <1>1, <2>3, <2>4, <2>7
  <1>3. QED
    BY <1>1, <1>2

\* A field that is laid out, generic or not.
LEMMA LaidIs ==
    ASSUME NEW f, f.generic \in BOOLEAN, f.value \in Seq(Char), f.length \in Nat
    PROVE  /\ Laid(f) \in Seq(Position) /\ Len(Laid(f)) = f.length
           /\ Fixed(f) \in [1 .. f.length -> Char \cup {Blank}]
           /\ \A i \in 1 .. f.length : Laid(f)[i] = IF f.generic THEN AnyChar ELSE Fixed(f)[i]
           /\ \A i \in 1 .. f.length : Fixed(f)[i] # AnyChar
  <1>1. \A i \in 1 .. f.length : i <= Len(f.value) => f.value[i] \in Char
    OBVIOUS
  <1>2. Fixed(f) \in [1 .. f.length -> Char \cup {Blank}]
    BY <1>1 DEF Fixed
  <1>3. \A i \in 1 .. f.length : Laid(f)[i] = IF f.generic THEN AnyChar ELSE Fixed(f)[i]
    BY DEF Laid, Fixed
  <1>4. \A i \in 1 .. f.length : Fixed(f)[i] # AnyChar
    BY <1>2, CharAssumption DEF Blank, AnyChar
  <1>5. Laid(f) \in [1 .. f.length -> Position]
    <2>1. Laid(f) = [i \in 1 .. f.length |-> Laid(f)[i]]
      BY DEF Laid
    <2>2. \A i \in 1 .. f.length : Laid(f)[i] \in Position
      BY <1>2, <1>3 DEF Position
    <2>3. QED
      BY <2>1, <2>2
  <1>6. Laid(f) \in Seq(Position) /\ Len(Laid(f)) = f.length
    BY <1>5
  <1>7. QED
    BY <1>2, <1>3, <1>4, <1>6

\* Two fields of one length match when one is generic or both have one value.
LEMMA LaidAlike ==
    ASSUME NEW f, f.generic \in BOOLEAN, f.value \in Seq(Char), f.length \in Nat,
           NEW g, g.generic \in BOOLEAN, g.value \in Seq(Char), g.length = f.length
    PROVE  Alike(Laid(f), Laid(g)) <=> f.generic \/ g.generic \/ Fixed(f) = Fixed(g)
  <1>1. /\ Len(Laid(f)) = f.length
        /\ Fixed(f) \in [1 .. f.length -> Char \cup {Blank}]
        /\ \A i \in 1 .. f.length : Laid(f)[i] = IF f.generic THEN AnyChar ELSE Fixed(f)[i]
        /\ \A i \in 1 .. f.length : Fixed(f)[i] # AnyChar
    BY LaidIs
  <1>2. /\ Fixed(g) \in [1 .. f.length -> Char \cup {Blank}]
        /\ \A i \in 1 .. f.length : Laid(g)[i] = IF g.generic THEN AnyChar ELSE Fixed(g)[i]
        /\ \A i \in 1 .. f.length : Fixed(g)[i] # AnyChar
    BY LaidIs
  <1>3. CASE f.generic \/ g.generic
    BY <1>1, <1>2, <1>3 DEF Alike, Same
  <1>4. CASE ~f.generic /\ ~g.generic
    <2>1. Alike(Laid(f), Laid(g)) <=> \A i \in 1 .. f.length : Fixed(f)[i] = Fixed(g)[i]
      BY <1>1, <1>2, <1>4 DEF Alike, Same
    <2>2. (\A i \in 1 .. f.length : Fixed(f)[i] = Fixed(g)[i]) <=> Fixed(f) = Fixed(g)
      BY <1>1, <1>2
    <2>3. QED
      BY <1>4, <2>1, <2>2
  <1>5. QED
    BY <1>3, <1>4

\* Two requests' arguments collide when all their fields match.
LEMMA GargsCollide ==
    ASSUME NEW fs \in Lists, NEW gs \in Lists
    PROVE  collide(garg(fs), garg(gs)) <=>
              \A k \in DOMAIN Lengths :
                 fs[k].generic \/ gs[k].generic \/ Fixed(fs[k]) = Fixed(gs[k])
  <1> DEFINE p == [i \in DOMAIN fs |-> Laid(fs[i])]
             q == [i \in DOMAIN gs |-> Laid(gs[i])]
             n == Len(Lengths)
  <1>1. n \in Nat /\ DOMAIN Lengths = 1 .. n /\ DOMAIN fs = 1 .. n /\ DOMAIN gs = 1 .. n
    BY LengthsAssumption, ListFields
  <1>2. ASSUME NEW k \in 1 .. n
        PROVE  /\ fs[k].generic \in BOOLEAN /\ fs[k].value \in Seq(Char) /\ fs[k].length \in Nat
               /\ gs[k].generic \in BOOLEAN /\ gs[k].value \in Seq(Char)
               /\ gs[k].length = fs[k].length /\ gs[k].length \in Nat
    BY <1>1, ListFields
  <1>3. ASSUME NEW k \in 1 .. n
        PROVE  /\ p[k] \in Seq(Position) /\ q[k] \in Seq(Position) /\ Len(p[k]) = Len(q[k])
               /\ Alike(p[k], q[k]) <=>
                     fs[k].generic \/ gs[k].generic \/ Fixed(fs[k]) = Fixed(gs[k])
    <2>1. p[k] = Laid(fs[k]) /\ q[k] = Laid(gs[k])
      BY <1>1
    <2>2. PICK f, g : f = fs[k] /\ g = gs[k]
      OBVIOUS
    <2>3. /\ Laid(f) \in Seq(Position) /\ Len(Laid(f)) = f.length
      <3>1. f.generic \in BOOLEAN /\ f.value \in Seq(Char) /\ f.length \in Nat
        BY <1>2, <2>2
      <3>2. QED
        BY <3>1, LaidIs
    <2>4. /\ Laid(g) \in Seq(Position) /\ Len(Laid(g)) = g.length
      <3>1. g.generic \in BOOLEAN /\ g.value \in Seq(Char) /\ g.length \in Nat
        BY <1>2, <2>2
      <3>2. QED
        BY <3>1, LaidIs
    <2>5. Alike(Laid(f), Laid(g)) <=> f.generic \/ g.generic \/ Fixed(f) = Fixed(g)
      <3>1. /\ f.generic \in BOOLEAN /\ f.value \in Seq(Char) /\ f.length \in Nat
            /\ g.generic \in BOOLEAN /\ g.value \in Seq(Char) /\ g.length = f.length
        BY <1>2, <2>2
      <3>2. QED
        BY <3>1, LaidAlike
    <2> HIDE DEF p, q
    <2>6. QED
      BY <1>2, <2>1, <2>2, <2>3, <2>4, <2>5
  <1>4. p \in Seq(Seq(Position)) /\ q \in Seq(Seq(Position)) /\ Len(p) = n /\ Len(q) = n
    <2>1. p \in [1 .. n -> Seq(Position)] /\ q \in [1 .. n -> Seq(Position)]
      <3>1. /\ p = [k \in 1 .. n |-> p[k]] /\ q = [k \in 1 .. n |-> q[k]]
        BY <1>1
      <3> HIDE DEF p, q
      <3>2. QED
        BY <1>3, <3>1
    <2> HIDE DEF p, q, n
    <2>2. \A S, s : s \in [1 .. n -> S] => s \in Seq(S) /\ Len(s) = n
      BY <1>1
    <2>3. QED
      BY <2>1, <2>2, Zenon
  <1>5. garg(fs) = TrimRight(FlattenSeq(p)) /\ garg(gs) = TrimRight(FlattenSeq(q))
    BY DEF garg
  <1> HIDE DEF p, q
  <1>6. PICK a, b : a = FlattenSeq(p) /\ b = FlattenSeq(q)
    OBVIOUS
  <1>7. /\ a \in Seq(Position) /\ b \in Seq(Position) /\ Len(a) = Len(b)
        /\ Alike(a, b) <=> \A k \in 1 .. n : Alike(p[k], q[k])
    BY <1>3, <1>4, <1>6, FlattenMatches
  <1>8. PICK ta, tb : ta = TrimRight(a) /\ tb = TrimRight(b)
    OBVIOUS
  <1>9. /\ ta \in Seq(Position) /\ tb \in Seq(Position)
        /\ \A i \in Nat \ {0} : At(ta, i) = At(a, i) /\ At(tb, i) = At(b, i)
    BY <1>7, <1>8, TrimAt
  <1>10. collide(ta, tb) <=> \A i \in Nat \ {0} : Same(At(ta, i), At(tb, i))
    BY <1>9, CollideMeans
  <1>11. (\A i \in Nat \ {0} : Same(At(a, i), At(b, i))) <=> Alike(a, b)
    <2>1. DOMAIN a = 1 .. Len(a) /\ DOMAIN b = 1 .. Len(a) /\ Len(a) \in Nat
      BY <1>7
    <2>2. \A i \in Nat \ {0} : i \notin 1 .. Len(a) => Same(At(a, i), At(b, i))
      BY <2>1 DEF At, Same
    <2>3. \A i \in 1 .. Len(a) : At(a, i) = a[i] /\ At(b, i) = b[i]
      BY <2>1 DEF At
    <2>4. QED
      BY <2>1, <2>2, <2>3 DEF Alike
  <1>12. collide(garg(fs), garg(gs)) <=> Alike(a, b)
    BY <1>5, <1>6, <1>8, <1>9, <1>10, <1>11
  <1>13. QED
    BY <1>1, <1>3, <1>7, <1>12

\* Two requests cover a common key when all their fields agree on it.
LEMMA CommonKey ==
    ASSUME NEW fs \in Lists, NEW gs \in Lists
    PROVE  (\E key \in FullKeys : Covers(fs, key) /\ Covers(gs, key)) <=>
              \A k \in DOMAIN Lengths :
                 fs[k].generic \/ gs[k].generic \/ Fixed(fs[k]) = Fixed(gs[k])
  <1>1. DOMAIN fs = DOMAIN Lengths /\ DOMAIN gs = DOMAIN Lengths
    BY ListFields
  <1>2. ASSUME NEW key \in FullKeys, Covers(fs, key), Covers(gs, key), NEW k \in DOMAIN Lengths
        PROVE  fs[k].generic \/ gs[k].generic \/ Fixed(fs[k]) = Fixed(gs[k])
    BY <1>1, <1>2 DEF Covers
  <1>3. ASSUME \A k \in DOMAIN Lengths :
                  fs[k].generic \/ gs[k].generic \/ Fixed(fs[k]) = Fixed(gs[k])
        PROVE  \E key \in FullKeys : Covers(fs, key) /\ Covers(gs, key)
    <2>1. PICK key : key = [k \in DOMAIN Lengths |->
                               IF fs[k].generic THEN Fixed(gs[k]) ELSE Fixed(fs[k])]
      OBVIOUS
    <2>2. ASSUME NEW k \in DOMAIN Lengths
          PROVE  key[k] \in FieldValues(Lengths[k]) /\ DOMAIN key[k] = 1 .. Lengths[k]
      <3>1. PICK f : f \in {fs[k], gs[k]} /\ key[k] = Fixed(f)
        BY <2>1
      <3>2. f.generic \in BOOLEAN /\ f.value \in Seq(Char) /\ f.length = Lengths[k] /\ f.length \in Nat
        BY <3>1, ListFields
      <3>3. Fixed(f) \in [1 .. f.length -> Char \cup {Blank}]
        BY <3>2, LaidIs
      <3>4. QED
        BY <3>1, <3>2, <3>3 DEF FieldValues
    <2>3. key \in [DOMAIN Lengths -> UNION {FieldValues(Lengths[i]) : i \in DOMAIN Lengths}]
      <3>1. \A k \in DOMAIN Lengths :
               key[k] \in UNION {FieldValues(Lengths[i]) : i \in DOMAIN Lengths}
        BY <2>2, Zenon
      <3>2. QED
        BY <2>1, <3>1
    <2>4. key \in FullKeys
      BY <2>2, <2>3 DEF FullKeys
    <2>5. Covers(fs, key) /\ Covers(gs, key)
      BY <1>1, <1>3, <2>1 DEF Covers
    <2>6. QED
      BY <2>4, <2>5
  <1>4. QED
    BY <1>2, <1>3

\* For every key of any fields: two arguments collide exactly when the requests
\* have a key in common.
THEOREM ArgumentsCollideOnCommonKeys == PairSpec => []CollideIsCommonKey
  <1> DEFINE Requests == one \in Lists /\ other \in Lists
  <1>1. PairInit => Requests
    BY DEF PairInit
  <1>2. Requests /\ [PairNext]_pair => Requests'
    BY DEF PairNext, pair
  <1>3. Requests => CollideIsCommonKey
    BY GargsCollide, CommonKey DEF CollideIsCommonKey
  <1>4. QED
    BY <1>1, <1>2, <1>3, PTL DEF PairSpec
==============================================================================
