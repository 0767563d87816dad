---------------------------- MODULE EnqHostProofs ----------------------------
(***************************************************************************)
(* The hosts neither lose a lock session nor end one under a step, for any *)
(* steps, keys and number of sessions.                                     *)
(***************************************************************************)
EXTENDS EnqHost, FiniteSetTheorems, TLAPS

-----------------------------------------------------------------------------
(* The inductive invariant *)

\* The types of what the steps are at, and who of them has the work process.
StepsTyped ==
    /\ running \in Steps \cup {None}
    /\ pc \in [Steps -> {"idle", "running", "asleep", "waiting", "failing"}]
    /\ tries \in [Steps -> 0 .. WAIT_TRIES] /\ wants \in [Steps -> Scope \cup {{}}]
    /\ \A t \in Steps : pc[t] \in {"running", "failing"} <=> running = t

\* The types of what the hosts and the lock server keep.
HostTyped ==
    /\ bound \in [Steps -> Keys \cup {None}] /\ pinned \in [Steps -> Sids \cup {0}]
    /\ DOMAIN sessions \subseteq Keys \cup Steps
    /\ DOMAIN pins \subseteq Sids
    /\ DOMAIN doomed \subseteq Sids /\ \A sid \in DOMAIN doomed : doomed[sid] \in Keys
    /\ ended \subseteq Keys /\ updated \subseteq Sids
    /\ DOMAIN locks \subseteq DOMAIN keyOf /\ \A sid \in DOMAIN locks : locks[sid] \subseteq Halves
    /\ keyOf \in Seq(Keys \cup Steps) /\ DOMAIN keyOf \subseteq Sids
    /\ told \in [Sids -> Nat]

PinnedTo(sid) == {t \in Steps : pinned[t] = sid}

\* pins, for the steps that are pinned, whether they are in progress or not.
PinsExact == \A sid \in Sids : At(pins, sid, 0) = Cardinality(PinnedTo(sid))

\* A step that is bound is pinned to a session of its key, has none of its own, and is in
\* progress; so is a step that has a session of its own.
PinOfKey ==
    \A t \in Steps :
        /\ pinned[t] = 0 <=> bound[t] = None
        /\ pinned[t] # 0 =>
              /\ pinned[t] \in DOMAIN keyOf /\ keyOf[pinned[t]] = bound[t]
              /\ t \notin DOMAIN sessions
              /\ pinned[t] \in DOMAIN locks \/ pinned[t] \in byHost
        /\ pinned[t] # 0 \/ t \in DOMAIN sessions => InProgress(t)

\* The session of a key or a step is open and was opened for it.
SessionsOpen ==
    \A k \in DOMAIN sessions : sessions[k] \in DOMAIN locks /\ keyOf[sessions[k]] = k

\* A session that is doomed is open, is no key's any more, and some step is pinned to it.
DoomedHeld ==
    \A sid \in DOMAIN doomed :
        /\ sid \in DOMAIN locks /\ keyOf[sid] = doomed[sid]
        /\ \A k \in DOMAIN sessions : sessions[k] # sid
        /\ PinnedTo(sid) # {}

\* Every open session is doomed or that of its key, which is not ended.
OpenKnown ==
    \A sid \in DOMAIN locks :
        /\ keyOf[sid] \notin ended
        /\ sid \in DOMAIN doomed \/ (keyOf[sid] \in DOMAIN sessions /\ sessions[keyOf[sid]] = sid)

\* A session a host ended was open once, and no session is told of before it was opened.
EndsKnown ==
    /\ \A sid \in byHost : sid \in DOMAIN keyOf /\ sid \notin DOMAIN locks
    /\ EndToldOnce
    /\ \A sid \in Sids \ DOMAIN keyOf : told[sid] = 0

HInv ==
    /\ HostTyped /\ PinsExact /\ PinOfKey /\ SessionsOpen /\ DoomedHeld /\ OpenKnown /\ EndsKnown
IInv == StepsTyped /\ HInv

-----------------------------------------------------------------------------
(* The maps the hosts keep *)

\* Map.set: the entry is there, the other keys keep their values.
LEMMA MapSet ==
    ASSUME NEW f, NEW x, NEW v
    PROVE  /\ DOMAIN With(f, x, v) = DOMAIN f \cup {x} /\ With(f, x, v)[x] = v
           /\ \A y \in DOMAIN f : y # x => With(f, x, v)[y] = f[y]
BY DEF With

\* Map.delete: the other keys keep their values.
LEMMA MapDelete ==
    ASSUME NEW f, NEW x
    PROVE  /\ DOMAIN Without(f, x) = DOMAIN f \ {x}
           /\ \A y \in DOMAIN f : y # x => Without(f, x)[y] = f[y]
BY DEF Without

\* The steps pinned to a session are finitely many, and counted by a number.
LEMMA PinnedFinite ==
    ASSUME NEW sid
    PROVE  /\ IsFiniteSet(PinnedTo(sid)) /\ Cardinality(PinnedTo(sid)) \in Nat
           /\ Cardinality(PinnedTo(sid)) = 0 <=> PinnedTo(sid) = {}
<1>1. PinnedTo(sid) \subseteq Steps
  BY DEF PinnedTo
<1>2. IsFiniteSet(PinnedTo(sid))
  BY <1>1, StepsFinite, FS_Subset
<1> QED
  BY <1>2, FS_CardinalityType, FS_EmptySet

\* The count when a step leaves the session it is pinned to: unpin lowers it by one, or
\* deletes it with the last step, and the last step is the only one pinned.
LEMMA CountOut ==
    ASSUME HostTyped, PinsExact, NEW t \in Steps, pinned[t] \in Sids
    PROVE  /\ DOMAIN Unpinned(pinned[t]) \subseteq DOMAIN pins
           /\ \A x \in Sids : At(Unpinned(pinned[t]), x, 0) = Cardinality(PinnedTo(x) \ {t})
           /\ LastOut(pinned[t]) <=> PinnedTo(pinned[t]) = {t}
<1> DEFINE s == pinned[t]
<1>1. t \in PinnedTo(s) /\ \A x \in Sids : x # s => t \notin PinnedTo(x)
  BY DEF PinnedTo
<1>2. /\ IsFiniteSet(PinnedTo(s)) /\ Cardinality(PinnedTo(s)) \in Nat
      /\ Cardinality(PinnedTo(s)) # 0
  BY <1>1, PinnedFinite
<1>3. Cardinality(PinnedTo(s) \ {t}) = Cardinality(PinnedTo(s)) - 1
  BY <1>1, <1>2, FS_RemoveElement
<1>4. At(pins, s, 0) = Cardinality(PinnedTo(s)) /\ s \in DOMAIN pins /\ pins[s] = Cardinality(PinnedTo(s))
  BY <1>2 DEF PinsExact, At
<1>5. At(pins, s, 1) = Cardinality(PinnedTo(s))
  BY <1>4 DEF At
<1>6. Cardinality(PinnedTo(s)) = 1 <=> PinnedTo(s) = {t}
  <2>1. ASSUME Cardinality(PinnedTo(s)) = 1 PROVE PinnedTo(s) = {t}
    <3>1. IsFiniteSet(PinnedTo(s) \ {t}) /\ Cardinality(PinnedTo(s) \ {t}) = 0
      BY <1>2, <1>3, <2>1, FS_Subset
    <3>2. PinnedTo(s) \ {t} = {}
      BY <3>1, FS_EmptySet
    <3> QED
      BY <3>2, <1>1
  <2> QED
    BY <2>1, FS_Singleton
<1>7. ASSUME NEW x \in Sids PROVE At(Unpinned(s), x, 0) = Cardinality(PinnedTo(x) \ {t})
  <2>1. At(pins, x, 0) = Cardinality(PinnedTo(x))
    BY DEF PinsExact
  <2>2. x # s => PinnedTo(x) \ {t} = PinnedTo(x)
    BY <1>1
  <2>3. CASE At(pins, s, 1) > 1
    <3>1. Unpinned(s) = [pins EXCEPT ![s] = @ - 1]
      BY <2>3 DEF Unpinned
    <3> QED
      BY <3>1, <2>1, <2>2, <1>3, <1>4 DEF At
  <2>4. CASE ~(At(pins, s, 1) > 1)
    <3>1. Unpinned(s) = Without(pins, s)
      BY <2>4 DEF Unpinned
    <3>2. Cardinality(PinnedTo(s)) = 1
      BY <2>4, <1>5, <1>2
    <3>3. At(Unpinned(s), x, 0) = IF x = s THEN 0 ELSE At(pins, x, 0)
      BY <3>1 DEF At, Without
    <3> QED
      BY <3>2, <3>3, <2>1, <2>2, <1>3
  <2> QED
    BY <2>3, <2>4
<1>8. DOMAIN Unpinned(s) \subseteq DOMAIN pins
  BY DEF Unpinned, Without
<1> QED
  BY <1>5, <1>6, <1>7, <1>8 DEF LastOut

\* p counts the steps pinned to each session, step t left out.
CountsOthers(p, t) == \A x \in Sids : At(p, x, 0) = Cardinality(PinnedTo(x) \ {t})

\* ... and step t counted for session s.
CountsAlso(p, s, t) ==
    /\ At(p, s, 0) = Cardinality((PinnedTo(s) \ {t}) \cup {t})
    /\ \A x \in Sids \ {s} : At(p, x, 0) = Cardinality(PinnedTo(x) \ {t})

\* The count when a step that is pinned to nothing else is pinned to a session.
LEMMA CountIn ==
    ASSUME NEW p, NEW s \in Sids, NEW t \in Steps, CountsOthers(p, t)
    PROVE  /\ DOMAIN Pinned(p, s) = DOMAIN p \cup {s}
           /\ CountsAlso(Pinned(p, s), s, t)
<1>1. DOMAIN Pinned(p, s) = DOMAIN p \cup {s}
  BY MapSet DEF Pinned
<1>2. \A x \in Sids : At(Pinned(p, s), x, 0) = IF x = s THEN At(p, s, 0) + 1 ELSE At(p, x, 0)
  BY DEF Pinned, With, At
<1>3. IsFiniteSet(PinnedTo(s) \ {t}) /\ t \notin PinnedTo(s) \ {t}
  BY PinnedFinite, FS_Subset
<1>4. Cardinality((PinnedTo(s) \ {t}) \cup {t}) = Cardinality(PinnedTo(s) \ {t}) + 1
  BY <1>3, FS_AddElement
<1> QED
  BY <1>1, <1>2, <1>4 DEF CountsOthers, CountsAlso

-----------------------------------------------------------------------------
(* Opening a session *)

\* What sessionOf leaves behind for key k, s being the session the key has then.
OpensAs(k, s) ==
    /\ s \in Sids /\ s \notin byHost /\ s \notin DOMAIN doomed
    /\ s \in DOMAIN keyOf => s \in DOMAIN locks
    /\ s \notin DOMAIN keyOf => told[s] = 0
    /\ DOMAIN sessions' = DOMAIN sessions \cup {k} /\ sessions'[k] = s
    /\ \A j \in DOMAIN sessions : sessions'[j] = sessions[j]
    /\ keyOf' \in Seq(Keys \cup Steps)
    /\ DOMAIN keyOf' = DOMAIN keyOf \cup {s} /\ DOMAIN keyOf' \subseteq Sids
    /\ keyOf'[s] = k /\ \A x \in DOMAIN keyOf : keyOf'[x] = keyOf[x]

\* sessionOf gives a key its session: the one it has, or the next number.
LEMMA Opens ==
    ASSUME HInv, NEW k \in Keys \cup Steps, CanOpen(k), Opened(k)
    PROVE  /\ OpensAs(k, SessionOf(k))
           /\ DOMAIN LocksWith(k) = DOMAIN locks \cup {SessionOf(k)}
           /\ \A x \in DOMAIN LocksWith(k) : LocksWith(k)[x] \subseteq Halves
<1> USE DEF HInv
<1>1. CASE k \in DOMAIN sessions
  <2> DEFINE s == sessions[k]
  <2>1. SessionOf(k) = s /\ LocksWith(k) = locks /\ sessions' = sessions /\ keyOf' = keyOf
    BY <1>1 DEF SessionOf, At, LocksWith, Opened
  <2>2. s \in DOMAIN locks /\ keyOf[s] = k /\ s \in DOMAIN keyOf /\ s \in Sids
    BY <1>1 DEF SessionsOpen, HostTyped
  <2>3. s \notin byHost /\ s \notin DOMAIN doomed
    BY <1>1, <2>2 DEF EndsKnown, DoomedHeld
  <2> QED
    BY <1>1, <2>1, <2>2, <2>3 DEF OpensAs, HostTyped
<1>2. CASE k \notin DOMAIN sessions
  <2> DEFINE s == Len(keyOf) + 1
  <2>1. SessionOf(k) = s /\ LocksWith(k) = With(locks, s, {})
    BY <1>2 DEF SessionOf, At, LocksWith, NextSid
  <2>2. sessions' = With(sessions, k, s) /\ keyOf' = Append(keyOf, k)
    BY <1>2 DEF Opened, NextSid
  <2>3. keyOf \in Seq(Keys \cup Steps) /\ DOMAIN keyOf = 1 .. Len(keyOf) /\ Len(keyOf) \in Nat
    BY DEF HostTyped
  <2>4. s \in Sids /\ s \notin DOMAIN keyOf
    BY <1>2, <2>3, HostBounds DEF CanOpen, NextSid, Sids
  <2>5. s \notin byHost /\ s \notin DOMAIN doomed /\ told[s] = 0
    BY <2>4 DEF EndsKnown, DoomedHeld, HostTyped
  <2>6. /\ keyOf' \in Seq(Keys \cup Steps) /\ DOMAIN keyOf' = DOMAIN keyOf \cup {s}
        /\ keyOf'[s] = k /\ \A x \in DOMAIN keyOf : keyOf'[x] = keyOf[x]
    BY <2>2, <2>3
  <2>7. DOMAIN keyOf' \subseteq Sids
    BY <2>4, <2>6 DEF HostTyped
  <2>8. /\ DOMAIN sessions' = DOMAIN sessions \cup {k} /\ sessions'[k] = s
        /\ \A j \in DOMAIN sessions : sessions'[j] = sessions[j]
    BY <1>2, <2>2 DEF With
  <2>9. /\ DOMAIN LocksWith(k) = DOMAIN locks \cup {s}
        /\ \A x \in DOMAIN LocksWith(k) : LocksWith(k)[x] \subseteq Halves
    BY <2>1 DEF With, HostTyped
  <2> HIDE DEF s
  <2> QED
    BY <2>1, <2>4, <2>5, <2>6, <2>7, <2>8, <2>9 DEF OpensAs
<1> QED
  BY <1>1, <1>2

\* A step of the model that leaves the hosts' maps as they are, and changes at most what
\* is held, keeps the invariant of the hosts.
LEMMA QuietKeeps ==
    ASSUME HInv, UNCHANGED <<bound, pinned, sessions, pins, doomed, keyOf, byHost, told>>,
           ended' \subseteq ended, updated' \subseteq Sids,
           DOMAIN locks' = DOMAIN locks, \A sid \in DOMAIN locks : locks'[sid] \subseteq Halves,
           \A t \in Steps : InProgress(t) => InProgress(t)'
    PROVE  HInv'
<1> USE DEF HInv
<1>1. HostTyped'
  BY DEF HostTyped
<1>2. PinsExact'
  BY DEF PinsExact, PinnedTo, At
<1>3. PinOfKey' /\ SessionsOpen' /\ OpenKnown'
  BY DEF PinOfKey, SessionsOpen, OpenKnown
<1>4. DoomedHeld'
  BY DEF DoomedHeld, PinnedTo
<1>5. EndsKnown'
  BY DEF EndsKnown, EndToldOnce
<1> QED
  BY <1>1, <1>2, <1>3, <1>4, <1>5

\* A step of the model that opens the session of a key, or of an unbound step, keeps the
\* invariant of the hosts, whatever the lock server grants it.
LEMMA OpenKeeps ==
    ASSUME HInv, NEW k \in Keys \cup Steps, k \notin ended, CanOpen(k), Opened(k),
           k \in Steps => bound[k] = None /\ InProgress(k),
           UNCHANGED <<bound, pinned, pins, doomed, ended, byHost, told>>, updated' \subseteq Sids,
           DOMAIN locks' = DOMAIN LocksWith(k), \A sid \in DOMAIN locks' : locks'[sid] \subseteq Halves,
           \A t \in Steps : InProgress(t) => InProgress(t)'
    PROVE  HInv'
<1> USE DEF HInv
<1>0. PICK s : s = SessionOf(k)
  OBVIOUS
<1>1. OpensAs(k, s) /\ DOMAIN locks' = DOMAIN locks \cup {s}
  BY <1>0, Opens
<1>2. s \in DOMAIN keyOf => keyOf[s] = k
  BY <1>1 DEF OpensAs
<1>3. HostTyped'
  BY <1>1 DEF HostTyped, OpensAs
<1>4. PinsExact'
  BY DEF PinsExact, PinnedTo, At
<1>5. PinOfKey'
  BY <1>1 DEF PinOfKey, OpensAs
<1>6. SessionsOpen'
  <2>1. ASSUME NEW j \in DOMAIN sessions' PROVE sessions'[j] \in DOMAIN locks' /\ keyOf'[sessions'[j]] = j
    <3>1. CASE j = k
      BY <3>1, <1>1 DEF OpensAs
    <3>2. CASE j # k
      <4>1. j \in DOMAIN sessions /\ sessions'[j] = sessions[j]
        BY <3>2, <1>1 DEF OpensAs
      <4>2. sessions[j] \in DOMAIN locks /\ keyOf[sessions[j]] = j /\ sessions[j] \in DOMAIN keyOf
        BY <4>1 DEF SessionsOpen, HostTyped
      <4> QED
        BY <4>1, <4>2, <1>1 DEF OpensAs
    <3> QED
      BY <3>1, <3>2
  <2> QED
    BY <2>1 DEF SessionsOpen
<1>7. DoomedHeld'
  <2>1. ASSUME NEW x \in DOMAIN doomed
        PROVE  x \in DOMAIN locks' /\ keyOf'[x] = doomed[x] /\ \A j \in DOMAIN sessions' : sessions'[j] # x
    <3>1. x \in DOMAIN locks /\ keyOf[x] = doomed[x] /\ x \in DOMAIN keyOf
      BY DEF DoomedHeld, HostTyped
    <3>2. \A j \in DOMAIN sessions : sessions[j] # x
      BY DEF DoomedHeld
    <3> QED
      BY <3>1, <3>2, <1>1 DEF OpensAs
  <2>2. \A x \in DOMAIN doomed : PinnedTo(x)' # {}
    BY DEF DoomedHeld, PinnedTo
  <2> QED
    BY <2>1, <2>2 DEF DoomedHeld
<1>8. OpenKnown'
  <2>1. ASSUME NEW x \in DOMAIN locks'
        PROVE  /\ keyOf'[x] \notin ended
               /\ x \in DOMAIN doomed \/ (keyOf'[x] \in DOMAIN sessions' /\ sessions'[keyOf'[x]] = x)
    <3>1. CASE x = s
      BY <3>1, <1>1 DEF OpensAs
    <3>2. CASE x # s
      <4>1. x \in DOMAIN locks /\ x \in DOMAIN keyOf /\ keyOf'[x] = keyOf[x]
        BY <3>2, <1>1 DEF OpensAs, HostTyped
      <4> QED
        BY <4>1, <1>1 DEF OpensAs, OpenKnown
    <3> QED
      BY <3>1, <3>2
  <2> QED
    BY <2>1 DEF OpenKnown
<1>9. EndsKnown'
  <2>1. \A x \in byHost : x \in DOMAIN keyOf' /\ x \notin DOMAIN locks'
    BY <1>1 DEF EndsKnown, OpensAs
  <2>2. EndToldOnce'
    <3>1. ASSUME NEW x \in DOMAIN keyOf', keyOf'[x] \in Keys
          PROVE  told[x] = IF x \in DOMAIN locks' \/ x \in byHost THEN 0 ELSE 1
      <4>1. CASE x \in DOMAIN keyOf
        BY <4>1, <3>1, <1>1 DEF OpensAs, EndsKnown, EndToldOnce
      <4>2. CASE x \notin DOMAIN keyOf
        BY <4>2, <3>1, <1>1 DEF OpensAs
      <4> QED
        BY <4>1, <4>2
    <3> QED
      BY <3>1 DEF EndToldOnce
  <2>3. \A x \in Sids \ DOMAIN keyOf' : told[x] = 0
    BY <1>1 DEF EndsKnown, OpensAs
  <2> QED
    BY <2>1, <2>2, <2>3 DEF EndsKnown
<1> QED
  BY <1>3, <1>4, <1>5, <1>6, <1>7, <1>8, <1>9

-----------------------------------------------------------------------------
(* A step ends *)

\* The end of a step that was not bound ends its own session, if it opened one.
LEMMA EndOwnKeeps ==
    ASSUME HInv, NEW t \in Steps, bound[t] = None, EndOwn(t),
           \A u \in Steps \ {t} : InProgress(u) => InProgress(u)'
    PROVE  HInv'
<1> USE DEF HInv
<1>0. PICK s : s = At(sessions, t, 0)
  OBVIOUS
<1>1. /\ DOMAIN locks' = DOMAIN locks \ {s} /\ \A x \in DOMAIN locks' : locks'[x] = locks[x]
      /\ updated' \subseteq updated
      /\ DOMAIN sessions' = DOMAIN sessions \ {t}
      /\ \A k \in DOMAIN sessions' : sessions'[k] = sessions[k]
      /\ UNCHANGED <<bound, pinned, pins, doomed, ended, keyOf, byHost, told>>
  BY <1>0 DEF EndOwn, Without
<1>2. pinned[t] = 0 /\ t \notin Keys
  BY KeysAssumption DEF PinOfKey
<1>3. CASE t \in DOMAIN sessions
  <2>1. s = sessions[t] /\ s \in DOMAIN locks /\ keyOf[s] = t /\ s \notin DOMAIN doomed
    BY <1>0, <1>3 DEF At, SessionsOpen, DoomedHeld
  <2>2. HostTyped' /\ PinsExact'
    BY <1>1 DEF HostTyped, PinsExact, PinnedTo, At
  <2>3. \A u \in Steps : pinned[u] # 0 => pinned[u] # s
    BY <1>2, <2>1, KeysAssumption DEF PinOfKey, HostTyped
  <2>4. PinOfKey'
    BY <1>1, <1>2, <2>3 DEF PinOfKey
  <2>5. SessionsOpen' /\ OpenKnown'
    BY <1>1, <2>1 DEF SessionsOpen, OpenKnown
  <2>6. DoomedHeld'
    BY <1>1, <2>1 DEF DoomedHeld, PinnedTo
  <2>7. EndsKnown'
    BY <1>1, <1>2, <2>1 DEF EndsKnown, EndToldOnce
  <2> QED
    BY <2>2, <2>4, <2>5, <2>6, <2>7
<1>4. CASE t \notin DOMAIN sessions
  <2>1. s = 0 /\ s \notin DOMAIN locks
    BY <1>0, <1>4 DEF At, HostTyped, Sids
  <2>2. DOMAIN locks' = DOMAIN locks /\ DOMAIN sessions' = DOMAIN sessions
    BY <1>1, <1>4, <2>1
  <2>3. HostTyped' /\ PinsExact'
    BY <1>1 DEF HostTyped, PinsExact, PinnedTo, At
  <2>4. PinOfKey'
    BY <1>1, <1>2, <1>4, <2>2 DEF PinOfKey
  <2>5. SessionsOpen' /\ OpenKnown' /\ EndsKnown'
    BY <1>1, <2>2 DEF SessionsOpen, OpenKnown, EndsKnown, EndToldOnce
  <2>6. DoomedHeld'
    BY <1>1, <2>2 DEF DoomedHeld, PinnedTo
  <2> QED
    BY <2>3, <2>4, <2>5, <2>6
<1> QED
  BY <1>3, <1>4

\* The session of the step's key is the one it is pinned to: then the key is not ended,
\* the session open, and neither doomed nor ended by the host.
LEMMA ItsKey ==
    ASSUME HInv, NEW t \in Steps, bound[t] # None
    PROVE  /\ bound[t] \in Keys /\ pinned[t] \in Sids /\ pinned[t] \in DOMAIN keyOf
           /\ keyOf[pinned[t]] = bound[t] /\ t \notin DOMAIN sessions /\ InProgress(t)
           /\ pinned[t] \in DOMAIN locks \/ pinned[t] \in byHost
           /\ OfItsKey(t) => pinned[t] \in DOMAIN locks /\ pinned[t] \notin DOMAIN doomed
           /\ pinned[t] \in DOMAIN doomed => pinned[t] \in DOMAIN locks
           /\ pinned[t] \in DOMAIN locks => OfItsKey(t) \/ pinned[t] \in DOMAIN doomed
           /\ \A k \in DOMAIN sessions : sessions[k] = pinned[t] => k = bound[t] /\ OfItsKey(t)
<1> USE DEF HInv
<1>1. /\ bound[t] \in Keys /\ pinned[t] # 0 /\ pinned[t] \in Sids
  BY DEF HostTyped, PinOfKey
<1>2. /\ pinned[t] \in DOMAIN keyOf /\ keyOf[pinned[t]] = bound[t] /\ t \notin DOMAIN sessions
      /\ InProgress(t) /\ (pinned[t] \in DOMAIN locks \/ pinned[t] \in byHost)
  BY <1>1 DEF PinOfKey
<1>3. OfItsKey(t) => pinned[t] \in DOMAIN locks /\ pinned[t] \notin DOMAIN doomed
  BY DEF OfItsKey, SessionsOpen, DoomedHeld
<1>4. pinned[t] \in DOMAIN doomed => pinned[t] \in DOMAIN locks
  BY DEF DoomedHeld
<1>5. pinned[t] \in DOMAIN locks => OfItsKey(t) \/ pinned[t] \in DOMAIN doomed
  BY <1>2 DEF OfItsKey, OpenKnown
<1>6. \A k \in DOMAIN sessions : sessions[k] = pinned[t] => k = bound[t] /\ OfItsKey(t)
  BY <1>2 DEF OfItsKey, SessionsOpen
<1> QED
  BY <1>1, <1>2, <1>3, <1>4, <1>5, <1>6

\* What the end of a bound step changes, whatever becomes of the session s it was pinned
\* to: the step is out, and a dump takes the session from its key.
LeavesFrom(t, s, dumped) ==
    /\ bound' = [bound EXCEPT ![t] = None] /\ pinned' = [pinned EXCEPT ![t] = 0]
    /\ pins' = Unpinned(s) /\ updated' \subseteq updated
    /\ DOMAIN sessions' = IF dumped /\ OfItsKey(t) THEN DOMAIN sessions \ {bound[t]}
                                                   ELSE DOMAIN sessions
    /\ \A k \in DOMAIN sessions' : sessions'[k] = sessions[k]
    /\ \A x \in DOMAIN locks' : x \in DOMAIN locks /\ locks'[x] \subseteq locks[x]
    /\ UNCHANGED <<ended, keyOf, byHost>>

\* The parts of the invariant of the hosts that do not depend on what becomes of it.
LEMMA LeavesKeeps ==
    ASSUME HInv, NEW t \in Steps, bound[t] # None, NEW dumped \in BOOLEAN,
           LeavesFrom(t, pinned[t], dumped),
           \A u \in Steps \ {t} : InProgress(u) => InProgress(u)'
    PROVE  /\ PinsExact' /\ DOMAIN pins' \subseteq Sids
           /\ bound' \in [Steps -> Keys \cup {None}] /\ pinned' \in [Steps -> Sids \cup {0}]
           /\ \A x \in Sids : PinnedTo(x)' = PinnedTo(x) \ {t}
           /\ DOMAIN sessions' \subseteq DOMAIN sessions
           /\ \A u \in Steps : /\ pinned[u]' = 0 <=> bound[u]' = None
                               /\ pinned[u]' # 0 => u # t /\ pinned[u]' = pinned[u] /\ bound[u]' = bound[u]
                               /\ pinned[u]' # 0 \/ u \in DOMAIN sessions' => InProgress(u)'
           /\ \A k \in DOMAIN sessions' : (dumped \/ ~OfItsKey(t)) => sessions'[k] # pinned[t]
           /\ \A k \in DOMAIN sessions \ DOMAIN sessions' :
                    k = bound[t] /\ dumped /\ OfItsKey(t) /\ sessions[k] = pinned[t]
<1> USE DEF HInv
<1>1. /\ pinned[t] \in Sids /\ bound[t] \in Keys /\ t \notin DOMAIN sessions
      /\ \A k \in DOMAIN sessions : sessions[k] = pinned[t] => k = bound[t] /\ OfItsKey(t)
  BY ItsKey
<1>2. bound \in [Steps -> Keys \cup {None}] /\ pinned \in [Steps -> Sids \cup {0}]
  BY DEF HostTyped
<1>3. bound' \in [Steps -> Keys \cup {None}] /\ pinned' \in [Steps -> Sids \cup {0}]
  BY <1>2 DEF LeavesFrom
<1>4. \A x \in Sids : PinnedTo(x)' = PinnedTo(x) \ {t}
  <2>1. \A x \in Sids : x # 0
    BY DEF Sids
  <2> QED
    BY <2>1, <1>2 DEF LeavesFrom, PinnedTo
<1>5. PinsExact' /\ DOMAIN pins' \subseteq Sids
  BY <1>1, <1>4, CountOut DEF LeavesFrom, PinsExact, HostTyped
<1>6. \A u \in Steps : /\ pinned[u]' = 0 <=> bound[u]' = None
                       /\ pinned[u]' # 0 => u # t /\ pinned[u]' = pinned[u] /\ bound[u]' = bound[u]
  BY <1>2 DEF LeavesFrom, PinOfKey
<1>7. DOMAIN sessions' \subseteq DOMAIN sessions
  BY DEF LeavesFrom
<1>8. \A u \in Steps : pinned[u]' # 0 \/ u \in DOMAIN sessions' => InProgress(u)'
  BY <1>1, <1>6, <1>7 DEF PinOfKey
<1>9. \A k \in DOMAIN sessions' : (dumped \/ ~OfItsKey(t)) => sessions'[k] # pinned[t]
  BY <1>1 DEF LeavesFrom
<1>10. \A k \in DOMAIN sessions \ DOMAIN sessions' :
           k = bound[t] /\ dumped /\ OfItsKey(t) /\ sessions[k] = pinned[t]
  BY DEF LeavesFrom, OfItsKey
<1> QED
  BY <1>3, <1>4, <1>5, <1>6, <1>7, <1>8, <1>9, <1>10

\* The session stays, doomed or not.
LEMMA StaysKeeps ==
    ASSUME HInv, NEW t \in Steps, bound[t] # None, NEW dumped \in BOOLEAN,
           LeavesFrom(t, pinned[t], dumped),
           \A u \in Steps \ {t} : InProgress(u) => InProgress(u)',
           ~Retires(t, dumped), DOMAIN locks' = DOMAIN locks, told' = told,
           doomed' = IF Dooms(t, dumped) THEN With(doomed, pinned[t], bound[t]) ELSE doomed
    PROVE  HInv'
<1> USE DEF HInv
<1>1. PICK s : s = pinned[t]
  OBVIOUS
<1>2. /\ bound[t] \in Keys /\ s \in Sids /\ s \in DOMAIN keyOf /\ keyOf[s] = bound[t]
      /\ OfItsKey(t) => s \in DOMAIN locks /\ s \notin DOMAIN doomed
      /\ s \in DOMAIN doomed => s \in DOMAIN locks
  BY <1>1, ItsKey
<1>3. LastOut(s) <=> PinnedTo(s) = {t}
  BY <1>1, <1>2, CountOut
<1>4. /\ DOMAIN doomed' = IF Dooms(t, dumped) THEN DOMAIN doomed \cup {s} ELSE DOMAIN doomed
      /\ Dooms(t, dumped) => doomed'[s] = bound[t]
      /\ \A x \in DOMAIN doomed' : x # s \/ ~Dooms(t, dumped) => x \in DOMAIN doomed /\ doomed'[x] = doomed[x]
  BY <1>1 DEF With
<1>5. Dooms(t, dumped) => dumped /\ s \in DOMAIN locks
  BY <1>1, <1>2 DEF Dooms
<1>6. HostTyped'
  <2>1. ASSUME NEW x \in DOMAIN doomed' PROVE x \in Sids /\ doomed'[x] \in Keys
    BY <1>2, <1>4 DEF HostTyped
  <2> QED
    BY <2>1, LeavesKeeps DEF LeavesFrom, HostTyped
<1>7. PinOfKey'
  BY LeavesKeeps DEF PinOfKey, LeavesFrom
<1>8. SessionsOpen'
  BY LeavesKeeps DEF SessionsOpen, LeavesFrom
<1>9. DoomedHeld'
  <2>1. ASSUME NEW x \in DOMAIN doomed', x # s
        PROVE  /\ x \in DOMAIN locks' /\ keyOf'[x] = doomed'[x] /\ PinnedTo(x)' # {}
               /\ \A k \in DOMAIN sessions' : sessions'[k] # x
    <3>1. x \in DOMAIN doomed /\ doomed'[x] = doomed[x] /\ x \in Sids
      BY <1>4, <2>1 DEF HostTyped
    <3>2. x \in DOMAIN locks /\ keyOf[x] = doomed[x] /\ PinnedTo(x) # {} /\ t \notin PinnedTo(x)
      BY <1>1, <2>1, <3>1 DEF DoomedHeld, PinnedTo
    <3>3. \A k \in DOMAIN sessions' : sessions'[k] # x
      BY <3>1, LeavesKeeps DEF DoomedHeld, LeavesFrom
    <3>4. PinnedTo(x)' = PinnedTo(x) \ {t}
      BY <3>1, LeavesKeeps
    <3> QED
      BY <3>1, <3>2, <3>3, <3>4 DEF LeavesFrom
  <2>2. ASSUME s \in DOMAIN doomed'
        PROVE  /\ s \in DOMAIN locks' /\ keyOf'[s] = doomed'[s] /\ PinnedTo(s)' # {}
               /\ \A k \in DOMAIN sessions' : sessions'[k] # s
    <3>1. ~LastOut(s) /\ (dumped \/ ~OfItsKey(t))
      <4>1. CASE Dooms(t, dumped)
        BY <4>1, <1>1 DEF Dooms
      <4>2. CASE ~Dooms(t, dumped)
        <5>1. s \in DOMAIN doomed
          BY <4>2, <2>2, <1>4
        <5> QED
          BY <5>1, <1>1, <1>2 DEF Retires
      <4> QED
        BY <4>1, <4>2
    <3>2. PinnedTo(s)' = PinnedTo(s) \ {t} /\ t \in PinnedTo(s)
      BY <1>1, <1>2, LeavesKeeps DEF PinnedTo
    <3>3. PinnedTo(s)' # {}
      BY <3>1, <3>2, <1>3
    <3>4. \A k \in DOMAIN sessions' : sessions'[k] # s
      BY <1>1, <3>1, LeavesKeeps
    <3>5. s \in DOMAIN locks' /\ keyOf'[s] = doomed'[s]
      BY <2>2, <1>2, <1>4, <1>5 DEF LeavesFrom, DoomedHeld
    <3> QED
      BY <3>3, <3>4, <3>5
  <2> QED
    BY <2>1, <2>2 DEF DoomedHeld
<1>10. OpenKnown'
  <2>1. ASSUME NEW x \in DOMAIN locks'
        PROVE  x \in DOMAIN doomed' \/ (keyOf'[x] \in DOMAIN sessions' /\ sessions'[keyOf'[x]] = x)
    <3>1. CASE x \in DOMAIN doomed
      BY <3>1, <1>4
    <3>2. CASE x \notin DOMAIN doomed
      <4>1. keyOf[x] \in DOMAIN sessions /\ sessions[keyOf[x]] = x
        BY <3>2 DEF OpenKnown
      <4>2. CASE keyOf[x] \in DOMAIN sessions'
        BY <4>1, <4>2 DEF LeavesFrom
      <4>3. CASE keyOf[x] \notin DOMAIN sessions'
        <5>1. dumped /\ OfItsKey(t) /\ x = s
          BY <4>1, <4>3, <1>1, LeavesKeeps
        <5>2. Dooms(t, dumped)
          BY <5>1, <1>1 DEF Dooms, Retires
        <5> QED
          BY <5>1, <5>2, <1>4
      <4> QED
        BY <4>2, <4>3
    <3> QED
      BY <3>1, <3>2
  <2> QED
    BY <2>1 DEF OpenKnown, LeavesFrom
<1>11. EndsKnown'
  BY DEF EndsKnown, EndToldOnce, LeavesFrom
<1> QED
  BY <1>6, <1>7, <1>8, <1>9, <1>10, <1>11, LeavesKeeps

\* The session ends, and its end is told.
LEMMA GoesKeeps ==
    ASSUME HInv, NEW t \in Steps, bound[t] # None, NEW dumped \in BOOLEAN,
           LeavesFrom(t, pinned[t], dumped),
           \A u \in Steps \ {t} : InProgress(u) => InProgress(u)',
           Retires(t, dumped), DOMAIN locks' = DOMAIN locks \ {pinned[t]},
           told' = [told EXCEPT ![pinned[t]] = @ + 1], doomed' = Without(doomed, pinned[t])
    PROVE  HInv'
<1> USE DEF HInv
<1>1. PICK s : s = pinned[t]
  OBVIOUS
<1>2. /\ bound[t] \in Keys /\ s \in Sids /\ s \in DOMAIN keyOf /\ keyOf[s] = bound[t]
      /\ OfItsKey(t) => s \in DOMAIN locks /\ s \notin DOMAIN doomed
      /\ s \in DOMAIN doomed => s \in DOMAIN locks
  BY <1>1, ItsKey
<1>3. PinnedTo(s) = {t} /\ s \in DOMAIN locks /\ (dumped \/ ~OfItsKey(t))
  BY <1>1, <1>2, CountOut DEF Retires
<1>4. DOMAIN doomed' = DOMAIN doomed \ {s} /\ \A x \in DOMAIN doomed' : doomed'[x] = doomed[x]
  BY <1>1 DEF Without
<1>5. told[s] = 0 /\ s \notin byHost
  BY <1>2, <1>3 DEF EndsKnown, EndToldOnce
<1>6. told' \in [Sids -> Nat] /\ told'[s] = 1 /\ \A x \in Sids : x # s => told'[x] = told[x]
  BY <1>1, <1>2, <1>5 DEF HostTyped
<1>7. HostTyped'
  BY <1>4, <1>6, LeavesKeeps DEF LeavesFrom, HostTyped
<1>8. \A u \in Steps : pinned[u]' # 0 => pinned[u]' # s
  <2>1. PinnedTo(s)' = {}
    BY <1>1, <1>2, <1>3, LeavesKeeps
  <2> QED
    BY <2>1 DEF PinnedTo
<1>9. PinOfKey'
  BY <1>1, <1>8, LeavesKeeps DEF PinOfKey, LeavesFrom
<1>10. \A k \in DOMAIN sessions' : sessions'[k] # s
  BY <1>1, <1>3, LeavesKeeps
<1>11. SessionsOpen'
  BY <1>1, <1>10, LeavesKeeps DEF SessionsOpen, LeavesFrom
<1>12. DoomedHeld'
  <2>1. ASSUME NEW x \in DOMAIN doomed'
        PROVE  /\ x \in DOMAIN locks' /\ keyOf'[x] = doomed'[x] /\ PinnedTo(x)' # {}
               /\ \A k \in DOMAIN sessions' : sessions'[k] # x
    <3>1. x \in DOMAIN doomed /\ doomed'[x] = doomed[x] /\ x \in Sids /\ x # s
      BY <1>4 DEF HostTyped
    <3>2. x \in DOMAIN locks /\ keyOf[x] = doomed[x] /\ PinnedTo(x) # {} /\ t \notin PinnedTo(x)
      BY <1>1, <3>1 DEF DoomedHeld, PinnedTo
    <3>3. \A k \in DOMAIN sessions' : sessions'[k] # x
      BY <3>1, LeavesKeeps DEF DoomedHeld, LeavesFrom
    <3>4. PinnedTo(x)' = PinnedTo(x) \ {t}
      BY <3>1, LeavesKeeps
    <3> QED
      BY <1>1, <3>1, <3>2, <3>3, <3>4 DEF LeavesFrom
  <2> QED
    BY <2>1 DEF DoomedHeld
<1>13. OpenKnown'
  <2>1. ASSUME NEW x \in DOMAIN locks'
        PROVE  x \in DOMAIN doomed' \/ (keyOf'[x] \in DOMAIN sessions' /\ sessions'[keyOf'[x]] = x)
    <3>1. x \in DOMAIN locks /\ x # s
      BY <1>1
    <3>2. CASE x \in DOMAIN doomed
      BY <3>1, <3>2, <1>4
    <3>3. CASE x \notin DOMAIN doomed
      <4>1. keyOf[x] \in DOMAIN sessions /\ sessions[keyOf[x]] = x
        BY <3>1, <3>3 DEF OpenKnown
      <4>2. keyOf[x] \in DOMAIN sessions'
        BY <4>1, <3>1, <1>1, LeavesKeeps
      <4> QED
        BY <4>1, <4>2 DEF LeavesFrom
    <3> QED
      BY <3>2, <3>3
  <2> QED
    BY <2>1 DEF OpenKnown, LeavesFrom
<1>14. EndsKnown'
  <2>1. EndToldOnce'
    <3>1. ASSUME NEW x \in DOMAIN keyOf, keyOf[x] \in Keys
          PROVE  told'[x] = IF x \in DOMAIN locks' \/ x \in byHost THEN 0 ELSE 1
      <4>1. x \in Sids
        BY DEF HostTyped
      <4>2. CASE x = s
        BY <4>2, <1>1, <1>5, <1>6
      <4>3. CASE x # s
        BY <4>1, <4>3, <3>1, <1>1, <1>6 DEF EndsKnown, EndToldOnce
      <4> QED
        BY <4>2, <4>3
    <3> QED
      BY <3>1 DEF EndToldOnce, LeavesFrom
  <2>2. \A x \in Sids \ DOMAIN keyOf : told'[x] = 0
    BY <1>2, <1>6 DEF EndsKnown
  <2> QED
    BY <2>1, <2>2 DEF EndsKnown, LeavesFrom
<1> QED
  BY <1>7, <1>9, <1>11, <1>12, <1>13, <1>14, LeavesKeeps

-----------------------------------------------------------------------------
(* A step is bound, a key is ended *)

\* A step that is bound is pinned to its key's session, and is out of the one it was
\* pinned to before, which ends if it is doomed and this was the last step in it.
LEMMA BindKeeps ==
    ASSUME HInv, NEW t \in Steps, NEW key \in Keys, Bind(t, key)
    PROVE  HInv'
<1> USE DEF HInv
<1>1. PICK s, sid, goes : s = SessionOf(key) /\ sid = pinned[t]
                          /\ goes = (sid # 0 /\ Retires(t, FALSE))
  OBVIOUS
<1>2. /\ OpensAs(key, s) /\ DOMAIN LocksWith(key) = DOMAIN locks \cup {s}
      /\ \A x \in DOMAIN LocksWith(key) : LocksWith(key)[x] \subseteq Halves
  BY <1>1, Opens DEF Bind
<1>3. /\ bound \in [Steps -> Keys \cup {None}] /\ pinned \in [Steps -> Sids \cup {0}]
      /\ s \in Sids /\ 0 \notin Sids /\ key # None /\ key \notin Steps
  BY <1>2, KeysAssumption DEF HostTyped, Sids, OpensAs
<1>4. /\ bound' = [bound EXCEPT ![t] = key] /\ pinned' = [pinned EXCEPT ![t] = s]
      /\ pins' = Pinned(IF sid # 0 THEN Unpinned(sid) ELSE pins, s)
      /\ key \notin ended /\ t \notin DOMAIN sessions /\ InProgress(t) /\ bound[t] # key
      /\ UNCHANGED <<pc, ended, byHost>>
  BY <1>1 DEF Bind, Runs, InProgress, isEnded, step
<1>5. sid # 0 => /\ sid \in Sids /\ sid \in DOMAIN keyOf /\ keyOf[sid] = bound[t] /\ sid # s
                 /\ bound[t] \in Keys
  BY <1>1, <1>2, <1>3, <1>4 DEF PinOfKey, OpensAs
<1>6. sid # 0 => (LastOut(sid) <=> PinnedTo(sid) = {t})
  BY <1>1, <1>5, CountOut
<1>7. goes => /\ sid # 0 /\ sid \in DOMAIN doomed /\ PinnedTo(sid) = {t} /\ sid \in DOMAIN locks
              /\ sid \in Sids /\ sid \in DOMAIN keyOf /\ keyOf[sid] \in Keys /\ sid # s
  BY <1>1, <1>5, <1>6 DEF Retires, DoomedHeld
<1>8. ~goes /\ sid # 0 /\ sid \in DOMAIN doomed => PinnedTo(sid) # {t}
  BY <1>1, <1>6 DEF Retires
<1>9. goes => told[sid] = 0 /\ sid \notin byHost
  BY <1>7 DEF EndsKnown, EndToldOnce
<1>10. PICK gone : gone = IF goes THEN {sid} ELSE {}
  OBVIOUS
<1>11. /\ DOMAIN doomed' = DOMAIN doomed \ gone /\ \A x \in DOMAIN doomed' : doomed'[x] = doomed[x]
       /\ DOMAIN locks' = (DOMAIN locks \cup {s}) \ gone
       /\ \A x \in DOMAIN locks' : locks'[x] \subseteq Halves
       /\ updated' \subseteq updated
       /\ told' = IF goes THEN [told EXCEPT ![sid] = @ + 1] ELSE told
  <2>1. /\ doomed' = IF goes THEN Without(doomed, sid) ELSE doomed
        /\ updated' = IF goes THEN updated \ {sid} ELSE updated
        /\ locks' = IF goes THEN Without(LocksWith(key), sid) ELSE LocksWith(key)
        /\ told' = IF goes THEN [told EXCEPT ![sid] = @ + 1] ELSE told
    BY <1>1 DEF Bind
  <2> QED
    BY <2>1, <1>2, <1>10 DEF Without
<1>12. s \notin gone /\ s \in DOMAIN locks' /\ \A x \in gone : x = sid /\ goes
  BY <1>7, <1>10, <1>11
<1>13. \A x \in Sids : PinnedTo(x)' = IF x = s THEN (PinnedTo(x) \ {t}) \cup {t} ELSE PinnedTo(x) \ {t}
  BY <1>3, <1>4 DEF PinnedTo
<1>14. PinsExact' /\ DOMAIN pins' \subseteq Sids
  <2>1. PICK p : p = IF sid # 0 THEN Unpinned(sid) ELSE pins
    OBVIOUS
  <2>2. DOMAIN p \subseteq Sids /\ CountsOthers(p, t)
    <3>1. CASE sid # 0
      BY <3>1, <2>1, <1>1, <1>5, CountOut DEF HostTyped, CountsOthers
    <3>2. CASE sid = 0
      <4>1. \A x \in Sids : PinnedTo(x) \ {t} = PinnedTo(x)
        BY <3>2, <1>1, <1>3 DEF PinnedTo
      <4> QED
        BY <3>2, <2>1, <4>1 DEF PinsExact, HostTyped, CountsOthers
    <3> QED
      BY <3>1, <3>2
  <2>3. /\ DOMAIN Pinned(p, s) = DOMAIN p \cup {s}
        /\ CountsAlso(Pinned(p, s), s, t)
    BY <2>2, <1>3, CountIn
  <2>4. pins' = Pinned(p, s)
    BY <2>1, <1>4
  <2> QED
    BY <2>2, <2>3, <2>4, <1>3, <1>13 DEF PinsExact, CountsAlso
<1>15. HostTyped'
  <2>1. bound' \in [Steps -> Keys \cup {None}] /\ pinned' \in [Steps -> Sids \cup {0}]
    BY <1>3, <1>4
  <2>2. told' \in [Sids -> Nat]
    BY <1>7, <1>9, <1>11 DEF HostTyped
  <2>3. DOMAIN sessions' \subseteq Keys \cup Steps /\ DOMAIN locks' \subseteq DOMAIN keyOf'
    BY <1>2, <1>11 DEF HostTyped, OpensAs
  <2> QED
    BY <2>1, <2>2, <2>3, <1>2, <1>4, <1>11, <1>14 DEF HostTyped, OpensAs
<1>16. PinOfKey'
  <2>1. pinned'[t] = s /\ bound'[t] = key /\ \A u \in Steps : u # t => pinned'[u] = pinned[u] /\ bound'[u] = bound[u]
    BY <1>3, <1>4
  <2>2. DOMAIN sessions' = DOMAIN sessions \cup {key} /\ keyOf'[s] = key /\ s \in DOMAIN keyOf'
    BY <1>2 DEF OpensAs
  <2>3. \A x \in DOMAIN keyOf : x \in DOMAIN keyOf' /\ keyOf'[x] = keyOf[x]
    BY <1>2 DEF OpensAs
  <2>4. ASSUME NEW u \in Steps, u # t, pinned[u] # 0 PROVE pinned[u] \notin gone
    BY <2>4, <1>7, <1>12 DEF PinnedTo
  <2>5. ASSUME NEW u \in Steps, u # t
        PROVE  /\ pinned'[u] = 0 <=> bound'[u] = None
               /\ pinned'[u] # 0 =>
                     /\ pinned'[u] \in DOMAIN keyOf' /\ keyOf'[pinned'[u]] = bound'[u]
                     /\ u \notin DOMAIN sessions'
                     /\ pinned'[u] \in DOMAIN locks' \/ pinned'[u] \in byHost'
               /\ pinned'[u] # 0 \/ u \in DOMAIN sessions' => InProgress(u)'
    <3>1. InProgress(u)' <=> InProgress(u)
      BY <1>4 DEF InProgress
    <3>2. pinned'[u] = pinned[u] /\ bound'[u] = bound[u] /\ (u \in DOMAIN sessions' <=> u \in DOMAIN sessions)
      BY <2>1, <2>2, <2>5, <1>3
    <3> QED
      BY <2>3, <2>4, <2>5, <3>1, <3>2, <1>4, <1>11 DEF PinOfKey
  <2>6. InProgress(t)' /\ t \notin DOMAIN sessions' /\ s # 0
    BY <1>3, <1>4, <2>2 DEF InProgress
  <2> QED
    BY <2>1, <2>2, <2>5, <2>6, <1>3, <1>12 DEF PinOfKey
<1>17. SessionsOpen'
  <2>1. ASSUME NEW j \in DOMAIN sessions' PROVE sessions'[j] \in DOMAIN locks' /\ keyOf'[sessions'[j]] = j
    <3>1. CASE j = key
      BY <3>1, <1>2, <1>12 DEF OpensAs
    <3>2. CASE j # key
      <4>1. j \in DOMAIN sessions /\ sessions'[j] = sessions[j]
        BY <3>2, <1>2 DEF OpensAs
      <4>2. sessions[j] \in DOMAIN locks /\ keyOf[sessions[j]] = j /\ sessions[j] \in DOMAIN keyOf
        BY <4>1 DEF SessionsOpen, HostTyped
      <4>3. sessions[j] \notin gone
        BY <4>1, <1>7, <1>12 DEF DoomedHeld
      <4> QED
        BY <4>1, <4>2, <4>3, <1>2, <1>11 DEF OpensAs
    <3> QED
      BY <3>1, <3>2
  <2> QED
    BY <2>1 DEF SessionsOpen
<1>18. DoomedHeld'
  <2>1. ASSUME NEW x \in DOMAIN doomed'
        PROVE  /\ x \in DOMAIN locks' /\ keyOf'[x] = doomed'[x] /\ PinnedTo(x)' # {}
               /\ \A j \in DOMAIN sessions' : sessions'[j] # x
    <3>1. x \in DOMAIN doomed /\ doomed'[x] = doomed[x] /\ x \in Sids /\ x # s /\ x \notin gone
      BY <1>2, <1>11 DEF HostTyped, OpensAs
    <3>2. x \in DOMAIN locks /\ keyOf[x] = doomed[x] /\ x \in DOMAIN keyOf /\ PinnedTo(x) # {}
      BY <3>1 DEF DoomedHeld, HostTyped
    <3>3. \A j \in DOMAIN sessions' : sessions'[j] # x
      BY <3>1, <1>2 DEF DoomedHeld, OpensAs
    <3>4. PinnedTo(x) \ {t} # {}
      <4>1. CASE x = sid
        BY <4>1, <3>1, <3>2, <1>3, <1>8, <1>10
      <4>2. CASE x # sid
        BY <4>2, <3>2, <1>1 DEF PinnedTo
      <4> QED
        BY <4>1, <4>2
    <3>5. PinnedTo(x)' # {}
      BY <3>1, <3>4, <1>13
    <3> QED
      BY <3>1, <3>2, <3>3, <3>5, <1>2, <1>11 DEF OpensAs
  <2> QED
    BY <2>1 DEF DoomedHeld
<1>19. OpenKnown'
  <2>1. ASSUME NEW x \in DOMAIN locks'
        PROVE  /\ keyOf'[x] \notin ended
               /\ x \in DOMAIN doomed' \/ (keyOf'[x] \in DOMAIN sessions' /\ sessions'[keyOf'[x]] = x)
    <3>1. CASE x = s
      BY <3>1, <1>2, <1>4 DEF OpensAs
    <3>2. CASE x # s
      <4>1. x \in DOMAIN locks /\ x \notin gone /\ x \in DOMAIN keyOf /\ keyOf'[x] = keyOf[x]
        BY <3>2, <1>2, <1>11 DEF OpensAs, HostTyped
      <4> QED
        BY <4>1, <1>2, <1>11 DEF OpensAs, OpenKnown
    <3> QED
      BY <3>1, <3>2
  <2> QED
    BY <2>1, <1>4 DEF OpenKnown
<1>20. EndsKnown'
  <2>1. \A x \in byHost : x \in DOMAIN keyOf' /\ x \notin DOMAIN locks'
    BY <1>2, <1>11 DEF EndsKnown, OpensAs
  <2>2. \A x \in Sids : x \notin gone => told'[x] = told[x]
    BY <1>10, <1>11 DEF HostTyped
  <2>3. \A x \in gone : told'[x] = 1 /\ x \notin byHost /\ x \in DOMAIN keyOf
    BY <1>7, <1>9, <1>11, <1>12 DEF HostTyped
  <2>4. EndToldOnce'
    <3>1. ASSUME NEW x \in DOMAIN keyOf', keyOf'[x] \in Keys
          PROVE  told'[x] = IF x \in DOMAIN locks' \/ x \in byHost THEN 0 ELSE 1
      <4>1. x \in Sids
        BY <1>2 DEF OpensAs
      <4>2. CASE x \in gone
        BY <4>2, <2>3, <1>11
      <4>3. CASE x \notin gone /\ x \in DOMAIN keyOf
        BY <4>1, <4>3, <3>1, <2>2, <1>2, <1>11 DEF OpensAs, EndsKnown, EndToldOnce
      <4>4. CASE x \notin gone /\ x \notin DOMAIN keyOf
        BY <4>1, <4>4, <2>2, <1>2, <1>12 DEF OpensAs
      <4> QED
        BY <4>2, <4>3, <4>4
    <3> QED
      BY <3>1, <1>4 DEF EndToldOnce
  <2>5. \A x \in Sids \ DOMAIN keyOf' : told'[x] = 0
    BY <2>2, <2>3, <1>2 DEF EndsKnown, OpensAs
  <2> QED
    BY <2>1, <2>4, <2>5, <1>4 DEF EndsKnown
<1> QED
  BY <1>14, <1>15, <1>16, <1>17, <1>18, <1>19, <1>20

\* A host that ends a key ends every session behind it, the doomed ones too.
LEMMA EndKeyKeeps ==
    ASSUME HInv, NEW key \in Keys, endEnqSession(key)
    PROVE  HInv'
<1> USE DEF HInv
<1>1. PICK B : B = Behind(key)
  OBVIOUS
<1>2. \A x \in DOMAIN locks : x \in B <=> keyOf[x] = key
  BY <1>1 DEF Behind, RetiredOf, OpenKnown, SessionsOpen, DoomedHeld
<1>3. B \subseteq DOMAIN locks
  BY <1>1 DEF Behind, RetiredOf, SessionsOpen, DoomedHeld
<1>4. /\ DOMAIN locks' = DOMAIN locks \ B /\ \A x \in DOMAIN locks' : locks'[x] = locks[x]
      /\ DOMAIN doomed' = DOMAIN doomed \ B /\ \A x \in DOMAIN doomed' : doomed'[x] = doomed[x]
      /\ DOMAIN sessions' = DOMAIN sessions \ {key} /\ \A j \in DOMAIN sessions' : sessions'[j] = sessions[j]
      /\ ended' = ended \cup {key} /\ updated' \subseteq updated /\ byHost' = byHost \cup B
      /\ UNCHANGED <<pc, bound, pinned, pins, keyOf, told>>
  <2>1. DOMAIN doomed \ RetiredOf(key) = DOMAIN doomed \ B
    BY <1>1 DEF Behind, RetiredOf, DoomedHeld
  <2> QED
    BY <2>1, <1>1 DEF endEnqSession, Without, step
<1>5. HostTyped' /\ PinsExact'
  BY <1>4 DEF HostTyped, PinsExact, PinnedTo, At
<1>6. PinOfKey'
  BY <1>4 DEF PinOfKey, InProgress
<1>7. SessionsOpen' /\ OpenKnown'
  BY <1>2, <1>4 DEF SessionsOpen, OpenKnown
<1>8. DoomedHeld'
  BY <1>4 DEF DoomedHeld, PinnedTo
<1>9. EndsKnown'
  BY <1>2, <1>3, <1>4 DEF EndsKnown, EndToldOnce, HostTyped
<1> QED
  BY <1>5, <1>6, <1>7, <1>8, <1>9

-----------------------------------------------------------------------------
(* Every action keeps the invariant *)

\* The work process has one step at most, and a step stays in progress until it ends.
LEMMA StepsKeep ==
    ASSUME StepsTyped, [Next]_vars
    PROVE  StepsTyped'
<1> USE DEF StepsTyped
<1>1. ASSUME UNCHANGED step PROVE StepsTyped'
  BY <1>1 DEF step
<1>2. ASSUME NEW t \in Steps, Run(t) \/ Wait(t) PROVE StepsTyped'
  BY <1>2, KeysAssumption DEF Run, Wait, Runs
<1>3. ASSUME NEW t \in Steps, NEW dumped \in BOOLEAN, EndStep(t, dumped) PROVE StepsTyped'
  BY <1>3, KeysAssumption DEF EndStep
<1>4. ASSUME NEW t \in Steps, NEW halves \in Scope, EnqueueWaits(t, halves) PROVE StepsTyped'
  BY <1>4, KeysAssumption, HostBounds DEF EnqueueWaits, Runs
<1>5. ASSUME NEW t \in Steps, Retry(t) PROVE StepsTyped'
  <2>1. PICK again : again = /\ ~isEnded(sessionKey(t))
                             /\ ~(~isEnded(sessionKey(t)) /\ Grants(locks, Current(t)))
                             /\ Current(t) \in DOMAIN locks /\ TriesLeft(t)
    OBVIOUS
  <2>2. /\ running = None /\ pc[t] = "waiting" /\ again \in BOOLEAN
        /\ running' = IF again THEN None ELSE t
        /\ pc' = [pc EXCEPT ![t] = IF again THEN "waiting"
                                   ELSE IF isEnded(sessionKey(t)) THEN "failing" ELSE "running"]
        /\ tries' = [tries EXCEPT ![t] = IF again THEN @ + 1 ELSE 0]
        /\ wants' = [wants EXCEPT ![t] = IF again THEN @ ELSE {}]
    BY <1>5, <2>1 DEF Retry
  <2>3. CASE again
    <3>1. tries[t] < WAIT_TRIES
      BY <2>1, <2>3 DEF TriesLeft
    <3>2. tries' \in [Steps -> 0 .. WAIT_TRIES]
      BY <2>2, <2>3, <3>1, HostBounds
    <3> QED
      BY <2>2, <2>3, <3>2, KeysAssumption
  <2>4. CASE ~again
    <3>1. tries' \in [Steps -> 0 .. WAIT_TRIES]
      BY <2>2, <2>4, HostBounds
    <3> QED
      BY <2>2, <2>4, <3>1, KeysAssumption
  <2> QED
    BY <2>2, <2>3, <2>4
<1>6. ASSUME NEW t \in Steps, StepAction(t) PROVE StepsTyped'
  BY <1>1, <1>2, <1>3, <1>4, <1>5, <1>6
     DEF StepAction, Bind, Enqueue, EnqueueRefused, Dequeue, noteUpdateTask, CommitWork, RollbackWork
<1>7. ASSUME NEW key \in Keys, HostAction(key) PROVE StepsTyped'
  BY <1>1, <1>7 DEF HostAction, endEnqSession, reviveEnqSession, enqTake, enqDrop
<1> QED
  BY <1>1, <1>6, <1>7 DEF Next, vars, step

\* A running step is in progress, and so it stays while the steps' places do not change.
LEMMA PlacesKept ==
    ASSUME UNCHANGED step
    PROVE  \A t \in Steps : InProgress(t) => InProgress(t)'
BY DEF InProgress, step

\* What a session gives back, and what it is granted.
LEMMA ReleaseKeeps ==
    ASSUME HInv, NEW sid, NEW halves
    PROVE  /\ DOMAIN Release(locks, sid, halves) = DOMAIN locks
           /\ \A x \in DOMAIN locks : Release(locks, sid, halves)[x] \subseteq locks[x]
           /\ \A x \in DOMAIN locks : Release(locks, sid, halves)[x] \subseteq Halves
<1>1. \A x \in DOMAIN locks : locks[x] \subseteq Halves
  BY DEF HInv, HostTyped
<1> QED
  BY <1>1 DEF Release

\* The session a step works in, for a step that is not bound and for one that is: opening
\* it keeps the invariant of the hosts, whatever halves it is granted.
LEMMA CurrentKeeps ==
    ASSUME StepsTyped, HInv, NEW t \in Steps, Runs(t), Usable(t), OpenedFor(t),
           UNCHANGED <<bound, pinned, pins, doomed, ended, byHost, told>>, updated' \subseteq Sids,
           DOMAIN locks' = DOMAIN LocksFor(t), \A sid \in DOMAIN locks' : locks'[sid] \subseteq Halves,
           \A u \in Steps : InProgress(u) => InProgress(u)'
    PROVE  HInv'
<1>1. CASE bound[t] = None
  <2>1. CanOpen(t) /\ Opened(t) /\ LocksFor(t) = LocksWith(t) /\ t \notin ended /\ InProgress(t)
    BY <1>1 DEF Usable, OpenedFor, LocksFor, isEnded, sessionKey, InProgress, Runs
  <2> QED
    BY <1>1, <2>1, OpenKeeps
<1>2. CASE bound[t] # None
  <2>1. LocksFor(t) = locks /\ UNCHANGED <<sessions, keyOf>>
    BY <1>2 DEF LocksFor, OpenedFor
  <2> QED
    BY <2>1, QuietKeeps
<1> QED
  BY <1>1, <1>2

\* The session a step works in is one of the sessions, and the lock server holds halves of
\* the lock for the sessions it knows.
LEMMA CurrentKnown ==
    ASSUME HInv, NEW t \in Steps, Usable(t), OpenedFor(t)
    PROVE  /\ Current(t) \in Sids /\ \A x \in DOMAIN LocksFor(t) : LocksFor(t)[x] \subseteq Halves
<1>1. CASE bound[t] = None
  <2>1. CanOpen(t) /\ Opened(t) /\ LocksFor(t) = LocksWith(t) /\ Current(t) = SessionOf(t)
    BY <1>1 DEF Usable, OpenedFor, LocksFor, Current
  <2> QED
    BY <2>1, Opens DEF OpensAs
<1>2. CASE bound[t] # None
  <2>1. LocksFor(t) = locks /\ Current(t) = pinned[t]
    BY <1>2 DEF LocksFor, Current
  <2> QED
    BY <1>2, <2>1, ItsKey DEF HInv, HostTyped
<1> QED
  BY <1>1, <1>2

\* The end of a step keeps the invariant of the hosts: its own session ends with it; the
\* session it is pinned to ends, is doomed, or stays.
LEMMA EndStepKeeps ==
    ASSUME StepsTyped, HInv, NEW t \in Steps, NEW dumped \in BOOLEAN, EndStep(t, dumped)
    PROVE  HInv'
<1>1. \A u \in Steps \ {t} : InProgress(u) => InProgress(u)'
  BY DEF EndStep, InProgress, StepsTyped
<1>2. CASE bound[t] = None
  BY <1>1, <1>2, EndOwnKeeps DEF EndStep
<1>3. CASE bound[t] # None
  <2>1. EndBound(t, dumped)
    BY <1>3 DEF EndStep
  <2>2. PICK sid, goes : sid = pinned[t] /\ goes = Retires(t, dumped)
    OBVIOUS
  <2>3. /\ pins' = Unpinned(sid)
        /\ doomed' = IF goes THEN Without(doomed, sid)
                     ELSE IF Dooms(t, dumped) THEN With(doomed, sid, bound[t]) ELSE doomed
        /\ locks' = IF goes THEN Without(locks, sid)
                    ELSE IF dumped THEN Release(locks, sid, {"update"}) ELSE locks
        /\ updated' = IF goes \/ dumped THEN updated \ {sid} ELSE updated
        /\ told' = IF goes THEN [told EXCEPT ![sid] = @ + 1] ELSE told
        /\ sessions' = Forgotten(t, dumped)
        /\ bound' = [bound EXCEPT ![t] = None] /\ pinned' = [pinned EXCEPT ![t] = 0]
        /\ UNCHANGED <<ended, keyOf, byHost>>
    BY <2>1, <2>2 DEF EndBound
  <2>4. /\ DOMAIN sessions' = IF dumped /\ OfItsKey(t) THEN DOMAIN sessions \ {bound[t]}
                                                       ELSE DOMAIN sessions
        /\ \A k \in DOMAIN sessions' : sessions'[k] = sessions[k]
    BY <2>3 DEF Forgotten, Without
  <2>5. /\ DOMAIN locks' = IF goes THEN DOMAIN locks \ {sid} ELSE DOMAIN locks
        /\ \A x \in DOMAIN locks' : x \in DOMAIN locks /\ locks'[x] \subseteq locks[x]
    BY <2>3, ReleaseKeeps DEF Without
  <2>6. LeavesFrom(t, pinned[t], dumped)
    BY <2>2, <2>3, <2>4, <2>5 DEF LeavesFrom
  <2>7. CASE goes
    BY <1>1, <1>3, <2>2, <2>3, <2>5, <2>6, <2>7, GoesKeeps
  <2>8. CASE ~goes
    BY <1>1, <1>3, <2>2, <2>3, <2>5, <2>6, <2>8, StaysKeeps
  <2> QED
    BY <2>7, <2>8
<1> QED
  BY <1>2, <1>3

\* ENQUEUE, granted, refused or slept on, and the note of an update module.
LEMMA EnqueueKeeps ==
    ASSUME StepsTyped, HInv, NEW t \in Steps, NEW halves \in Scope,
           \/ Enqueue(t, halves) \/ EnqueueRefused(t)
           \/ EnqueueWaits(t, halves) \/ noteUpdateTask(t)
    PROVE  HInv'
<1>1. updated \subseteq Sids /\ halves \subseteq Halves
  BY DEF HInv, HostTyped, Scope, Halves
<1>2. CASE Enqueue(t, halves)
  <2>1. /\ Runs(t) /\ Usable(t) /\ OpenedFor(t) /\ UNCHANGED step
        /\ locks' = [LocksFor(t) EXCEPT ![Current(t)] = @ \cup halves]
        /\ UNCHANGED <<bound, pinned, pins, doomed, ended, updated, byHost, told>>
    BY <1>2 DEF Enqueue
  <2>2. DOMAIN locks' = DOMAIN LocksFor(t) /\ \A x \in DOMAIN locks' : locks'[x] \subseteq Halves
    BY <1>1, <2>1, CurrentKnown
  <2> QED
    BY <1>1, <2>1, <2>2, PlacesKept, CurrentKeeps
<1>3. CASE EnqueueRefused(t)
  <2>1. /\ Runs(t) /\ Usable(t) /\ OpenedFor(t) /\ UNCHANGED step /\ locks' = LocksFor(t)
        /\ UNCHANGED <<bound, pinned, pins, doomed, ended, updated, byHost, told>>
    BY <1>3 DEF EnqueueRefused
  <2> QED
    BY <1>1, <2>1, PlacesKept, CurrentKnown, CurrentKeeps
<1>4. CASE EnqueueWaits(t, halves)
  <2>1. /\ Runs(t) /\ Usable(t) /\ OpenedFor(t) /\ locks' = LocksFor(t)
        /\ pc' = [pc EXCEPT ![t] = "waiting"]
        /\ UNCHANGED <<bound, pinned, pins, doomed, ended, updated, byHost, told>>
    BY <1>4 DEF EnqueueWaits
  <2>2. \A u \in Steps : InProgress(u) => InProgress(u)'
    BY <2>1 DEF InProgress, StepsTyped
  <2> QED
    BY <1>1, <2>1, <2>2, CurrentKnown, CurrentKeeps
<1>5. CASE noteUpdateTask(t)
  <2>1. /\ Runs(t) /\ Usable(t) /\ OpenedFor(t) /\ UNCHANGED step /\ locks' = LocksFor(t)
        /\ updated' = updated \cup {Current(t)}
        /\ UNCHANGED <<bound, pinned, pins, doomed, ended, byHost, told>>
    BY <1>5 DEF noteUpdateTask
  <2>2. updated' \subseteq Sids
    BY <1>1, <2>1, CurrentKnown
  <2> QED
    BY <2>1, <2>2, PlacesKept, CurrentKnown, CurrentKeeps
<1> QED
  BY <1>2, <1>3, <1>4, <1>5

\* What a step does without opening, ending or changing a session.
LEMMA StepQuietKeeps ==
    ASSUME StepsTyped, HInv, NEW t \in Steps, NEW halves \in Scope,
           \/ Run(t) \/ Wait(t) \/ Retry(t)
           \/ Dequeue(t, halves) \/ CommitWork(t) \/ RollbackWork(t)
    PROVE  HInv'
<1>1. updated \subseteq Sids /\ (\A x \in DOMAIN locks : locks[x] \subseteq Halves)
  BY DEF HInv, HostTyped
<1>2. CASE Run(t) \/ Wait(t)
  <2>1. \A u \in Steps : InProgress(u) => InProgress(u)'
    BY <1>2 DEF Run, Wait, InProgress, StepsTyped
  <2>2. UNCHANGED <<host, locks, keyOf, byHost, told>>
    BY <1>2 DEF Run, Wait
  <2> QED
    BY <1>1, <2>1, <2>2, QuietKeeps DEF host
<1>3. CASE Retry(t)
  <2>1. PICK granted : granted = (~isEnded(sessionKey(t)) /\ Grants(locks, Current(t)))
    OBVIOUS
  <2>2. locks' = IF granted THEN [locks EXCEPT ![Current(t)] = @ \cup wants[t]] ELSE locks
    BY <1>3, <2>1 DEF Retry
  <2>3. \A u \in Steps : InProgress(u) => InProgress(u)'
    BY <1>3 DEF Retry, InProgress, StepsTyped
  <2>4. UNCHANGED <<host, keyOf, byHost, told>>
    BY <1>3 DEF Retry
  <2>5. wants[t] \subseteq Halves
    BY DEF StepsTyped, Scope, Halves
  <2>6. DOMAIN locks' = DOMAIN locks /\ \A x \in DOMAIN locks : locks'[x] \subseteq Halves
    BY <1>1, <2>2, <2>5
  <2> QED
    BY <1>1, <2>3, <2>4, <2>6, QuietKeeps DEF host
<1>4. CASE Dequeue(t, halves)
  <2>1. locks' = Release(locks, Existing(t), halves) /\ UNCHANGED <<step, host, keyOf, byHost, told>>
    BY <1>4 DEF Dequeue
  <2> QED
    BY <1>1, <2>1, ReleaseKeeps, PlacesKept, QuietKeeps DEF host
<1>5. CASE CommitWork(t) \/ RollbackWork(t)
  <2>1. /\ locks' = Release(locks, Existing(t), {"update"}) \/ locks' = locks
        /\ updated' \subseteq updated
        /\ UNCHANGED <<step, bound, pinned, sessions, pins, doomed, ended, keyOf, byHost, told>>
    BY <1>5 DEF CommitWork, RollbackWork
  <2>2. DOMAIN locks' = DOMAIN locks /\ \A x \in DOMAIN locks : locks'[x] \subseteq Halves
    BY <1>1, <2>1, ReleaseKeeps
  <2> QED
    BY <1>1, <2>1, <2>2, PlacesKept, QuietKeeps
<1> QED
  BY <1>2, <1>3, <1>4, <1>5

\* What a host does outside any step.
LEMMA HostKeeps ==
    ASSUME HInv, NEW key \in Keys, HostAction(key)
    PROVE  HInv'
<1>1. updated \subseteq Sids /\ (\A x \in DOMAIN locks : locks[x] \subseteq Halves)
  BY DEF HInv, HostTyped
<1>2. CASE endEnqSession(key)
  BY <1>2, EndKeyKeeps
<1>3. CASE reviveEnqSession(key)
  <2>1. /\ ended' \subseteq ended
        /\ UNCHANGED <<step, bound, pinned, sessions, pins, doomed, updated, locks, keyOf, byHost, told>>
    BY <1>3 DEF reviveEnqSession
  <2> QED
    BY <1>1, <2>1, PlacesKept, QuietKeeps
<1>4. CASE enqTake(key)
  <2>1. /\ key \notin ended /\ CanOpen(key) /\ Opened(key)
        /\ \/ locks' = LocksWith(key)
           \/ locks' = [LocksWith(key) EXCEPT ![SessionOf(key)] = {"dialog"}]
        /\ UNCHANGED <<step, bound, pinned, pins, doomed, ended, updated, byHost, told>>
    BY <1>4 DEF enqTake, isEnded
  <2>2. DOMAIN locks' = DOMAIN LocksWith(key) /\ \A x \in DOMAIN locks' : locks'[x] \subseteq Halves
    BY <2>1, Opens DEF Halves
  <2>3. key \notin Steps
    BY KeysAssumption
  <2> QED
    BY <1>1, <2>1, <2>2, <2>3, PlacesKept, OpenKeeps
<1>5. CASE enqDrop(key)
  <2>1. /\ DOMAIN locks' = DOMAIN locks /\ \A x \in DOMAIN locks : locks'[x] \subseteq locks[x]
        /\ UNCHANGED <<step, host, keyOf, byHost, told>>
    BY <1>5 DEF enqDrop
  <2> QED
    BY <1>1, <2>1, PlacesKept, QuietKeeps DEF host
<1> QED
  BY <1>2, <1>3, <1>4, <1>5 DEF HostAction

-----------------------------------------------------------------------------
(* Theorems *)

\* The invariant holds when nothing has run.
LEMMA InitInvariant ==
    ASSUME Init
    PROVE  IInv
<1>0. /\ running = None /\ pc = [t \in Steps |-> "idle"] /\ tries = [t \in Steps |-> 0]
      /\ wants = [t \in Steps |-> {}]
  BY DEF Init
<1>1. StepsTyped
  <2>1. 0 \in 0 .. WAIT_TRIES
    BY HostBounds
  <2> QED
    BY <1>0, <2>1, KeysAssumption DEF StepsTyped
<1>2. /\ bound = [t \in Steps |-> None] /\ pinned = [t \in Steps |-> 0]
      /\ sessions = <<>> /\ pins = <<>> /\ doomed = <<>> /\ ended = {} /\ updated = {}
      /\ locks = <<>> /\ keyOf = <<>> /\ byHost = {} /\ told = [sid \in Sids |-> 0]
  BY DEF Init
<1>3. DOMAIN sessions = {} /\ DOMAIN pins = {} /\ DOMAIN doomed = {} /\ DOMAIN locks = {} /\ DOMAIN keyOf = {}
  BY <1>2
<1>4. HostTyped
  BY <1>2, <1>3 DEF HostTyped
<1>5. PinsExact
  <2>1. \A sid \in Sids : PinnedTo(sid) = {}
    BY <1>2 DEF PinnedTo, Sids
  <2> QED
    BY <1>3, <2>1, FS_EmptySet DEF PinsExact, At
<1>6. PinOfKey /\ SessionsOpen /\ DoomedHeld /\ OpenKnown
  BY <1>2, <1>3 DEF PinOfKey, SessionsOpen, DoomedHeld, OpenKnown
<1>7. EndsKnown
  BY <1>2, <1>3 DEF EndsKnown, EndToldOnce
<1> QED
  BY <1>1, <1>4, <1>5, <1>6, <1>7 DEF IInv, HInv

\* Every step of the model keeps it.
LEMMA NextInvariant ==
    ASSUME IInv, [Next]_vars
    PROVE  IInv'
<1> USE DEF IInv
<1>1. StepsTyped'
  BY StepsKeep
<1>2. ASSUME NEW t \in Steps, StepAction(t) PROVE HInv'
  <2>1. ASSUME NEW key \in Keys, Bind(t, key) PROVE HInv'
    BY <2>1, BindKeeps
  <2>2. ASSUME NEW dumped \in BOOLEAN, EndStep(t, dumped) PROVE HInv'
    BY <2>2, EndStepKeeps
  <2>3. ASSUME NEW halves \in Scope, Enqueue(t, halves) \/ EnqueueWaits(t, halves) PROVE HInv'
    BY <2>3, EnqueueKeeps
  <2>4. ASSUME NEW halves \in Scope, Dequeue(t, halves) PROVE HInv'
    BY <2>4, StepQuietKeeps
  <2>5. Halves \in Scope
    BY DEF Scope
  <2>6. ASSUME EnqueueRefused(t) \/ noteUpdateTask(t) PROVE HInv'
    BY <2>5, <2>6, EnqueueKeeps
  <2>7. ASSUME Run(t) \/ Wait(t) \/ Retry(t) \/ CommitWork(t) \/ RollbackWork(t) PROVE HInv'
    BY <2>5, <2>7, StepQuietKeeps
  <2> QED
    BY <1>2, <2>1, <2>2, <2>3, <2>4, <2>6, <2>7 DEF StepAction
<1>3. ASSUME NEW key \in Keys, HostAction(key) PROVE HInv'
  BY <1>3, HostKeeps
<1>4. ASSUME UNCHANGED vars PROVE HInv'
  BY <1>4, PlacesKept, QuietKeeps DEF vars, step, HInv, HostTyped
<1> QED
  BY <1>1, <1>2, <1>3, <1>4 DEF Next

\* The inductive invariant: what the hosts know of a session and what the lock server has
\* open agree, whatever steps bind, sleep, dump and end and whatever keys the hosts end.
THEOREM HostInvariant == Spec => []IInv
BY InitInvariant, NextInvariant, PTL DEF Spec

\* pins is the number of the steps in progress pinned to each session, and a session a
\* step is pinned to is open or was ended by the host, for any steps and sessions
\* (pin, unpin and retire in tools/osd-enq-host.mjs).
THEOREM PinsAreHeld == Spec => []PinsHold
<1>1. ASSUME IInv PROVE PinsHold
  <2> USE <1>1 DEF IInv, HInv
  <2>1. TypeOK
    <3>1. \A k \in DOMAIN sessions : sessions[k] \in Sids
      BY DEF SessionsOpen, HostTyped
    <3>2. byHost \subseteq Sids /\ DOMAIN locks \subseteq Sids
      BY DEF EndsKnown, HostTyped
    <3> QED
      BY <3>1, <3>2 DEF TypeOK, StepsTyped, HostTyped
  <2>2. PinsCounted
    <3>1. ASSUME NEW sid \in Sids PROVE {t \in Steps : InProgress(t) /\ pinned[t] = sid} = PinnedTo(sid)
      BY DEF PinOfKey, PinnedTo, Sids
    <3> QED
      BY <3>1 DEF PinsCounted, PinsExact
  <2>3. PinnedStaysAlive
    BY DEF PinnedStaysAlive, PinOfKey
  <2> QED
    BY <2>1, <2>2, <2>3 DEF PinsHold
<1> QED
  BY <1>1, HostInvariant, PTL

\* Every session the lock server has open is somebody's to end: no lock stays for good,
\* however many steps sleep and keys dump.
THEOREM NoLockIsLeft == Spec => []NoLockLeft
<1>1. ASSUME IInv PROVE NoLockLeft
  <2> USE <1>1 DEF IInv, HInv
  <2>1. ASSUME NEW sid \in DOMAIN locks
        PROVE  \/ \E k \in Keys \ ended : k \in DOMAIN sessions /\ sessions[k] = sid
               \/ \E t \in Steps : InProgress(t) /\ t \in DOMAIN sessions /\ sessions[t] = sid
               \/ sid \in DOMAIN doomed /\ \E t \in Steps : InProgress(t) /\ pinned[t] = sid
    <3>1. CASE sid \in DOMAIN doomed
      <4>1. PICK t \in Steps : pinned[t] = sid
        BY <3>1 DEF DoomedHeld, PinnedTo
      <4>2. pinned[t] # 0
        BY <3>1, <4>1 DEF HostTyped, Sids
      <4> QED
        BY <3>1, <4>1, <4>2 DEF PinOfKey
    <3>2. CASE sid \notin DOMAIN doomed
      <4>1. keyOf[sid] \notin ended /\ keyOf[sid] \in DOMAIN sessions /\ sessions[keyOf[sid]] = sid
        BY <3>2 DEF OpenKnown
      <4>2. keyOf[sid] \in Keys \cup Steps
        BY <4>1 DEF HostTyped
      <4> QED
        BY <4>1, <4>2 DEF PinOfKey
    <3> QED
      BY <3>1, <3>2
  <2> QED
    BY <2>1 DEF NoLockLeft
<1> QED
  BY <1>1, HostInvariant, PTL

\* Under a key its host ended nothing is held and nothing is taken, also by a step that
\* slept when the host ended it.
THEOREM EndedKeyIsEmpty == Spec => []EndedKeyHoldsNothing
<1>1. ASSUME IInv PROVE EndedKeyHoldsNothing
  BY <1>1 DEF IInv, HInv, OpenKnown, EndedKeyHoldsNothing, isEnded
<1> QED
  BY <1>1, HostInvariant, PTL

\* A session a dump retires is no key's any more, and its end is told to the host once,
\* unless the host ended it itself.
THEOREM RetiresExactlyOnce == Spec => []RetiresOnce
<1>1. ASSUME IInv PROVE RetiresOnce
  BY <1>1 DEF IInv, HInv, DoomedHeld, EndsKnown, RetiresOnce, RetiredIsNobodys
<1> QED
  BY <1>1, HostInvariant, PTL
=============================================================================
