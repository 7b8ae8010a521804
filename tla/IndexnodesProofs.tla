-------------------------- MODULE IndexnodesProofs ----------------------------
(***************************************************************************)
(* The lock, and the list of indexnodes that it guards.                    *)
(*                                                                         *)
(* The lock: what locks.c guarantees for any number of readers and         *)
(* writers, and what only until its short cut first lets a reader in       *)
(* uncounted.                                                              *)
(*                                                                         *)
(* The list: references are exact, and no thread adds an id twice,         *)
(* although more than one reader breaks the lock; until that happens,      *)
(* copies hold only live indexnodes and added ones stay listed.            *)
(***************************************************************************)
EXTENDS Indexnodes, FiniteSetTheorems, SequenceTheorems, WellFoundedInduction, TLAPS

(***************************************************************************)
(* The lock.                                                               *)
(***************************************************************************)

\* Counted readers and a counted writer are never there together, and
\* locking_thread never keeps the name of a writer that has left.
Apart ==
  /\ writer_writing = 1 => readers_reading = 0
  /\ \A w \in Writers : locking_thread = w => pc[w] = "in"

Inv == TypeOK /\ WriterCounted /\ Apart /\ NoForgottenWaiter

-----------------------------------------------------------------------------
\* Each step keeps the fields typed.
LEMMA NextType == Inv /\ [Next]_vars => TypeOK'
<1> SUFFICES ASSUME Inv, [Next]_vars PROVE TypeOK'
  OBVIOUS
<1> USE ThreadsAssumption DEF Inv, TypeOK, Threads
<1>1. ASSUME NEW t \in Threads, AlreadyMine(t) \/ NotMine(t) \/ Wait(t) \/ SpuriousWakeup(t)
      PROVE  TypeOK'
  BY <1>1 DEF AlreadyMine, NotMine, Wait, SpuriousWakeup
<1>2. ASSUME NEW t \in Readers, rw_lock_rlock(t)
      PROVE  TypeOK'
  BY <1>2 DEF rw_lock_rlock
<1>3. ASSUME NEW t \in Readers, rw_lock_runlock(t)
      PROVE  TypeOK'
  BY <1>3 DEF rw_lock_runlock, Leave
<1>4. ASSUME NEW t \in Writers, rw_lock_wlock(t)
      PROVE  TypeOK'
  BY <1>4 DEF rw_lock_wlock, MustWait
<1>5. ASSUME NEW t \in Writers, rw_lock_wunlock(t)
      PROVE  TypeOK'
  BY <1>5 DEF rw_lock_wunlock, Leave
<1>6. CASE UNCHANGED vars
  BY <1>6 DEF vars
<1> QED
  BY <1>1, <1>2, <1>3, <1>4, <1>5, <1>6 DEF Next

\* Each step keeps writers counted and alone among writers.
LEMMA NextWriters == Inv /\ [Next]_vars => WriterCounted' /\ Apart'
<1> SUFFICES ASSUME Inv, [Next]_vars PROVE WriterCounted' /\ Apart'
  OBVIOUS
<1> USE ThreadsAssumption DEF Inv, TypeOK, Threads, WriterCounted, Apart
<1>1. ASSUME NEW t \in Threads, AlreadyMine(t)
      PROVE  WriterCounted' /\ Apart'
  BY <1>1 DEF AlreadyMine
<1>2. ASSUME NEW t \in Threads, NotMine(t) \/ Wait(t) \/ SpuriousWakeup(t)
      PROVE  WriterCounted' /\ Apart'
  BY <1>2 DEF NotMine, Wait, SpuriousWakeup
<1>3. ASSUME NEW t \in Readers, rw_lock_rlock(t)
      PROVE  WriterCounted' /\ Apart'
  BY <1>3 DEF rw_lock_rlock, MustWait
<1>4. ASSUME NEW t \in Readers, rw_lock_runlock(t)
      PROVE  WriterCounted' /\ Apart'
  <2>1. \A w \in Writers : pc'[w] = "in" <=> pc[w] = "in"
    BY <1>4 DEF rw_lock_runlock, Leave, Waiting, Signalled
  <2> QED
    BY <1>4, <2>1 DEF rw_lock_runlock
<1>5. ASSUME NEW t \in Writers, rw_lock_wlock(t)
      PROVE  WriterCounted' /\ Apart'
  BY <1>5 DEF rw_lock_wlock, MustWait
<1>6. ASSUME NEW t \in Writers, rw_lock_wunlock(t)
      PROVE  WriterCounted' /\ Apart'
  <2>1. \A w \in Writers : pc'[w] # "in"
    BY <1>6 DEF rw_lock_wunlock, Leave, Waiting
  <2> QED
    BY <1>6, <2>1 DEF rw_lock_wunlock
<1>7. CASE UNCHANGED vars
  BY <1>7 DEF vars
<1> QED
  BY <1>1, <1>2, <1>3, <1>4, <1>5, <1>6, <1>7 DEF Next

\* Each step leaves every sleeper with somebody who will wake it.
LEMMA NextWaiters == Inv /\ [Next]_vars => NoForgottenWaiter'
<1> SUFFICES ASSUME Inv, [Next]_vars PROVE NoForgottenWaiter'
  OBVIOUS
<1> USE ThreadsAssumption DEF Inv, TypeOK, Threads, NoForgottenWaiter, Waiting
<1>1. ASSUME NEW t \in Threads, AlreadyMine(t) \/ NotMine(t) \/ SpuriousWakeup(t)
      PROVE  NoForgottenWaiter'
  BY <1>1 DEF AlreadyMine, NotMine, SpuriousWakeup
<1>2. ASSUME NEW t \in Threads, Wait(t)
      PROVE  NoForgottenWaiter'
  BY <1>2 DEF Wait, MustWait
<1>3. ASSUME NEW t \in Readers, rw_lock_rlock(t)
      PROVE  NoForgottenWaiter'
  BY <1>3 DEF rw_lock_rlock, MustWait
<1>4. ASSUME NEW t \in Readers, rw_lock_runlock(t)
      PROVE  NoForgottenWaiter'
  <2>1. CASE readers_reading = 1
    <3>1. PICK S \in Signalled : pc' = Leave(t, S)
      BY <1>4, <2>1 DEF rw_lock_runlock
    <3>2. CASE Waiting = {}
      BY <1>4, <2>1, <3>1, <3>2 DEF rw_lock_runlock, Leave, Signalled
    <3>3. CASE Waiting # {}
      <4>1. PICK u \in Waiting : S = {u}
        BY <3>1, <3>3 DEF Signalled
      <4>2. pc'[u] = "woken"
        BY <1>4, <3>1, <4>1 DEF Leave, rw_lock_runlock
      <4>3. \A x \in Threads : pc'[x] = "waiting" => pc[x] = "waiting"
        BY <3>1 DEF Leave
      <4> QED
        BY <1>4, <4>1, <4>2, <4>3 DEF rw_lock_runlock
    <3> QED
      BY <3>2, <3>3
  <2>2. CASE readers_reading # 1
    BY <1>4, <2>2 DEF rw_lock_runlock, Leave
  <2> QED
    BY <2>1, <2>2
<1>5. ASSUME NEW t \in Writers, rw_lock_wlock(t)
      PROVE  NoForgottenWaiter'
  BY <1>5 DEF rw_lock_wlock
<1>6. ASSUME NEW t \in Writers, rw_lock_wunlock(t)
      PROVE  NoForgottenWaiter'
  BY <1>6 DEF rw_lock_wunlock, Leave, WriterCounted
<1>7. CASE UNCHANGED vars
  BY <1>7 DEF vars
<1> QED
  BY <1>1, <1>2, <1>3, <1>4, <1>5, <1>6, <1>7 DEF Next

\* The inductive invariant, for any number of readers and writers.
LEMMA Invariance == Spec => []Inv
<1>1. Init => Inv
  BY ThreadsAssumption DEF Init, Inv, TypeOK, WriterCounted, Apart,
     NoForgottenWaiter, Waiting, Threads
<1>2. Inv /\ [Next]_vars => Inv'
  BY NextType, NextWriters, NextWaiters DEF Inv
<1> QED
  BY <1>1, <1>2, PTL DEF Spec

\* The fields of rw_lock_t keep their types; in particular writer_writing++
\* never makes 2.
THEOREM TypeCorrect == Spec => []TypeOK
BY Invariance, PTL DEF Inv

\* Whatever the readers do to locking_thread, writers exclude each other and
\* a writer that is in is counted.
THEOREM WritersExclude == Spec => []WriterCounted
BY Invariance, PTL DEF Inv

\* No wakeup is lost, for any number of readers and writers.
THEOREM WakeupsAreKept == Spec => []NoForgottenWaiter
BY Invariance, PTL DEF Inv

-----------------------------------------------------------------------------
\* The readers between rw_lock_rlock and rw_lock_runlock.
Inside == {r \in Readers : pc[r] = "in"}

\* A reader that enters makes the crowd one larger, a reader that leaves one
\* smaller.
LEMMA CrowdChanges ==
  ASSUME IsFiniteSet(Readers), NEW t \in Readers
  PROVE  /\ Cardinality(Inside) \in Nat /\ Cardinality(Inside') \in Nat
         /\ Inside' = Inside => Cardinality(Inside') = Cardinality(Inside)
         /\ t \notin Inside /\ Inside' = Inside \cup {t}
              => Cardinality(Inside') = Cardinality(Inside) + 1
         /\ t \in Inside /\ Inside' = Inside \ {t}
              => Cardinality(Inside') = Cardinality(Inside) - 1
<1>1. IsFiniteSet(Inside) /\ IsFiniteSet(Inside')
  BY FS_Subset DEF Inside
<1> QED
  BY <1>1, FS_CardinalityType, FS_AddElement, FS_RemoveElement

\* Each step keeps the count at or below the crowd.
LEMMA NextHeld ==
  ASSUME IsFiniteSet(Readers), TypeOK, HeldBySomebody, [Next]_vars
  PROVE  HeldBySomebody'
<1> USE ThreadsAssumption DEF TypeOK, Threads
<1>1. readers_reading <= Cardinality(Inside) /\ Cardinality(Inside) \in Nat
  <2>1. IsFiniteSet(Inside)
    BY FS_Subset DEF Inside
  <2> QED
    BY <2>1, FS_CardinalityType DEF HeldBySomebody, Inside
<1>2. SUFFICES readers_reading' <= Cardinality(Inside')
  BY DEF HeldBySomebody, Inside
<1>3. ASSUME UNCHANGED readers_reading, Inside' = Inside
      PROVE  readers_reading' <= Cardinality(Inside')
  BY <1>1, <1>3
<1>4. ASSUME NEW t \in Threads, AlreadyMine(t)
      PROVE  readers_reading' <= Cardinality(Inside')
  <2>1. CASE t \in Readers
    <3>1. t \notin Inside /\ Inside' = Inside \cup {t} /\ readers_reading' = readers_reading
      BY <1>4, <2>1 DEF AlreadyMine, Inside
    <3>2. Cardinality(Inside') = Cardinality(Inside) + 1
      BY <2>1, <3>1, CrowdChanges
    <3> QED
      BY <1>1, <3>1, <3>2
  <2>2. CASE t \in Writers
    <3>1. Inside' = Inside /\ readers_reading' = readers_reading
      BY <1>4, <2>2 DEF AlreadyMine, Inside
    <3> QED
      BY <1>3, <3>1
  <2> QED
    BY <2>1, <2>2
<1>5. ASSUME NEW t \in Threads, NotMine(t) \/ Wait(t) \/ SpuriousWakeup(t)
      PROVE  readers_reading' <= Cardinality(Inside')
  <2>1. Inside' = Inside /\ readers_reading' = readers_reading
    BY <1>5 DEF NotMine, Wait, SpuriousWakeup, Inside
  <2> QED
    BY <1>3, <2>1
<1>6. ASSUME NEW t \in Readers, rw_lock_rlock(t)
      PROVE  readers_reading' <= Cardinality(Inside')
  <2>1. /\ t \notin Inside /\ Inside' = Inside \cup {t}
        /\ readers_reading' = readers_reading + 1
    BY <1>6 DEF rw_lock_rlock, Inside
  <2>2. Cardinality(Inside') = Cardinality(Inside) + 1
    BY <2>1, CrowdChanges
  <2> QED
    BY <1>1, <2>1, <2>2
<1>7. ASSUME NEW t \in Readers, rw_lock_runlock(t)
      PROVE  readers_reading' <= Cardinality(Inside')
  <2>1. t \in Inside /\ Inside' = Inside \ {t}
    BY <1>7 DEF rw_lock_runlock, Leave, Inside, Signalled, Waiting
  <2>2. readers_reading' = IF readers_reading = 0 THEN 0 ELSE readers_reading - 1
    BY <1>7 DEF rw_lock_runlock
  <2>3. Cardinality(Inside') = Cardinality(Inside) - 1 /\ Cardinality(Inside') \in Nat
    BY <2>1, CrowdChanges
  <2> QED
    BY <1>1, <2>2, <2>3
<1>8. ASSUME NEW t \in Writers, rw_lock_wlock(t) \/ rw_lock_wunlock(t)
      PROVE  readers_reading' <= Cardinality(Inside')
  <2>1. readers_reading' = readers_reading
    BY <1>8 DEF rw_lock_wlock, rw_lock_wunlock
  <2>2. Inside' = Inside
    BY <1>8 DEF rw_lock_wlock, rw_lock_wunlock, Leave, Inside, Waiting
  <2> QED
    BY <1>3, <2>1, <2>2
<1>9. CASE UNCHANGED vars
  BY <1>3, <1>9 DEF vars, Inside
<1> QED
  BY <1>4, <1>5, <1>6, <1>7, <1>8, <1>9 DEF Next

\* For any finite number of readers and any writers: a reader that is counted
\* is still inside, so no lock is left held by threads that have gone, even
\* when the short cut of line 60 lets readers in uncounted.
THEOREM NobodyGoneHolds ==
  ASSUME IsFiniteSet(Readers)
  PROVE  Spec => []HeldBySomebody
<1>1. Init => HeldBySomebody
  <2> SUFFICES ASSUME Init PROVE HeldBySomebody
    OBVIOUS
  <2>1. {r \in Readers : pc[r] = "in"} = {}
    BY DEF Init, Threads
  <2> QED
    BY <2>1, FS_EmptySet DEF Init, HeldBySomebody
<1>2. Inv /\ HeldBySomebody /\ [Next]_vars => HeldBySomebody'
  BY NextHeld DEF Inv
<1> QED
  BY <1>1, <1>2, Invariance, PTL DEF Spec

\* Until a reader is let in uncounted, the count is exact.
Exact == skipped = "no" => readers_reading = Cardinality(Inside)

\* Nobody who reads is counted out: while a counted writer is in, nobody reads.
LEMMA NobodyReads ==
  ASSUME IsFiniteSet(Readers), Inv, Exact, skipped = "no", writer_writing = 1
  PROVE  \A r \in Readers : pc[r] # "in"
<1>1. Cardinality(Inside) = 0
  BY DEF Inv, Apart, Exact
<1>2. IsFiniteSet(Inside)
  BY FS_Subset DEF Inside
<1>3. Inside = {}
  BY <1>1, <1>2, FS_EmptySet
<1> QED
  BY <1>3 DEF Inside

\* `skipped' is history: once set, it stays.
LEMMA SkippedStays == skipped = "yes" /\ [Next]_vars => skipped' = "yes"
BY DEF Next, vars, AlreadyMine, NotMine, Wait, SpuriousWakeup,
       rw_lock_rlock, rw_lock_runlock, rw_lock_wlock, rw_lock_wunlock

\* Each step keeps the count exact, or lets a reader in uncounted.
LEMMA NextExact ==
  ASSUME IsFiniteSet(Readers), Inv, Exact, [Next]_vars
  PROVE  Exact'
<1> USE ThreadsAssumption DEF Inv, TypeOK, Threads
<1>. SUFFICES ASSUME skipped' = "no" PROVE readers_reading' = Cardinality(Inside')
  BY DEF Exact
<1>0. skipped = "no"
  BY SkippedStays
<1>1. readers_reading = Cardinality(Inside) /\ Cardinality(Inside) \in Nat
  <2>1. IsFiniteSet(Inside)
    BY FS_Subset DEF Inside
  <2> QED
    BY <1>0, <2>1, FS_CardinalityType DEF Exact
<1>2. ASSUME NEW t \in Threads, AlreadyMine(t)
      PROVE  FALSE
  BY <1>2 DEF AlreadyMine, Apart
<1>3. ASSUME NEW t \in Threads, NotMine(t) \/ Wait(t) \/ SpuriousWakeup(t)
      PROVE  readers_reading' = readers_reading /\ Inside' = Inside
  BY <1>3 DEF NotMine, Wait, SpuriousWakeup, Inside
<1>4. ASSUME NEW t \in Readers, rw_lock_rlock(t)
      PROVE  readers_reading' = Cardinality(Inside')
  <2>1. /\ t \notin Inside /\ Inside' = Inside \cup {t}
        /\ readers_reading' = readers_reading + 1
    BY <1>4 DEF rw_lock_rlock, Inside
  <2>2. Cardinality(Inside') = Cardinality(Inside) + 1
    BY <2>1, CrowdChanges
  <2> QED
    BY <1>1, <2>1, <2>2
<1>5. ASSUME NEW t \in Readers, rw_lock_runlock(t)
      PROVE  readers_reading' = Cardinality(Inside')
  <2>1. t \in Inside /\ Inside' = Inside \ {t}
    BY <1>5 DEF rw_lock_runlock, Leave, Inside, Signalled, Waiting
  <2>2. Cardinality(Inside') = Cardinality(Inside) - 1 /\ Cardinality(Inside') \in Nat
    BY <2>1, CrowdChanges
  <2>3. readers_reading' = IF readers_reading = 0 THEN 0 ELSE readers_reading - 1
    BY <1>5 DEF rw_lock_runlock
  <2> QED
    BY <1>1, <2>2, <2>3
<1>6. ASSUME NEW t \in Writers, rw_lock_wlock(t) \/ rw_lock_wunlock(t)
      PROVE  readers_reading' = readers_reading /\ Inside' = Inside
  <2>1. readers_reading' = readers_reading
    BY <1>6 DEF rw_lock_wlock, rw_lock_wunlock
  <2>2. Inside' = Inside
    BY <1>6 DEF rw_lock_wlock, rw_lock_wunlock, Leave, Inside, Waiting
  <2> QED
    BY <2>1, <2>2
<1>7. CASE UNCHANGED vars
  BY <1>1, <1>7 DEF vars, Inside
<1> QED
  BY <1>1, <1>2, <1>3, <1>4, <1>5, <1>6, <1>7 DEF Next

\* For any finite number of readers and any writers: a writer that is in is
\* alone, unless a reader has taken the short cut of line 60 and gone in
\* uncounted.  So that unlocked test is all that is wrong with the lock.
THEOREM OnlyTheShortCutOverlaps ==
  ASSUME IsFiniteSet(Readers)
  PROVE  Spec => []ExclusiveUntilSkipped
<1>1. Init => Exact
  <2> SUFFICES ASSUME Init PROVE Exact
    OBVIOUS
  <2>1. Inside = {}
    BY DEF Init, Threads, Inside
  <2> QED
    BY <2>1, FS_EmptySet DEF Init, Exact
<1>2. Inv /\ Exact /\ [Next]_vars => Exact'
  BY NextExact
<1>3. Inv /\ Exact => ExclusiveUntilSkipped
  <2> SUFFICES ASSUME Inv, Exact, skipped = "no", NEW w \in Writers, pc[w] = "in",
                      NEW t \in Threads \ {w}
               PROVE  pc[t] # "in"
    BY DEF ExclusiveUntilSkipped, Exclusion, Inv, TypeOK
  <2>1. writer_writing = 1 /\ locking_thread = w
    BY DEF Inv, WriterCounted
  <2>2. CASE t \in Readers
    BY <2>1, <2>2, NobodyReads
  <2>3. CASE t \in Writers
    BY <2>1, <2>3 DEF Inv, WriterCounted
  <2> QED
    BY <2>2, <2>3 DEF Threads
<1> QED
  BY <1>1, <1>2, <1>3, Invariance, PTL DEF Spec

-----------------------------------------------------------------------------

(***************************************************************************)
(* Where a thread is, and what it has there.                               *)
(***************************************************************************)
Within == {"locked", "built", "freed", "published", "unlock"}

\* A thread is in the lock just when it is between Lock and Unlock.
Steps ==
  /\ \A r \in Readers : step[r] \in {"idle", "lock"} \cup Within
  /\ \A w \in Writers : step[w] \in {"idle", "find", "seen", "new", "lock", "locked", "unlock"}
  /\ \A t \in Threads : pc[t] = "in" <=> step[t] \in Within

\* What CopyList, Publish and the handlers overwrite holds no reference.
Handed ==
  /\ \A r \in Readers : step[r] \notin {"built", "freed"} => fresh[r] = <<>>
  /\ \A r \in Readers : step[r] \notin {"idle", "unlock"} => copy[r] = <<>>
  /\ \A w \in Writers : found[w] # 0 <=> step[w] \in {"seen", "lock", "locked"}
  /\ \A w \in Writers : step[w] \in {"find", "new"} => advert[w] \in Advert

\* ins->list dangles while one reader is between freeing and publishing, and
\* nobody's pointer is current then.
Pointer ==
  /\ dangling => list = <<>> /\ \A t \in Threads : held[t] # "current"
  /\ dangling <=> \E r \in Readers : step[r] = "freed"
  /\ \A r, s \in Readers : step[r] = "freed" /\ step[s] = "freed" => r = s
  /\ \A t \in Threads : step[t] \in {"built", "find"} => held[t] # "none"

(***************************************************************************)
(* Who has added what, when the indexnodes are N.                          *)
(***************************************************************************)
Distinct(N, l) ==
  \A i, j \in DOMAIN l : i # j /\ N[l[i]].id = N[l[j]].id => N[l[i]].by # N[l[j]].by

Among(l, m) == \A i \in DOMAIN l : \E j \in DOMAIN m : l[i] = m[j]

\* w has put no indexnode with this id into the list l.
Absent(N, w, id, l) == \A i \in DOMAIN l : N[l[i]].id = id => N[l[i]].by # w

\* What w has searched for and not found.
Missing(w) == IF step[w] = "new" THEN advert[w].id ELSE node[found[w]].id

Seeking == {"new", "lock", "locked"}

Searched ==
  /\ Distinct(node, list)
  /\ \A r \in Readers : step[r] = "freed" => Distinct(node, fresh[r])
  /\ \A r \in Readers :
       step[r] = "built" /\ held[r] = "current" => Distinct(node, fresh[r]) /\ Among(fresh[r], list)
  /\ \A w \in Writers : step[w] \in {"lock", "locked"} => node[found[w]].by = w
  /\ \A w \in Writers :
       step[w] \in Seeking =>
         /\ Absent(node, w, Missing(w), list)
         /\ \A r \in Readers : step[r] = "freed" => Absent(node, w, Missing(w), fresh[r])

(***************************************************************************)
(* When what was seen.                                                     *)
(***************************************************************************)
Clock ==
  /\ \A n \in DOMAIN node : node[n].born <= node[n].last_seen /\ node[n].last_seen <= now
  /\ \A r \in Readers : asked[r] <= now

LiveSince(N, l, time) == \A i \in DOMAIN l : N[l[i]].last_seen + TIMEOUT > time

\* r builds a list that will replace the one there is.
Replacing(r) == step[r] = "freed" \/ (step[r] = "built" /\ held[r] = "current")

\* What a reader has published stays live for it until it makes its copy, and
\* so is whatever another reader is about to put in its place.
Live ==
  /\ \A r \in Readers : step[r] \in {"built", "freed"} => LiveSince(node, fresh[r], asked[r])
  /\ \A r \in Readers :
       step[r] = "published" =>
         /\ LiveSince(node, list, asked[r])
         /\ \A s \in Readers : Replacing(s) => LiveSince(node, fresh[s], asked[r])
  /\ \A r \in Readers : LiveSince(node, copy[r], asked[r])

Occurs(n, l) == \E i \in DOMAIN l : l[i] = n

\* n was listed, and not a timeout ago.
Recent(n) == node[n].added /\ now < node[n].born + TIMEOUT

Lasting ==
  \A n \in DOMAIN node :
    Recent(n) =>
      /\ dangling \/ Occurs(n, list)
      /\ \A r \in Readers : step[r] \in {"built", "freed"} => Occurs(n, fresh[r])

\* Both, until a reader is let in uncounted.
Sound == skipped = "yes" \/ (Live /\ Lasting)

-----------------------------------------------------------------------------
(***************************************************************************)
(* Sets of numbers, and counting in lists.                                 *)
(***************************************************************************)

\* A set of naturals that is not empty has a least element.
LEMMA LeastNumber ==
  ASSUME NEW S \in SUBSET Nat, S # {}
  PROVE  \E m \in S : \A k \in S : m <= k
<1>1. \E R : IsWellFoundedOn(R, Nat) /\ \A x, y \in Nat : x < y => <<x, y>> \in R
  <2>1. IsWellFoundedOn(OpToRel(<, Nat), Nat)
    BY NatLessThanWellFounded
  <2>2. \A x, y \in Nat : x < y => <<x, y>> \in OpToRel(<, Nat)
    BY DEF OpToRel
  <2>. QED BY <2>1, <2>2, Zenon
<1>2. PICK R : IsWellFoundedOn(R, Nat) /\ \A x, y \in Nat : x < y => <<x, y>> \in R
  BY <1>1
<1>3. PICK m \in S : \A k \in S : ~(<<k, m>> \in R)
  <2>1. IsWellFoundedOn(R, Nat) /\ S \subseteq Nat /\ S # {}
    BY <1>2
  <2>. QED BY <2>1, WFMin, Zenon
<1>4. \A k \in S : ~(k < m)
  BY <1>2, <1>3
<1>5. \A k \in S : m <= k
  BY <1>4
<1>. QED BY <1>5

\* Two sets of which one is the image of the other, one to one, are as large.
LEMMA SameCount ==
  ASSUME NEW S, NEW T, IsFiniteSet(S), NEW f \in [S -> T],
         \A x, y \in S : f[x] = f[y] => x = y, \A t \in T : \E x \in S : f[x] = t
  PROVE  IsFiniteSet(T) /\ Cardinality(T) = Cardinality(S)
<1>1. f \in Bijection(S, T)
  BY DEF Bijection, Injection, Surjection, IsInjective
<1>. QED BY <1>1, FS_Bijection DEF ExistsBijection

\* A function from 1 .. n is a list.
LEMMA SeqOfFunction ==
  ASSUME NEW S, NEW n \in Nat, NEW f \in [1 .. n -> S]
  PROVE  f \in Seq(S)
BY SeqDef

\* A list has finitely many places; n is in one just when it occurs.
LEMMA TimesType ==
  ASSUME NEW l \in Seq(Nat), NEW n
  PROVE  /\ IsFiniteSet(Places(l, n)) /\ Times(l, n) \in Nat
         /\ Times(l, n) > 0 <=> Occurs(n, l)
<1>1. Len(l) \in Nat /\ DOMAIN l = 1 .. Len(l)
  BY LenProperties
<1>2. IsFiniteSet(1 .. Len(l)) /\ Places(l, n) \in SUBSET (1 .. Len(l))
  BY <1>1, FS_Interval DEF Places
<1>3. IsFiniteSet(Places(l, n))
  BY <1>2, FS_Subset
<1>4. Times(l, n) \in Nat /\ (Times(l, n) = 0 <=> Places(l, n) = {})
  BY <1>3, FS_CardinalityType, FS_EmptySet DEF Times
<1>5. Places(l, n) # {} <=> Occurs(n, l)
  BY DEF Places, Occurs
<1>. QED BY <1>3, <1>4, <1>5

\* Nothing occurs in the empty list.
LEMMA TimesEmpty == \A n : Places(<<>>, n) = {} /\ Times(<<>>, n) = 0
<1>1. DOMAIN <<>> = {}
  OBVIOUS
<1>2. \A n : Places(<<>>, n) = {}
  BY <1>1 DEF Places
<1>. QED BY <1>2, FS_EmptySet DEF Times

\* A list that is turned round has each entry as often.
LEMMA TimesReverse ==
  ASSUME NEW S, NEW l \in Seq(S), NEW n
  PROVE  /\ Reverse(l) \in Seq(S) /\ Len(Reverse(l)) = Len(l)
         /\ S \subseteq Nat => Times(Reverse(l), n) = Times(l, n)
         /\ \A i \in DOMAIN Reverse(l) : \E j \in DOMAIN l : Reverse(l)[i] = l[j]
<1>. DEFINE k == Len(l)
            m == Reverse(l)
<1>1. k \in Nat /\ DOMAIN l = 1 .. k /\ \A i \in 1 .. k : l[i] \in S
  BY LenProperties, ElementOfSeq
<1>2. m = [i \in 1 .. k |-> l[(k - i) + 1]]
  BY DEF Reverse
<1>3. \A i \in 1 .. k : (k - i) + 1 \in 1 .. k
  BY <1>1
<1>. HIDE DEF k, m
<1>4. m \in Seq(S) /\ Len(m) = k /\ DOMAIN m = 1 .. k
  <2>1. m \in [1 .. k -> S]
    BY <1>1, <1>2, <1>3
  <2>2. m \in Seq(S)
    BY <1>1, <2>1, SeqOfFunction
  <2>. QED BY <1>1, <2>1, <2>2, LenProperties
<1>5. ASSUME S \subseteq Nat PROVE Times(m, n) = Times(l, n)
  <2>1. l \in Seq(Nat)
    BY <1>5, SeqMonotonic
  <2>2. IsFiniteSet(Places(l, n))
    BY <2>1, TimesType
  <2>. DEFINE f == [i \in Places(l, n) |-> (k - i) + 1]
  <2>3. \A i \in Places(l, n) : i \in 1 .. k /\ l[i] = n
    BY <1>1 DEF Places
  <2>4. f \in [Places(l, n) -> Places(m, n)]
    <3>1. ASSUME NEW i \in Places(l, n) PROVE (k - i) + 1 \in Places(m, n)
      <4>1. (k - i) + 1 \in 1 .. k /\ (k - ((k - i) + 1)) + 1 = i
        BY <1>1, <2>3
      <4>2. m[(k - i) + 1] = l[i]
        BY <1>2, <4>1
      <4>. QED BY <1>4, <2>3, <4>1, <4>2 DEF Places
    <3>. QED BY <3>1
  <2>5. \A x, y \in Places(l, n) : f[x] = f[y] => x = y
    BY <1>1, <2>3
  <2>6. ASSUME NEW t \in Places(m, n) PROVE \E x \in Places(l, n) : f[x] = t
    <3>1. t \in 1 .. k /\ m[t] = n
      BY <1>4 DEF Places
    <3>2. (k - t) + 1 \in 1 .. k /\ l[(k - t) + 1] = n
      BY <1>2, <1>3, <3>1
    <3>3. (k - t) + 1 \in Places(l, n) /\ (k - ((k - t) + 1)) + 1 = t
      BY <1>1, <3>1, <3>2 DEF Places
    <3>. QED BY <3>3
  <2>. HIDE DEF f
  <2>. QED BY <2>2, <2>4, <2>5, <2>6, SameCount DEF Times
<1>6. \A i \in DOMAIN m : \E j \in DOMAIN l : m[i] = l[j]
  BY <1>1, <1>2, <1>3, <1>4
<1>. QED BY <1>4, <1>5, <1>6 DEF k, m

\* An entry more at the head.
LEMMA AtHead ==
  ASSUME NEW S, NEW x \in S, NEW l \in Seq(S)
  PROVE  /\ <<x>> \o l \in Seq(S) /\ Len(<<x>> \o l) = Len(l) + 1
         /\ DOMAIN (<<x>> \o l) = 1 .. Len(l) + 1
         /\ (<<x>> \o l)[1] = x /\ \A i \in 1 .. Len(l) : (<<x>> \o l)[i + 1] = l[i]
<1>1. <<x>> \in Seq(S) /\ Len(<<x>>) = 1 /\ <<x>>[1] = x /\ Len(l) \in Nat
  BY LenProperties
<1>. DEFINE m == <<x>> \o l
<1>2. /\ m \in Seq(S) /\ Len(m) = 1 + Len(l)
      /\ \A i \in 1 .. 1 + Len(l) : m[i] = IF i <= 1 THEN <<x>>[i] ELSE l[i - 1]
  BY <1>1, ConcatProperties
<1>. HIDE DEF m
<1>3. Len(m) = Len(l) + 1 /\ DOMAIN m = 1 .. Len(l) + 1
  BY <1>1, <1>2, LenProperties
<1>4. m[1] = x
  BY <1>1, <1>2
<1>5. \A i \in 1 .. Len(l) : m[i + 1] = l[i]
  BY <1>1, <1>2
<1>. QED BY <1>2, <1>3, <1>4, <1>5 DEF m

\* It counts once more.
LEMMA TimesAtHead ==
  ASSUME NEW x \in Nat, NEW l \in Seq(Nat), NEW n
  PROVE  /\ Times(<<x>> \o l, n) = Times(l, n) + Times(<<x>>, n)
         /\ Times(<<x>>, n) = IF x = n THEN 1 ELSE 0
<1>1. Times(<<x>>, n) = IF x = n THEN 1 ELSE 0
  <2>1. DOMAIN <<x>> = {1} /\ <<x>>[1] = x
    OBVIOUS
  <2>2. Places(<<x>>, n) = IF x = n THEN {1} ELSE {}
    BY <2>1 DEF Places
  <2>. QED BY <2>2, FS_EmptySet, FS_Singleton DEF Times
<1>. DEFINE m == <<x>> \o l
            shifted == {i + 1 : i \in Places(l, n)}
            f == [i \in Places(l, n) |-> i + 1]
<1>2. /\ Len(l) \in Nat /\ DOMAIN l = 1 .. Len(l) /\ DOMAIN m = 1 .. Len(l) + 1
      /\ m[1] = x /\ \A i \in 1 .. Len(l) : m[i + 1] = l[i]
  BY AtHead, LenProperties
<1>3. \A i \in Places(l, n) : i \in 1 .. Len(l) /\ l[i] = n
  BY <1>2 DEF Places
<1>4. IsFiniteSet(shifted) /\ Cardinality(shifted) = Times(l, n) /\ 1 \notin shifted
  <2>1. IsFiniteSet(Places(l, n))
    BY TimesType
  <2>2. /\ f \in [Places(l, n) -> shifted] /\ \A i, j \in Places(l, n) : f[i] = f[j] => i = j
        /\ \A t \in shifted : \E i \in Places(l, n) : f[i] = t
    BY <1>2, <1>3
  <2>3. 1 \notin shifted
    BY <1>2, <1>3
  <2>. HIDE DEF f, shifted
  <2>. QED BY <2>1, <2>2, <2>3, SameCount DEF Times
<1>. HIDE DEF m
<1>5. Places(m, n) = IF x = n THEN shifted \cup {1} ELSE shifted
  <2>1. ASSUME NEW i PROVE i \in Places(m, n) <=> i \in shifted \/ (i = 1 /\ x = n)
    <3>1. CASE i \in 2 .. Len(l) + 1
      <4>1. i - 1 \in 1 .. Len(l) /\ (i - 1) + 1 = i
        BY <1>2, <3>1
      <4>2. m[i] = l[i - 1]
        BY <1>2, <4>1
      <4>3. i \in DOMAIN m /\ i - 1 \in DOMAIN l /\ i # 1
        BY <1>2, <3>1, <4>1
      <4>4. i \in Places(m, n) <=> i - 1 \in Places(l, n)
        BY <4>2, <4>3 DEF Places
      <4>5. i \in shifted <=> i - 1 \in Places(l, n)
        BY <1>2, <1>3, <4>1
      <4>. QED BY <4>3, <4>4, <4>5
    <3>2. CASE i = 1
      BY <1>2, <1>4, <3>2 DEF Places
    <3>3. CASE i \notin 1 .. Len(l) + 1
      <4>1. i \notin Places(m, n) /\ i # 1
        BY <1>2, <3>3 DEF Places
      <4>2. i \notin shifted
        BY <1>2, <1>3, <3>3
      <4>. QED BY <4>1, <4>2
    <3>. QED BY <1>2, <3>1, <3>2, <3>3
  <2>. HIDE DEF shifted
  <2>. QED BY <2>1
<1>. HIDE DEF shifted
<1>6. Times(m, n) = IF x = n THEN Times(l, n) + 1 ELSE Times(l, n)
  BY <1>4, <1>5, FS_AddElement DEF Times
<1>. QED BY <1>1, <1>6, TimesType DEF m

-----------------------------------------------------------------------------
(***************************************************************************)
(* The loop of indexnodes_list_remove_expired.                             *)
(***************************************************************************)

\* g is what the first m rounds of the loop make of l.
Loop(l, m, g) ==
  g = [k \in 0 .. m |-> IF k = 0 THEN <<>>
                        ELSE IF indexnode_still_valid(l[k]) THEN <<l[k]>> \o g[k - 1]
                        ELSE g[k - 1]]

\* The loop can be run to its end.
LEMMA LoopRuns ==
  ASSUME NEW l \in Seq(Nat)
  PROVE  \A m \in 0 .. Len(l) : \E g : Loop(l, m, g)
<1>. DEFINE stuck == {m \in 0 .. Len(l) : ~\E g : Loop(l, m, g)}
<1>0. Len(l) \in Nat
  BY LenProperties
<1>1. SUFFICES ASSUME stuck # {} PROVE FALSE
  OBVIOUS
<1>2. PICK m \in stuck : \A k \in stuck : m <= k
  <2>1. stuck \in SUBSET Nat
    BY <1>0
  <2>. HIDE DEF stuck
  <2>. QED BY <1>1, <2>1, LeastNumber
<1>3. m \in 0 .. Len(l) /\ \A g : ~Loop(l, m, g)
  BY <1>2
<1>4. m # 0
  <2>1. SUFFICES ASSUME m = 0 PROVE FALSE
    OBVIOUS
  <2>2. Loop(l, 0, [k \in 0 .. 0 |-> <<>>])
    BY DEF Loop
  <2>. QED BY <1>3, <2>1, <2>2
<1>5. m - 1 \in 0 .. Len(l) /\ m - 1 \notin stuck
  BY <1>0, <1>2, <1>3, <1>4
<1>6. PICK g : Loop(l, m - 1, g)
  BY <1>5
<1>. DEFINE h == [k \in 0 .. m |-> IF k = m
                                   THEN IF indexnode_still_valid(l[m]) THEN <<l[m]>> \o g[m - 1]
                                        ELSE g[m - 1]
                                   ELSE g[k]]
<1>7. Loop(l, m, h)
  <2>. DEFINE F == [k \in 0 .. m |-> IF k = 0 THEN <<>>
                                     ELSE IF indexnode_still_valid(l[k]) THEN <<l[k]>> \o h[k - 1]
                                     ELSE h[k - 1]]
  <2>1. ASSUME NEW k \in 0 .. m PROVE h[k] = F[k]
    <3>1. CASE k = m
      BY <1>0, <1>3, <1>4, <3>1
    <3>2. CASE k # m /\ k = 0
      BY <1>0, <1>3, <1>4, <1>6, <3>2 DEF Loop
    <3>3. CASE k # m /\ k # 0
      <4>1. k \in 0 .. m - 1 /\ k - 1 \in 0 .. m /\ k - 1 # m /\ k \in 0 .. m
        BY <1>0, <1>3, <3>3
      <4>2. h[k] = g[k] /\ h[k - 1] = g[k - 1]
        BY <3>3, <4>1
      <4>3. g[k] = IF indexnode_still_valid(l[k]) THEN <<l[k]>> \o g[k - 1] ELSE g[k - 1]
        BY <1>6, <3>3, <4>1 DEF Loop
      <4>. QED BY <3>3, <4>1, <4>2, <4>3
    <3>. QED BY <3>1, <3>2, <3>3
  <2>2. h = F
    BY <2>1
  <2>. QED BY <2>2 DEF Loop
<1>. QED BY <1>3, <1>7

\* So what it returns is what its last round leaves.
LEMMA LoopEnds ==
  ASSUME NEW l \in Seq(Nat)
  PROVE  \E g : Loop(l, Len(l), g) /\ remove_expired(l) = g[Len(l)]
<1>. DEFINE F(g) == [k \in 0 .. Len(l) |-> IF k = 0 THEN <<>>
                                           ELSE IF indexnode_still_valid(l[k]) THEN <<l[k]>> \o g[k - 1]
                                           ELSE g[k - 1]]
            made == CHOOSE g : g = F(g)
<1>1. \E g : g = F(g)
  <2>1. Len(l) \in 0 .. Len(l)
    BY LenProperties
  <2>. QED BY <2>1, LoopRuns DEF Loop
<1>2. made = F(made)
  BY <1>1
<1>3. remove_expired(l) = made[Len(l)]
  BY DEF remove_expired
<1>4. Loop(l, Len(l), made)
  BY <1>2 DEF Loop
<1>. QED BY <1>3, <1>4

\* s is made of the first k entries of l: places of s go to places of l, one
\* to one, that hold the same indexnode, which is valid; and a valid one is in.
Kept(l, k, s) ==
  /\ s \in Seq(Nat)
  /\ \E f \in [DOMAIN s -> 1 .. k] :
       /\ \A i, j \in DOMAIN s : f[i] = f[j] => i = j
       /\ \A i \in DOMAIN s : s[i] = l[f[i]] /\ indexnode_still_valid(s[i])
  /\ \A j \in 1 .. k : indexnode_still_valid(l[j]) => Occurs(l[j], s)

\* One round keeps that up.
LEMMA KeptRound ==
  ASSUME NEW l \in Seq(Nat), NEW k \in 1 .. Len(l), NEW s, Kept(l, k - 1, s)
  PROVE  Kept(l, k, IF indexnode_still_valid(l[k]) THEN <<l[k]>> \o s ELSE s)
<1>1. k \in Nat /\ k - 1 \in Nat /\ k \in 1 .. k /\ 1 .. (k - 1) \subseteq 1 .. k /\ k \notin 1 .. (k - 1)
  BY LenProperties
<1>2. l[k] \in Nat /\ s \in Seq(Nat)
  BY ElementOfSeq DEF Kept
<1>3. PICK f \in [DOMAIN s -> 1 .. (k - 1)] :
        /\ \A i, j \in DOMAIN s : f[i] = f[j] => i = j
        /\ \A i \in DOMAIN s : s[i] = l[f[i]] /\ indexnode_still_valid(s[i])
  BY DEF Kept
<1>4. \A j \in 1 .. (k - 1) : indexnode_still_valid(l[j]) => Occurs(l[j], s)
  BY DEF Kept
<1>5. \A j \in 1 .. k : j = k \/ j \in 1 .. (k - 1)
  BY <1>1
<1>6. CASE ~indexnode_still_valid(l[k])
  <2>1. f \in [DOMAIN s -> 1 .. k]
    BY <1>1, <1>3
  <2>2. \A j \in 1 .. k : indexnode_still_valid(l[j]) => Occurs(l[j], s)
    BY <1>4, <1>5, <1>6
  <2>3. Kept(l, k, s)
    BY <1>2, <1>3, <2>1, <2>2 DEF Kept
  <2>. QED BY <1>6, <2>3
<1>7. CASE indexnode_still_valid(l[k])
  <2>. DEFINE t == <<l[k]>> \o s
              n == Len(s)
              g == [i \in 1 .. n + 1 |-> IF i = 1 THEN k ELSE f[i - 1]]
  <2>1. /\ n \in Nat /\ DOMAIN s = 1 .. n /\ t \in Seq(Nat) /\ DOMAIN t = 1 .. n + 1
        /\ t[1] = l[k] /\ \A i \in 1 .. n : t[i + 1] = s[i]
    BY <1>2, AtHead, LenProperties
  <2>2. \A i \in 1 .. n + 1 : i # 1 => i - 1 \in 1 .. n /\ (i - 1) + 1 = i
    BY <2>1
  <2>. HIDE DEF t, n
  <2>0. 1 \in 1 .. n + 1 /\ \A i \in 1 .. n : i + 1 \in 1 .. n + 1
    BY <2>1
  <2>3. /\ g \in [1 .. n + 1 -> 1 .. k] /\ g[1] = k
        /\ \A i \in 1 .. n + 1 : i # 1 => g[i] = f[i - 1] /\ g[i] \in 1 .. (k - 1)
    <3>1. \A i \in 1 .. n + 1 : i # 1 => f[i - 1] \in 1 .. (k - 1)
      BY <1>3, <2>1, <2>2
    <3>2. \A i \in 1 .. n + 1 : (IF i = 1 THEN k ELSE f[i - 1]) \in 1 .. k
      BY <1>1, <3>1
    <3>. QED BY <1>1, <2>0, <3>1, <3>2
  <2>. HIDE DEF g
  <2>4. ASSUME NEW i \in 1 .. n + 1, NEW j \in 1 .. n + 1, g[i] = g[j] PROVE i = j
    <3>1. CASE i = 1 \/ j = 1
      BY <1>1, <2>3, <2>4, <3>1
    <3>2. CASE i # 1 /\ j # 1
      <4>1. f[i - 1] = f[j - 1] /\ i - 1 \in DOMAIN s /\ j - 1 \in DOMAIN s
        BY <2>1, <2>2, <2>3, <2>4, <3>2
      <4>2. i - 1 = j - 1
        BY <1>3, <4>1
      <4>. QED BY <2>2, <3>2, <4>2
    <3>. QED BY <3>1, <3>2
  <2>5. ASSUME NEW i \in 1 .. n + 1 PROVE t[i] = l[g[i]] /\ indexnode_still_valid(t[i])
    <3>1. CASE i = 1
      BY <1>7, <2>1, <2>3, <3>1
    <3>2. CASE i # 1
      <4>1. i - 1 \in DOMAIN s /\ t[i] = s[i - 1] /\ g[i] = f[i - 1]
        BY <2>1, <2>2, <2>3, <3>2
      <4>. QED BY <1>3, <4>1
    <3>. QED BY <3>1, <3>2
  <2>6. ASSUME NEW j \in 1 .. k, indexnode_still_valid(l[j]) PROVE Occurs(l[j], t)
    <3>1. CASE j = k
      BY <2>0, <2>1, <3>1 DEF Occurs
    <3>2. CASE j # k
      <4>1. PICK i \in DOMAIN s : s[i] = l[j]
        BY <1>4, <1>5, <2>6, <3>2 DEF Occurs
      <4>2. i + 1 \in DOMAIN t /\ t[i + 1] = l[j]
        BY <2>0, <2>1, <4>1
      <4>. QED BY <4>2 DEF Occurs
    <3>. QED BY <3>1, <3>2
  <2>7. Kept(l, k, t)
    <3>1. g \in [DOMAIN t -> 1 .. k]
      BY <2>1, <2>3
    <3>2. /\ \A i, j \in DOMAIN t : g[i] = g[j] => i = j
          /\ \A i \in DOMAIN t : t[i] = l[g[i]] /\ indexnode_still_valid(t[i])
      BY <2>1, <2>4, <2>5
    <3>3. t \in Seq(Nat) /\ \A j \in 1 .. k : indexnode_still_valid(l[j]) => Occurs(l[j], t)
      BY <2>1, <2>6
    <3>. QED BY <3>1, <3>2, <3>3, Zenon DEF Kept
  <2>. QED BY <1>7, <2>7 DEF t
<1>. QED BY <1>6, <1>7

\* remove_expired leaves the valid entries, each as often as it was.
LEMMA UnexpiredKept ==
  ASSUME NEW l \in Seq(Nat)
  PROVE  Kept(l, Len(l), remove_expired(l))
<1>0. Len(l) \in Nat
  BY LenProperties
<1>1. PICK g : Loop(l, Len(l), g) /\ remove_expired(l) = g[Len(l)]
  BY LoopEnds
<1>2. /\ g[0] = <<>>
      /\ \A k \in 1 .. Len(l) :
           g[k] = IF indexnode_still_valid(l[k]) THEN <<l[k]>> \o g[k - 1] ELSE g[k - 1]
  <2>. DEFINE F == [k \in 0 .. Len(l) |-> IF k = 0 THEN <<>>
                                          ELSE IF indexnode_still_valid(l[k]) THEN <<l[k]>> \o g[k - 1]
                                          ELSE g[k - 1]]
  <2>1. g = F
    BY <1>1 DEF Loop
  <2>2. F[0] = <<>>
    BY <1>0
  <2>3. \A k \in 1 .. Len(l) :
          F[k] = IF indexnode_still_valid(l[k]) THEN <<l[k]>> \o g[k - 1] ELSE g[k - 1]
    BY <1>0
  <2>. HIDE DEF F
  <2>. QED BY <2>1, <2>2, <2>3
<1>. DEFINE wrong == {k \in 0 .. Len(l) : ~Kept(l, k, g[k])}
<1>3. SUFFICES ASSUME wrong # {} PROVE FALSE
  BY <1>0, <1>1
<1>4. PICK k \in wrong : \A j \in wrong : k <= j
  <2>1. wrong \in SUBSET Nat
    BY <1>0
  <2>. HIDE DEF wrong
  <2>. QED BY <1>3, <2>1, LeastNumber
<1>5. k # 0
  <2>1. Kept(l, 0, <<>>)
    <3>1. <<>> \in Seq(Nat) /\ DOMAIN <<>> = {} /\ 1 .. 0 = {}
      BY EmptySeq
    <3>2. [i \in {} |-> 0] \in [{} -> 1 .. 0]
      OBVIOUS
    <3>. QED BY <3>1, <3>2 DEF Kept
  <2>. QED BY <1>2, <1>4, <2>1
<1>6. k \in 1 .. Len(l) /\ k - 1 \in 0 .. Len(l) /\ k - 1 \notin wrong
  BY <1>0, <1>4, <1>5
<1>7. Kept(l, k - 1, g[k - 1])
  BY <1>6
<1>8. Kept(l, k, g[k])
  BY <1>2, <1>6, <1>7, KeptRound
<1>. QED BY <1>4, <1>8

\* The search finds an entry with the id if there is one.
LEMMA FirstMatchFacts ==
  ASSUME NEW id, list \in Seq(Nat)
  PROVE  LET i == FirstMatch(id) IN
         \/ i = 0 /\ \A j \in DOMAIN list : node[list[j]].id # id
         \/ i # 0 /\ i \in DOMAIN list /\ node[list[i]].id = id
<1>. DEFINE I == {i \in 1 .. Len(list) : node[list[i]].id = id}
<1>1. Len(list) \in Nat /\ DOMAIN list = 1 .. Len(list)
  BY LenProperties
<1>2. FirstMatch(id) = IF I # {} THEN Min(I) ELSE 0
  BY DEF FirstMatch, SelectInSeq
<1>3. I # {} => Min(I) \in I
  <2>1. I \in SUBSET Nat
    BY <1>1
  <2>. HIDE DEF I
  <2>2. I # {} => \E m \in I : \A k \in I : m <= k
    BY <2>1, LeastNumber
  <2>. QED BY <2>2 DEF Min
<1>4. CASE I = {}
  BY <1>1, <1>2, <1>4
<1>5. CASE I # {}
  <2>1. FirstMatch(id) \in I
    BY ONLY <1>2, <1>3, <1>5
  <2>2. FirstMatch(id) \in 1 .. Len(list) /\ node[list[FirstMatch(id)]].id = id
    BY ONLY <2>1
  <2>. QED BY ONLY <1>1, <2>2
<1>. QED BY <1>4, <1>5

-----------------------------------------------------------------------------
(***************************************************************************)
(* References, as what a function G says that each holder in H holds.      *)
(***************************************************************************)
Assignment(H) == [H -> Seq(Nat)]

Replaced(G, h, l) == [G EXCEPT ![h] = l]

Held(H, G, n) == UNION {{h} \X Places(G[h], n) : h \in H}

\* Replacing what one holder holds changes the references by that.
LEMMA HeldReplace ==
  ASSUME NEW H, IsFiniteSet(H), NEW G \in Assignment(H), NEW h \in H, NEW l \in Seq(Nat), NEW n
  PROVE  /\ Cardinality(Held(H, G, n)) \in Nat
         /\ Cardinality(Held(H, G, n)) >= Times(G[h], n)
         /\ Cardinality(Held(H, Replaced(G, h, l), n))
              = Cardinality(Held(H, G, n)) - Times(G[h], n) + Times(l, n)
<1>. USE DEF Assignment
<1>. DEFINE rest == UNION {{g} \X Places(G[g], n) : g \in H \ {h}}
            K == Replaced(G, h, l)
<1>1. ASSUME NEW g \in H
      PROVE  IsFiniteSet({g} \X Places(G[g], n))
  <2>1. IsFiniteSet(Places(G[g], n)) /\ IsFiniteSet({g})
    BY TimesType, FS_Singleton
  <2>. QED BY <2>1, FS_Product
<1>2. IsFiniteSet(rest)
  <2>. DEFINE parts == {{g} \X Places(G[g], n) : g \in H \ {h}}
              f == [g \in H \ {h} |-> {g} \X Places(G[g], n)]
  <2>1. IsFiniteSet(H \ {h})
    BY FS_RemoveElement
  <2>2. f \in Surjection(H \ {h}, parts)
    BY DEF Surjection
  <2>3. IsFiniteSet(parts)
    <3>. HIDE DEF f, parts
    <3>. QED BY <2>1, <2>2, FS_Surjection
  <2>4. \A T \in parts : IsFiniteSet(T)
    BY <1>1
  <2>. HIDE DEF parts
  <2>5. IsFiniteSet(UNION parts)
    BY <2>3, <2>4, FS_UNION
  <2>. QED BY <2>5 DEF parts
<1>3. /\ Held(H, G, n) = rest \cup ({h} \X Places(G[h], n))
      /\ Held(H, K, n) = rest \cup ({h} \X Places(l, n))
  <2>1. K[h] = l /\ \A g \in H \ {h} : K[g] = G[g]
    BY DEF Replaced
  <2>. HIDE DEF K
  <2>. QED BY <2>1 DEF Held
<1>4. ASSUME NEW m \in Seq(Nat)
      PROVE  /\ IsFiniteSet(rest \cup ({h} \X Places(m, n)))
             /\ Cardinality(rest \cup ({h} \X Places(m, n))) = Cardinality(rest) + Times(m, n)
  <2>. DEFINE mine == {h} \X Places(m, n)
  <2>1. IsFiniteSet(Places(m, n)) /\ IsFiniteSet({h}) /\ Cardinality({h}) = 1 /\ Times(m, n) \in Nat
    BY TimesType, FS_Singleton
  <2>2. IsFiniteSet(mine) /\ Cardinality(mine) = 1 * Times(m, n)
    BY <2>1, FS_Product DEF Times
  <2>3. rest \cap mine = {}
    <3>1. \A p \in rest : p[1] \in H \ {h}
      OBVIOUS
    <3>2. \A p \in mine : p[1] = h
      OBVIOUS
    <3>. HIDE DEF rest, mine
    <3>. QED BY <3>1, <3>2
  <2>. HIDE DEF rest, mine
  <2>4. Cardinality(rest) \in Nat
    BY <1>2, FS_CardinalityType
  <2>5. /\ IsFiniteSet(rest \cup mine)
        /\ Cardinality(rest \cup mine) = Cardinality(rest) + Cardinality(mine) - 0
    <3>1. /\ IsFiniteSet(rest \cup mine)
          /\ Cardinality(rest \cup mine)
               = Cardinality(rest) + Cardinality(mine) - Cardinality(rest \cap mine)
      BY <1>2, <2>2, FS_Union
    <3>2. Cardinality(rest \cap mine) = 0
      BY <2>3, FS_EmptySet
    <3>. QED BY <3>1, <3>2
  <2>6. Cardinality(rest \cup mine) = Cardinality(rest) + Times(m, n)
    BY <2>1, <2>2, <2>4, <2>5
  <2>. QED BY <2>5, <2>6 DEF mine
<1>. HIDE DEF rest, K
<1>5. Cardinality(rest) \in Nat
  BY <1>2, FS_CardinalityType
<1>6. Times(G[h], n) \in Nat /\ Times(l, n) \in Nat
  BY TimesType
<1>7. /\ Cardinality(Held(H, G, n)) = Cardinality(rest) + Times(G[h], n)
      /\ Cardinality(Held(H, K, n)) = Cardinality(rest) + Times(l, n)
  BY <1>3, <1>4
<1>. QED BY <1>5, <1>6, <1>7 DEF K

-----------------------------------------------------------------------------
(***************************************************************************)
(* The steps that C defines, apart from those that it does not.            *)
(***************************************************************************)

\* The list and the threads stay as they are.
Nothing ==
  /\ UNCHANGED <<vars, now, node, list, dangling, step, held, advert, found, fresh, copy, asked>>
  /\ undefined' \in {undefined, "list", "protocol"}

\* BuildUnexpired, FreeOldList, CopyList and indexnodes_list_add of a list
\* that can be used.
Builds(r) ==
  /\ At(r, "locked") /\ ~dangling
  /\ fresh' = [fresh EXCEPT ![r] = remove_expired(list)]
  /\ node' = Counted(remove_expired(list), <<>>)
  /\ held' = [held EXCEPT ![r] = "current"]
  /\ GoTo(r, "built")
  /\ UNCHANGED <<vars, now, list, dangling, advert, found, copy, asked, undefined>>

Frees(r) ==
  /\ At(r, "built") /\ held[r] # "freed"
  /\ node' = Counted(<<>>, list)
  /\ list' = <<>> /\ dangling' = TRUE
  /\ held' = [t \in Threads |-> IF t = r THEN "none"
                                ELSE IF held[t] = "current" THEN "freed" ELSE held[t]]
  /\ GoTo(r, "freed")
  /\ UNCHANGED <<vars, now, advert, found, fresh, copy, asked, undefined>>

Copies(r) ==
  /\ At(r, "published") /\ ~dangling
  /\ copy' = [copy EXCEPT ![r] = Reverse(list)]
  /\ node' = Counted(list, <<>>)
  /\ GoTo(r, "unlock")
  /\ UNCHANGED <<vars, now, list, dangling, held, advert, found, fresh, asked, undefined>>

Adds(w) ==
  /\ At(w, "locked") /\ ~dangling
  /\ list' = <<found[w]>> \o list
  /\ node' = [node EXCEPT ![found[w]].added = TRUE]
  /\ found' = [found EXCEPT ![w] = 0]
  /\ GoTo(w, "unlock")
  /\ UNCHANGED <<vars, now, dangling, held, advert, fresh, copy, asked, undefined>>

\* A search that finds an indexnode, and one that does not.
Finds(w) ==
  /\ At(w, "find") /\ held[w] # "freed"
  /\ held' = [held EXCEPT ![w] = "none"]
  /\ \E i \in {FirstMatch(advert[w].id)} \ {0} :
       node' = Counted(<<list[i]>>, <<>>) /\ found' = [found EXCEPT ![w] = list[i]]
  /\ advert' = [advert EXCEPT ![w] = NoAdvert]
  /\ GoTo(w, "seen")
  /\ UNCHANGED <<vars, now, list, dangling, fresh, copy, asked, undefined>>

Misses(w) ==
  /\ At(w, "find") /\ held[w] # "freed"
  /\ FirstMatch(advert[w].id) = 0
  /\ held' = [held EXCEPT ![w] = "none"]
  /\ GoTo(w, "new")
  /\ UNCHANGED <<vars, now, node, advert, found, list, dangling, fresh, copy, asked, undefined>>

\* An indexnode of a version that is supported, and one that is dropped.
Makes(w) ==
  /\ At(w, "new")
  /\ advert' = [advert EXCEPT ![w] = NoAdvert]
  /\ node' = Append(node, [id |-> advert[w].id, by |-> w, born |-> now,
                           last_seen |-> now, ref_count |-> 1, added |-> FALSE])
  /\ found' = [found EXCEPT ![w] = Len(node) + 1]
  /\ GoTo(w, "lock")
  /\ UNCHANGED <<vars, now, list, dangling, held, fresh, copy, asked, undefined>>

Refuses(w) ==
  /\ At(w, "new")
  /\ advert' = [advert EXCEPT ![w] = NoAdvert]
  /\ GoTo(w, "idle")
  /\ UNCHANGED <<vars, now, node, found, list, dangling, held, fresh, copy, asked, undefined>>

ReaderStep(r) == Get(r) \/ Builds(r) \/ Frees(r) \/ Publish(r) \/ Copies(r) \/ DeleteCopy(r)

WriterStep(w) ==
  \/ \E a \in Advert : new_indexnode_event(w, a)
  \/ Finds(w) \/ Misses(w) \/ SeenAgain(w) \/ Makes(w) \/ Refuses(w) \/ Adds(w)

\* These are all.
LEMMA StepsOfC ==
  ASSUME [IndexnodesNext]_allVars
  PROVE  \/ Nothing
         \/ \E r \in Readers : ReaderStep(r)
         \/ \E w \in Writers : WriterStep(w)
         \/ \E t \in Threads : Lock(t) \/ Unlock(t)
         \/ Tick
<1>1. ASSUME NEW why \in {"list", "protocol"}, Undefined(why) PROVE Nothing
  BY <1>1 DEF Undefined, Nothing
<1>2. ASSUME NEW r \in Readers, BuildUnexpired(r) PROVE Nothing \/ Builds(r)
  BY <1>1, <1>2 DEF BuildUnexpired, Builds
<1>3. ASSUME NEW r \in Readers, FreeOldList(r) PROVE Nothing \/ Frees(r)
  BY <1>1, <1>3 DEF FreeOldList, Frees
<1>4. ASSUME NEW r \in Readers, CopyList(r) PROVE Nothing \/ Copies(r)
  BY <1>1, <1>4 DEF CopyList, Copies
<1>5. ASSUME NEW w \in Writers, indexnodes_list_add(w) PROVE Nothing \/ Adds(w)
  BY <1>1, <1>5 DEF indexnodes_list_add, Adds
<1>6. ASSUME NEW w \in Writers, indexnodes_list_find(w) PROVE Nothing \/ Finds(w) \/ Misses(w)
  BY <1>1, <1>6 DEF indexnodes_list_find, Finds, Misses
<1>7. ASSUME NEW w \in Writers, MalformedProtocol(w) PROVE Nothing
  BY <1>1, <1>7 DEF MalformedProtocol
<1>8. ASSUME NEW w \in Writers, indexnode_new(w) PROVE Makes(w) \/ Refuses(w)
  BY <1>8 DEF indexnode_new, Makes, Refuses
<1>9. CASE UNCHANGED allVars
  BY <1>9 DEF allVars, listVars, Nothing
<1>. QED
  BY <1>2, <1>3, <1>4, <1>5, <1>6, <1>7, <1>8, <1>9 DEF IndexnodesNext, ReaderStep, WriterStep

\* Whatever the threads do with the list, they use the lock as RwLock says.
LEMMA LockStep == [IndexnodesNext]_allVars => [Next]_vars
<1>. SUFFICES ASSUME [IndexnodesNext]_allVars PROVE [Next]_vars
  OBVIOUS
<1>1. CASE Nothing
  BY <1>1 DEF Nothing
<1>2. ASSUME NEW r \in Readers, ReaderStep(r) PROVE UNCHANGED vars
  BY <1>2 DEF ReaderStep, Get, Builds, Frees, Publish, Copies, DeleteCopy
<1>3. ASSUME NEW w \in Writers, WriterStep(w) PROVE UNCHANGED vars
  BY <1>3 DEF WriterStep, new_indexnode_event, Finds, Misses, SeenAgain, Makes, Refuses, Adds
<1>4. ASSUME NEW t \in Threads, Lock(t) \/ Unlock(t) PROVE Next
  BY <1>4 DEF Lock, Unlock, Next
<1>5. CASE Tick
  BY <1>5 DEF Tick
<1>. QED BY <1>1, <1>2, <1>3, <1>4, <1>5, StepsOfC

\* So what locks.c guarantees holds of the list's lock.
LEMMA LockKept == Inv /\ [IndexnodesNext]_allVars => Inv'
BY LockStep, NextType, NextWriters, NextWaiters DEF Inv

-----------------------------------------------------------------------------
(***************************************************************************)
(* Where the threads are.                                                  *)
(***************************************************************************)

\* What Lock and Unlock do to the steps.
LEMMA LockMoves ==
  ASSUME IndexnodesTypeOK, Steps, NEW t \in Threads, Lock(t) \/ Unlock(t)
  PROVE  /\ \A u \in Threads \ {t} : step'[u] = step[u] /\ (pc'[u] = "in" <=> pc[u] = "in")
         /\ Lock(t) => step[t] = "lock" /\ step'[t] \in {"lock", "locked"}
         /\ Unlock(t) => step[t] = "unlock" /\ step'[t] = "idle"
         /\ pc'[t] = "in" <=> step'[t] \in Within
<1>. USE DEF IndexnodesTypeOK, TypeOK, At, GoTo, Within
<1>1. CASE Lock(t)
  <2>1. step[t] = "lock" /\ pc[t] # "in"
    BY <1>1 DEF Lock, Steps
  <2>2. /\ \E x \in {"in", "entering", "waiting", "woken"} : pc' = [pc EXCEPT ![t] = x]
        /\ IF pc'[t] = "in" THEN step' = [step EXCEPT ![t] = "locked"] ELSE step' = step
    BY <1>1 DEF Lock, AlreadyMine, NotMine, Wait, SpuriousWakeup, rw_lock_rlock, rw_lock_wlock
  <2>3. ~Unlock(t)
    BY <2>1 DEF Unlock
  <2>. QED BY <1>1, <2>1, <2>2, <2>3
<1>2. CASE Unlock(t)
  <2>1. step[t] = "unlock" /\ step' = [step EXCEPT ![t] = "idle"]
    BY <1>2 DEF Unlock
  <2>2. \E S \in SUBSET Waiting : pc' = Leave(t, S)
    BY <1>2 DEF Unlock, rw_lock_runlock, rw_lock_wunlock, Signalled
  <2>3. pc'[t] = "out" /\ \A u \in Threads \ {t} : pc'[u] = "in" <=> pc[u] = "in"
    BY <2>2 DEF Leave, Waiting
  <2>4. ~Lock(t)
    BY <2>1 DEF Lock
  <2>. QED BY <1>2, <2>1, <2>3, <2>4
<1>. QED BY <1>1, <1>2

\* A thread is in the lock just when its step says so.
LEMMA NextSteps ==
  ASSUME IndexnodesTypeOK, Steps, [IndexnodesNext]_allVars
  PROVE  Steps'
<1>. USE ThreadsAssumption DEF IndexnodesTypeOK, TypeOK, At, GoTo, Within
<1>1. CASE Nothing
  BY <1>1 DEF Nothing, Steps, vars
<1>2. ASSUME NEW r \in Readers, ReaderStep(r) PROVE Steps'
  <2>1. /\ pc' = pc
        /\ \/ step' = step
           \/ step[r] = "idle" /\ step' = [step EXCEPT ![r] = "lock"]
           \/ step[r] \in Within /\ \E s \in Within : step' = [step EXCEPT ![r] = s]
    BY <1>2 DEF ReaderStep, Get, Builds, Frees, Publish, Copies, DeleteCopy, vars
  <2>2. \A t \in Threads \ {r} : step'[t] = step[t]
    BY <2>1
  <2>3. step'[r] \in {"idle", "lock"} \cup Within /\ (step'[r] \in Within <=> step[r] \in Within)
    <3>1. step \in [Threads -> {"idle", "lock", "locked", "built", "freed", "published",
                                "unlock", "find", "seen", "new"}]
      BY DEF IndexnodesTypeOK
    <3>2. r \in Threads /\ step[r] \in {"idle", "lock"} \cup Within
      BY DEF Steps, Threads
    <3>. QED BY ONLY <2>1, <3>1, <3>2 DEF Within
  <2>. QED BY ONLY <2>1, <2>2, <2>3, Steps, ThreadsAssumption DEF Steps, Threads
<1>3. ASSUME NEW w \in Writers, WriterStep(w) PROVE Steps'
  <2>1. /\ pc' = pc
        /\ \/ step[w] \notin Within /\ \E s \in {"idle", "find", "seen", "new", "lock"} :
                                         step' = [step EXCEPT ![w] = s]
           \/ step[w] = "locked" /\ step' = [step EXCEPT ![w] = "unlock"]
    BY <1>3 DEF WriterStep, new_indexnode_event, Finds, Misses, SeenAgain, Makes, Refuses, Adds, vars
  <2>2. \A t \in Threads \ {w} : step'[t] = step[t]
    BY <2>1
  <2>3. /\ step'[w] \in {"idle", "find", "seen", "new", "lock", "locked", "unlock"}
        /\ step'[w] \in Within <=> step[w] \in Within
    <3>1. step \in [Threads -> {"idle", "lock", "locked", "built", "freed", "published",
                                "unlock", "find", "seen", "new"}]
      BY DEF IndexnodesTypeOK
    <3>2. w \in Threads
      BY DEF Threads
    <3>. QED BY ONLY <2>1, <3>1, <3>2 DEF Within
  <2>. QED BY ONLY <2>1, <2>2, <2>3, Steps, ThreadsAssumption DEF Steps, Threads
<1>4. ASSUME NEW t \in Threads, Lock(t) \/ Unlock(t) PROVE Steps'
  <2>1. /\ \A u \in Threads \ {t} : step'[u] = step[u] /\ (pc'[u] = "in" <=> pc[u] = "in")
        /\ step'[t] \in {"idle", "lock", "locked"}
        /\ pc'[t] = "in" <=> step'[t] \in Within
    BY <1>4, LockMoves
  <2>2. \A u \in Threads : pc'[u] = "in" <=> step'[u] \in Within
    BY <2>1 DEF Steps
  <2>3. \A u \in Threads : step'[u] \in {step[u], "idle", "lock", "locked"}
    BY <2>1
  <2>. QED BY <2>2, <2>3 DEF Steps, Threads
<1>5. CASE Tick
  BY <1>5 DEF Tick, Steps, vars
<1>. QED BY <1>1, <1>2, <1>3, <1>4, <1>5, StepsOfC

-----------------------------------------------------------------------------
(***************************************************************************)
(* Who holds what.                                                         *)
(***************************************************************************)
Holding == [h \in Holders |-> Holds(h)]

One(n) == IF n = 0 THEN <<>> ELSE <<n>>

\* There are finitely many holders.
LEMMA HoldersFinite ==
  ASSUME IsFiniteSet(Readers), IsFiniteSet(Writers)
  PROVE  IsFiniteSet(Holders)
<1>1. IsFiniteSet({"fresh", "copy"}) /\ IsFiniteSet({"found"}) /\ IsFiniteSet({<<"list", NoThread>>})
  <2>1. {"fresh", "copy"} = {"fresh"} \cup {"copy"}
    OBVIOUS
  <2>2. IsFiniteSet({"fresh"}) /\ IsFiniteSet({"copy"}) /\ IsFiniteSet({"found"})
        /\ IsFiniteSet({<<"list", NoThread>>})
    BY FS_Singleton
  <2>3. IsFiniteSet({"fresh"} \cup {"copy"})
    BY <2>2, FS_Union
  <2>. QED BY <2>1, <2>2, <2>3
<1>2. IsFiniteSet({"fresh", "copy"} \X Readers) /\ IsFiniteSet({"found"} \X Writers)
  BY <1>1, FS_Product
<1>3. IsFiniteSet({<<"list", NoThread>>} \cup ({"fresh", "copy"} \X Readers))
  BY <1>1, <1>2, FS_Union
<1>. QED BY <1>2, <1>3, FS_Union DEF Holders

\* What each of them holds.
LEMMA HoldingFacts ==
  /\ <<"list", NoThread>> \in Holders /\ Holding[<<"list", NoThread>>] = list
  /\ \A r \in Readers : <<"fresh", r>> \in Holders /\ Holding[<<"fresh", r>>] = fresh[r]
  /\ \A r \in Readers : <<"copy", r>> \in Holders /\ Holding[<<"copy", r>>] = copy[r]
  /\ \A w \in Writers : <<"found", w>> \in Holders /\ Holding[<<"found", w>>] = One(found[w])
  /\ \A h \in Holders : \/ h = <<"list", NoThread>>
                        \/ \E r \in Readers : h = <<"fresh", r>>
                        \/ \E r \in Readers : h = <<"copy", r>>
                        \/ \E w \in Writers : h = <<"found", w>>
<1>1. <<"list", NoThread>> \in Holders /\ Holding[<<"list", NoThread>>] = list
  BY DEF Holders, Holding, Holds
<1>2. ASSUME NEW r \in Readers
      PROVE  <<"fresh", r>> \in Holders /\ Holding[<<"fresh", r>>] = fresh[r]
  BY DEF Holders, Holding, Holds
<1>3. ASSUME NEW r \in Readers
      PROVE  <<"copy", r>> \in Holders /\ Holding[<<"copy", r>>] = copy[r]
  BY DEF Holders, Holding, Holds
<1>4. ASSUME NEW w \in Writers
      PROVE  <<"found", w>> \in Holders /\ Holding[<<"found", w>>] = One(found[w])
  BY DEF Holders, Holding, Holds, One
<1>5. \A h \in Holders : \/ h = <<"list", NoThread>>
                         \/ \E r \in Readers : h = <<"fresh", r>>
                         \/ \E r \in Readers : h = <<"copy", r>>
                         \/ \E w \in Writers : h = <<"found", w>>
  BY DEF Holders
<1>. QED BY <1>1, <1>2, <1>3, <1>4, <1>5

\* All of them hold lists of numbers.
LEMMA HoldingType ==
  ASSUME IndexnodesTypeOK
  PROVE  /\ Holding \in Assignment(Holders)
         /\ \A n : References(n) = Held(Holders, Holding, n)
         /\ DOMAIN node \subseteq Nat
<1>1. DOMAIN node \subseteq Nat /\ 0 \in Nat
  BY LenProperties DEF IndexnodesTypeOK
<1>2. /\ list \in Seq(Nat)
      /\ \A r \in Readers : fresh[r] \in Seq(Nat) /\ copy[r] \in Seq(Nat)
      /\ \A w \in Writers : One(found[w]) \in Seq(Nat)
  <2>1. list \in Seq(Nat)
    BY <1>1, SeqMonotonic DEF IndexnodesTypeOK
  <2>2. ASSUME NEW r \in Readers PROVE fresh[r] \in Seq(Nat) /\ copy[r] \in Seq(Nat)
    <3>1. fresh[r] \in Seq(DOMAIN node) /\ copy[r] \in Seq(DOMAIN node)
      BY DEF IndexnodesTypeOK
    <3>. QED BY <1>1, <3>1, SeqMonotonic
  <2>3. ASSUME NEW w \in Writers PROVE One(found[w]) \in Seq(Nat)
    <3>1. found[w] \in Nat
      BY <1>1 DEF IndexnodesTypeOK
    <3>. QED BY <3>1 DEF One
  <2>. QED BY <2>1, <2>2, <2>3
<1>3. ASSUME NEW h \in Holders PROVE Holding[h] \in Seq(Nat)
  <2>1. CASE h = <<"list", NoThread>>
    BY <1>2, <2>1, HoldingFacts
  <2>2. CASE \E r \in Readers : h = <<"fresh", r>>
    BY <1>2, <2>2, HoldingFacts
  <2>3. CASE \E r \in Readers : h = <<"copy", r>>
    BY <1>2, <2>3, HoldingFacts
  <2>4. CASE \E w \in Writers : h = <<"found", w>>
    BY <1>2, <2>4, HoldingFacts
  <2>. QED BY <2>1, <2>2, <2>3, <2>4, HoldingFacts
<1>4. Holding \in Assignment(Holders)
  BY <1>3 DEF Holding, Assignment
<1>5. \A n : References(n) = Held(Holders, Holding, n)
  <2>1. \A h \in Holders : Holding[h] = Holds(h)
    BY DEF Holding
  <2>. QED BY <2>1 DEF References, Held
<1>. QED BY <1>1, <1>4, <1>5

\* So it is after a step.
LEMMA ReferencesNext == \A n : References(n)' = Held(Holders, Holding', n)
<1>1. \A h \in Holders : Holding'[h] = Holds(h)'
  BY DEF Holding, Holders
<1>2. \A n : References(n)' = UNION {{h} \X Places(Holds(h)', n) : h \in Holders}
  BY DEF References, Holders, Places
<1>. QED BY <1>1, <1>2 DEF Held

\* What h holds is now l, and what k holds is m.
Both(G, h, l, k, m) == Replaced(Replaced(G, h, l), k, m)

\* How a step changes what is held.
LEMMA HoldingChanges ==
  ASSUME IndexnodesTypeOK
  PROVE  /\ \A l : list' = l /\ UNCHANGED <<fresh, copy, found>> =>
              Holding' = Replaced(Holding, <<"list", NoThread>>, l)
         /\ \A r \in Readers : \A l : fresh' = [fresh EXCEPT ![r] = l] /\ UNCHANGED <<list, copy, found>> =>
              Holding' = Replaced(Holding, <<"fresh", r>>, l)
         /\ \A r \in Readers : \A l : copy' = [copy EXCEPT ![r] = l] /\ UNCHANGED <<list, fresh, found>> =>
              Holding' = Replaced(Holding, <<"copy", r>>, l)
         /\ \A w \in Writers : \A n : found' = [found EXCEPT ![w] = n] /\ UNCHANGED <<list, fresh, copy>> =>
              Holding' = Replaced(Holding, <<"found", w>>, One(n))
         /\ \A r \in Readers : \A l, m :
              fresh' = [fresh EXCEPT ![r] = l] /\ list' = m /\ UNCHANGED <<copy, found>> =>
              Holding' = Both(Holding, <<"fresh", r>>, l, <<"list", NoThread>>, m)
         /\ \A w \in Writers : \A n, m :
              found' = [found EXCEPT ![w] = n] /\ list' = m /\ UNCHANGED <<fresh, copy>> =>
              Holding' = Both(Holding, <<"found", w>>, One(n), <<"list", NoThread>>, m)
<1>0. /\ \A r \in Readers : r \in DOMAIN fresh /\ r \in DOMAIN copy
      /\ \A w \in Writers : w \in DOMAIN found
  BY DEF IndexnodesTypeOK
<1>1. /\ Holding'[<<"list", NoThread>>] = list'
      /\ \A r \in Readers : Holding'[<<"fresh", r>>] = fresh'[r]
      /\ \A r \in Readers : Holding'[<<"copy", r>>] = copy'[r]
      /\ \A w \in Writers : Holding'[<<"found", w>>] = One(found'[w])
  <2>1. Holding'[<<"list", NoThread>>] = list'
    BY DEF Holders, Holding, Holds
  <2>2. ASSUME NEW r \in Readers PROVE Holding'[<<"fresh", r>>] = fresh'[r]
    BY DEF Holders, Holding, Holds
  <2>3. ASSUME NEW r \in Readers PROVE Holding'[<<"copy", r>>] = copy'[r]
    BY DEF Holders, Holding, Holds
  <2>4. ASSUME NEW w \in Writers PROVE Holding'[<<"found", w>>] = One(found'[w])
    BY DEF Holders, Holding, Holds, One
  <2>. QED BY <2>1, <2>2, <2>3, <2>4
<1>2. /\ Holding = [h \in Holders |-> Holding[h]]
      /\ Holding' = [h \in Holders |-> Holding'[h]]
  BY DEF Holding
<1>3. ASSUME NEW l, list' = l, UNCHANGED <<fresh, copy, found>>
      PROVE  Holding' = Replaced(Holding, <<"list", NoThread>>, l)
  <2>1. \A h \in Holders : Holding'[h] = IF h = <<"list", NoThread>> THEN l ELSE Holding[h]
    BY <1>1, <1>3, HoldingFacts
  <2>. QED BY <1>2, <2>1 DEF Replaced
<1>4. ASSUME NEW r \in Readers, NEW l, fresh' = [fresh EXCEPT ![r] = l], UNCHANGED <<list, copy, found>>
      PROVE  Holding' = Replaced(Holding, <<"fresh", r>>, l)
  <2>1. \A h \in Holders : Holding'[h] = IF h = <<"fresh", r>> THEN l ELSE Holding[h]
    BY <1>0, <1>1, <1>4, HoldingFacts
  <2>. QED BY <1>2, <2>1 DEF Replaced
<1>5. ASSUME NEW r \in Readers, NEW l, copy' = [copy EXCEPT ![r] = l], UNCHANGED <<list, fresh, found>>
      PROVE  Holding' = Replaced(Holding, <<"copy", r>>, l)
  <2>1. \A h \in Holders : Holding'[h] = IF h = <<"copy", r>> THEN l ELSE Holding[h]
    BY <1>0, <1>1, <1>5, HoldingFacts
  <2>. QED BY <1>2, <2>1 DEF Replaced
<1>6. ASSUME NEW w \in Writers, NEW n, found' = [found EXCEPT ![w] = n], UNCHANGED <<list, fresh, copy>>
      PROVE  Holding' = Replaced(Holding, <<"found", w>>, One(n))
  <2>1. \A h \in Holders : Holding'[h] = IF h = <<"found", w>> THEN One(n) ELSE Holding[h]
    BY <1>0, <1>1, <1>6, HoldingFacts
  <2>. QED BY <1>2, <2>1 DEF Replaced
<1>7. ASSUME NEW r \in Readers, NEW l, NEW m,
             fresh' = [fresh EXCEPT ![r] = l], list' = m, UNCHANGED <<copy, found>>
      PROVE  Holding' = Both(Holding, <<"fresh", r>>, l, <<"list", NoThread>>, m)
  <2>1. \A h \in Holders : Holding'[h] = IF h = <<"list", NoThread>> THEN m
                                         ELSE IF h = <<"fresh", r>> THEN l ELSE Holding[h]
    BY <1>0, <1>1, <1>7, HoldingFacts
  <2>. QED BY <1>2, <2>1 DEF Both, Replaced
<1>8. ASSUME NEW w \in Writers, NEW n, NEW m,
             found' = [found EXCEPT ![w] = n], list' = m, UNCHANGED <<fresh, copy>>
      PROVE  Holding' = Both(Holding, <<"found", w>>, One(n), <<"list", NoThread>>, m)
  <2>1. \A h \in Holders : Holding'[h] = IF h = <<"list", NoThread>> THEN m
                                         ELSE IF h = <<"found", w>> THEN One(n) ELSE Holding[h]
    BY <1>0, <1>1, <1>8, HoldingFacts
  <2>. QED BY <1>2, <2>1 DEF Both, Replaced
<1>9. /\ \A l : list' = l /\ UNCHANGED <<fresh, copy, found>> =>
           Holding' = Replaced(Holding, <<"list", NoThread>>, l)
      /\ \A r \in Readers : \A l : fresh' = [fresh EXCEPT ![r] = l] /\ UNCHANGED <<list, copy, found>> =>
           Holding' = Replaced(Holding, <<"fresh", r>>, l)
      /\ \A r \in Readers : \A l : copy' = [copy EXCEPT ![r] = l] /\ UNCHANGED <<list, fresh, found>> =>
           Holding' = Replaced(Holding, <<"copy", r>>, l)
  BY <1>3, <1>4, <1>5, Zenon
<1>10. \A w \in Writers : \A n : found' = [found EXCEPT ![w] = n] /\ UNCHANGED <<list, fresh, copy>> =>
         Holding' = Replaced(Holding, <<"found", w>>, One(n))
  BY <1>6, Zenon
<1>11. \A r \in Readers : \A l, m :
         fresh' = [fresh EXCEPT ![r] = l] /\ list' = m /\ UNCHANGED <<copy, found>> =>
         Holding' = Both(Holding, <<"fresh", r>>, l, <<"list", NoThread>>, m)
  BY <1>7, Zenon
<1>12. \A w \in Writers : \A n, m :
         found' = [found EXCEPT ![w] = n] /\ list' = m /\ UNCHANGED <<fresh, copy>> =>
         Holding' = Both(Holding, <<"found", w>>, One(n), <<"list", NoThread>>, m)
  BY <1>8, Zenon
<1>. QED BY <1>9, <1>10, <1>11, <1>12, Zenon

\* Replacing what two holders hold.
LEMMA HeldBoth ==
  ASSUME NEW H, IsFiniteSet(H), NEW G \in Assignment(H), NEW h \in H, NEW k \in H, h # k,
         NEW l \in Seq(Nat), NEW m \in Seq(Nat), NEW n
  PROVE  Cardinality(Held(H, Both(G, h, l, k, m), n))
           = Cardinality(Held(H, G, n)) - Times(G[h], n) + Times(l, n) - Times(G[k], n) + Times(m, n)
<1>. DEFINE F == Replaced(G, h, l)
<1>1. F \in Assignment(H) /\ F[k] = G[k]
  BY DEF Replaced, Assignment
<1>2. /\ Cardinality(Held(H, G, n)) \in Nat
      /\ Cardinality(Held(H, F, n)) = Cardinality(Held(H, G, n)) - Times(G[h], n) + Times(l, n)
  BY HeldReplace
<1>3. Both(G, h, l, k, m) = Replaced(F, k, m)
  BY DEF Both
<1>. HIDE DEF F
<1>4. Cardinality(Held(H, Replaced(F, k, m), n))
        = Cardinality(Held(H, F, n)) - Times(F[k], n) + Times(m, n)
  BY <1>1, HeldReplace
<1>5. Times(G[h], n) \in Nat /\ Times(G[k], n) \in Nat /\ Times(l, n) \in Nat /\ Times(m, n) \in Nat
  BY TimesType DEF Assignment
<1>. QED BY <1>1, <1>2, <1>3, <1>4, <1>5

-----------------------------------------------------------------------------
(***************************************************************************)
(* The invariant of references, for any number of readers.                 *)
(***************************************************************************)
Base == Inv /\ IndexnodesTypeOK /\ Steps /\ Handed /\ Pointer /\ RefsExact

\* Counting references changes no more than the counters.
Same(a, b) ==
  /\ a.id = b.id /\ a.by = b.by /\ a.born = b.born
  /\ a.last_seen = b.last_seen /\ a.added = b.added

\* What Counted makes of the nodes.
LEMMA CountedFacts ==
  ASSUME node \in Seq(Indexnode), NEW more \in Seq(Nat), NEW less \in Seq(Nat),
         \A n \in DOMAIN node : node[n].ref_count >= Times(less, n)
  PROVE  /\ Counted(more, less) \in Seq(Indexnode) /\ DOMAIN Counted(more, less) = DOMAIN node
         /\ \A n \in DOMAIN node :
              /\ Same(Counted(more, less)[n], node[n])
              /\ Counted(more, less)[n].ref_count
                   = node[n].ref_count + Times(more, n) - Times(less, n)
<1>. DEFINE c == Counted(more, less)
<1>1. Len(node) \in Nat /\ DOMAIN node = 1 .. Len(node) /\ \A n \in DOMAIN node : node[n] \in Indexnode
  BY LenProperties, ElementOfSeq
<1>2. c = [n \in DOMAIN node |->
             [node[n] EXCEPT !.ref_count = @ + Times(more, n) - Times(less, n)]]
  BY DEF Counted
<1>. HIDE DEF c
<1>3. ASSUME NEW n \in DOMAIN node
      PROVE  /\ c[n] \in Indexnode /\ Same(c[n], node[n])
             /\ c[n].ref_count = node[n].ref_count + Times(more, n) - Times(less, n)
  <2>1. node[n] \in Indexnode /\ Times(more, n) \in Nat /\ Times(less, n) \in Nat
    BY <1>1, TimesType
  <2>2. node[n].ref_count \in Nat /\ node[n].ref_count >= Times(less, n)
    BY <2>1 DEF Indexnode
  <2>3. node[n].ref_count + Times(more, n) - Times(less, n) \in Nat
    BY <2>1, <2>2
  <2>4. c[n] = [node[n] EXCEPT !.ref_count = node[n].ref_count + Times(more, n) - Times(less, n)]
    BY <1>2
  <2>. QED BY <2>1, <2>3, <2>4 DEF Indexnode, Same
<1>4. c \in [1 .. Len(node) -> Indexnode]
  BY <1>1, <1>2, <1>3
<1>5. c \in Seq(Indexnode)
  BY <1>1, <1>4, SeqOfFunction
<1>. QED BY <1>1, <1>3, <1>4, <1>5 DEF c

\* A counter is at least what any one holder holds.
LEMMA RefsBound ==
  ASSUME IsFiniteSet(Readers), IsFiniteSet(Writers), IndexnodesTypeOK, RefsExact
  PROVE  \A n \in DOMAIN node :
           /\ node[n].ref_count >= Times(list, n)
           /\ \A r \in Readers : node[n].ref_count >= Times(copy[r], n)
           /\ \A w \in Writers : node[n].ref_count >= Times(One(found[w]), n)
<1>. SUFFICES ASSUME NEW n \in DOMAIN node
     PROVE  \A h \in Holders : node[n].ref_count >= Times(Holding[h], n)
  BY HoldingFacts
<1>1. node[n].ref_count = Cardinality(Held(Holders, Holding, n)) /\ Holding \in Assignment(Holders)
  BY HoldingType DEF RefsExact
<1>2. ASSUME NEW h \in Holders PROVE Cardinality(Held(Holders, Holding, n)) >= Times(Holding[h], n)
  <2>1. <<>> \in Seq(Nat)
    BY EmptySeq
  <2>. QED BY <1>1, <2>1, HoldersFinite, HeldReplace
<1>. QED BY <1>1, <1>2

\* The lists, as lists of numbers and as lists of nodes.
LEMMA ListTypes ==
  ASSUME IndexnodesTypeOK
  PROVE  /\ DOMAIN node \subseteq Nat /\ 0 \notin DOMAIN node
         /\ list \in Seq(Nat) /\ list \in Seq(DOMAIN node)
         /\ \A r \in Readers : /\ fresh[r] \in Seq(Nat) /\ fresh[r] \in Seq(DOMAIN node)
                               /\ copy[r] \in Seq(Nat) /\ copy[r] \in Seq(DOMAIN node)
         /\ \A w \in Writers : found[w] \in Nat /\ One(found[w]) \in Seq(Nat)
         /\ node \in Seq(Indexnode) /\ Len(node) \in Nat /\ DOMAIN node = 1 .. Len(node)
         /\ \A n \in DOMAIN node : node[n] \in Indexnode
<1>1. node \in Seq(Indexnode) /\ Len(node) \in Nat /\ DOMAIN node = 1 .. Len(node)
      /\ \A n \in DOMAIN node : node[n] \in Indexnode
  BY LenProperties, ElementOfSeq DEF IndexnodesTypeOK
<1>2. DOMAIN node \subseteq Nat /\ 0 \notin DOMAIN node
  BY <1>1
<1>3. list \in Seq(Nat) /\ list \in Seq(DOMAIN node)
  BY <1>2, SeqMonotonic DEF IndexnodesTypeOK
<1>4. ASSUME NEW r \in Readers
      PROVE  /\ fresh[r] \in Seq(Nat) /\ fresh[r] \in Seq(DOMAIN node)
             /\ copy[r] \in Seq(Nat) /\ copy[r] \in Seq(DOMAIN node)
  <2>1. fresh[r] \in Seq(DOMAIN node) /\ copy[r] \in Seq(DOMAIN node)
    BY DEF IndexnodesTypeOK
  <2>. QED BY <1>2, <2>1, SeqMonotonic
<1>5. ASSUME NEW w \in Writers PROVE found[w] \in Nat /\ One(found[w]) \in Seq(Nat)
  <2>1. found[w] \in Nat
    BY <1>2 DEF IndexnodesTypeOK
  <2>. QED BY <2>1 DEF One
<1>. QED BY <1>1, <1>2, <1>3, <1>4, <1>5

\* What remove_expired leaves are nodes.
LEMMA UnexpiredType ==
  ASSUME IndexnodesTypeOK
  PROVE  /\ remove_expired(list) \in Seq(Nat) /\ remove_expired(list) \in Seq(DOMAIN node)
         /\ Among(remove_expired(list), list)
<1>. DEFINE m == remove_expired(list)
<1>1. list \in Seq(Nat) /\ list \in Seq(DOMAIN node) /\ DOMAIN list = 1 .. Len(list)
  BY ListTypes, LenProperties
<1>2. Kept(list, Len(list), m)
  BY <1>1, UnexpiredKept
<1>. HIDE DEF m
<1>3. m \in Seq(Nat) /\ \A i \in DOMAIN m : \E j \in DOMAIN list : m[i] = list[j]
  BY <1>1, <1>2 DEF Kept
<1>4. \A j \in DOMAIN list : list[j] \in DOMAIN node
  BY <1>1, ElementOfSeq
<1>5. m \in Seq(DOMAIN node)
  <2>1. Len(m) \in Nat /\ m \in [1 .. Len(m) -> Nat] /\ DOMAIN m = 1 .. Len(m)
    BY <1>3, LenProperties
  <2>2. \A i \in 1 .. Len(m) : m[i] \in DOMAIN node
    BY <1>3, <1>4, <2>1
  <2>3. m \in [1 .. Len(m) -> DOMAIN node]
    BY <2>1, <2>2
  <2>. QED BY <2>1, <2>3, SeqOfFunction
<1>. QED BY <1>3, <1>5 DEF m, Among

\* A handler has its indexnode between finding or making it and giving it up.
LEMMA FoundFacts ==
  ASSUME IndexnodesTypeOK, Handed, NEW w \in Writers
  PROVE  /\ step[w] \in {"seen", "lock", "locked"} =>
              found[w] \in DOMAIN node /\ One(found[w]) = <<found[w]>>
         /\ step[w] \notin {"seen", "lock", "locked"} => found[w] = 0 /\ One(found[w]) = <<>>
BY DEF IndexnodesTypeOK, Handed, One

\* The indexnodes of a step: none goes, none changes its name, its maker or its
\* birth, it is seen now or not at all, and only its maker lists it.
Kin(n) ==
  /\ node'[n].id = node[n].id /\ node'[n].by = node[n].by /\ node'[n].born = node[n].born
  /\ node'[n].last_seen \in {node[n].last_seen, now}
  /\ node'[n].added => node[n].added \/ \E w \in Writers : Adds(w) /\ found[w] = n

Newborn(n) == node'[n].born = now /\ node'[n].last_seen = now /\ ~node'[n].added

\* Every step leaves the indexnodes what they are; what it makes is new.
LEMMA NodesKept ==
  ASSUME IsFiniteSet(Readers), IsFiniteSet(Writers), Base, [IndexnodesNext]_allVars
  PROVE  /\ node' \in Seq(Indexnode) /\ DOMAIN node \subseteq DOMAIN node'
         /\ \A n \in DOMAIN node : Kin(n)
         /\ \A n \in DOMAIN node' \ DOMAIN node : Newborn(n)
<1>. USE DEF Base
<1>1. node \in Seq(Indexnode) /\ <<>> \in Seq(Nat) /\ \A n : Times(<<>>, n) = 0
  BY ListTypes, EmptySeq, TimesEmpty
<1>2. \A n \in DOMAIN node : node[n] \in Indexnode /\ node[n].ref_count >= 0
  BY ListTypes DEF Indexnode
<1>3. ASSUME node' = node PROVE /\ node' \in Seq(Indexnode) /\ DOMAIN node' = DOMAIN node
                                /\ \A n \in DOMAIN node : Kin(n)
  BY <1>1, <1>3 DEF Kin
<1>4. ASSUME NEW m \in Seq(Nat), NEW l \in Seq(Nat), node' = Counted(m, l),
             \A n \in DOMAIN node : node[n].ref_count >= Times(l, n)
      PROVE  /\ node' \in Seq(Indexnode) /\ DOMAIN node' = DOMAIN node
             /\ \A n \in DOMAIN node : Kin(n)
  BY <1>1, <1>4, CountedFacts DEF Same, Kin
<1>5. CASE Nothing
  BY <1>3, <1>5 DEF Nothing
<1>6. ASSUME NEW r \in Readers, ReaderStep(r)
      PROVE  /\ node' \in Seq(Indexnode) /\ DOMAIN node' = DOMAIN node
             /\ \A n \in DOMAIN node : Kin(n)
  <2>1. CASE Get(r) \/ Publish(r)
    BY <1>3, <2>1 DEF Get, Publish
  <2>2. CASE Builds(r)
    BY <1>1, <1>2, <1>4, <2>2, UnexpiredType DEF Builds
  <2>3. CASE Frees(r)
    BY <1>1, <1>4, <2>3, ListTypes, RefsBound DEF Frees
  <2>4. CASE Copies(r)
    BY <1>1, <1>2, <1>4, <2>4, ListTypes DEF Copies
  <2>5. CASE DeleteCopy(r)
    BY <1>1, <1>4, <2>5, ListTypes, RefsBound DEF DeleteCopy
  <2>. QED BY <1>6, <2>1, <2>2, <2>3, <2>4, <2>5 DEF ReaderStep
<1>7. ASSUME NEW w \in Writers, Finds(w)
      PROVE  /\ node' \in Seq(Indexnode) /\ DOMAIN node' = DOMAIN node
             /\ \A n \in DOMAIN node : Kin(n)
  <2>1. PICK i : i \in {FirstMatch(advert[w].id)} \ {0} /\ node' = Counted(<<list[i]>>, <<>>)
    BY <1>7 DEF Finds
  <2>2. i \in DOMAIN list
    BY <2>1, ListTypes, FirstMatchFacts
  <2>3. <<list[i]>> \in Seq(Nat)
    <3>1. list[i] \in Nat
      BY <2>2, ListTypes, LenProperties, ElementOfSeq
    <3>. QED BY <3>1
  <2>. QED BY <1>1, <1>2, <1>4, <2>1, <2>3
<1>8. ASSUME NEW w \in Writers, SeenAgain(w)
      PROVE  /\ node' \in Seq(Indexnode) /\ DOMAIN node' = DOMAIN node
             /\ \A n \in DOMAIN node : Kin(n)
  <2>. DEFINE c == Counted(<<>>, <<found[w]>>)
  <2>1. found[w] \in DOMAIN node /\ One(found[w]) = <<found[w]>> /\ <<found[w]>> \in Seq(Nat)
    BY <1>8, FoundFacts, ListTypes DEF SeenAgain, At
  <2>2. node' = [c EXCEPT ![found[w]].last_seen = now] /\ now \in 0 .. MaxTime
    BY <1>8 DEF SeenAgain, IndexnodesTypeOK
  <2>3. /\ c \in Seq(Indexnode) /\ DOMAIN c = DOMAIN node
        /\ \A n \in DOMAIN node : Same(c[n], node[n])
    <3>1. \A n \in DOMAIN node : node[n].ref_count >= Times(<<found[w]>>, n)
      BY <2>1, RefsBound
    <3>. QED BY <1>1, <2>1, <3>1, CountedFacts
  <2>. HIDE DEF c
  <2>4. \A n \in DOMAIN node :
          node'[n] = IF n = found[w] THEN [c[n] EXCEPT !.last_seen = now] ELSE c[n]
    BY <2>1, <2>2, <2>3
  <2>5. \A n \in DOMAIN c : c[n] \in Indexnode
    BY <2>3, LenProperties, ElementOfSeq
  <2>6. ASSUME NEW n \in DOMAIN node PROVE Kin(n) /\ node'[n] \in Indexnode
    <3>1. c[n] \in Indexnode /\ Same(c[n], node[n])
      BY <2>3, <2>5
    <3>2. CASE n = found[w]
      <4>1. node'[n] = [c[n] EXCEPT !.last_seen = now]
        BY <2>4, <3>2
      <4>. QED BY <2>2, <3>1, <4>1 DEF Kin, Same, Indexnode
    <3>3. CASE n # found[w]
      <4>1. node'[n] = c[n]
        BY <2>4, <3>3
      <4>. QED BY <3>1, <4>1 DEF Kin, Same
    <3>. QED BY <3>2, <3>3
  <2>7. Len(node) \in Nat /\ DOMAIN node = 1 .. Len(node) /\ DOMAIN node' = DOMAIN node
    BY <2>2, <2>3, ListTypes
  <2>8. node' \in [1 .. Len(node) -> Indexnode]
    BY <2>2, <2>6, <2>7
  <2>. QED BY <2>6, <2>7, <2>8, SeqOfFunction
<1>9. ASSUME NEW w \in Writers, Adds(w)
      PROVE  /\ node' \in Seq(Indexnode) /\ DOMAIN node' = DOMAIN node
             /\ \A n \in DOMAIN node : Kin(n)
  <2>1. node' = [node EXCEPT ![found[w]].added = TRUE] /\ found[w] \in DOMAIN node
    BY <1>9, FoundFacts DEF Adds, At
  <2>2. \A n \in DOMAIN node :
          node'[n] = IF n = found[w] THEN [node[n] EXCEPT !.added = TRUE] ELSE node[n]
    BY <2>1
  <2>3. \A n \in DOMAIN node : Kin(n) /\ node'[n] \in Indexnode
    <3>1. ASSUME NEW n \in DOMAIN node PROVE Kin(n) /\ node'[n] \in Indexnode
      <4>1. node[n] \in Indexnode
        BY ListTypes
      <4>2. CASE n = found[w]
        <5>1. node'[n] = [node[n] EXCEPT !.added = TRUE]
          BY <2>2, <4>2
        <5>2. /\ node'[n] \in Indexnode /\ node'[n].last_seen = node[n].last_seen
              /\ node'[n].id = node[n].id /\ node'[n].by = node[n].by /\ node'[n].born = node[n].born
          BY <4>1, <5>1 DEF Indexnode
        <5>. QED BY <1>9, <4>2, <5>2 DEF Kin
      <4>3. CASE n # found[w]
        BY <1>2, <2>2, <4>1, <4>3 DEF Kin
      <4>. QED BY <4>2, <4>3
    <3>. QED BY <3>1
  <2>4. Len(node) \in Nat /\ DOMAIN node = 1 .. Len(node) /\ DOMAIN node' = DOMAIN node
    BY <2>1, ListTypes
  <2>5. node' \in [1 .. Len(node) -> Indexnode]
    BY <2>1, <2>3, <2>4
  <2>. QED BY <2>3, <2>4, <2>5, SeqOfFunction
<1>10. ASSUME NEW w \in Writers, Makes(w)
       PROVE  /\ node' \in Seq(Indexnode) /\ DOMAIN node \subseteq DOMAIN node'
              /\ \A n \in DOMAIN node : Kin(n)
              /\ \A n \in DOMAIN node' \ DOMAIN node : Newborn(n)
  <2>. DEFINE new == [id |-> advert[w].id, by |-> w, born |-> now,
                      last_seen |-> now, ref_count |-> 1, added |-> FALSE]
  <2>1. node' = Append(node, new)
    BY <1>10 DEF Makes
  <2>2. advert[w] \in Advert /\ now \in 0 .. MaxTime
    BY <1>10 DEF Makes, At, Handed, IndexnodesTypeOK
  <2>3. new \in Indexnode
    BY <2>2 DEF Indexnode, Advert
  <2>. HIDE DEF new
  <2>4. /\ node' \in Seq(Indexnode) /\ Len(node') = Len(node) + 1
        /\ node'[Len(node) + 1] = new /\ \A n \in 1 .. Len(node) : node'[n] = node[n]
    BY <1>1, <2>1, <2>3, AppendProperties
  <2>5. DOMAIN node' = 1 .. Len(node) + 1 /\ DOMAIN node = 1 .. Len(node) /\ Len(node) \in Nat
    BY <2>4, LenProperties, ListTypes
  <2>6. \A n \in DOMAIN node' \ DOMAIN node : n = Len(node) + 1
    BY <2>5
  <2>7. new.born = now /\ new.last_seen = now /\ ~new.added
    BY DEF new
  <2>. QED BY <2>4, <2>5, <2>6, <2>7 DEF Kin, Newborn
<1>11. ASSUME NEW w \in Writers, WriterStep(w), ~Makes(w)
       PROVE  /\ node' \in Seq(Indexnode) /\ DOMAIN node' = DOMAIN node
              /\ \A n \in DOMAIN node : Kin(n)
  <2>1. CASE (\E a \in Advert : new_indexnode_event(w, a)) \/ Misses(w) \/ Refuses(w)
    BY <1>3, <2>1 DEF new_indexnode_event, Misses, Refuses
  <2>. QED BY <1>7, <1>8, <1>9, <1>11, <2>1 DEF WriterStep
<1>12. ASSUME NEW t \in Threads, Lock(t) \/ Unlock(t) PROVE node' = node
  BY <1>12 DEF Lock, Unlock
<1>13. CASE Tick
  BY <1>3, <1>13 DEF Tick
<1>. QED BY <1>3, <1>5, <1>6, <1>10, <1>11, <1>12, <1>13, StepsOfC

\* What a step does to the counters when it replaces what one holder holds.
LEMMA RefsReplace ==
  ASSUME IsFiniteSet(Readers), IsFiniteSet(Writers), IndexnodesTypeOK, RefsExact,
         NEW h \in Holders, NEW l \in Seq(Nat), Holding' = Replaced(Holding, h, l),
         DOMAIN node' = DOMAIN node,
         \A n \in DOMAIN node :
           node'[n].ref_count = node[n].ref_count - Times(Holding[h], n) + Times(l, n)
  PROVE  RefsExact'
<1>1. ASSUME NEW n \in DOMAIN node PROVE node'[n].ref_count = Cardinality(References(n)')
  <2>1. /\ Holding \in Assignment(Holders)
        /\ node[n].ref_count = Cardinality(Held(Holders, Holding, n))
    BY HoldingType DEF RefsExact
  <2>2. Cardinality(Held(Holders, Replaced(Holding, h, l), n))
          = Cardinality(Held(Holders, Holding, n)) - Times(Holding[h], n) + Times(l, n)
    BY <2>1, HoldersFinite, HeldReplace
  <2>3. References(n)' = Held(Holders, Holding', n)
    BY ReferencesNext
  <2>. QED BY <2>1, <2>2, <2>3
<1>. QED BY <1>1 DEF RefsExact

\* The same of two holders.
LEMMA RefsBoth ==
  ASSUME IsFiniteSet(Readers), IsFiniteSet(Writers), IndexnodesTypeOK, RefsExact,
         NEW h \in Holders, NEW k \in Holders, h # k,
         NEW l \in Seq(Nat), NEW m \in Seq(Nat), Holding' = Both(Holding, h, l, k, m),
         DOMAIN node' = DOMAIN node,
         \A n \in DOMAIN node :
           node'[n].ref_count = node[n].ref_count - Times(Holding[h], n) + Times(l, n)
                                                  - Times(Holding[k], n) + Times(m, n)
  PROVE  RefsExact'
<1>1. ASSUME NEW n \in DOMAIN node PROVE node'[n].ref_count = Cardinality(References(n)')
  <2>1. /\ Holding \in Assignment(Holders)
        /\ node[n].ref_count = Cardinality(Held(Holders, Holding, n))
    BY HoldingType DEF RefsExact
  <2>2. Cardinality(Held(Holders, Both(Holding, h, l, k, m), n))
          = Cardinality(Held(Holders, Holding, n)) - Times(Holding[h], n) + Times(l, n)
                                                   - Times(Holding[k], n) + Times(m, n)
    BY <2>1, HoldersFinite, HeldBoth
  <2>3. References(n)' = Held(Holders, Holding', n)
    BY ReferencesNext
  <2>. QED BY <2>1, <2>2, <2>3
<1>. QED BY <1>1 DEF RefsExact

\* A step that counts nothing and moves no list keeps the references.
LEMMA RefsSame ==
  ASSUME RefsExact, UNCHANGED <<list, fresh, copy, found>>, node' = node
  PROVE  RefsExact'
BY DEF RefsExact, References, Holders, Holds, Places

\* Each step of a reader keeps the references exact.
LEMMA ReaderRefs ==
  ASSUME IsFiniteSet(Readers), IsFiniteSet(Writers), Base, NEW r \in Readers, ReaderStep(r)
  PROVE  RefsExact'
<1>. USE DEF Base
<1>1. /\ node \in Seq(Indexnode) /\ <<>> \in Seq(Nat) /\ \A n : Times(<<>>, n) = 0
      /\ list \in Seq(Nat) /\ fresh[r] \in Seq(Nat) /\ copy[r] \in Seq(Nat)
      /\ \A n \in DOMAIN node : node[n].ref_count \in Nat
  BY ListTypes, EmptySeq, TimesEmpty DEF Indexnode
<1>2. /\ <<"list", NoThread>> \in Holders /\ Holding[<<"list", NoThread>>] = list
      /\ <<"fresh", r>> \in Holders /\ Holding[<<"fresh", r>>] = fresh[r]
      /\ <<"copy", r>> \in Holders /\ Holding[<<"copy", r>>] = copy[r]
      /\ <<"fresh", r>> # <<"list", NoThread>>
  BY HoldingFacts
<1>3. \A n \in DOMAIN node : node[n].ref_count >= Times(<<>>, n)
  BY <1>1
<1>0. ASSUME NEW m \in Seq(Nat), NEW l \in Seq(Nat), node' = Counted(m, l),
             \A n \in DOMAIN node : node[n].ref_count >= Times(l, n)
      PROVE  /\ DOMAIN node' = DOMAIN node
             /\ \A n \in DOMAIN node : node'[n].ref_count = node[n].ref_count + Times(m, n) - Times(l, n)
  BY <1>0, <1>1, CountedFacts
<1>4. CASE Get(r)
  BY <1>4, RefsSame DEF Get
<1>5. CASE Builds(r)
  <2>. DEFINE m == remove_expired(list)
  <2>1. /\ fresh[r] = <<>> /\ node' = Counted(m, <<>>) /\ fresh' = [fresh EXCEPT ![r] = m]
        /\ UNCHANGED <<list, copy, found>>
    BY <1>5 DEF Builds, At, Handed
  <2>2. m \in Seq(Nat)
    BY UnexpiredType
  <2>. HIDE DEF m
  <2>3. /\ DOMAIN node' = DOMAIN node
        /\ \A n \in DOMAIN node : node'[n].ref_count = node[n].ref_count + Times(m, n) - Times(<<>>, n)
    BY <1>0, <1>1, <1>3, <2>1, <2>2
  <2>4. \A n \in DOMAIN node :
          node'[n].ref_count = node[n].ref_count - Times(Holding[<<"fresh", r>>], n) + Times(m, n)
    BY <1>1, <1>2, <2>1, <2>2, <2>3, TimesType
  <2>5. Holding' = Replaced(Holding, <<"fresh", r>>, m)
    BY <2>1, HoldingChanges
  <2>. QED BY <1>2, <2>2, <2>3, <2>4, <2>5, RefsReplace
<1>6. CASE Frees(r)
  <2>1. node' = Counted(<<>>, list) /\ list' = <<>> /\ UNCHANGED <<fresh, copy, found>>
    BY <1>6 DEF Frees
  <2>2. /\ DOMAIN node' = DOMAIN node
        /\ \A n \in DOMAIN node : node'[n].ref_count = node[n].ref_count + Times(<<>>, n) - Times(list, n)
    BY <1>0, <1>1, <2>1, RefsBound
  <2>3. \A n \in DOMAIN node :
          node'[n].ref_count
            = node[n].ref_count - Times(Holding[<<"list", NoThread>>], n) + Times(<<>>, n)
    BY <1>1, <1>2, <2>2, TimesType
  <2>4. Holding' = Replaced(Holding, <<"list", NoThread>>, <<>>)
    BY <2>1, HoldingChanges
  <2>. QED BY <1>1, <1>2, <2>2, <2>3, <2>4, RefsReplace
<1>7. CASE Publish(r)
  <2>1. /\ list' = fresh[r] /\ fresh' = [fresh EXCEPT ![r] = <<>>] /\ UNCHANGED <<node, copy, found>>
        /\ list = <<>>
    BY <1>7 DEF Publish, At, Pointer
  <2>2. \A n \in DOMAIN node :
          node'[n].ref_count
            = node[n].ref_count - Times(Holding[<<"fresh", r>>], n) + Times(<<>>, n)
                                - Times(Holding[<<"list", NoThread>>], n) + Times(fresh[r], n)
    BY <1>1, <1>2, <2>1, TimesType
  <2>3. Holding' = Both(Holding, <<"fresh", r>>, <<>>, <<"list", NoThread>>, fresh[r])
    BY <2>1, HoldingChanges
  <2>4. DOMAIN node' = DOMAIN node
    BY <2>1
  <2>. DEFINE h == <<"fresh", r>>
              k == <<"list", NoThread>>
  <2>5. h \in Holders /\ k \in Holders /\ h # k /\ <<>> \in Seq(Nat) /\ fresh[r] \in Seq(Nat)
    BY <1>1, <1>2
  <2>6. IsFiniteSet(Readers) /\ IsFiniteSet(Writers) /\ IndexnodesTypeOK /\ RefsExact
    OBVIOUS
  <2>. HIDE DEF h, k
  <2>. QED BY ONLY <2>2, <2>3, <2>4, <2>5, <2>6, RefsBoth DEF h, k
<1>8. CASE Copies(r)
  <2>. DEFINE m == Reverse(list)
  <2>1. /\ copy[r] = <<>> /\ node' = Counted(list, <<>>) /\ copy' = [copy EXCEPT ![r] = m]
        /\ UNCHANGED <<list, fresh, found>>
    BY <1>8 DEF Copies, At, Handed
  <2>2. m \in Seq(Nat) /\ \A n : Times(m, n) = Times(list, n)
    BY <1>1, TimesReverse
  <2>. HIDE DEF m
  <2>3. /\ DOMAIN node' = DOMAIN node
        /\ \A n \in DOMAIN node : node'[n].ref_count = node[n].ref_count + Times(list, n) - Times(<<>>, n)
    BY <1>0, <1>1, <1>3, <2>1, <2>2
  <2>4. \A n \in DOMAIN node :
          node'[n].ref_count = node[n].ref_count - Times(Holding[<<"copy", r>>], n) + Times(m, n)
    BY <1>1, <1>2, <2>1, <2>2, <2>3, TimesType
  <2>5. Holding' = Replaced(Holding, <<"copy", r>>, m)
    BY <2>1, HoldingChanges
  <2>. QED BY <1>2, <2>2, <2>3, <2>4, <2>5, RefsReplace
<1>9. CASE DeleteCopy(r)
  <2>1. /\ node' = Counted(<<>>, copy[r]) /\ copy' = [copy EXCEPT ![r] = <<>>]
        /\ UNCHANGED <<list, fresh, found>>
    BY <1>9 DEF DeleteCopy
  <2>2. /\ DOMAIN node' = DOMAIN node
        /\ \A n \in DOMAIN node : node'[n].ref_count = node[n].ref_count + Times(<<>>, n) - Times(copy[r], n)
    BY <1>0, <1>1, <2>1, RefsBound
  <2>3. \A n \in DOMAIN node :
          node'[n].ref_count
            = node[n].ref_count - Times(Holding[<<"copy", r>>], n) + Times(<<>>, n)
    BY <1>1, <1>2, <2>2, TimesType
  <2>4. Holding' = Replaced(Holding, <<"copy", r>>, <<>>)
    BY <2>1, HoldingChanges
  <2>. QED BY <1>1, <1>2, <2>2, <2>3, <2>4, RefsReplace
<1>. QED BY <1>4, <1>5, <1>6, <1>7, <1>8, <1>9 DEF ReaderStep

\* Nobody holds an indexnode that was not made yet.
LEMMA UnmadeUnheld ==
  ASSUME IndexnodesTypeOK
  PROVE  Held(Holders, Holding, Len(node) + 1) = {}
<1>. DEFINE x == Len(node) + 1
<1>1. DOMAIN node \subseteq Nat /\ DOMAIN node = 1 .. Len(node) /\ Len(node) \in Nat
  BY ListTypes
<1>2. x \notin DOMAIN node /\ x # 0
  BY <1>1
<1>. HIDE DEF x
<1>3. ASSUME NEW l \in Seq(DOMAIN node) PROVE Places(l, x) = {}
  <2>1. \A i \in DOMAIN l : l[i] \in DOMAIN node
    BY LenProperties, ElementOfSeq
  <2>. QED BY <1>2, <2>1 DEF Places
<1>4. ASSUME NEW h \in Holders PROVE Places(Holding[h], x) = {}
  <2>1. CASE h = <<"list", NoThread>>
    BY <1>3, <2>1, HoldingFacts, ListTypes
  <2>2. CASE \E r \in Readers : h = <<"fresh", r>>
    BY <1>3, <2>2, HoldingFacts, ListTypes
  <2>3. CASE \E r \in Readers : h = <<"copy", r>>
    BY <1>3, <2>3, HoldingFacts, ListTypes
  <2>4. CASE \E w \in Writers : h = <<"found", w>>
    <3>1. PICK w \in Writers : h = <<"found", w>>
      BY <2>4
    <3>2. found[w] \in {0} \cup DOMAIN node
      BY DEF IndexnodesTypeOK
    <3>3. Places(One(found[w]), x) = {}
      <4>1. CASE found[w] = 0
        BY <4>1, TimesEmpty DEF One
      <4>2. CASE found[w] # 0
        <5>1. One(found[w]) = <<found[w]>> /\ found[w] # x
          BY <1>2, <3>2, <4>2 DEF One
        <5>2. DOMAIN <<found[w]>> = {1} /\ <<found[w]>>[1] = found[w]
          OBVIOUS
        <5>. QED BY <5>1, <5>2 DEF Places
      <4>. QED BY <4>1, <4>2
    <3>. QED BY <3>1, <3>3, HoldingFacts
  <2>. QED BY <2>1, <2>2, <2>3, <2>4, HoldingFacts
<1>. QED BY <1>4 DEF Held, x

\* Each step of a writer keeps the references exact.
LEMMA WriterRefs ==
  ASSUME IsFiniteSet(Readers), IsFiniteSet(Writers), Base, NEW w \in Writers, WriterStep(w)
  PROVE  RefsExact'
<1>. USE DEF Base
<1>1. /\ node \in Seq(Indexnode) /\ <<>> \in Seq(Nat) /\ \A n : Times(<<>>, n) = 0
      /\ list \in Seq(Nat) /\ found[w] \in Nat /\ One(found[w]) \in Seq(Nat)
      /\ \A n \in DOMAIN node : node[n].ref_count \in Nat
      /\ DOMAIN node \subseteq Nat /\ DOMAIN node = 1 .. Len(node) /\ Len(node) \in Nat
  BY ListTypes, EmptySeq, TimesEmpty DEF Indexnode
<1>2. /\ <<"list", NoThread>> \in Holders /\ Holding[<<"list", NoThread>>] = list
      /\ <<"found", w>> \in Holders /\ Holding[<<"found", w>>] = One(found[w])
      /\ <<"found", w>> # <<"list", NoThread>>
  BY HoldingFacts
<1>3. \A n \in DOMAIN node : node[n].ref_count >= Times(<<>>, n)
  BY <1>1
<1>4. ASSUME NEW m \in Seq(Nat), NEW l \in Seq(Nat),
             \A n \in DOMAIN node : node[n].ref_count >= Times(l, n)
      PROVE  LET c == Counted(m, l) IN
             /\ c \in Seq(Indexnode) /\ DOMAIN c = DOMAIN node
             /\ \A n \in DOMAIN node : c[n].ref_count = node[n].ref_count + Times(m, n) - Times(l, n)
  BY <1>1, <1>4, CountedFacts
<1>5. One(0) = <<>> /\ \A n \in Nat \ {0} : One(n) = <<n>> /\ <<n>> \in Seq(Nat)
  BY DEF One
<1>6. CASE (\E a \in Advert : new_indexnode_event(w, a)) \/ Misses(w) \/ Refuses(w)
  BY <1>6, RefsSame DEF new_indexnode_event, Misses, Refuses
<1>7. CASE Finds(w)
  <2>1. PICK i : /\ i \in {FirstMatch(advert[w].id)} \ {0}
                 /\ node' = Counted(<<list[i]>>, <<>>) /\ found' = [found EXCEPT ![w] = list[i]]
    BY <1>7 DEF Finds
  <2>. DEFINE x == list[i]
  <2>2. x \in Nat /\ x # 0
    <3>1. i \in DOMAIN list
      BY <2>1, ListTypes, FirstMatchFacts
    <3>2. x \in DOMAIN node
      BY <3>1, ListTypes, LenProperties, ElementOfSeq
    <3>. QED BY <1>1, <3>2
  <2>3. /\ node' = Counted(<<x>>, <<>>) /\ found' = [found EXCEPT ![w] = x]
        /\ UNCHANGED <<list, fresh, copy>>
    BY <1>7, <2>1 DEF Finds
  <2>4. One(found[w]) = <<>>
    BY <1>7, FoundFacts DEF Finds, At
  <2>. HIDE DEF x
  <2>5. /\ DOMAIN node' = DOMAIN node
        /\ \A n \in DOMAIN node : node'[n].ref_count = node[n].ref_count + Times(<<x>>, n) - Times(<<>>, n)
    BY <1>1, <1>3, <1>4, <1>5, <2>2, <2>3
  <2>6. \A n \in DOMAIN node :
          node'[n].ref_count = node[n].ref_count - Times(Holding[<<"found", w>>], n) + Times(<<x>>, n)
    <3>1. \A n : Times(<<x>>, n) \in Nat
      BY <1>5, <2>2, TimesType
    <3>. QED BY <1>1, <1>2, <2>4, <2>5, <3>1
  <2>7. Holding' = Replaced(Holding, <<"found", w>>, <<x>>)
    BY <1>5, <2>2, <2>3, HoldingChanges
  <2>. QED BY <1>2, <1>5, <2>2, <2>5, <2>6, <2>7, RefsReplace
<1>8. CASE SeenAgain(w)
  <2>. DEFINE x == found[w]
              c == Counted(<<>>, <<x>>)
  <2>1. x \in DOMAIN node /\ One(x) = <<x>>
    BY <1>8, FoundFacts DEF SeenAgain, At
  <2>2. x \in Nat /\ x # 0 /\ <<x>> \in Seq(Nat)
    BY <1>1, <2>1
  <2>3. /\ node' = [c EXCEPT ![x].last_seen = now] /\ found' = [found EXCEPT ![w] = 0]
        /\ UNCHANGED <<list, fresh, copy>>
    BY <1>8 DEF SeenAgain
  <2>4. /\ c \in Seq(Indexnode) /\ DOMAIN c = DOMAIN node
        /\ \A n \in DOMAIN node : c[n].ref_count = node[n].ref_count + Times(<<>>, n) - Times(<<x>>, n)
    <3>1. \A n \in DOMAIN node : node[n].ref_count >= Times(<<x>>, n)
      BY <2>1, RefsBound
    <3>. QED BY <1>1, <1>4, <2>2, <3>1
  <2>. HIDE DEF c, x
  <2>5. DOMAIN node' = DOMAIN node /\ \A n \in DOMAIN node : node'[n].ref_count = c[n].ref_count
    <3>1. \A n \in DOMAIN c : c[n] \in Indexnode
      BY <2>4, LenProperties, ElementOfSeq
    <3>2. ASSUME NEW n \in DOMAIN node PROVE node'[n].ref_count = c[n].ref_count
      <4>1. CASE n = x
        <5>1. node'[n] = [c[n] EXCEPT !.last_seen = now]
          BY <2>3, <2>4, <4>1
        <5>. QED BY <2>4, <3>1, <5>1 DEF Indexnode
      <4>2. CASE n # x
        BY <2>3, <2>4, <4>2
      <4>. QED BY <4>1, <4>2
    <3>. QED BY <2>3, <2>4, <3>2
  <2>6. \A n \in DOMAIN node :
          node'[n].ref_count = node[n].ref_count - Times(Holding[<<"found", w>>], n) + Times(<<>>, n)
    <3>1. \A n : Times(<<x>>, n) \in Nat
      BY <2>2, TimesType
    <3>2. Holding[<<"found", w>>] = <<x>>
      BY <1>2, <2>1 DEF x
    <3>3. ASSUME NEW n \in DOMAIN node
          PROVE  node'[n].ref_count = node[n].ref_count - Times(<<x>>, n) + Times(<<>>, n)
      <4>1. node[n].ref_count \in Nat /\ Times(<<x>>, n) \in Nat /\ Times(<<>>, n) = 0
        BY <1>1, <3>1
      <4>2. node'[n].ref_count = node[n].ref_count + Times(<<>>, n) - Times(<<x>>, n)
        BY <2>4, <2>5
      <4>. QED BY <4>1, <4>2
    <3>. QED BY <3>2, <3>3
  <2>7. Holding' = Replaced(Holding, <<"found", w>>, <<>>)
    BY <1>5, <2>3, HoldingChanges
  <2>. QED BY <1>1, <1>2, <2>5, <2>6, <2>7, RefsReplace
<1>9. CASE Makes(w)
  <2>. DEFINE x == Len(node) + 1
              new == [id |-> advert[w].id, by |-> w, born |-> now,
                      last_seen |-> now, ref_count |-> 1, added |-> FALSE]
  <2>1. /\ node' = Append(node, new) /\ found' = [found EXCEPT ![w] = x]
        /\ UNCHANGED <<list, fresh, copy>>
    BY <1>9 DEF Makes
  <2>2. /\ DOMAIN node' = 1 .. x /\ node'[x] = new /\ \A n \in 1 .. Len(node) : node'[n] = node[n]
    <3>. HIDE DEF new
    <3>1. DOMAIN Append(node, new) = 1 .. Len(node) + 1 /\ Append(node, new)[Len(node) + 1] = new
          /\ \A n \in 1 .. Len(node) : Append(node, new)[n] = node[n]
      BY <1>1
    <3>. QED BY <2>1, <3>1
  <2>3. node'[x].ref_count = 1
    BY <2>2
  <2>. HIDE DEF new
  <2>4. x \in Nat /\ x # 0 /\ x \notin DOMAIN node /\ \A n \in 1 .. x : n = x \/ n \in DOMAIN node
    <3>1. Len(node) \in Nat /\ DOMAIN node = 1 .. Len(node)
      BY <1>1
    <3>2. x \in Nat /\ x # 0 /\ x \notin 1 .. Len(node) /\ \A n \in 1 .. x : n = x \/ n \in 1 .. Len(node)
      BY <3>1
    <3>. QED BY <3>1, <3>2
  <2>5. Held(Holders, Holding, x) = {}
    BY UnmadeUnheld
  <2>. HIDE DEF x
  <2>6. <<x>> \in Seq(Nat) /\ Holding' = Replaced(Holding, <<"found", w>>, <<x>>)
    BY <1>5, <2>1, <2>4, HoldingChanges
  <2>7. Holding[<<"found", w>>] = <<>>
    BY <1>2, <1>9, FoundFacts DEF Makes, At
  <2>8. \A n : Cardinality(Held(Holders, Holding', n))
                 = Cardinality(Held(Holders, Holding, n)) - 0 + Times(<<x>>, n)
    <3>1. Holding \in Assignment(Holders) /\ IsFiniteSet(Holders)
      BY HoldingType, HoldersFinite
    <3>2. \A n : Cardinality(Held(Holders, Replaced(Holding, <<"found", w>>, <<x>>), n))
                   = Cardinality(Held(Holders, Holding, n))
                       - Times(Holding[<<"found", w>>], n) + Times(<<x>>, n)
      <4>1. /\ IsFiniteSet(Holders) /\ Holding \in Assignment(Holders)
            /\ <<"found", w>> \in Holders /\ <<x>> \in Seq(Nat)
        BY <1>2, <2>6, <3>1
      <4>. QED BY <4>1, HeldReplace
    <3>. QED BY <1>1, <2>6, <2>7, <3>2
  <2>9. \A n : Times(<<x>>, n) = IF x = n THEN 1 ELSE 0
    BY <1>1, <2>4, TimesAtHead
  <2>10. \A n \in 1 .. x : node'[n].ref_count = Cardinality(Held(Holders, Holding', n))
    <3>1. ASSUME NEW n \in DOMAIN node
          PROVE  node'[n].ref_count = Cardinality(Held(Holders, Holding', n))
      <4>1. node[n].ref_count = Cardinality(Held(Holders, Holding, n)) /\ node[n].ref_count \in Nat
        BY <1>1, HoldingType DEF RefsExact
      <4>2. Times(<<x>>, n) = 0
        BY <2>4, <2>9
      <4>3. node'[n] = node[n]
        BY <1>1, <2>2
      <4>. QED BY <2>8, <4>1, <4>2, <4>3
    <3>2. node'[x].ref_count = Cardinality(Held(Holders, Holding', x))
      <4>1. Cardinality(Held(Holders, Holding, x)) = 0
        BY <2>5, FS_EmptySet
      <4>. QED BY <2>3, <2>8, <2>9, <4>1
    <3>. QED BY <2>4, <3>1, <3>2
  <2>. QED BY <2>2, <2>10, ReferencesNext DEF RefsExact
<1>10. CASE Adds(w)
  <2>. DEFINE x == found[w]
              m == <<x>> \o list
  <2>1. x \in DOMAIN node /\ One(x) = <<x>>
    BY <1>10, FoundFacts DEF Adds, At
  <2>2. x \in Nat /\ <<x>> \in Seq(Nat)
    BY <1>1, <2>1
  <2>3. /\ node' = [node EXCEPT ![x].added = TRUE] /\ found' = [found EXCEPT ![w] = 0]
        /\ list' = m /\ UNCHANGED <<fresh, copy>>
    BY <1>10 DEF Adds
  <2>4. m \in Seq(Nat) /\ \A n : Times(m, n) = Times(list, n) + Times(<<x>>, n)
    BY <1>1, <2>2, AtHead, TimesAtHead
  <2>5. Holding[<<"found", w>>] = <<x>>
    BY <1>2, <2>1
  <2>. HIDE DEF x, m
  <2>6. DOMAIN node' = DOMAIN node /\ \A n \in DOMAIN node : node'[n].ref_count = node[n].ref_count
    <3>1. \A n \in DOMAIN node : node[n] \in Indexnode
      BY ListTypes
    <3>2. ASSUME NEW n \in DOMAIN node PROVE node'[n].ref_count = node[n].ref_count
      <4>1. CASE n = x
        <5>1. node'[n] = [node[n] EXCEPT !.added = TRUE]
          BY <2>3, <4>1
        <5>. QED BY <3>1, <5>1 DEF Indexnode
      <4>2. CASE n # x
        BY <2>3, <4>2
      <4>. QED BY <4>1, <4>2
    <3>. QED BY <2>3, <3>2
  <2>7. \A n \in DOMAIN node :
          node'[n].ref_count
            = node[n].ref_count - Times(Holding[<<"found", w>>], n) + Times(<<>>, n)
                                - Times(Holding[<<"list", NoThread>>], n) + Times(m, n)
    <3>1. \A n : Times(<<x>>, n) \in Nat /\ Times(list, n) \in Nat
      BY <1>1, <2>2, TimesType
    <3>2. ASSUME NEW n \in DOMAIN node
          PROVE  node'[n].ref_count = node[n].ref_count - Times(<<x>>, n) + Times(<<>>, n)
                                                        - Times(list, n) + Times(m, n)
      <4>1. node[n].ref_count \in Nat /\ node'[n].ref_count = node[n].ref_count /\ Times(<<>>, n) = 0
        BY <1>1, <2>6
      <4>2. Times(m, n) = Times(list, n) + Times(<<x>>, n)
        BY <2>4
      <4>. QED BY ONLY <3>1, <4>1, <4>2
    <3>. QED BY <1>2, <2>5, <3>2
  <2>8. Holding' = Both(Holding, <<"found", w>>, <<>>, <<"list", NoThread>>, m)
    BY <1>5, <2>3, HoldingChanges
  <2>. DEFINE h == <<"found", w>>
              k == <<"list", NoThread>>
  <2>9. h \in Holders /\ k \in Holders /\ h # k /\ <<>> \in Seq(Nat) /\ m \in Seq(Nat)
    BY <1>1, <1>2, <2>4
  <2>10. IsFiniteSet(Readers) /\ IsFiniteSet(Writers) /\ IndexnodesTypeOK /\ RefsExact
    OBVIOUS
  <2>. HIDE DEF h, k, m
  <2>. QED BY ONLY <2>6, <2>7, <2>8, <2>9, <2>10, RefsBoth DEF h, k
<1>. QED BY <1>6, <1>7, <1>8, <1>9, <1>10 DEF WriterStep

\* Every step keeps the references exact.
LEMMA NextRefs ==
  ASSUME IsFiniteSet(Readers), IsFiniteSet(Writers), Base, [IndexnodesNext]_allVars
  PROVE  RefsExact'
<1>1. CASE Nothing
  BY <1>1, RefsSame DEF Nothing, Base
<1>2. ASSUME NEW t \in Threads, Lock(t) \/ Unlock(t) PROVE RefsExact'
  BY <1>2, RefsSame DEF Lock, Unlock, Base
<1>3. CASE Tick
  BY <1>3, RefsSame DEF Tick, Base
<1>. QED BY <1>1, <1>2, <1>3, ReaderRefs, WriterRefs, StepsOfC

\* Each step keeps the lists lists of indexnodes.
LEMMA NextLists ==
  ASSUME Base, [IndexnodesNext]_allVars
  PROVE  /\ list' \in Seq(DOMAIN node)
         /\ fresh' \in [Readers -> Seq(DOMAIN node)] /\ copy' \in [Readers -> Seq(DOMAIN node)]
<1>. DEFINE S == Seq(DOMAIN node)
<1>1. /\ <<>> \in S /\ list \in S /\ fresh \in [Readers -> S] /\ copy \in [Readers -> S]
      /\ remove_expired(list) \in S /\ Reverse(list) \in S
  BY EmptySeq, UnexpiredType, TimesReverse DEF Base, IndexnodesTypeOK
<1>2. ASSUME UNCHANGED <<list, fresh, copy>>
      PROVE  list' \in S /\ fresh' \in [Readers -> S] /\ copy' \in [Readers -> S]
  BY <1>1, <1>2
<1>3. CASE Nothing
  BY <1>2, <1>3 DEF Nothing
<1>4. ASSUME NEW r \in Readers, ReaderStep(r)
      PROVE  list' \in S /\ fresh' \in [Readers -> S] /\ copy' \in [Readers -> S]
  <2>. HIDE DEF S
  <2>1. \/ UNCHANGED <<list, fresh, copy>>
        \/ fresh' = [fresh EXCEPT ![r] = remove_expired(list)] /\ UNCHANGED <<list, copy>>
        \/ list' = <<>> /\ UNCHANGED <<fresh, copy>>
        \/ list' = fresh[r] /\ fresh' = [fresh EXCEPT ![r] = <<>>] /\ UNCHANGED copy
        \/ copy' = [copy EXCEPT ![r] = Reverse(list)] /\ UNCHANGED <<list, fresh>>
        \/ copy' = [copy EXCEPT ![r] = <<>>] /\ UNCHANGED <<list, fresh>>
    BY <1>4 DEF ReaderStep, Get, Builds, Frees, Publish, Copies, DeleteCopy
  <2>. QED BY <1>1, <2>1
<1>5. ASSUME NEW w \in Writers, WriterStep(w)
      PROVE  list' \in S /\ fresh' \in [Readers -> S] /\ copy' \in [Readers -> S]
  <2>1. CASE Adds(w)
    <3>1. list' = <<found[w]>> \o list /\ UNCHANGED <<fresh, copy>> /\ found[w] \in DOMAIN node
      BY <2>1, FoundFacts DEF Adds, At, Base
    <3>2. list' \in S
      BY <1>1, <3>1, AtHead
    <3>. QED BY <1>1, <3>1, <3>2
  <2>. HIDE DEF S
  <2>. QED BY <1>2, <1>5, <2>1 DEF WriterStep, new_indexnode_event, Finds, Misses, SeenAgain, Makes, Refuses
<1>6. ASSUME NEW t \in Threads, Lock(t) \/ Unlock(t) PROVE UNCHANGED <<list, fresh, copy>>
  BY <1>6 DEF Lock, Unlock
<1>7. CASE Tick
  BY <1>2, <1>7 DEF Tick
<1>. QED BY <1>2, <1>3, <1>4, <1>5, <1>6, <1>7, StepsOfC

\* Each step keeps the types.
LEMMA NextTypes ==
  ASSUME IsFiniteSet(Readers), IsFiniteSet(Writers), Base, [IndexnodesNext]_allVars
  PROVE  IndexnodesTypeOK'
<1>. USE ThreadsAssumption, IndexnodesAssumption DEF Base
<1>1. node' \in Seq(Indexnode) /\ DOMAIN node \subseteq DOMAIN node'
  BY NodesKept
<1>2. \A l \in Seq(DOMAIN node) : l \in Seq(DOMAIN node')
  BY <1>1, SeqMonotonic
<1>3. /\ list' \in Seq(DOMAIN node')
      /\ fresh' \in [Readers -> Seq(DOMAIN node')] /\ copy' \in [Readers -> Seq(DOMAIN node')]
  BY <1>2, NextLists
<1>4. found' \in [Writers -> {0} \cup DOMAIN node']
  <2>0. found \in [Writers -> {0} \cup DOMAIN node']
    BY <1>1 DEF IndexnodesTypeOK
  <2>1. ASSUME NEW w \in Writers, WriterStep(w) PROVE found' \in [Writers -> {0} \cup DOMAIN node']
    <3>1. CASE Finds(w)
      <4>1. PICK i : i \in {FirstMatch(advert[w].id)} \ {0} /\ found' = [found EXCEPT ![w] = list[i]]
        BY <3>1 DEF Finds
      <4>2. list[i] \in DOMAIN node
        <5>1. i \in DOMAIN list
          BY <4>1, ListTypes, FirstMatchFacts
        <5>. QED BY <5>1, ListTypes, LenProperties, ElementOfSeq
      <4>. QED BY <1>1, <2>0, <4>1, <4>2
    <3>2. CASE Makes(w)
      <4>1. Len(node) + 1 \in DOMAIN node'
        <5>1. Len(node') = Len(node) + 1 /\ Len(node) \in Nat
          BY <3>2, ListTypes, AppendProperties DEF Makes
        <5>. QED BY <1>1, <5>1, LenProperties
      <4>. QED BY <2>0, <3>2, <4>1 DEF Makes
    <3>3. CASE SeenAgain(w) \/ Adds(w)
      BY <2>0, <3>3 DEF SeenAgain, Adds
    <3>. QED BY <2>0, <2>1, <3>1, <3>2, <3>3 DEF WriterStep, new_indexnode_event, Misses, Refuses
  <2>2. ASSUME NEW r \in Readers, ReaderStep(r) PROVE found' = found
    BY <2>2 DEF ReaderStep, Get, Builds, Frees, Publish, Copies, DeleteCopy
  <2>3. ASSUME NEW t \in Threads, Lock(t) \/ Unlock(t) PROVE found' = found
    BY <2>3 DEF Lock, Unlock
  <2>4. Nothing \/ Tick => found' = found
    BY DEF Nothing, Tick
  <2>. QED BY <2>0, <2>1, <2>2, <2>3, <2>4, StepsOfC
<1>5. now' \in 0 .. MaxTime /\ undefined' \in {"no", "list", "protocol"} /\ dangling' \in BOOLEAN
  <2>1. CASE Nothing
    BY <2>1 DEF Nothing, IndexnodesTypeOK
  <2>2. ASSUME NEW r \in Readers, ReaderStep(r)
        PROVE  UNCHANGED <<now, undefined>> /\ dangling' \in {dangling, TRUE, FALSE}
    BY <2>2 DEF ReaderStep, Get, Builds, Frees, Publish, Copies, DeleteCopy
  <2>3. ASSUME NEW w \in Writers, WriterStep(w) PROVE UNCHANGED <<now, undefined, dangling>>
    BY <2>3 DEF WriterStep, new_indexnode_event, Finds, Misses, SeenAgain, Makes, Refuses, Adds
  <2>4. ASSUME NEW t \in Threads, Lock(t) \/ Unlock(t) PROVE UNCHANGED <<now, undefined, dangling>>
    BY <2>4 DEF Lock, Unlock
  <2>5. CASE Tick
    BY <2>5 DEF Tick, IndexnodesTypeOK
  <2>. QED BY <2>1, <2>2, <2>3, <2>4, <2>5, StepsOfC DEF IndexnodesTypeOK
<1>. DEFINE Kinds == /\ step' \in [Threads -> {"idle", "lock", "locked", "built", "freed", "published",
                                               "unlock", "find", "seen", "new"}]
                     /\ held' \in [Threads -> {"none", "current", "freed"}]
                     /\ advert' \in [Writers -> Advert \cup {NoAdvert}]
                     /\ asked' \in [Readers -> 0 .. MaxTime]
<1>6. Kinds
  <2>. USE DEF IndexnodesTypeOK, GoTo, Threads
  <2>1. CASE Nothing
    BY <2>1 DEF Nothing
  <2>2. ASSUME NEW r \in Readers, ReaderStep(r)
        PROVE  /\ \E s \in {"lock", "built", "freed", "published", "unlock"} :
                    step' \in {step, [step EXCEPT ![r] = s]}
               /\ held' \in [Threads -> {"none", "current", "freed"}]
               /\ advert' = advert
               /\ asked' \in {asked, [asked EXCEPT ![r] = now]}
    <3>1. CASE Get(r)
      BY <2>2, <3>1 DEF Get
    <3>2. CASE Builds(r)
      BY <2>2, <3>2 DEF Builds
    <3>3. CASE Frees(r)
      BY <2>2, <3>3 DEF Frees
    <3>4. CASE Publish(r)
      BY <2>2, <3>4 DEF Publish
    <3>5. CASE Copies(r)
      BY <2>2, <3>5 DEF Copies
    <3>6. CASE DeleteCopy(r)
      BY <2>2, <3>6 DEF DeleteCopy
    <3>. QED BY <2>2, <3>1, <3>2, <3>3, <3>4, <3>5, <3>6 DEF ReaderStep
  <2>3. ASSUME NEW w \in Writers, WriterStep(w)
        PROVE  /\ \E s \in {"idle", "find", "seen", "new", "lock", "unlock"} : step' = [step EXCEPT ![w] = s]
               /\ \E s \in {"none", "current", "freed"} : held' \in {held, [held EXCEPT ![w] = s]}
               /\ \E a \in Advert \cup {NoAdvert} : advert' \in {advert, [advert EXCEPT ![w] = a]}
               /\ asked' = asked
    BY <2>3 DEF WriterStep, new_indexnode_event, Finds, Misses, SeenAgain, Makes, Refuses, Adds
  <2>4. ASSUME NEW t \in Threads, Lock(t) \/ Unlock(t)
        PROVE  /\ \E s \in {"locked", "idle"} : step' \in {step, [step EXCEPT ![t] = s]}
               /\ UNCHANGED <<held, advert, asked>>
    BY <2>4 DEF Lock, Unlock
  <2>5. CASE Tick
    BY <2>5 DEF Tick
  <2>6. ASSUME NEW r \in Readers, ReaderStep(r) PROVE Kinds
    <3>1. PICK s \in {"lock", "built", "freed", "published", "unlock"} :
            step' = step \/ step' = [step EXCEPT ![r] = s]
      BY <2>2, <2>6
    <3>2. step' \in [Threads -> {"idle", "lock", "locked", "built", "freed", "published",
                                "unlock", "find", "seen", "new"}]
      BY <3>1
    <3>3. asked' = asked \/ asked' = [asked EXCEPT ![r] = now]
      BY <2>2, <2>6
    <3>4. asked' \in [Readers -> 0 .. MaxTime]
      BY <3>3
    <3>5. held' \in [Threads -> {"none", "current", "freed"}] /\ advert' \in [Writers -> Advert \cup {NoAdvert}]
      BY <2>2, <2>6
    <3>. QED BY <3>2, <3>4, <3>5
  <2>7. ASSUME NEW w \in Writers, WriterStep(w) PROVE Kinds
    <3>1. PICK s \in {"idle", "find", "seen", "new", "lock", "unlock"} : step' = [step EXCEPT ![w] = s]
      BY <2>3, <2>7
    <3>2. step' \in [Threads -> {"idle", "lock", "locked", "built", "freed", "published",
                                "unlock", "find", "seen", "new"}]
      BY <3>1
    <3>3. PICK h \in {"none", "current", "freed"} : held' = held \/ held' = [held EXCEPT ![w] = h]
      BY <2>3, <2>7
    <3>4. held' \in [Threads -> {"none", "current", "freed"}]
      BY <3>3
    <3>5. PICK a \in Advert \cup {NoAdvert} : advert' = advert \/ advert' = [advert EXCEPT ![w] = a]
      BY <2>3, <2>7
    <3>6. advert' \in [Writers -> Advert \cup {NoAdvert}]
      BY <3>5
    <3>7. asked' \in [Readers -> 0 .. MaxTime]
      BY <2>3, <2>7
    <3>. QED BY <3>2, <3>4, <3>6, <3>7
  <2>8. ASSUME NEW t \in Threads, Lock(t) \/ Unlock(t) PROVE Kinds
    BY <2>4, <2>8
  <2>. QED BY <2>1, <2>5, <2>6, <2>7, <2>8, StepsOfC
<1>7. TypeOK'
  BY LockKept DEF Inv
<1>. QED BY <1>1, <1>3, <1>4, <1>5, <1>6, <1>7 DEF IndexnodesTypeOK

\* Each step leaves nothing behind that the next call would overwrite.
LEMMA NextHanded ==
  ASSUME Base, [IndexnodesNext]_allVars
  PROVE  Handed'
<1>. USE ThreadsAssumption DEF Base, IndexnodesTypeOK, At, GoTo, Threads, Handed
<1>1. CASE Nothing
  BY <1>1 DEF Nothing
<1>2. ASSUME NEW r \in Readers, ReaderStep(r) PROVE Handed'
  <2>1. CASE Get(r)
    BY <2>1 DEF Get
  <2>2. CASE Builds(r)
    BY <2>2 DEF Builds
  <2>3. CASE Frees(r)
    BY <2>3 DEF Frees
  <2>4. CASE Publish(r)
    BY <2>4 DEF Publish
  <2>5. CASE Copies(r)
    BY <2>5 DEF Copies
  <2>6. CASE DeleteCopy(r)
    BY <2>6 DEF DeleteCopy
  <2>. QED BY <1>2, <2>1, <2>2, <2>3, <2>4, <2>5, <2>6 DEF ReaderStep
<1>3. ASSUME NEW w \in Writers, WriterStep(w) PROVE Handed'
  <2>1. ASSUME NEW a \in Advert, new_indexnode_event(w, a) PROVE Handed'
    BY <2>1 DEF new_indexnode_event
  <2>2. CASE Finds(w)
    <3>1. PICK i : i \in {FirstMatch(advert[w].id)} \ {0} /\ found' = [found EXCEPT ![w] = list[i]]
      BY <2>2 DEF Finds
    <3>2. list[i] # 0
      <4>1. i \in DOMAIN list
        BY <3>1, ListTypes, FirstMatchFacts
      <4>. QED BY <4>1, ListTypes, LenProperties, ElementOfSeq
    <3>. QED BY <2>2, <3>1, <3>2 DEF Finds
  <2>3. CASE Misses(w)
    BY <2>3 DEF Misses
  <2>4. CASE SeenAgain(w)
    BY <2>4 DEF SeenAgain
  <2>5. CASE Makes(w)
    <3>1. Len(node) + 1 # 0
      BY ListTypes
    <3>. QED BY <2>5, <3>1 DEF Makes
  <2>6. CASE Refuses(w)
    BY <2>6 DEF Refuses
  <2>7. CASE Adds(w)
    BY <2>7 DEF Adds
  <2>. QED BY <1>3, <2>1, <2>2, <2>3, <2>4, <2>5, <2>6, <2>7 DEF WriterStep
<1>4. ASSUME NEW t \in Threads, Lock(t) \/ Unlock(t) PROVE Handed'
  <2>1. UNCHANGED <<fresh, copy, found, advert>>
    BY <1>4 DEF Lock, Unlock
  <2>2. /\ \A u \in Threads \ {t} : step'[u] = step[u]
        /\ \/ step[t] = "lock" /\ step'[t] \in {"lock", "locked"}
           \/ step[t] = "unlock" /\ step'[t] = "idle"
    BY <1>4, LockMoves
  <2>. QED BY <2>1, <2>2
<1>5. CASE Tick
  BY <1>5 DEF Tick
<1>. QED BY <1>1, <1>2, <1>3, <1>4, <1>5, StepsOfC

\* Each step keeps track of ins->list.
LEMMA NextPointer ==
  ASSUME Base, [IndexnodesNext]_allVars
  PROVE  Pointer'
<1>. USE ThreadsAssumption DEF Base, IndexnodesTypeOK, At, GoTo, Threads, Pointer, Steps
<1>1. CASE Nothing
  BY <1>1 DEF Nothing
<1>2. ASSUME NEW r \in Readers, ReaderStep(r) PROVE Pointer'
  <2>1. CASE Get(r)
    BY <2>1 DEF Get
  <2>2. CASE Builds(r)
    BY <2>2 DEF Builds
  <2>3. CASE Frees(r)
    BY <2>3 DEF Frees
  <2>4. CASE Publish(r)
    BY <2>4 DEF Publish
  <2>5. CASE Copies(r)
    BY <2>5 DEF Copies
  <2>6. CASE DeleteCopy(r)
    BY <2>6 DEF DeleteCopy
  <2>. QED BY <1>2, <2>1, <2>2, <2>3, <2>4, <2>5, <2>6 DEF ReaderStep
<1>3. ASSUME NEW w \in Writers, WriterStep(w) PROVE Pointer'
  <2>1. ASSUME NEW a \in Advert, new_indexnode_event(w, a) PROVE Pointer'
    BY <2>1 DEF new_indexnode_event
  <2>2. CASE Finds(w)
    BY <2>2 DEF Finds
  <2>3. CASE Misses(w)
    BY <2>3 DEF Misses
  <2>4. CASE SeenAgain(w)
    BY <2>4 DEF SeenAgain
  <2>5. CASE Makes(w)
    BY <2>5 DEF Makes
  <2>6. CASE Refuses(w)
    BY <2>6 DEF Refuses
  <2>7. CASE Adds(w)
    BY <2>7 DEF Adds
  <2>. QED BY <1>3, <2>1, <2>2, <2>3, <2>4, <2>5, <2>6, <2>7 DEF WriterStep
<1>4. ASSUME NEW t \in Threads, Lock(t) \/ Unlock(t) PROVE Pointer'
  <2>1. UNCHANGED <<list, dangling, held>>
    BY <1>4 DEF Lock, Unlock
  <2>2. /\ \A u \in Threads \ {t} : step'[u] = step[u]
        /\ \/ step[t] = "lock" /\ step'[t] \in {"lock", "locked"}
           \/ step[t] = "unlock" /\ step'[t] = "idle"
    BY <1>4, LockMoves
  <2>3. \A u \in Threads :
          /\ step'[u] = "freed" <=> step[u] = "freed"
          /\ step'[u] \in {"built", "find"} <=> step[u] \in {"built", "find"}
    BY ONLY <2>2
  <2>4. dangling' <=> \E r \in Readers : step'[r] = "freed"
    BY ONLY <2>1, <2>3, Base DEF Base, Pointer, Threads
  <2>5. \A r, s \in Readers : step'[r] = "freed" /\ step'[s] = "freed" => r = s
    BY ONLY <2>3, Base DEF Base, Pointer, Threads
  <2>6. /\ dangling' => list' = <<>> /\ \A u \in Threads : held'[u] # "current"
        /\ \A u \in Threads : step'[u] \in {"built", "find"} => held'[u] # "none"
    BY ONLY <2>1, <2>3, Base DEF Base, Pointer
  <2>. QED BY ONLY <2>4, <2>5, <2>6 DEF Pointer
<1>5. CASE Tick
  BY <1>5 DEF Tick
<1>. QED BY <1>1, <1>2, <1>3, <1>4, <1>5, StepsOfC

\* It holds when the list is made.
LEMMA InitBase == IndexnodesInit => Base
<1>. SUFFICES ASSUME IndexnodesInit PROVE Base
  OBVIOUS
<1>. USE ThreadsAssumption, IndexnodesAssumption DEF IndexnodesInit, Threads
<1>1. Inv
  BY DEF Init, Inv, TypeOK, WriterCounted, Apart, NoForgottenWaiter, Waiting
<1>2. DOMAIN <<>> = {} /\ <<>> \in Seq(Indexnode) /\ <<>> \in Seq(DOMAIN node)
  BY EmptySeq
<1>3. IndexnodesTypeOK
  <2>1. TypeOK /\ now \in 0 .. MaxTime /\ node \in Seq(Indexnode) /\ list \in Seq(DOMAIN node)
    BY <1>1, <1>2 DEF Inv
  <2>2. fresh \in [Readers -> Seq(DOMAIN node)] /\ copy \in [Readers -> Seq(DOMAIN node)]
    BY <1>2
  <2>3. /\ dangling \in BOOLEAN
        /\ step \in [Threads -> {"idle", "lock", "locked", "built", "freed", "published",
                                 "unlock", "find", "seen", "new"}]
        /\ held \in [Threads -> {"none", "current", "freed"}]
    OBVIOUS
  <2>4. advert \in [Writers -> Advert \cup {NoAdvert}] /\ found \in [Writers -> {0} \cup DOMAIN node]
    OBVIOUS
  <2>5. asked \in [Readers -> 0 .. MaxTime] /\ undefined \in {"no", "list", "protocol"}
    OBVIOUS
  <2>. QED BY <2>1, <2>2, <2>3, <2>4, <2>5 DEF IndexnodesTypeOK
<1>4. Steps /\ Handed /\ Pointer
  BY DEF Steps, Handed, Pointer, Init, Within
<1>5. RefsExact
  BY <1>2 DEF RefsExact
<1>. QED BY <1>1, <1>3, <1>4, <1>5 DEF Base

\* And always after.
LEMMA BaseHolds ==
  ASSUME IsFiniteSet(Readers), IsFiniteSet(Writers)
  PROVE  IndexnodesSpec => []Base
<1>1. Base /\ [IndexnodesNext]_allVars => Base'
  <2>. SUFFICES ASSUME Base, [IndexnodesNext]_allVars PROVE Base'
    OBVIOUS
  <2>1. Inv' /\ Steps'
    BY LockKept, NextSteps DEF Base
  <2>2. IndexnodesTypeOK' /\ Handed' /\ Pointer' /\ RefsExact'
    BY NextTypes, NextHanded, NextPointer, NextRefs
  <2>. QED BY <2>1, <2>2 DEF Base
<1>. QED BY <1>1, InitBase, PTL DEF IndexnodesSpec

\* Indexnodes are numbers of indexnode_t's that were made, in every list and
\* in every thread's hands, for any number of readers and event threads.
THEOREM ListTypeCorrect ==
  ASSUME IsFiniteSet(Readers), IsFiniteSet(Writers)
  PROVE  IndexnodesSpec => []IndexnodesTypeOK
BY BaseHolds, PTL DEF Base

\* ref_count is the number of references, at every step of indexnodes_get and
\* of new_indexnode_event, for any number of readers and event threads: that
\* more than one reader breaks the lock costs no reference.
THEOREM ReferencesExact ==
  ASSUME IsFiniteSet(Readers), IsFiniteSet(Writers)
  PROVE  IndexnodesSpec => []RefsExact
BY BaseHolds, PTL DEF Base

\* indexnodes.c uses the lock of locks.c as RwLock describes it, so that every
\* theorem about the lock holds of the lock of the list.
THEOREM ListUsesLock == IndexnodesSpec => Spec
<1>1. IndexnodesInit => Init
  BY DEF IndexnodesInit
<1>. QED BY <1>1, LockStep, PTL DEF IndexnodesSpec, Spec

-----------------------------------------------------------------------------
(***************************************************************************)
(* Nobody adds twice what it searches for first.                           *)
(***************************************************************************)

\* Only the names and the makers of the entries matter.
LEMMA SameNames ==
  ASSUME NEW N, NEW M, NEW l, \A i \in DOMAIN l : M[l[i]].id = N[l[i]].id /\ M[l[i]].by = N[l[i]].by
  PROVE  /\ Distinct(N, l) => Distinct(M, l)
         /\ \A w, id : Absent(N, w, id, l) => Absent(M, w, id, l)
BY DEF Distinct, Absent

\* Entries taken from a list are not there twice if they were not before.
LEMMA DistinctKept ==
  ASSUME list \in Seq(Nat), NEW N, Distinct(N, list)
  PROVE  Distinct(N, remove_expired(list))
<1>. DEFINE m == remove_expired(list)
<1>1. Kept(list, Len(list), m) /\ DOMAIN list = 1 .. Len(list)
  BY UnexpiredKept, LenProperties
<1>. HIDE DEF m
<1>2. PICK f \in [DOMAIN m -> 1 .. Len(list)] :
        /\ \A i, j \in DOMAIN m : f[i] = f[j] => i = j
        /\ \A i \in DOMAIN m : m[i] = list[f[i]]
  BY <1>1 DEF Kept
<1>3. \A i \in DOMAIN m : f[i] \in DOMAIN list
  BY <1>1, <1>2
<1>4. Distinct(N, m)
  BY <1>2, <1>3 DEF Distinct
<1>. QED BY <1>4 DEF m

\* What is not in a list is not in a part of it.
LEMMA AbsentAmong ==
  ASSUME NEW N, NEW w, NEW id, NEW l, NEW m, Among(m, l), Absent(N, w, id, l)
  PROVE  Absent(N, w, id, m)
BY DEF Among, Absent

\* An entry at the head that its maker had not added.
LEMMA DistinctAtHead ==
  ASSUME NEW N, NEW x \in Nat, NEW l \in Seq(Nat)
  PROVE  /\ Distinct(N, l) /\ Absent(N, N[x].by, N[x].id, l) => Distinct(N, <<x>> \o l)
         /\ \A w, id : Absent(N, w, id, l) /\ N[x].by # w => Absent(N, w, id, <<x>> \o l)
         /\ \A m : Among(m, l) => Among(m, <<x>> \o l)
<1>. DEFINE t == <<x>> \o l
            n == Len(l)
<1>1. /\ n \in Nat /\ DOMAIN l = 1 .. n /\ DOMAIN t = 1 .. n + 1
      /\ t[1] = x /\ \A i \in 1 .. n : t[i + 1] = l[i]
  BY AtHead, LenProperties
<1>. HIDE DEF t, n
<1>2. \A i \in DOMAIN t : i # 1 => i - 1 \in DOMAIN l /\ t[i] = l[i - 1]
  <2>1. \A i \in 1 .. n + 1 : i # 1 => i - 1 \in 1 .. n /\ (i - 1) + 1 = i
    BY <1>1
  <2>. QED BY <1>1, <2>1
<1>3. \A i \in DOMAIN l : i + 1 \in DOMAIN t /\ t[i + 1] = l[i]
  BY <1>1
<1>4. \A i, j \in DOMAIN t : i # 1 /\ j # 1 /\ i # j => i - 1 # j - 1
  BY <1>1
<1>5. ASSUME Distinct(N, l), Absent(N, N[x].by, N[x].id, l) PROVE Distinct(N, t)
  <2>. SUFFICES ASSUME NEW i \in DOMAIN t, NEW j \in DOMAIN t, i # j, N[t[i]].id = N[t[j]].id
       PROVE  N[t[i]].by # N[t[j]].by
    BY DEF Distinct
  <2>0. \A k \in DOMAIN t : k # 1 /\ N[t[k]].id = N[x].id => N[t[k]].by # N[x].by
    BY <1>2, <1>5 DEF Absent
  <2>1. CASE i = 1
    BY <1>1, <2>0, <2>1
  <2>2. CASE j = 1
    BY <1>1, <2>0, <2>2
  <2>3. CASE i # 1 /\ j # 1
    BY <1>2, <1>4, <1>5, <2>3 DEF Distinct
  <2>. QED BY <2>1, <2>2, <2>3
<1>6. ASSUME NEW w, NEW id, Absent(N, w, id, l), N[x].by # w PROVE Absent(N, w, id, t)
  BY <1>1, <1>2, <1>6 DEF Absent
<1>7. ASSUME NEW m, Among(m, l) PROVE Among(m, t)
  BY <1>3, <1>7 DEF Among
<1>. QED BY <1>5, <1>6, <1>7 DEF t

\* Each step keeps apart what one thread adds.
LEMMA NextSearched ==
  ASSUME IsFiniteSet(Readers), IsFiniteSet(Writers), Base, Searched, [IndexnodesNext]_allVars
  PROVE  Searched'
<1>. USE ThreadsAssumption DEF Base
<1>0. /\ DOMAIN node \subseteq Nat /\ 0 \notin DOMAIN node /\ DOMAIN node = 1 .. Len(node) /\ Len(node) \in Nat
      /\ list \in Seq(Nat) /\ list \in Seq(DOMAIN node)
      /\ \A r \in Readers : fresh[r] \in Seq(DOMAIN node)
      /\ \A w \in Writers : found[w] \in Nat
  BY ListTypes
<1>1. ASSUME NEW l \in Seq(DOMAIN node)
      PROVE  /\ Distinct(node, l) => Distinct(node', l)
             /\ \A w, id : Absent(node, w, id, l) => Absent(node', w, id, l)
  <2>1. \A i \in DOMAIN l : node'[l[i]].id = node[l[i]].id /\ node'[l[i]].by = node[l[i]].by
    <3>1. \A i \in DOMAIN l : l[i] \in DOMAIN node
      BY LenProperties, ElementOfSeq
    <3>. QED BY <3>1, NodesKept DEF Kin
  <2>. QED BY <2>1, SameNames
<1>2. /\ Distinct(node', list)
      /\ \A r \in Readers : Distinct(node, fresh[r]) => Distinct(node', fresh[r])
      /\ \A w, id : Absent(node, w, id, list) => Absent(node', w, id, list)
      /\ \A w, id : \A r \in Readers : Absent(node, w, id, fresh[r]) => Absent(node', w, id, fresh[r])
  BY <1>0, <1>1 DEF Searched
<1>3. \A t \in Threads : step[t] \in {"built", "find"} /\ held[t] # "freed" => held[t] = "current"
  BY DEF IndexnodesTypeOK, Pointer
<1>4. ASSUME ~dangling PROVE \A r \in Readers : step[r] # "freed"
  BY <1>4 DEF Pointer

(*************************************************************************)
(* A writer that the step does not move, or moves into the lock.         *)
(*************************************************************************)
<1>. DEFINE Unmoved(w) == /\ found'[w] = found[w] /\ advert'[w] = advert[w]
                          /\ step'[w] = step[w] \/ (step[w] = "lock" /\ step'[w] = "locked")
<1>5. ASSUME NEW w \in Writers, Unmoved(w), step'[w] \in Seeking
      PROVE  /\ step[w] \in Seeking /\ Missing(w)' = Missing(w)
             /\ step'[w] \in {"lock", "locked"} => node'[found'[w]].by = w
  <2>1. step[w] \in Seeking
    BY <1>5 DEF Seeking
  <2>2. CASE step'[w] = "new"
    BY <1>5, <2>1, <2>2 DEF Missing
  <2>3. CASE step'[w] # "new"
    <3>1. step[w] \in {"lock", "locked"}
      BY <1>5, <2>3 DEF Seeking
    <3>2. found[w] \in DOMAIN node
      BY <3>1, FoundFacts
    <3>3. node'[found[w]].id = node[found[w]].id /\ node'[found[w]].by = node[found[w]].by
      BY <3>2, NodesKept DEF Kin
    <3>4. Missing(w)' = node'[found'[w]].id /\ Missing(w) = node[found[w]].id
      BY <2>3, <3>1 DEF Missing
    <3>. QED BY <1>5, <2>1, <3>1, <3>3, <3>4 DEF Searched
  <2>. QED BY <2>2, <2>3
<1>. HIDE DEF Unmoved

(*************************************************************************)
(* A step that changes no list that anybody could publish.               *)
(*************************************************************************)
<1>. DEFINE Listless == /\ UNCHANGED <<list, fresh>>
                        /\ \A r \in Readers : step'[r] = "freed" => step[r] = "freed"
                        /\ \A r \in Readers : step'[r] = "built" /\ held'[r] = "current" =>
                                                step[r] = "built" /\ held[r] = "current"
<1>6. ASSUME Listless
      PROVE  /\ Distinct(node', list')
             /\ \A r \in Readers : step'[r] = "freed" => Distinct(node', fresh'[r])
             /\ \A r \in Readers : step'[r] = "built" /\ held'[r] = "current" =>
                                     Distinct(node', fresh'[r]) /\ Among(fresh'[r], list')
  BY <1>2, <1>6 DEF Searched
<1>7. ASSUME NEW w \in Writers, Listless, Unmoved(w)
      PROVE  /\ step'[w] \in {"lock", "locked"} => node'[found'[w]].by = w
             /\ step'[w] \in Seeking =>
                  /\ Absent(node', w, Missing(w)', list')
                  /\ \A r \in Readers : step'[r] = "freed" => Absent(node', w, Missing(w)', fresh'[r])
  <2>. SUFFICES ASSUME step'[w] \in Seeking
       PROVE  /\ step'[w] \in {"lock", "locked"} => node'[found'[w]].by = w
              /\ Absent(node', w, Missing(w)', list')
              /\ \A r \in Readers : step'[r] = "freed" => Absent(node', w, Missing(w)', fresh'[r])
    BY DEF Seeking
  <2>1. /\ step[w] \in Seeking /\ Missing(w)' = Missing(w)
        /\ step'[w] \in {"lock", "locked"} => node'[found'[w]].by = w
    BY <1>5, <1>7
  <2>2. /\ Absent(node, w, Missing(w), list)
        /\ \A r \in Readers : step[r] = "freed" => Absent(node, w, Missing(w), fresh[r])
    BY <2>1 DEF Searched
  <2>. QED BY <1>2, <1>7, <2>1, <2>2
<1>8. ASSUME Listless, \A w \in Writers : Unmoved(w) PROVE Searched'
  <2>1. Listless
    BY <1>8
  <2>. HIDE DEF Listless
  <2>. QED BY <1>6, <1>7, <1>8, <2>1 DEF Searched
<1>9. ASSUME Listless, NEW v \in Writers, step'[v] \notin Seeking,
             \A w \in Writers \ {v} : Unmoved(w)
      PROVE  Searched'
  <2>1. Listless
    BY <1>9
  <2>2. step'[v] \notin {"lock", "locked"}
    BY <1>9 DEF Seeking
  <2>. HIDE DEF Listless
  <2>. QED BY <1>6, <1>7, <1>9, <2>1, <2>2 DEF Searched

(*************************************************************************)
(* The steps.                                                            *)
(*************************************************************************)
<1>10. CASE Nothing \/ Tick
  <2>1. UNCHANGED <<list, fresh, step, held, found, advert>>
    BY <1>10 DEF Nothing, Tick
  <2>. QED BY <1>8, <2>1 DEF Unmoved
<1>11. ASSUME NEW t \in Threads, Lock(t) \/ Unlock(t) PROVE Searched'
  <2>1. UNCHANGED <<list, fresh, held, found, advert>>
    BY <1>11 DEF Lock, Unlock
  <2>2. /\ \A u \in Threads \ {t} : step'[u] = step[u]
        /\ \/ step[t] = "lock" /\ step'[t] \in {"lock", "locked"}
           \/ step[t] = "unlock" /\ step'[t] = "idle"
    BY <1>11, LockMoves
  <2>3. Listless
    BY <2>1, <2>2 DEF Threads
  <2>4. CASE step'[t] # "idle"
    BY <1>8, <2>1, <2>2, <2>3, <2>4 DEF Unmoved, Threads
  <2>5. CASE step'[t] = "idle" /\ t \in Writers
    <3>1. step'[t] \notin Seeking
      BY <2>5 DEF Seeking
    <3>. QED BY <1>9, <2>1, <2>2, <2>3, <2>5, <3>1 DEF Unmoved, Threads
  <2>6. CASE t \notin Writers
    BY <1>8, <2>1, <2>2, <2>3, <2>6 DEF Unmoved, Threads
  <2>. QED BY <2>4, <2>5, <2>6
<1>12. ASSUME NEW r \in Readers, Get(r) \/ Copies(r) \/ DeleteCopy(r) PROVE Searched'
  <2>1. /\ UNCHANGED <<list, fresh, held, found, advert>>
        /\ \A u \in Threads \ {r} : step'[u] = step[u]
        /\ step'[r] \in {step[r], "lock", "unlock"}
    BY <1>12 DEF Get, Copies, DeleteCopy, GoTo, IndexnodesTypeOK
  <2>2. Listless
    BY <2>1 DEF Threads
  <2>3. \A w \in Writers : Unmoved(w)
    BY <2>1 DEF Unmoved, Threads
  <2>. QED BY <1>8, <2>2, <2>3
<1>13. ASSUME NEW r \in Readers, Builds(r) PROVE Searched'
  <2>1. /\ UNCHANGED <<list, found, advert>> /\ ~dangling
        /\ \A u \in Threads \ {r} : step'[u] = step[u] /\ held'[u] = held[u]
        /\ \A s \in Readers \ {r} : fresh'[s] = fresh[s]
        /\ step'[r] = "built" /\ fresh'[r] = remove_expired(list)
    BY <1>13 DEF Builds, At, GoTo, IndexnodesTypeOK, Threads
  <2>2. \A s \in Readers : step'[s] # "freed"
    BY <1>4, <2>1 DEF Threads
  <2>3. Among(remove_expired(list), list) /\ Distinct(node', remove_expired(list))
    BY <1>0, <1>2, UnexpiredType, DistinctKept
  <2>4. ASSUME NEW s \in Readers, step'[s] = "built", held'[s] = "current"
        PROVE  Distinct(node', fresh'[s]) /\ Among(fresh'[s], list')
    <3>1. CASE s = r
      BY <2>1, <2>3, <3>1
    <3>2. CASE s # r
      BY <1>2, <2>1, <2>4, <3>2 DEF Searched, Threads
    <3>. QED BY <3>1, <3>2
  <2>5. \A w \in Writers : Unmoved(w)
    BY <2>1 DEF Unmoved, Threads
  <2>6. ASSUME NEW w \in Writers, step'[w] \in Seeking
        PROVE  /\ Absent(node', w, Missing(w)', list')
               /\ step'[w] \in {"lock", "locked"} => node'[found'[w]].by = w
    BY <1>2, <1>5, <2>1, <2>5, <2>6 DEF Searched
  <2>7. {"lock", "locked"} \subseteq Seeking
    BY DEF Seeking
  <2>. QED BY <1>2, <2>1, <2>2, <2>4, <2>6, <2>7 DEF Searched
<1>14. ASSUME NEW r \in Readers, Frees(r) PROVE Searched'
  <2>1. /\ UNCHANGED <<fresh, found, advert>> /\ list' = <<>> /\ held[r] = "current" /\ ~dangling
        /\ \A u \in Threads \ {r} : step'[u] = step[u] /\ held'[u] # "current"
        /\ step[r] = "built" /\ step'[r] = "freed"
    BY <1>3, <1>14 DEF Frees, At, GoTo, IndexnodesTypeOK, Threads, Pointer
  <2>2. Distinct(node', fresh[r]) /\ Among(fresh[r], list)
    BY <1>2, <2>1 DEF Searched
  <2>3. \A s \in Readers : step'[s] = "freed" => s = r
    BY <1>4, <2>1 DEF Threads
  <2>4. \A N : Distinct(N, <<>>) /\ \A w, id : Absent(N, w, id, <<>>)
    BY DEF Distinct, Absent
  <2>5. \A w \in Writers : Unmoved(w)
    BY <2>1 DEF Unmoved, Threads
  <2>6. ASSUME NEW w \in Writers, step'[w] \in Seeking
        PROVE  /\ Absent(node', w, Missing(w)', fresh[r])
               /\ step'[w] \in {"lock", "locked"} => node'[found'[w]].by = w
    <3>1. /\ step[w] \in Seeking /\ Missing(w)' = Missing(w)
          /\ step'[w] \in {"lock", "locked"} => node'[found'[w]].by = w
      BY <1>5, <2>5, <2>6
    <3>2. Absent(node, w, Missing(w), fresh[r])
      BY <2>2, <3>1, AbsentAmong DEF Searched
    <3>. QED BY <1>2, <3>1, <3>2
  <2>7. {"lock", "locked"} \subseteq Seeking
    BY DEF Seeking
  <2>8. \A s \in Readers : ~(step'[s] = "built" /\ held'[s] = "current")
    BY <2>1 DEF Threads
  <2>. QED BY <2>1, <2>2, <2>3, <2>4, <2>6, <2>7, <2>8 DEF Searched
<1>15. ASSUME NEW r \in Readers, Publish(r) PROVE Searched'
  <2>1. /\ UNCHANGED <<held, found, advert>> /\ list' = fresh[r] /\ step[r] = "freed"
        /\ \A u \in Threads \ {r} : step'[u] = step[u]
        /\ step'[r] = "published"
    BY <1>15 DEF Publish, At, GoTo, IndexnodesTypeOK, Threads
  <2>2. Distinct(node', list')
    BY <1>2, <2>1 DEF Searched
  <2>3. \A s \in Readers : step'[s] # "freed" /\ held'[s] # "current"
    BY <2>1 DEF Pointer, Threads
  <2>5. \A w \in Writers : Unmoved(w)
    BY <2>1 DEF Unmoved, Threads
  <2>6. ASSUME NEW w \in Writers, step'[w] \in Seeking
        PROVE  /\ Absent(node', w, Missing(w)', list')
               /\ step'[w] \in {"lock", "locked"} => node'[found'[w]].by = w
    BY <1>2, <1>5, <2>1, <2>5, <2>6 DEF Searched
  <2>7. {"lock", "locked"} \subseteq Seeking
    BY DEF Seeking
  <2>. QED BY <2>2, <2>3, <2>6, <2>7 DEF Searched
<1>16. ASSUME NEW v \in Writers,
              (\E a \in Advert : new_indexnode_event(v, a)) \/ Finds(v) \/ SeenAgain(v) \/ Refuses(v)
       PROVE  Searched'
  <2>1. /\ UNCHANGED <<list, fresh>> /\ step'[v] \in {"find", "seen", "idle"}
        /\ \A u \in Threads \ {v} : step'[u] = step[u] /\ held'[u] = held[u]
        /\ \A w \in Writers \ {v} : found'[w] = found[w] /\ advert'[w] = advert[w]
    BY <1>16 DEF new_indexnode_event, Finds, SeenAgain, Refuses, GoTo, IndexnodesTypeOK, Threads
  <2>2. Listless
    BY <2>1 DEF Threads
  <2>3. \A w \in Writers \ {v} : Unmoved(w)
    BY <2>1 DEF Unmoved, Threads
  <2>4. step'[v] \notin Seeking
    BY <2>1 DEF Seeking
  <2>. QED BY <1>9, <2>2, <2>3, <2>4
<1>17. ASSUME NEW v \in Writers, Misses(v) PROVE Searched'
  <2>1. /\ UNCHANGED <<list, fresh, found, advert>> /\ step[v] = "find" /\ step'[v] = "new"
        /\ \A u \in Threads \ {v} : step'[u] = step[u] /\ held'[u] = held[u]
        /\ held[v] = "current" /\ ~dangling
    BY <1>3, <1>17 DEF Misses, At, GoTo, IndexnodesTypeOK, Threads, Pointer
  <2>2. Listless
    BY <2>1 DEF Threads
  <2>3. \A w \in Writers \ {v} : Unmoved(w)
    BY <2>1 DEF Unmoved, Threads
  <2>4. \A r \in Readers : step'[r] # "freed"
    BY <1>4, <2>1 DEF Threads
  <2>5. Absent(node', v, Missing(v)', list')
    <3>1. Missing(v)' = advert[v].id
      BY <2>1 DEF Missing
    <3>2. \A j \in DOMAIN list : node[list[j]].id # advert[v].id
      BY <1>0, <1>17, FirstMatchFacts DEF Misses
    <3>3. Absent(node, v, advert[v].id, list)
      BY <3>2 DEF Absent
    <3>. QED BY <1>2, <2>1, <3>1, <3>3
  <2>6. Listless /\ step'[v] \notin {"lock", "locked"}
    BY <2>1, <2>2
  <2>. HIDE DEF Listless
  <2>. QED BY <1>6, <1>7, <2>3, <2>4, <2>5, <2>6 DEF Searched
<1>18. ASSUME NEW v \in Writers, Makes(v) PROVE Searched'
  <2>1. /\ UNCHANGED <<list, fresh, held>> /\ step[v] = "new" /\ step'[v] = "lock"
        /\ \A u \in Threads \ {v} : step'[u] = step[u]
        /\ \A w \in Writers \ {v} : found'[w] = found[w] /\ advert'[w] = advert[w]
        /\ found'[v] = Len(node) + 1
    BY <1>18 DEF Makes, At, GoTo, IndexnodesTypeOK, Threads
  <2>2. Listless
    BY <2>1 DEF Threads
  <2>3. \A w \in Writers \ {v} : Unmoved(w)
    BY <2>1 DEF Unmoved, Threads
  <2>4. node'[found'[v]].by = v /\ node'[found'[v]].id = advert[v].id
    <3>1. node'[Len(node) + 1] = [id |-> advert[v].id, by |-> v, born |-> now,
                                  last_seen |-> now, ref_count |-> 1, added |-> FALSE]
      BY <1>18, ListTypes, AppendProperties DEF Makes
    <3>. QED BY <2>1, <3>1
  <2>5. Missing(v)' = Missing(v) /\ step[v] \in Seeking
    BY <2>1, <2>4 DEF Missing, Seeking
  <2>6. /\ Absent(node, v, Missing(v), list)
        /\ \A r \in Readers : step[r] = "freed" => Absent(node, v, Missing(v), fresh[r])
    BY <2>5 DEF Searched
  <2>7. /\ Absent(node', v, Missing(v)', list')
        /\ \A r \in Readers : step'[r] = "freed" => Absent(node', v, Missing(v)', fresh'[r])
    BY <1>2, <2>1, <2>5, <2>6 DEF Threads
  <2>. HIDE DEF Listless
  <2>. QED BY <1>6, <1>7, <2>2, <2>3, <2>4, <2>7 DEF Searched
<1>19. ASSUME NEW v \in Writers, Adds(v) PROVE Searched'
  <2>. DEFINE x == found[v]
  <2>1. /\ UNCHANGED <<fresh, held, advert>> /\ ~dangling /\ list' = <<x>> \o list
        /\ step[v] = "locked" /\ step'[v] = "unlock"
        /\ \A u \in Threads \ {v} : step'[u] = step[u]
        /\ \A w \in Writers \ {v} : found'[w] = found[w]
    BY <1>19 DEF Adds, At, GoTo, IndexnodesTypeOK, Threads
  <2>2. x \in DOMAIN node /\ x \in Nat
    BY <1>0, <2>1, FoundFacts
  <2>3. \A r \in Readers : step'[r] # "freed"
    BY <1>4, <2>1 DEF Threads
  <2>4. /\ node'[x].by = v /\ Absent(node', v, node'[x].id, list)
    <3>1. node[x].by = v /\ Absent(node, v, node[x].id, list)
      BY <2>1 DEF Searched, Missing, Seeking
    <3>2. node'[x].by = node[x].by /\ node'[x].id = node[x].id
      BY <2>2, NodesKept DEF Kin
    <3>. QED BY <1>2, <3>1, <3>2
  <2>. HIDE DEF x
  <2>5. Distinct(node', list')
    BY <1>0, <1>2, <2>1, <2>2, <2>4, DistinctAtHead
  <2>6. ASSUME NEW r \in Readers, step'[r] = "built", held'[r] = "current"
        PROVE  Distinct(node', fresh'[r]) /\ Among(fresh'[r], list')
    <3>1. Distinct(node', fresh[r]) /\ Among(fresh[r], list)
      BY <1>2, <2>1, <2>6 DEF Searched, Threads
    <3>2. Among(fresh[r], list')
      BY <1>0, <2>1, <2>2, <3>1, DistinctAtHead
    <3>. QED BY <2>1, <3>1, <3>2
  <2>7. ASSUME NEW w \in Writers \ {v}, step'[w] \in Seeking
        PROVE  /\ Absent(node', w, Missing(w)', list')
               /\ step'[w] \in {"lock", "locked"} => node'[found'[w]].by = w
    <3>1. Unmoved(w)
      BY <2>1 DEF Unmoved, Threads
    <3>2. /\ step[w] \in Seeking /\ Missing(w)' = Missing(w)
          /\ step'[w] \in {"lock", "locked"} => node'[found'[w]].by = w
      BY <1>5, <2>7, <3>1
    <3>3. Absent(node', w, Missing(w)', list) /\ node'[x].by # w
      BY <1>2, <2>4, <3>2 DEF Searched
    <3>4. Absent(node', w, Missing(w)', list')
      BY <1>0, <2>1, <2>2, <3>3, DistinctAtHead
    <3>. QED BY <3>2, <3>4
  <2>8. step'[v] \notin Seeking /\ {"lock", "locked"} \subseteq Seeking
    BY <2>1 DEF Seeking
  <2>. QED BY <2>3, <2>5, <2>6, <2>7, <2>8 DEF Searched
<1>. QED
  BY <1>10, <1>11, <1>12, <1>13, <1>14, <1>15, <1>16, <1>17, <1>18, <1>19, StepsOfC DEF ReaderStep, WriterStep

\* No thread adds an id that it has already added, whatever the readers do:
\* two entries with one id come from two threads.
THEOREM NobodyAddsTwice ==
  ASSUME IsFiniteSet(Readers), IsFiniteSet(Writers)
  PROVE  IndexnodesSpec => []OnePerWriter
<1>1. IndexnodesInit => Searched
  BY ThreadsAssumption DEF IndexnodesInit, Searched, Distinct, Threads, Seeking
<1>2. Base /\ Searched /\ [IndexnodesNext]_allVars => Searched'
  BY NextSearched
<1>3. Searched => OnePerWriter
  BY DEF Searched, Distinct, OnePerWriter
<1>. QED BY <1>1, <1>2, <1>3, BaseHolds, PTL DEF IndexnodesSpec

-----------------------------------------------------------------------------
(***************************************************************************)
(* What is seen when, and with one reader what is given out and listed.    *)
(***************************************************************************)

\* Time passes, and calls begin now.
LEMMA NowMoves ==
  ASSUME Base, [IndexnodesNext]_allVars
  PROVE  /\ now \in Nat /\ now' \in Nat /\ now <= now'
         /\ \A r \in Readers : asked'[r] \in {asked[r], now} /\ asked[r] \in Nat
         /\ \A r \in Readers : asked'[r] # asked[r] => Get(r)
         /\ (\E r \in Readers : ReaderStep(r)) \/ (\E w \in Writers : WriterStep(w)) => now' = now
<1>. USE IndexnodesAssumption DEF Base, IndexnodesTypeOK
<1>1. CASE Nothing
  BY <1>1 DEF Nothing
<1>2. ASSUME NEW r \in Readers, ReaderStep(r)
      PROVE  now' = now /\ \A s \in Readers : asked'[s] \in {asked[s], now} /\ (asked'[s] # asked[s] => Get(s))
  <2>1. CASE Get(r)
    BY <2>1 DEF Get
  <2>. QED BY <1>2, <2>1 DEF ReaderStep, Builds, Frees, Publish, Copies, DeleteCopy
<1>3. ASSUME NEW w \in Writers, WriterStep(w) PROVE UNCHANGED <<now, asked>>
  BY <1>3 DEF WriterStep, new_indexnode_event, Finds, Misses, SeenAgain, Makes, Refuses, Adds
<1>4. ASSUME NEW t \in Threads, Lock(t) \/ Unlock(t) PROVE UNCHANGED <<now, asked>>
  BY <1>4 DEF Lock, Unlock
<1>5. CASE Tick
  <2>1. now' = now + 1 /\ asked' = asked /\ now \in Nat
    BY <1>5 DEF Tick
  <2>. QED BY <2>1, <1>2, <1>3
<1>6. now \in Nat /\ \A r \in Readers : asked[r] \in Nat
  OBVIOUS
<1>. QED BY <1>1, <1>2, <1>3, <1>4, <1>5, <1>6, StepsOfC

\* Each step keeps the times in order.
LEMMA NextClock ==
  ASSUME IsFiniteSet(Readers), IsFiniteSet(Writers), Base, Clock, [IndexnodesNext]_allVars
  PROVE  Clock'
<1>1. now \in Nat /\ now' \in Nat /\ now <= now'
  BY NowMoves
<1>2. ASSUME NEW n \in DOMAIN node'
      PROVE  node'[n].born <= node'[n].last_seen /\ node'[n].last_seen <= now'
  <2>1. CASE n \in DOMAIN node
    <3>1. /\ node'[n].born = node[n].born /\ node'[n].last_seen \in {node[n].last_seen, now}
          /\ node[n].born \in Nat /\ node[n].last_seen \in Nat
      BY <2>1, NodesKept, ListTypes, IndexnodesAssumption DEF Kin, Base, Indexnode
    <3>2. node[n].born <= node[n].last_seen /\ node[n].last_seen <= now
      BY <2>1 DEF Clock
    <3>. QED BY <1>1, <3>1, <3>2
  <2>2. CASE n \notin DOMAIN node
    <3>1. node'[n].born = now /\ node'[n].last_seen = now
      BY <2>2, NodesKept DEF Newborn
    <3>. QED BY <1>1, <3>1
  <2>. QED BY <2>1, <2>2
<1>3. ASSUME NEW r \in Readers PROVE asked'[r] <= now'
  BY <1>1, NowMoves DEF Clock
<1>. QED BY <1>2, <1>3 DEF Clock

\* An indexnode stays as live as it was.
LEMMA StaysLive ==
  ASSUME IsFiniteSet(Readers), IsFiniteSet(Writers), Base, Clock, [IndexnodesNext]_allVars,
         NEW l \in Seq(DOMAIN node), NEW time \in Nat, LiveSince(node, l, time)
  PROVE  LiveSince(node', l, time)
<1>. SUFFICES ASSUME NEW i \in DOMAIN l PROVE node'[l[i]].last_seen + TIMEOUT > time
  BY DEF LiveSince
<1>1. l[i] \in DOMAIN node
  BY LenProperties, ElementOfSeq
<1>2. /\ node[l[i]].last_seen \in Nat /\ node[l[i]].last_seen <= now /\ now \in Nat
      /\ node'[l[i]].last_seen \in {node[l[i]].last_seen, now}
  BY <1>1, NodesKept, NowMoves, ListTypes, IndexnodesAssumption DEF Kin, Base, Indexnode, Clock
<1>3. node[l[i]].last_seen + TIMEOUT > time
  BY DEF LiveSince
<1>. QED BY <1>2, <1>3, IndexnodesAssumption

\* Until a reader is let in uncounted, a writer that adds is alone with the list.
LEMMA AddsAlone ==
  ASSUME IsFiniteSet(Readers), Base, Exact, skipped = "no", NEW w \in Writers, step[w] = "locked"
  PROVE  \A r \in Readers : step[r] \notin Within
<1>1. pc[w] = "in"
  BY DEF Base, Steps, Within, Threads
<1>2. writer_writing = 1
  BY <1>1 DEF Base, Inv, WriterCounted
<1>3. \A r \in Readers : pc[r] # "in"
  BY <1>2, NobodyReads DEF Base
<1>. QED BY <1>3 DEF Base, Steps, Threads

\* Until a reader is let in uncounted, each step keeps the lists that readers
\* work on live.
LEMMA NextLive ==
  ASSUME IsFiniteSet(Readers), IsFiniteSet(Writers), Base, Exact, skipped = "no", Clock, Live,
         [IndexnodesNext]_allVars
  PROVE  Live'
<1>. USE ThreadsAssumption DEF Base
<1>0. /\ list \in Seq(DOMAIN node) /\ list \in Seq(Nat)
      /\ \A r \in Readers : fresh[r] \in Seq(DOMAIN node) /\ copy[r] \in Seq(DOMAIN node)
      /\ \A r \in Readers : asked[r] \in Nat /\ asked[r] <= now /\ now \in Nat
  BY ListTypes, NowMoves DEF Clock
<1>1. ASSUME NEW r \in Readers
      PROVE  /\ LiveSince(node, list, asked[r]) => LiveSince(node', list, asked[r])
             /\ \A s \in Readers :
                  LiveSince(node, fresh[s], asked[r]) => LiveSince(node', fresh[s], asked[r])
             /\ LiveSince(node', copy[r], asked[r])
  BY <1>0, StaysLive DEF Live
<1>2. \A N, time : LiveSince(N, <<>>, time)
  BY DEF LiveSince
<1>. DEFINE Untouched(r) ==
              /\ asked'[r] = asked[r] /\ copy'[r] = copy[r] /\ fresh'[r] = fresh[r]
              /\ step'[r] \in {"built", "freed"} => step[r] \in {"built", "freed"}
              /\ Replacing(r)' => Replacing(r)
              /\ step'[r] = "published" => step[r] = "published" /\ list' = list
<1>3. ASSUME \A r \in Readers : Untouched(r) PROVE Live'
  BY <1>1, <1>3 DEF Live
<1>4. CASE Nothing \/ Tick
  BY <1>3, <1>4 DEF Nothing, Tick, Replacing
<1>5. ASSUME NEW t \in Threads, Lock(t) \/ Unlock(t) PROVE Live'
  <2>1. UNCHANGED <<list, fresh, copy, asked, held>>
    BY <1>5 DEF Lock, Unlock
  <2>2. /\ \A u \in Threads \ {t} : step'[u] = step[u]
        /\ step'[t] \in {"lock", "locked", "idle"}
    BY <1>5, LockMoves
  <2>. QED BY <1>3, <2>1, <2>2 DEF Threads, Replacing
<1>6. ASSUME NEW w \in Writers, WriterStep(w) PROVE Live'
  <2>1. UNCHANGED <<fresh, copy, asked>> /\ \A r \in Readers : step'[r] = step[r] /\ held'[r] = held[r]
    BY <1>6 DEF WriterStep, new_indexnode_event, Finds, Misses, SeenAgain, Makes, Refuses, Adds,
                GoTo, IndexnodesTypeOK, Threads
  <2>2. CASE Adds(w)
    <3>1. \A r \in Readers : step[r] # "published"
      BY <2>2, AddsAlone DEF Adds, At, Within
    <3>. QED BY <1>3, <2>1, <3>1 DEF Replacing
  <2>3. CASE ~Adds(w)
    <3>1. list' = list
      BY <1>6, <2>3 DEF WriterStep, new_indexnode_event, Finds, Misses, SeenAgain, Makes, Refuses
    <3>. QED BY <1>3, <2>1, <3>1 DEF Replacing
  <2>. QED BY <2>2, <2>3
<1>7. ASSUME NEW r \in Readers, Get(r) PROVE Live'
  <2>1. /\ UNCHANGED <<fresh, copy, held, list>> /\ copy[r] = <<>> /\ step'[r] = "lock"
        /\ \A s \in Readers \ {r} : step'[s] = step[s] /\ asked'[s] = asked[s]
    BY <1>7 DEF Get, GoTo, IndexnodesTypeOK, Threads
  <2>2. \A s \in Readers : Replacing(s)' => Replacing(s)
    BY <2>1 DEF Replacing
  <2>. QED BY <1>1, <1>2, <2>1, <2>2 DEF Live
<1>8. ASSUME NEW r \in Readers, Builds(r) PROVE Live'
  <2>. DEFINE m == remove_expired(list)
  <2>1. /\ UNCHANGED <<copy, asked, list>> /\ fresh'[r] = m /\ step'[r] = "built"
        /\ \A s \in Readers \ {r} : step'[s] = step[s] /\ fresh'[s] = fresh[s] /\ held'[s] = held[s]
    BY <1>8 DEF Builds, GoTo, IndexnodesTypeOK, Threads
  <2>2. /\ m \in Seq(DOMAIN node) /\ \A i \in DOMAIN m : indexnode_still_valid(m[i])
        /\ \A i \in DOMAIN m : \E j \in DOMAIN list : m[i] = list[j]
    <3>1. Kept(list, Len(list), m) /\ m \in Seq(DOMAIN node) /\ Among(m, list)
      BY <1>0, UnexpiredType, UnexpiredKept
    <3>. QED BY <3>1 DEF Kept, Among
  <2>. HIDE DEF m
  <2>3. \A i \in DOMAIN m : node[m[i]].last_seen \in Nat
    <3>1. \A i \in DOMAIN m : m[i] \in DOMAIN node
      BY <2>2, LenProperties, ElementOfSeq
    <3>. QED BY <3>1, ListTypes, IndexnodesAssumption DEF Indexnode
  <2>4. LiveSince(node, m, asked[r])
    <3>. SUFFICES ASSUME NEW i \in DOMAIN m PROVE node[m[i]].last_seen + TIMEOUT > asked[r]
      BY DEF LiveSince
    <3>1. now - node[m[i]].last_seen < TIMEOUT /\ node[m[i]].last_seen \in Nat
      BY <2>2, <2>3 DEF indexnode_still_valid
    <3>2. asked[r] \in Nat /\ now \in Nat /\ asked[r] <= now
      BY <1>0
    <3>. QED BY <3>1, <3>2, IndexnodesAssumption
  <2>5. LiveSince(node', m, asked[r])
    BY <1>0, <2>2, <2>4, StaysLive
  <2>6. ASSUME NEW q \in Readers, step'[q] = "published"
        PROVE  /\ LiveSince(node', list', asked'[q])
               /\ \A s \in Readers : Replacing(s)' => LiveSince(node', fresh'[s], asked'[q])
    <3>1. q # r /\ step[q] = "published"
      BY <2>1, <2>6
    <3>2. LiveSince(node', list, asked[q])
      BY <1>1, <3>1 DEF Live
    <3>3. LiveSince(node', m, asked[q])
      BY <2>2, <3>2 DEF LiveSince
    <3>4. ASSUME NEW s \in Readers, s # r, Replacing(s)' PROVE LiveSince(node', fresh'[s], asked'[q])
      <4>1. Replacing(s) /\ fresh'[s] = fresh[s] /\ asked'[q] = asked[q]
        BY <2>1, <3>4 DEF Replacing
      <4>. QED BY <1>1, <3>1, <4>1 DEF Live
    <3>. QED BY <2>1, <3>2, <3>3, <3>4
  <2>. QED BY <1>1, <2>1, <2>5, <2>6 DEF Live
<1>9. ASSUME NEW r \in Readers, Frees(r) PROVE Live'
  <2>1. /\ UNCHANGED <<fresh, copy, asked>> /\ step[r] = "built" /\ step'[r] = "freed" /\ list' = <<>>
        /\ held[r] # "freed"
        /\ \A s \in Readers \ {r} : step'[s] = step[s] /\ held'[s] # "current"
    BY <1>9 DEF Frees, At, GoTo, IndexnodesTypeOK, Threads
  <2>2. held[r] = "current"
    BY <2>1 DEF Pointer, IndexnodesTypeOK, Threads
  <2>3. \A s \in Readers : Replacing(s)' => Replacing(s)
    BY <2>1, <2>2 DEF Replacing
  <2>. QED BY <1>1, <1>2, <2>1, <2>3 DEF Live
<1>10. ASSUME NEW r \in Readers, Publish(r) PROVE Live'
  <2>1. /\ UNCHANGED <<copy, asked, held>> /\ list' = fresh[r] /\ step[r] = "freed"
        /\ step'[r] = "published"
        /\ \A s \in Readers \ {r} : step'[s] = step[s] /\ fresh'[s] = fresh[s]
    BY <1>10 DEF Publish, At, GoTo, IndexnodesTypeOK, Threads
  <2>2. \A s \in Readers : ~Replacing(s)'
    <3>1. dangling /\ \A s \in Readers : held[s] # "current"
      BY <2>1 DEF Pointer, Threads
    <3>2. \A s \in Readers \ {r} : step[s] # "freed"
      BY <2>1 DEF Pointer
    <3>. QED BY <2>1, <3>1, <3>2 DEF Replacing
  <2>3. ASSUME NEW q \in Readers, step'[q] = "published" PROVE LiveSince(node', list', asked'[q])
    <3>1. CASE q = r
      BY <1>1, <2>1, <3>1 DEF Live
    <3>2. CASE q # r
      <4>1. step[q] = "published" /\ Replacing(r)
        BY <2>1, <2>3, <3>2 DEF Replacing
      <4>2. LiveSince(node, fresh[r], asked[q])
        BY <4>1 DEF Live
      <4>3. LiveSince(node', fresh[r], asked[q])
        BY <1>1, <4>2
      <4>. QED BY <2>1, <4>3
    <3>. QED BY <3>1, <3>2
  <2>4. ASSUME NEW q \in Readers, step'[q] \in {"built", "freed"}
        PROVE  LiveSince(node', fresh'[q], asked'[q])
    BY <1>1, <2>1, <2>4 DEF Live
  <2>. QED BY <1>1, <2>1, <2>2, <2>3, <2>4 DEF Live
<1>11. ASSUME NEW r \in Readers, Copies(r) PROVE Live'
  <2>. DEFINE m == Reverse(list)
  <2>1. /\ UNCHANGED <<fresh, asked, list, held>> /\ copy'[r] = m /\ step[r] = "published"
        /\ step'[r] = "unlock"
        /\ \A s \in Readers \ {r} : step'[s] = step[s] /\ copy'[s] = copy[s]
    BY <1>11 DEF Copies, At, GoTo, IndexnodesTypeOK, Threads
  <2>2. \A i \in DOMAIN m : \E j \in DOMAIN list : m[i] = list[j]
    BY <1>0, TimesReverse
  <2>. HIDE DEF m
  <2>3. LiveSince(node', list, asked[r])
    BY <1>1, <2>1 DEF Live
  <2>4. LiveSince(node', m, asked[r])
    BY <2>2, <2>3 DEF LiveSince
  <2>5. \A s \in Readers : Replacing(s)' => Replacing(s)
    BY <2>1 DEF Replacing
  <2>. QED BY <1>1, <2>1, <2>4, <2>5 DEF Live
<1>12. ASSUME NEW r \in Readers, DeleteCopy(r) PROVE Live'
  <2>1. /\ UNCHANGED <<fresh, asked, list, step, held>> /\ copy'[r] = <<>>
        /\ \A s \in Readers \ {r} : copy'[s] = copy[s]
    BY <1>12 DEF DeleteCopy, IndexnodesTypeOK
  <2>2. \A s \in Readers : Replacing(s)' => Replacing(s)
    BY <2>1 DEF Replacing
  <2>. QED BY <1>1, <1>2, <2>1, <2>2 DEF Live
<1>. QED BY <1>4, <1>5, <1>6, <1>7, <1>8, <1>9, <1>10, <1>11, <1>12, StepsOfC DEF ReaderStep

\* Until a reader is let in uncounted, each step keeps listed what was added
\* not a timeout ago.
LEMMA NextLasting ==
  ASSUME IsFiniteSet(Readers), IsFiniteSet(Writers), Base, Exact, skipped = "no", Clock, Lasting,
         [IndexnodesNext]_allVars
  PROVE  Lasting'
<1>. USE ThreadsAssumption DEF Base
<1>. DEFINE Listed(n) == /\ dangling' \/ Occurs(n, list')
                         /\ \A r \in Readers : step'[r] \in {"built", "freed"} => Occurs(n, fresh'[r])
<1>. SUFFICES ASSUME NEW n \in DOMAIN node', Recent(n)' PROVE Listed(n)
  BY DEF Lasting
<1>1. /\ n \in DOMAIN node /\ node'[n].born = node[n].born
      /\ node[n].added \/ \E w \in Writers : Adds(w) /\ found[w] = n
  BY NodesKept DEF Kin, Newborn, Recent
<1>2. now < node[n].born + TIMEOUT
  <2>1. /\ node[n].born \in Nat /\ now \in Nat /\ now' \in Nat /\ now <= now'
        /\ now' < node'[n].born + TIMEOUT
    BY <1>1, NowMoves, ListTypes, IndexnodesAssumption DEF Indexnode, Recent
  <2>. QED BY <1>1, <2>1, IndexnodesAssumption
<1>3. ASSUME NEW w \in Writers, Adds(w), found[w] = n PROVE Listed(n)
  <2>1. \A r \in Readers : step'[r] \notin {"built", "freed"}
    <3>1. \A r \in Readers : step[r] \notin Within /\ step'[r] = step[r]
      BY <1>3, AddsAlone DEF Adds, At, GoTo, IndexnodesTypeOK, Threads
    <3>. QED BY <3>1 DEF Within
  <2>2. Occurs(n, list')
    <3>1. list' = <<n>> \o list /\ n \in Nat /\ list \in Seq(Nat)
      BY <1>1, <1>3, ListTypes DEF Adds
    <3>2. DOMAIN list' = 1 .. Len(list) + 1 /\ list'[1] = n /\ Len(list) \in Nat
      BY <3>1, AtHead, LenProperties
    <3>. QED BY <3>2 DEF Occurs
  <2>. QED BY <2>1, <2>2
<1>4. ASSUME node[n].added PROVE Listed(n)
  <2>1. /\ dangling \/ Occurs(n, list)
        /\ \A r \in Readers : step[r] \in {"built", "freed"} => Occurs(n, fresh[r])
    BY <1>1, <1>2, <1>4 DEF Lasting, Recent
  <2>2. CASE Nothing \/ Tick
    BY <2>1, <2>2 DEF Nothing, Tick
  <2>3. ASSUME NEW t \in Threads, Lock(t) \/ Unlock(t) PROVE Listed(n)
    <3>1. UNCHANGED <<list, fresh, dangling>>
      BY <2>3 DEF Lock, Unlock
    <3>2. /\ \A u \in Threads \ {t} : step'[u] = step[u]
          /\ step'[t] \in {"lock", "locked", "idle"}
      BY <2>3, LockMoves
    <3>. QED BY <2>1, <3>1, <3>2 DEF Threads
  <2>4. ASSUME NEW w \in Writers, WriterStep(w) PROVE Listed(n)
    <3>1. UNCHANGED <<fresh, dangling>> /\ \A r \in Readers : step'[r] = step[r]
      BY <2>4 DEF WriterStep, new_indexnode_event, Finds, Misses, SeenAgain, Makes, Refuses, Adds,
                  GoTo, IndexnodesTypeOK, Threads
    <3>2. dangling \/ Occurs(n, list')
      <4>1. CASE Adds(w)
        <5>1. list' = <<found[w]>> \o list /\ found[w] \in Nat /\ list \in Seq(Nat)
          BY <4>1, ListTypes DEF Adds
        <5>2. /\ DOMAIN list = 1 .. Len(list) /\ Len(list) \in Nat /\ DOMAIN list' = 1 .. Len(list) + 1
              /\ \A i \in 1 .. Len(list) : list'[i + 1] = list[i]
          BY <5>1, AtHead, LenProperties
        <5>3. \A i \in DOMAIN list : i + 1 \in DOMAIN list' /\ list'[i + 1] = list[i]
          BY <5>2
        <5>. QED BY <2>1, <5>3 DEF Occurs
      <4>2. CASE ~Adds(w)
        BY <2>1, <2>4, <4>2 DEF WriterStep, new_indexnode_event, Finds, Misses, SeenAgain, Makes, Refuses
      <4>. QED BY <4>1, <4>2
    <3>. QED BY <2>1, <3>1, <3>2
  <2>5. ASSUME NEW r \in Readers, Get(r) \/ Copies(r) \/ DeleteCopy(r) PROVE Listed(n)
    <3>1. /\ UNCHANGED <<list, fresh, dangling>> /\ step'[r] \in {step[r], "lock", "unlock"}
          /\ \A s \in Readers \ {r} : step'[s] = step[s]
      BY <2>5 DEF Get, Copies, DeleteCopy, GoTo, IndexnodesTypeOK, Threads
    <3>. QED BY <2>1, <3>1
  <2>6. ASSUME NEW r \in Readers, Builds(r) PROVE Listed(n)
    <3>1. /\ UNCHANGED <<list, dangling>> /\ ~dangling /\ fresh'[r] = remove_expired(list)
          /\ \A s \in Readers \ {r} : step'[s] = step[s] /\ fresh'[s] = fresh[s]
      BY <2>6 DEF Builds, GoTo, IndexnodesTypeOK, Threads
    <3>2. PICK j \in DOMAIN list : list[j] = n
      BY <2>1, <3>1 DEF Occurs
    <3>3. indexnode_still_valid(n)
      <4>1. /\ node[n].born \in Nat /\ node[n].last_seen \in Nat /\ now \in Nat
            /\ node[n].born <= node[n].last_seen
        BY <1>1, NowMoves, ListTypes, IndexnodesAssumption DEF Indexnode, Clock
      <4>. QED BY <1>2, <4>1, IndexnodesAssumption DEF indexnode_still_valid
    <3>4. Occurs(n, remove_expired(list))
      <4>1. Kept(list, Len(list), remove_expired(list)) /\ DOMAIN list = 1 .. Len(list)
        BY ListTypes, UnexpiredKept, LenProperties
      <4>. QED BY <3>2, <3>3, <4>1 DEF Kept
    <3>. QED BY <2>1, <3>1, <3>4
  <2>7. ASSUME NEW r \in Readers, Frees(r) PROVE Listed(n)
    <3>1. /\ fresh' = fresh /\ dangling' /\ step[r] = "built"
          /\ \A s \in Readers \ {r} : step'[s] = step[s]
      BY <2>7 DEF Frees, At, GoTo, IndexnodesTypeOK, Threads
    <3>. QED BY <2>1, <3>1
  <2>8. ASSUME NEW r \in Readers, Publish(r) PROVE Listed(n)
    <3>1. /\ list' = fresh[r] /\ step[r] = "freed" /\ step'[r] = "published"
          /\ \A s \in Readers \ {r} : step'[s] = step[s] /\ fresh'[s] = fresh[s]
      BY <2>8 DEF Publish, At, GoTo, IndexnodesTypeOK, Threads
    <3>. QED BY <2>1, <3>1
  <2>. QED BY <2>2, <2>3, <2>4, <2>5, <2>6, <2>7, <2>8, StepsOfC DEF ReaderStep
<1>. QED BY <1>1, <1>3, <1>4

\* What holds until a reader is let in uncounted.
LEMMA HoldsUntilSkipped ==
  ASSUME IsFiniteSet(Readers), IsFiniteSet(Writers)
  PROVE  IndexnodesSpec => [](Base /\ Exact /\ Clock /\ Sound)
<1>1. IndexnodesInit => Exact /\ Clock /\ Sound
  <2>. SUFFICES ASSUME IndexnodesInit PROVE Exact /\ Clock /\ Sound
    OBVIOUS
  <2>1. Exact
    <3>1. Inside = {}
      BY DEF IndexnodesInit, Init, Threads, Inside
    <3>. QED BY <3>1, FS_EmptySet DEF IndexnodesInit, Init, Exact
  <2>2. DOMAIN <<>> = {}
    OBVIOUS
  <2>. QED BY <2>1, <2>2, ThreadsAssumption
           DEF IndexnodesInit, Clock, Sound, Live, Lasting, LiveSince, Threads
<1>2. Base /\ Exact /\ Clock /\ Sound /\ [IndexnodesNext]_allVars =>
        Exact' /\ Clock' /\ Sound'
  <2>. SUFFICES ASSUME Base, Exact, Clock, Sound, [IndexnodesNext]_allVars
       PROVE  Exact' /\ Clock' /\ Sound'
    OBVIOUS
  <2>1. Exact'
    BY LockStep, NextExact DEF Base
  <2>2. CASE skipped = "yes"
    BY <2>1, <2>2, LockStep, SkippedStays, NextClock DEF Sound
  <2>3. CASE skipped = "no"
    BY <2>1, <2>3, NextClock, NextLive, NextLasting DEF Sound
  <2>4. skipped \in {"no", "yes"}
    BY DEF Base, Inv, TypeOK
  <2>. QED BY <2>2, <2>3, <2>4
<1>. QED BY <1>1, <1>2, BaseHolds, PTL DEF IndexnodesSpec

\* "When a copy of the list is given out it only contains live indexnodes"
\* (indexnodes.c:13), for any number of FUSE and event threads, until a reader
\* is let in uncounted; with two readers that can happen, and the claim fails.
THEOREM CopiesAreLive ==
  ASSUME IsFiniteSet(Readers), IsFiniteSet(Writers)
  PROVE  IndexnodesSpec => []LiveUntilSkipped
<1>1. Sound => LiveUntilSkipped
  BY DEF Sound, Live, LiveSince, LiveUntilSkipped, OnlyLiveGivenOut
<1>. QED BY <1>1, HoldsUntilSkipped, PTL

\* An indexnode that new_indexnode_event has added stays listed for a timeout,
\* through every indexnodes_get that is replacing the list, for any number of
\* FUSE and event threads, until a reader is let in uncounted.
THEOREM AddedStaysListed ==
  ASSUME IsFiniteSet(Readers), IsFiniteSet(Writers)
  PROVE  IndexnodesSpec => []FreshStaysUntilSkipped
<1>1. Base /\ Sound => FreshStaysUntilSkipped
  <2>. SUFFICES ASSUME Base, Lasting, NEW n \in DOMAIN node, Recent(n)
       PROVE  \/ Times(list, n) > 0
              \/ dangling /\ \E r \in Readers : step[r] = "freed" /\ Times(fresh[r], n) > 0
    BY DEF Sound, FreshStaysUntilSkipped, Recent
  <2>1. list \in Seq(Nat) /\ \A r \in Readers : fresh[r] \in Seq(Nat)
    BY ListTypes DEF Base
  <2>2. CASE Occurs(n, list)
    BY <2>1, <2>2, TimesType
  <2>3. CASE ~Occurs(n, list)
    <3>1. dangling
      BY <2>3 DEF Lasting
    <3>2. PICK r \in Readers : step[r] = "freed"
      BY <3>1 DEF Base, Pointer
    <3>3. Occurs(n, fresh[r])
      BY <3>2 DEF Lasting
    <3>. QED BY <2>1, <3>1, <3>2, <3>3, TimesType
  <2>. QED BY <2>2, <2>3
<1>. QED BY <1>1, HoldsUntilSkipped, PTL
=============================================================================
