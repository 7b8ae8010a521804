------------------------------- MODULE RwLock --------------------------------
(***************************************************************************)
(* locks.c: the readers-writer lock that guards the list of indexnodes.    *)
(* Readers are the FUSE threads in indexnodes_get, writers the threads on  *)
(* which new_indexnode_event runs (the listener's, and one per static      *)
(* indexnode).                                                             *)
(*                                                                         *)
(* rw_lock_rlock and rw_lock_wlock first read locking_thread without the   *)
(* mutex, and return at once when it is the caller's own; that read and    *)
(* the critical section after it are separate steps.  Each critical        *)
(* section of the mutex is one step, and a thread that a signal released   *)
(* has to take the mutex again: it is "woken", no longer "waiting".        *)
(***************************************************************************)
EXTENDS Integers, FiniteSets

CONSTANTS Readers, Writers,   \* the threads that lock for reading, for writing
          NoThread            \* the pthread_t 0

ASSUME ThreadsAssumption ==
  Readers \cap Writers = {} /\ NoThread \notin Readers \cup Writers

VARIABLES readers_reading, writer_writing, locking_thread,   \* rw_lock_t
          pc,                 \* where each thread is
          skipped             \* history: whether a reader was let in uncounted

vars == <<readers_reading, writer_writing, locking_thread, pc, skipped>>

Threads == Readers \cup Writers

Init ==
  /\ readers_reading = 0
  /\ writer_writing = 0
  /\ locking_thread = NoThread
  /\ pc = [t \in Threads |-> "out"]
  /\ skipped = "no"

\* The unlocked test both lock functions begin with.  A reader that it lets in
\* is not counted, which `skipped' remembers.
AlreadyMine(t) ==
  /\ pc[t] = "out"
  /\ locking_thread = t
  /\ pc' = [pc EXCEPT ![t] = "in"]
  /\ skipped' = IF t \in Readers THEN "yes" ELSE skipped
  /\ UNCHANGED <<readers_reading, writer_writing, locking_thread>>

NotMine(t) ==
  /\ pc[t] = "out"
  /\ locking_thread # t
  /\ pc' = [pc EXCEPT ![t] = "entering"]
  /\ UNCHANGED <<readers_reading, writer_writing, locking_thread, skipped>>

\* The two while conditions.
MustWait_Mutant(t) == readers_reading > 0 /\ t \in Writers
MustWait(t) == writer_writing > 0 \/ (t \in Writers /\ readers_reading > 0)

\* pthread_cond_wait, on arrival or again after a wakeup that came to nothing.
Wait(t) ==
  /\ pc[t] \in {"entering", "woken"}
  /\ MustWait(t)
  /\ pc' = [pc EXCEPT ![t] = "waiting"]
  /\ UNCHANGED <<readers_reading, writer_writing, locking_thread, skipped>>

rw_lock_rlock(t) ==
  /\ pc[t] \in {"entering", "woken"}
  /\ ~MustWait(t)
  /\ readers_reading' = readers_reading + 1
  /\ locking_thread' = t
  /\ pc' = [pc EXCEPT ![t] = "in"]
  /\ UNCHANGED <<writer_writing, skipped>>

rw_lock_wlock(t) ==
  /\ pc[t] \in {"entering", "woken"}
  /\ ~MustWait(t)
  /\ writer_writing' = writer_writing + 1
  /\ locking_thread' = t
  /\ pc' = [pc EXCEPT ![t] = "in"]
  /\ UNCHANGED <<readers_reading, skipped>>

\* POSIX lets a wait end for no reason.
SpuriousWakeup(t) ==
  /\ pc[t] = "waiting"
  /\ pc' = [pc EXCEPT ![t] = "woken"]
  /\ UNCHANGED <<readers_reading, writer_writing, locking_thread, skipped>>

\* pc once t is out and the threads of S have been released.
Leave(t, S) ==
  [u \in Threads |-> IF u = t THEN "out" ELSE IF u \in S THEN "woken" ELSE pc[u]]

Waiting == {t \in Threads : pc[t] = "waiting"}

\* pthread_cond_signal releases one waiter, if there is one.
Signalled_Mutant == {{}}
Signalled == IF Waiting = {} THEN {{}} ELSE {{t} : t \in Waiting}

\* An unlock that believes locking_thread.
rw_lock_runlock_Mutant(t) ==
  /\ pc[t] = "in"
  /\ IF locking_thread = t
       THEN readers_reading' = 0 /\ locking_thread' = NoThread
       ELSE UNCHANGED <<readers_reading, locking_thread>>
  /\ \E S \in Signalled : pc' = Leave(t, S)
  /\ UNCHANGED <<writer_writing, skipped>>

\* The last reader signals one waiter.  With no reader counted the answer is
\* -1, which indexnodes_get ignores.
rw_lock_runlock(t) ==
  /\ pc[t] = "in"
  /\ UNCHANGED <<writer_writing, skipped>>
  /\ \/ /\ readers_reading = 0
        /\ pc' = Leave(t, {})
        /\ UNCHANGED <<readers_reading, locking_thread>>
     \/ /\ readers_reading > 1
        /\ readers_reading' = readers_reading - 1
        /\ pc' = Leave(t, {})
        /\ UNCHANGED locking_thread
     \/ /\ readers_reading = 1
        /\ readers_reading' = 0
        /\ \E S \in Signalled : pc' = Leave(t, S)
        /\ locking_thread' = NoThread

\* An unlock that forgets whose the lock was.
rw_lock_wunlock_Mutant(t) ==
  /\ pc[t] = "in"
  /\ writer_writing' = 0
  /\ pc' = Leave(t, Waiting)
  /\ UNCHANGED <<readers_reading, locking_thread, skipped>>

\* pthread_cond_broadcast.  The -1 of line 146 cannot be reached: a writer
\* that is in has writer_writing set (WriterCounted).
rw_lock_wunlock(t) ==
  /\ pc[t] = "in"
  /\ IF writer_writing = 0
       THEN /\ pc' = Leave(t, {})
            /\ UNCHANGED <<writer_writing, locking_thread>>
       ELSE /\ writer_writing' = 0
            /\ pc' = Leave(t, Waiting)
            /\ locking_thread' = NoThread
  /\ UNCHANGED <<readers_reading, skipped>>

Next ==
  \/ \E t \in Threads : AlreadyMine(t) \/ NotMine(t) \/ Wait(t) \/ SpuriousWakeup(t)
  \/ \E t \in Readers : rw_lock_rlock(t) \/ rw_lock_runlock(t)
  \/ \E t \in Writers : rw_lock_wlock(t) \/ rw_lock_wunlock(t)

Spec == Init /\ [][Next]_vars

-----------------------------------------------------------------------------
\* The fields of rw_lock_t and the places a thread can be; at most one writer
\* is counted.
TypeOK ==
  /\ readers_reading \in Nat
  /\ writer_writing \in {0, 1}
  /\ locking_thread \in Threads \cup {NoThread}
  /\ pc \in [Threads -> {"out", "entering", "waiting", "woken", "in"}]
  /\ skipped \in {"no", "yes"}

\* A writer is in exactly when writer_writing says so, and it is the only
\* one: new_indexnode_event's indexnodes_list_add calls never overlap, however
\* many readers confuse locking_thread.
WriterCounted ==
  /\ \A w \in Writers : pc[w] = "in" => writer_writing = 1 /\ locking_thread = w
  /\ writer_writing = 1 => \E w \in Writers : pc[w] = "in"

\* No wakeup is lost: a thread sleeps in pthread_cond_wait only while somebody
\* counted holds the lock, or while a released writer is on its way to the
\* mutex and will wake the others in turn.
NoForgottenWaiter ==
  \A t \in Waiting :
    \/ writer_writing > 0
    \/ t \in Writers /\ (readers_reading > 0 \/ \E w \in Writers : pc[w] = "woken")

\* The lock is never left held by nobody: every reader that is counted is
\* still between rlock and runlock, though one that is may not be counted.
HeldBySomebody ==
  readers_reading <= Cardinality({r \in Readers : pc[r] = "in"})

\* A writer is alone: nobody else is between its lock and its unlock.
Exclusion ==
  \A w \in Writers : pc[w] = "in" => \A t \in Threads \ {w} : pc[t] # "in"

\* For any number of readers, the short cut of line 60 is the only way past
\* the lock: until a reader finds its own name left in locking_thread, by its
\* last visit, while others read, and so goes in uncounted, a writer is alone.
ExclusiveUntilSkipped == skipped = "yes" \/ Exclusion
=============================================================================
