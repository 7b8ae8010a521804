---------------------------- MODULE DirentryRefs -----------------------------
(***************************************************************************)
(* Who holds references to directory entries: the FUSE methods lookup,     *)
(* forget, getattr, access, open, read, release, opendir, readdir and      *)
(* releasedir over direntry.c, inode_map.c and ref_count.c, on several     *)
(* FUSE threads and the download threads.                                  *)
(*                                                                         *)
(* There are a directory P, its child directory D and D's child, the file  *)
(* F, listed already, as direntries_from_listing_list leaves them: each is *)
(* held by the inode map and once more, by the reference that entry_found  *)
(* does not drop.  (Listing them is not modelled: the README says why.)    *)
(* Every copy and every delete is a step of its own.  Counting a reference *)
(* to a freed entry ends the behaviour.                                    *)
(***************************************************************************)
EXTENDS Integers, Sequences, FiniteSets

CONSTANTS Threads,                     \* FUSE's threads
          MaxLookups, MaxOpens, MaxReads, MaxGetattrs   \* bounds on requests

ASSUME DirentryRefsAssumption ==
  /\ IsFiniteSet(Threads)
  /\ {MaxLookups, MaxOpens, MaxReads, MaxGetattrs} \subseteq Nat

Entries == {"P", "D", "F"}
Child == [D |-> "F", P |-> "D", F |-> "none"]

VARIABLES refs,        \* the reference count of each entry
          todo,        \* what each thread has still to do for its request
          undefined

VARIABLES lookups,     \* lookups that the kernel has not forgotten
          opened,      \* open and opendir requests granted
          refused,     \* and those refused
          released,    \* release and releasedir requests
          reads, answered,   \* reads of F under way, and those answered
          getattrs,    \* getattr requests
          downloads    \* download threads that still run

kernelVars == <<lookups, opened, refused, released, reads, answered, getattrs, downloads>>
vars == <<refs, todo, undefined, kernelVars>>

Zero == [e \in Entries |-> 0]

Init ==
  /\ refs = [e \in Entries |-> IF e = "P" THEN 3 ELSE 2]
  /\ todo = [t \in Threads |-> <<>>]
  /\ undefined = FALSE
  /\ lookups = [Zero EXCEPT !["P"] = 1]
  /\ opened = Zero /\ refused = Zero /\ released = Zero
  /\ reads = 0 /\ answered = 0 /\ getattrs = 0 /\ downloads = 0

Copy(e) == <<[op |-> "copy", of |-> e]>>
Delete(e) == <<[op |-> "delete", of |-> e]>>

\* The replies that tell the kernel something, and the start of a thread.
ReplyEntry(e) == <<[op |-> "entry", of |-> e]>>
ReplyOpen(e) == <<[op |-> "open", of |-> e]>>
ReplyError(e) == <<[op |-> "error", of |-> e]>>
StartThread(e) == <<[op |-> "thread", of |-> e]>>

\* n deletes in a row.
Deletes(e, n) == [i \in 1 .. n |-> Delete(e)[1]]

\* direntry_get_by_inode: the map's entry, copied.
direntry_get_by_inode(e) == Copy(e)

-----------------------------------------------------------------------------
\* Requests.  The kernel sends none for an inode it does not know, forgets one
\* when nothing else is going on with it, and releases a handle once.

Handles(e) == opened[e] - released[e]
Free(t) == todo[t] = <<>> /\ ~undefined
Knows(e) == lookups[e] > 0
Serve(t, steps) == todo' = [todo EXCEPT ![t] = steps]

\* direntry_get_child_by_name: the walk over the children stops at the one of
\* that name, whose copy it keeps, or goes past it.
direntry_get_child_by_name(dir, found) ==
  direntry_get_by_inode(dir) \o Copy(Child[dir])
    \o (IF found THEN <<>> ELSE Delete(Child[dir])) \o Delete(dir)

fsfuse_lookup(t, dir) ==
  /\ Free(t) /\ Knows(dir)
  /\ Child[dir] # "none"
  /\ \/ /\ lookups[Child[dir]] < MaxLookups
        /\ Serve(t, direntry_get_child_by_name(dir, TRUE) \o ReplyEntry(Child[dir]))
     \/ Serve(t, direntry_get_child_by_name(dir, FALSE))
  /\ UNCHANGED <<refs, undefined, kernelVars>>

\* One delete fewer.
fsfuse_forget_Mutant(t, e) ==
  /\ Free(t) /\ Knows(e)
  /\ \A u \in Threads : todo[u] = <<>>
  /\ e # "P" /\ Handles(e) = 0
  /\ Serve(t, direntry_get_by_inode(e) \o Deletes(e, lookups[e]))
  /\ lookups' = [lookups EXCEPT ![e] = 0]
  /\ UNCHANGED <<refs, undefined, opened, refused, released, reads, answered, getattrs, downloads>>

fsfuse_forget(t, e) ==
  /\ Free(t) /\ Knows(e)
  /\ \A u \in Threads : todo[u] = <<>>
  /\ e # "P" /\ Handles(e) = 0
  /\ Serve(t, direntry_get_by_inode(e) \o Deletes(e, lookups[e] + 1))
  /\ lookups' = [lookups EXCEPT ![e] = 0]
  /\ UNCHANGED <<refs, undefined, opened, refused, released, reads, answered, getattrs, downloads>>

fsfuse_access(t, e) ==
  /\ Free(t) /\ Knows(e)
  /\ Serve(t, direntry_get_by_inode(e) \o Delete(e))
  /\ UNCHANGED <<refs, undefined, kernelVars>>

downloader_new == Copy("F") \o StartThread("F")

\* The handle keeps the copy, the download thread takes its own.  A refused
\* open (for writing) keeps it too.
fsfuse_open(t) ==
  /\ Free(t) /\ Knows("F")
  /\ opened["F"] + refused["F"] < MaxOpens
  /\ \/ Serve(t, direntry_get_by_inode("F") \o downloader_new \o ReplyOpen("F"))
     \/ Serve(t, direntry_get_by_inode("F") \o ReplyError("F"))
  /\ UNCHANGED <<refs, undefined, kernelVars>>

\* Of a file: refused with ENOTDIR.
fsfuse_opendir(t, e) ==
  /\ Free(t) /\ Knows(e)
  /\ e # "P"
  /\ opened[e] + refused[e] < MaxOpens
  /\ Serve(t, direntry_get_by_inode(e) \o (IF e = "D" THEN ReplyOpen(e) ELSE ReplyError(e)))
  /\ UNCHANGED <<refs, undefined, kernelVars>>

\* With the handle that getattr expects; it deletes a reference to its entry.
fsfuse_getattr(t) ==
  /\ Free(t) /\ Handles("F") > 0
  /\ getattrs < MaxGetattrs
  /\ Serve(t, Delete("F"))
  /\ getattrs' = getattrs + 1
  /\ UNCHANGED <<refs, undefined, lookups, opened, refused, released, reads, answered, downloads>>

\* Deleting each child twice.
fsfuse_readdir_Mutant(t) ==
  /\ Free(t) /\ Handles("D") > 0
  /\ Serve(t, Copy("P") \o Delete("P") \o Copy("F") \o Deletes("F", 2))
  /\ UNCHANGED <<refs, undefined, kernelVars>>

\* The parent for "..", then each child.
fsfuse_readdir(t) ==
  /\ Free(t) /\ Handles("D") > 0
  /\ Serve(t, Copy("P") \o Delete("P") \o Copy("F") \o Delete("F"))
  /\ UNCHANGED <<refs, undefined, kernelVars>>

\* The last of a handle: "our copy, and the one taken by open()" are deleted;
\* there is no copy of release's own.
Release(t, e) ==
  /\ Free(t) /\ Handles(e) > 0
  /\ Serve(t, Deletes(e, 2))
  /\ released' = [released EXCEPT ![e] = @ + 1]
  /\ UNCHANGED <<refs, undefined, lookups, opened, refused, reads, answered, getattrs, downloads>>

\* The kernel sends it once the file's reads are answered.
fsfuse_release(t) == reads = 0 /\ Release(t, "F")

fsfuse_releasedir(t) == Release(t, "D")

fsfuse_read ==
  /\ ~undefined
  /\ Handles("F") > 0
  /\ reads + answered < MaxReads
  /\ reads' = reads + 1
  /\ UNCHANGED <<refs, todo, undefined, lookups, opened, refused, released, answered, getattrs, downloads>>

-----------------------------------------------------------------------------
\* Steps

Bump(count, step, op) == IF step.op = op THEN [count EXCEPT ![step.of] = @ + 1] ELSE count

\* ref_count_inc and ref_count_dec, under the counter's mutex; direntry_delete
\* frees the entry at 0.
Counted(step) ==
  [refs EXCEPT ![step.of] = @ + (IF step.op = "copy" THEN 1 ELSE IF step.op = "delete" THEN -1 ELSE 0)]

\* The next step of thread t's request.
Step(t) ==
  /\ todo[t] # <<>> /\ ~undefined
  /\ LET step == Head(todo[t]) IN
     IF step.op \in {"copy", "delete"} /\ refs[step.of] = 0
       THEN undefined' = TRUE /\ UNCHANGED <<refs, todo, kernelVars>>
       ELSE /\ refs' = Counted(step)
            /\ todo' = [todo EXCEPT ![t] = Tail(@)]
            /\ lookups' = Bump(lookups, step, "entry")
            /\ opened' = Bump(opened, step, "open")
            /\ refused' = Bump(refused, step, "error")
            /\ downloads' = downloads + (IF step.op = "thread" THEN 1 ELSE 0)
            /\ UNCHANGED <<undefined, released, reads, answered, getattrs>>

\* A delete on a download thread.
DeleteFile ==
  IF refs["F"] = 0
    THEN undefined' = TRUE /\ UNCHANGED refs
    ELSE refs' = [refs EXCEPT !["F"] = @ - 1] /\ UNCHANGED undefined

\* A download thread answers a read: chunk_done.
chunk_done ==
  /\ ~undefined
  /\ reads > 0
  /\ DeleteFile
  /\ reads' = reads - 1
  /\ answered' = answered + 1
  /\ UNCHANGED <<todo, lookups, opened, refused, released, getattrs, downloads>>

\* A download thread has timed out.
thread_delete ==
  /\ ~undefined
  /\ downloads > 0
  /\ DeleteFile
  /\ downloads' = downloads - 1
  /\ UNCHANGED <<todo, lookups, opened, refused, released, reads, answered, getattrs>>

Next ==
  \/ \E t \in Threads :
       \/ \E e \in Entries : \/ fsfuse_lookup(t, e) \/ fsfuse_forget(t, e)
                            \/ fsfuse_access(t, e) \/ fsfuse_opendir(t, e)
       \/ fsfuse_open(t) \/ fsfuse_getattr(t) \/ fsfuse_release(t)
       \/ fsfuse_readdir(t) \/ fsfuse_releasedir(t)
       \/ Step(t)
  \/ fsfuse_read \/ chunk_done \/ thread_delete

Spec == Init /\ [][Next]_vars

-----------------------------------------------------------------------------
\* A step of a request.  Only a file has a download thread.
Steps ==
  {s \in [op : {"copy", "delete", "entry", "open", "error", "thread"}, of : Entries] :
     s.op = "thread" => s.of = "F"}

\* Counters are natural numbers.
TypeOK ==
  /\ refs \in [Entries -> Nat]
  /\ \A f \in {lookups, opened, refused, released} : f \in [Entries -> Nat]
  /\ {reads, answered, getattrs, downloads} \subseteq Nat
  /\ todo \in [Threads -> Seq(Steps)]
  /\ undefined \in BOOLEAN

\* References to e that were deleted without having been taken: one for each
\* release, and for each answered read and each getattr of the file.
Overdrawn(e) == released[e] + (IF e = "F" THEN answered + getattrs ELSE 0)

\* Where such a step is still to come, and how many are.
Awaited(step) ==
  UNION {{t} \X {i \in DOMAIN todo[t] : todo[t][i] = step[1]} : t \in Threads}
Pending(step) == Cardinality(Awaited(step))

\* Whatever the order of requests and of the steps of several threads, an
\* entry's count is what the map, the listing, the kernel's lookups, the open
\* handles and the download threads hold, what refused opens leaked, less what
\* was overdrawn, up to the steps still to come.
RefsAccounted ==
  ~undefined =>
    \A e \in Entries :
      refs[e] + Pending(Copy(e)) - Pending(Delete(e))
        = 2 + lookups[e] + Pending(ReplyEntry(e))
            + Handles(e) + Pending(ReplyOpen(e)) + refused[e] + Pending(ReplyError(e))
            + (IF e = "F" THEN downloads ELSE 0) + Pending(StartThread(e))
            - Overdrawn(e)

\* A freed entry is touched only after two references at least were overdrawn:
\* lookup, forget, access, open, opendir and readdir alone never lead there.
OnlyOverdraftsFree == undefined => \E e \in Entries : Overdrawn(e) >= 2
=============================================================================
