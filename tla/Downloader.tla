----------------------------- MODULE Downloader ------------------------------
(***************************************************************************)
(* One open file: the FUSE threads that run fsfuse_read, and the download  *)
(* thread of downloader.c that answers them.                               *)
(*                                                                         *)
(* A read becomes a chunk in a priority queue guarded by chunks_mutex; the *)
(* download thread pops the chunk of least start, asks an indexnode for an *)
(* alternative, fetches the file from that offset and, in libcurl's write  *)
(* callback, copies the body into one chunk after the other.  A chunk that *)
(* does not start where the stream stands makes it abandon the transfer    *)
(* and start again there (a seek).  Each critical section of chunks_mutex  *)
(* is one step; a wait that is over but has not re-acquired the mutex is a *)
(* state of its own ("woken" or "expired").                                *)
(*                                                                         *)
(* A failed assert, a null dereference and a use of freed memory end the   *)
(* process: crash records which, and nothing happens afterwards.           *)
(*                                                                         *)
(* File contents are abstract: the byte at position n of the remote file   *)
(* is n.  The queue is a set from which a chunk of least key is taken,     *)
(* which is what BinaryHeap is shown to implement.                         *)
(***************************************************************************)
EXTENDS Integers, FiniteSets

CONSTANTS Reads,       \* the FUSE read requests
          NoChunk,     \* the null chunk_t *
          Offsets,     \* the offsets and sizes the kernel asks for
          Sizes,
          FileSize,    \* direntry_get_size(de): the size the listing gave
          ServerSize,  \* the size of the file the peer serves now
          MaxBuf,      \* the most bytes libcurl hands over in one call
          UINT_MOD     \* 2^32 in the code: the range of unsigned

ASSUME SizesAssumption ==
  /\ Offsets \subseteq Nat /\ Sizes \subseteq Nat
  /\ FileSize \in Nat /\ ServerSize \in Nat /\ MaxBuf \in Nat
  /\ UINT_MOD \in Nat \ {0}
ASSUME NoChunkAssumption == NoChunk \notin Reads

VARIABLES
  handle,                        \* fi->fh: "closed", "open", "released"
  caller,                        \* how far fsfuse_read got for each request
  off, size,                     \* what the kernel asked for
  start, end, bytes_used, buf,   \* chunk_t
  reply,                         \* the fuse_reply of each request
  chunks, current_chunk,         \* downloader_t
  download_offset, seek,
  lost,                          \* chunks no pointer leads to any more
  tpc,                           \* where the download thread is
  resume,                        \* who called chunk_get_next
  rc,                            \* downloaderead_main's rc
  lookup_rc, li,                 \* listing_tryget_best_alternative
  buf_start, buf_end,            \* buf_t
  stream,                        \* position of the peer's next body byte
  crash                          \* "none", or why the process died

chunkVars  == <<start, end, bytes_used, buf>>
callerVars == <<handle, caller, off, size>>
fetchVars  == <<lookup_rc, li, buf_start, buf_end, stream>>
vars == <<callerVars, chunkVars, reply, chunks, current_chunk, download_offset,
          seek, lost, tpc, resume, rc, fetchVars, crash>>

Errors == {"ENOENT", "EBUSY", "EIO"}     \* http2errno, process_curl_response
NoReply == [rc |-> "none", size |-> 0]
Junk == -1                               \* a byte malloc left in a buffer

\* A process that died takes no step.
Alive == crash = "none"

MinOf_Mutant(a, b) == a
MinOf(a, b) == IF a <= b THEN a ELSE b

-----------------------------------------------------------------------------
(***************************************************************************)
(* fsfuse_read, on a FUSE thread.                                          *)
(***************************************************************************)

\* The size of the chunk: cut at the end of the file, as line 97 of read.c
\* decides it from the low bits of off + size.
clamp(o, s) ==
  IF o >= FileSize THEN 0
  ELSE IF (o + s) % UINT_MOD >= FileSize THEN FileSize - o
  ELSE s

\* chunk_done: the fuse_reply it makes.  What else it does (to the direntry
\* and the read_context_t) is not state of this module.
chunk_done(e, n) == [rc |-> e, size |-> n]

\* The asserts at the head of downloader_chunk_add.
RangeOK(o, e) == o <= e /\ o <= FileSize /\ e <= FileSize

Init ==
  /\ handle = "closed"
  /\ caller = [r \in Reads |-> "none"]
  /\ off = [r \in Reads |-> 0] /\ size = [r \in Reads |-> 0]
  /\ start = [r \in Reads |-> 0] /\ end = [r \in Reads |-> 0]
  /\ bytes_used = [r \in Reads |-> 0]
  /\ buf = [r \in Reads |-> [i \in 0 .. FileSize - 1 |-> Junk]]
  /\ reply = [r \in Reads |-> NoReply]
  /\ chunks = {} /\ current_chunk = NoChunk
  /\ download_offset = 0 /\ seek = FALSE
  /\ lost = {}
  /\ tpc = "unborn" /\ resume = "main" /\ rc = "uninit"
  /\ lookup_rc = "0" /\ li = FALSE
  /\ buf_start = 0 /\ buf_end = 0 /\ stream = 0
  /\ crash = "none"

\* fsfuse_open: downloader_new starts the thread.  An open for writing, or of
\* something that is not a file, is answered with an error and leaves nothing.
fsfuse_open ==
  /\ Alive
  /\ handle = "closed"
  /\ handle' = "open"
  /\ tpc' = "top"
  /\ UNCHANGED <<caller, off, size, chunkVars, reply, chunks, current_chunk,
                 download_offset, seek, lost, resume, rc, fetchVars, crash>>

\* fsfuse_read up to the mutex of downloader_chunk_add.  The asserts read the
\* downloader's direntry, so a downloader that has freed itself is noticed.
fsfuse_read(r, o, s) ==
  LET n == clamp(o, s) IN
  /\ Alive
  /\ handle = "open"
  /\ caller[r] = "none"
  /\ off' = [off EXCEPT ![r] = o]
  /\ size' = [size EXCEPT ![r] = s]
  /\ IF tpc # "gone" /\ RangeOK(o, o + n)
       THEN /\ caller' = [caller EXCEPT ![r] = "checked"]
            /\ start' = [start EXCEPT ![r] = o]
            /\ end' = [end EXCEPT ![r] = o + n]
            /\ UNCHANGED crash
       ELSE /\ crash' = IF tpc = "gone" THEN "freed" ELSE "range"
            /\ UNCHANGED <<caller, start, end>>
  /\ UNCHANGED <<handle, bytes_used, buf, reply, chunks, current_chunk,
                 download_offset, seek, lost, tpc, resume, rc, fetchVars>>

\* The critical section of downloader_chunk_add, with its cond_signal.
AfterSignal_Mutant == tpc
AfterSignal == IF tpc = "waiting" THEN "woken" ELSE tpc

downloader_chunk_add(r) ==
  /\ Alive
  /\ caller[r] = "checked"
  /\ IF tpc = "gone"
       THEN crash' = "freed" /\ UNCHANGED <<caller, chunks, tpc>>
       ELSE /\ caller' = [caller EXCEPT ![r] = "queued"]
            /\ chunks' = chunks \cup {r}
            /\ tpc' = AfterSignal
            /\ UNCHANGED crash
  /\ UNCHANGED <<handle, off, size, chunkVars, reply, current_chunk,
                 download_offset, seek, lost, resume, rc, fetchVars>>

\* The kernel releases a file once every read of it has been answered.  The
\* thread is not told: the downloader_delete of line 50 is commented out.
fsfuse_release ==
  /\ Alive
  /\ handle = "open"
  /\ \A r \in Reads : caller[r] = "none" \/ reply[r] # NoReply
  /\ handle' = "released"
  /\ UNCHANGED <<caller, off, size, chunkVars, reply, chunks, current_chunk,
                 download_offset, seek, lost, tpc, resume, rc, fetchVars, crash>>

-----------------------------------------------------------------------------
(***************************************************************************)
(* chunk_get_next, on the download thread.                                 *)
(***************************************************************************)

\* binary_heap_add takes an int: the low bits of start, as a signed number.
IntKey(n) ==
  LET m == n % UINT_MOD
  IN  IF m >= UINT_MOD \div 2 THEN m - UINT_MOD ELSE m

\* binary_heap_trypop: a chunk of least key.
Least == {r \in chunks : \A s \in chunks : IntKey(start[r]) <= IntKey(start[s])}

\* Where the thread goes with a chunk in hand.
WithChunk == IF resume = "main" THEN "lookup" ELSE "consume"

\* A trypop that leaves the pair in the heap.
GotChunk_Mutant ==
  /\ Alive
  /\ tpc \in {"get", "woken"}
  /\ \E r \in Least : current_chunk' = r
  /\ tpc' = WithChunk
  /\ UNCHANGED <<callerVars, chunkVars, reply, chunks, download_offset, seek, lost,
                 resume, rc, fetchVars, crash>>

\* trypop succeeds before any wait, or after one that was signalled.
GotChunk ==
  /\ Alive
  /\ tpc \in {"get", "woken"}
  /\ \E r \in Least :
       /\ chunks' = chunks \ {r}
       /\ current_chunk' = r
  /\ tpc' = WithChunk
  /\ UNCHANGED <<callerVars, chunkVars, reply, download_offset, seek, lost,
                 resume, rc, fetchVars, crash>>

\* pthread_cond_timedwait blocks.  If the clock stood at .999999 s when the
\* deadline was made its tv_nsec is 10^9, the call fails with EINVAL, and the
\* assert(0) of line 256 is reached.
WaitForChunk ==
  /\ Alive
  /\ tpc \in {"get", "woken"}
  /\ chunks = {}
  /\ \/ tpc' = "waiting" /\ UNCHANGED crash
     \/ tpc = "get" /\ crash' = "deadline" /\ UNCHANGED tpc
  /\ UNCHANGED <<callerVars, chunkVars, reply, chunks, current_chunk,
                 download_offset, seek, lost, resume, rc, fetchVars>>

\* POSIX lets a wait end for no reason, or at its deadline.
WaitEnds ==
  /\ Alive
  /\ tpc = "waiting"
  /\ tpc' = "woken"
  /\ UNCHANGED <<callerVars, chunkVars, reply, chunks, current_chunk,
                 download_offset, seek, lost, resume, rc, fetchVars, crash>>

WaitTimesOut ==
  /\ Alive
  /\ tpc = "waiting"
  /\ tpc' = "expired"
  /\ UNCHANGED <<callerVars, chunkVars, reply, chunks, current_chunk,
                 download_offset, seek, lost, resume, rc, fetchVars, crash>>

\* main breaks out of its loop; buf_consumer makes libcurl fail with
\* CURLE_WRITE_ERROR, which process_curl_response turns into 0.
AfterTimeout_Mutant == "top"
AfterTimeout == IF resume = "main" THEN "exit" ELSE "top"

\* The mutex is back after a timeout.  The loop condition pops once more, but
\* rc is ETIMEDOUT, so chunk = NULL drops whatever it popped.
TimedOut ==
  /\ Alive
  /\ tpc = "expired"
  /\ IF chunks = {} THEN UNCHANGED <<chunks, lost>>
     ELSE \E r \in Least : chunks' = chunks \ {r} /\ lost' = lost \cup {r}
  /\ tpc' = AfterTimeout
  /\ rc' = IF resume = "main" THEN rc ELSE "0"
  /\ UNCHANGED <<callerVars, chunkVars, reply, current_chunk, download_offset,
                 seek, resume, fetchVars, crash>>

-----------------------------------------------------------------------------
(***************************************************************************)
(* downloaderead_main.                                                     *)
(***************************************************************************)

\* The head of the loop, with its "if we've seeked there must be a chunk in
\* hand" assert.
LoopTop ==
  /\ Alive
  /\ tpc = "top"
  /\ crash' = IF seek /\ current_chunk = NoChunk THEN "assert" ELSE crash
  /\ seek' = FALSE
  /\ resume' = "main"
  /\ tpc' = IF current_chunk = NoChunk THEN "get" ELSE "lookup"
  /\ UNCHANGED <<callerVars, chunkVars, reply, chunks, current_chunk,
                 download_offset, lost, rc, fetchVars>>

\* listing_tryget_best_alternative: the rc of fetching the alternatives, and
\* whether peerstats chose one among those that were parsed.
Lookup_Mutant(found, e) ==
  /\ Alive
  /\ tpc = "lookup"
  /\ lookup_rc' = e /\ li' = found
  /\ tpc' = "looked"
  /\ UNCHANGED <<callerVars, chunkVars, reply, chunks, current_chunk, seek, lost,
                 download_offset, resume, rc, buf_start, buf_end, stream, crash>>

Lookup(found, e) ==
  /\ Alive
  /\ tpc = "lookup"
  /\ download_offset' = start[current_chunk]
  /\ lookup_rc' = e /\ li' = found
  /\ tpc' = "looked"
  /\ UNCHANGED <<callerVars, chunkVars, reply, chunks, current_chunk, seek, lost,
                 resume, rc, buf_start, buf_end, stream, crash>>

\* Line 352 takes a non-zero rc for success.
UseLookup ==
  /\ Alive
  /\ tpc = "looked"
  /\ lookup_rc' = "0" /\ li' = FALSE
  /\ IF lookup_rc = "0" THEN tpc' = "exit" /\ rc' = "EBUSY" /\ UNCHANGED crash
     ELSE IF li THEN tpc' = "request" /\ UNCHANGED <<rc, crash>>
     ELSE crash' = "null" /\ UNCHANGED <<tpc, rc>>
  /\ UNCHANGED <<callerVars, chunkVars, reply, chunks, current_chunk,
                 download_offset, seek, lost, resume, buf_start, buf_end, stream>>

\* The peer (external).  It honours "Range: start-", which is sent unless
\* start is 0, and answers 416 when nothing of the file is left there.
Satisfiable == start[current_chunk] = 0 \/ start[current_chunk] < ServerSize

RequestAccepted ==
  /\ Alive
  /\ tpc = "request"
  /\ Satisfiable
  /\ stream' = start[current_chunk]
  /\ tpc' = "fetch"
  /\ UNCHANGED <<callerVars, chunkVars, reply, chunks, current_chunk, seek, lost,
                 download_offset, resume, rc, lookup_rc, li, buf_start, buf_end, crash>>

\* No connection, or an HTTP error: 416 becomes EIO in http2errno.
RequestRefused(e) ==
  /\ Alive
  /\ tpc = "request"
  /\ rc' = e
  /\ tpc' = "exit"
  /\ UNCHANGED <<callerVars, chunkVars, reply, chunks, current_chunk, seek, lost,
                 download_offset, resume, fetchVars, crash>>

\* libcurl calls buf_consumer with the next n bytes of the body (external);
\* an empty body never leads to a call.
Deliver(n) ==
  /\ Alive
  /\ tpc = "fetch"
  /\ n <= ServerSize - stream
  /\ buf_start' = download_offset
  /\ buf_end' = download_offset + n
  /\ stream' = stream + n
  /\ resume' = "consume"
  /\ tpc' = IF current_chunk = NoChunk THEN "get" ELSE "consume"
  /\ UNCHANGED <<callerVars, chunkVars, reply, chunks, current_chunk, seek, lost,
                 download_offset, rc, lookup_rc, li, crash>>

\* The body is complete, or the connection closed half way: both are 0.
FetchOver ==
  /\ Alive
  /\ tpc = "fetch"
  /\ rc' = "0"
  /\ tpc' = "top"
  /\ UNCHANGED <<callerVars, chunkVars, reply, chunks, current_chunk, seek, lost,
                 download_offset, resume, fetchVars, crash>>

\* Any other libcurl error in the middle of a body.
FetchFails ==
  /\ Alive
  /\ tpc = "fetch"
  /\ stream < ServerSize
  /\ rc' = "EIO"
  /\ tpc' = "exit"
  /\ UNCHANGED <<callerVars, chunkVars, reply, chunks, current_chunk, seek, lost,
                 download_offset, resume, fetchVars, crash>>

-----------------------------------------------------------------------------
(***************************************************************************)
(* buf_consumer: one iteration of its loop.                                *)
(***************************************************************************)

\* memcpy of n bytes of the body to where the chunk's buf pointer stands; the
\* body byte under the buf_t's pointer is the one buf_end - buf_start before
\* the position the peer has reached.
Filled(c, n) ==
  [i \in 0 .. FileSize - 1 |->
     IF i >= bytes_used[c] /\ i < bytes_used[c] + n
       THEN stream - (buf_end - buf_start) + (i - bytes_used[c])
       ELSE buf[c][i]]

\* A chunk is answered when it is full, whether or not the buffer is used up.
AnswerNow_Mutant(bufDone, chunkDone) == bufDone \/ chunkDone
AnswerNow(bufDone, chunkDone) == chunkDone

\* The offset the thread believes the stream has reached.
OffsetAfter_Mutant(bufDone) == download_offset
OffsetAfter(bufDone) == IF bufDone THEN buf_end ELSE download_offset

Consume ==
  LET c == current_chunk
      n == MinOf(buf_end - buf_start, end[c] - start[c])
      bufDone == buf_start + n = buf_end
      chunkDone == start[c] + n = end[c]
  IN
  /\ Alive
  /\ tpc = "consume"
  /\ start[c] = buf_start
  /\ buf' = [buf EXCEPT ![c] = Filled(c, n)]
  /\ bytes_used' = [bytes_used EXCEPT ![c] = @ + n]
  /\ start' = [start EXCEPT ![c] = @ + n]
  /\ buf_start' = buf_start + n
  /\ reply' = IF AnswerNow(bufDone, chunkDone)
                THEN [reply EXCEPT ![c] = chunk_done("0", bytes_used[c] + n)]
                ELSE reply
  /\ current_chunk' = IF chunkDone THEN NoChunk ELSE c
  /\ tpc' = IF bufDone THEN "fetch" ELSE "get"
  /\ download_offset' = OffsetAfter(bufDone)
  /\ UNCHANGED <<callerVars, end, chunks, seek, lost, resume, rc, lookup_rc, li,
                 buf_end, stream, crash>>

\* The chunk in hand is not where the stream stands: bail out to seek.
BailToSeek ==
  /\ Alive
  /\ tpc = "consume"
  /\ start[current_chunk] # buf_start
  /\ seek' = TRUE
  /\ rc' = "0"
  /\ tpc' = "top"
  /\ UNCHANGED <<callerVars, chunkVars, reply, chunks, current_chunk,
                 download_offset, lost, resume, fetchVars, crash>>

-----------------------------------------------------------------------------
(***************************************************************************)
(* The end of downloaderead_main, and thread_delete.                       *)
(***************************************************************************)

\* chunks_empty and signal_read_thread with an error.
Refused_Mutant(S, e) ==
  [r \in Reads |-> IF r = current_chunk THEN chunk_done(e, 0) ELSE reply[r]]

Refused(S, e) ==
  [r \in Reads |-> IF r \in S THEN chunk_done(e, 0) ELSE reply[r]]

\* rc is 0 (or is uninitialised and happens to be): nothing may be left.
ExitClean ==
  /\ Alive
  /\ tpc = "exit"
  /\ rc \in {"0", "uninit"}
  /\ crash' = IF current_chunk # NoChunk THEN "assert"
              ELSE IF chunks # {} THEN "late" ELSE crash
  /\ tpc' = "delete"
  /\ UNCHANGED <<callerVars, chunkVars, reply, chunks, current_chunk,
                 download_offset, seek, lost, resume, rc, fetchVars>>

\* An exit that forgets to clear current_chunk.
ExitFailed_Mutant ==
  /\ Alive
  /\ tpc = "exit"
  /\ rc # "0"
  /\ IF current_chunk = NoChunk THEN UNCHANGED <<reply, chunks>>
     ELSE reply' = Refused(chunks \cup {current_chunk}, rc) /\ chunks' = {}
  /\ tpc' = "delete"
  /\ UNCHANGED <<callerVars, chunkVars, current_chunk, download_offset, seek, lost,
                 resume, rc, fetchVars, crash>>

\* rc is an error: it goes to the chunk in hand and, if there was one, to
\* every chunk on the queue.
ExitFailed ==
  /\ Alive
  /\ tpc = "exit"
  /\ rc # "0"
  /\ IF current_chunk = NoChunk THEN UNCHANGED <<reply, chunks, current_chunk>>
     ELSE /\ reply' = Refused(chunks \cup {current_chunk}, rc)
          /\ chunks' = {}
          /\ current_chunk' = NoChunk
  /\ tpc' = "delete"
  /\ UNCHANGED <<callerVars, chunkVars, download_offset, seek, lost, resume, rc,
                 fetchVars, crash>>

\* thread_delete, with its own assert and binary_heap_delete's.
thread_delete ==
  /\ Alive
  /\ tpc = "delete"
  /\ crash' = IF current_chunk # NoChunk THEN "assert"
              ELSE IF chunks # {} THEN "late" ELSE crash
  /\ tpc' = "gone"
  /\ UNCHANGED <<callerVars, chunkVars, reply, chunks, current_chunk,
                 download_offset, seek, lost, resume, rc, fetchVars>>

-----------------------------------------------------------------------------
\* What the download thread does by itself.
ThreadSteps ==
  \/ LoopTop \/ GotChunk \/ WaitForChunk \/ TimedOut \/ UseLookup
  \/ Consume \/ BailToSeek
  \/ ExitClean \/ ExitFailed \/ thread_delete

\* What it waits for from an indexnode and from the peer, in fetcher_fetch.
RemoteSteps ==
  \/ \E found \in BOOLEAN, e \in Errors \cup {"0"} : Lookup(found, e)
  \/ RequestAccepted
  \/ \E e \in Errors : RequestRefused(e)
  \/ \E n \in 1 .. MaxBuf : Deliver(n)
  \/ FetchOver \/ FetchFails

DownloadThread == ThreadSteps \/ WaitEnds \/ WaitTimesOut \/ RemoteSteps

FuseThreads ==
  \/ fsfuse_open
  \/ \E r \in Reads, o \in Offsets, s \in Sizes : fsfuse_read(r, o, s)
  \/ \E r \in Reads : downloader_chunk_add(r)
  \/ fsfuse_release

Next == DownloadThread \/ FuseThreads

Spec == Init /\ [][Next]_vars

\* The download thread and a FUSE thread that passed the asserts are
\* scheduled and get the mutex, and a wait has an absolute deadline, so it
\* cannot be woken and resumed for ever.  Nothing makes a remote answer:
\* fetcher.c sets libcurl no timeout.
Fairness ==
  /\ WF_vars(ThreadSteps)
  /\ SF_vars(WaitTimesOut)
  /\ \A r \in Reads : WF_vars(downloader_chunk_add(r))

FairSpec == Spec /\ Fairness

-----------------------------------------------------------------------------
Positions == 0 .. FileSize - 1

\* Every field keeps its type; a chunk lies inside the file.
TypeOK ==
  /\ handle \in {"closed", "open", "released"}
  /\ caller \in [Reads -> {"none", "checked", "queued"}]
  /\ off \in [Reads -> Nat] /\ size \in [Reads -> Nat]
  /\ start \in [Reads -> Nat] /\ end \in [Reads -> Nat]
  /\ \A r \in Reads : start[r] <= end[r] /\ end[r] <= FileSize
  /\ bytes_used \in [Reads -> Nat]
  /\ buf \in [Reads -> [Positions -> Int]]
  /\ reply \in [Reads -> [rc : Errors \cup {"0", "none", "uninit"}, size : Nat]]
  /\ chunks \subseteq Reads /\ lost \subseteq Reads
  /\ current_chunk \in Reads \cup {NoChunk}
  /\ download_offset \in Nat /\ seek \in BOOLEAN
  /\ tpc \in {"unborn", "top", "get", "waiting", "woken", "expired", "lookup",
              "looked", "request", "fetch", "consume", "exit", "delete", "gone"}
  /\ resume \in {"main", "consume"}
  /\ rc \in Errors \cup {"0", "uninit"}
  /\ lookup_rc \in Errors \cup {"0"} /\ li \in BOOLEAN
  /\ buf_start \in Nat /\ buf_end \in Nat /\ stream \in Nat
  /\ buf_start <= buf_end
  /\ crash \in {"none", "freed", "range", "deadline", "assert", "null", "late"}

Answered(r) == reply[r] # NoReply

\* What the comment above fsfuse_read asks for: the bytes from off up to
\* off + size or the end of the file.
Due(r) == IF off[r] >= FileSize THEN 0 ELSE MinOf(size[r], FileSize - off[r])

\* "MUST return as many bytes as were asked for, unless error or EOF"
\* (read.c:40).  A read that succeeds got exactly those bytes of the file, in
\* order, however many seeks, short bodies and timeouts came in between.
ReadIntegrity ==
  \A r \in Reads :
    reply[r].rc = "0" =>
      /\ reply[r].size = Due(r)
      /\ \A i \in 0 .. reply[r].size - 1 : buf[r][i] = off[r] + i

\* A chunk handed to downloader_chunk_add has exactly one owner: the queue,
\* the thread (current_chunk), the reply, or - dropped by chunk_get_next -
\* nobody.  So no read is answered twice and no chunk is used after it was
\* freed.
OneOwner ==
  \A r \in Reads :
    LET owners == (IF r \in chunks THEN 1 ELSE 0)
                + (IF r = current_chunk THEN 1 ELSE 0)
                + (IF Answered(r) THEN 1 ELSE 0)
                + (IF r \in lost THEN 1 ELSE 0)
    IN owners = IF caller[r] = "queued" THEN 1 ELSE 0

\* The thread never sleeps in pthread_cond_timedwait while a chunk is queued:
\* the signal of downloader_chunk_add is not lost.
NoLostWakeup == tpc = "waiting" => chunks = {}

\* The asserts on current_chunk hold: a seek leaves a chunk in hand (318), and
\* none is in hand when the thread ends without an error or frees itself
\* (385, 139).
InHandAsserts == crash # "assert"

\* An error that ends the thread reaches every read that was waiting for it:
\* when the thread has freed itself no accepted read is left, but for those
\* the timeout race dropped.
NoneStranded ==
  (tpc = "gone" /\ crash = "none") =>
    \A r \in Reads : caller[r] = "queued" => Answered(r) \/ r \in lost

\* An answer is final: the request is gone from the kernel and chunk_done
\* freed the buffer, so neither may be touched again.
AnswersFinal ==
  [][\A r \in Reads : Answered(r) => reply'[r] = reply[r] /\ buf'[r] = buf[r]]_vars

\* The thread calls on a remote, again and again or in one call without an
\* end, and from some time on no byte of a body arrives.
Calling == tpc \in {"lookup", "request", "fetch"}
Stalled ==
  /\ []<>Calling
  /\ <>[][~ \E n \in 1 .. MaxBuf : Deliver(n)]_vars

\* A read whose chunk was accepted is answered, unless the process dies, the
\* timeout race drops the chunk, or the thread is stalled: in a call that
\* does not return, or refetching for ever what brings no bytes.  Neither the
\* order of the chunks nor the seeks between them keeps a read waiting.
AnsweredUnlessStalled ==
  Stalled \/ \A r \in Reads :
               caller[r] = "queued" ~> (Answered(r) \/ r \in lost \/ crash # "none")

\* "we just tidy up after a bit of a wait" (downloader.c:299): the thread of a
\* released file goes away, unless the transfer it left running hangs.
TidiesUpUnlessHung ==
  handle = "released" ~> (tpc = "gone" \/ crash # "none" \/ [](tpc = "fetch"))

\* Nobody stops the thread of a released file (release.c:50), which goes on
\* with its transfer and its waits; none of its asserts and pointers fails it
\* on the way to its end.
ReleasedEndsCleanly == handle = "released" => crash \in {"none", "deadline"}

\* Every read is answered, with bytes or with an error (read.c:40), if the
\* remotes answer.  Fails: the timeout race.
EveryReadAnswered ==
  Stalled \/ \A r \in Reads : caller[r] = "queued" ~> (Answered(r) \/ crash # "none")
=============================================================================
