-------------------------- MODULE DownloaderProofs ---------------------------
(***************************************************************************)
(* Proofs about one open file and its download thread, for any number of   *)
(* reads, any file sizes and any buffer size.                              *)
(***************************************************************************)
EXTENDS Downloader, TLAPS

USE DEF chunk_done

(***************************************************************************)
(* Where the thread may be with a chunk in hand, and what rc is then: the  *)
(* facts behind the asserts of downloader.c.                               *)
(***************************************************************************)
Control ==
  /\ tpc \in {"lookup", "looked", "request", "consume"} => current_chunk # NoChunk
  /\ tpc \in {"unborn", "get", "waiting", "woken", "expired", "delete", "gone"}
       => current_chunk = NoChunk
  /\ (tpc = "exit" /\ current_chunk # NoChunk) => rc \in Errors
  /\ seek => tpc = "top" /\ current_chunk # NoChunk
  /\ tpc = "waiting" => chunks = {}
  /\ (tpc = "gone" /\ crash = "none") => chunks = {}
  /\ crash # "assert"

(***************************************************************************)
(* OneOwner without arithmetic: the queue, the thread, the replies and the *)
(* dropped chunks share no read, and hold exactly the accepted ones.       *)
(***************************************************************************)
Owned ==
  \A r \in Reads :
    /\ r \in chunks => r # current_chunk /\ ~Answered(r) /\ r \notin lost
    /\ r = current_chunk => ~Answered(r) /\ r \notin lost
    /\ Answered(r) => r \notin lost
    /\ caller[r] = "queued" <=>
         (r \in chunks \/ r = current_chunk \/ Answered(r) \/ r \in lost)

(***************************************************************************)
(* What a chunk holds: the bytes from its offset up to start, the next one *)
(* it needs; a successful answer is a full chunk.                          *)
(***************************************************************************)
ChunkData(r) ==
  /\ caller[r] # "none" =>
       /\ end[r] = off[r] + Due(r)
       /\ start[r] = off[r] + bytes_used[r]
       /\ \A i \in 0 .. bytes_used[r] - 1 : buf[r][i] = off[r] + i
  /\ caller[r] # "queued" => bytes_used[r] = 0
  /\ reply[r].rc = "0" =>
       caller[r] = "queued" /\ reply[r].size = bytes_used[r] /\ start[r] = end[r]

Progress == \A r \in Reads : ChunkData(r)

(***************************************************************************)
(* The offset the thread believes in is where the peer's stream stands.    *)
(***************************************************************************)
Aligned ==
  /\ tpc \in {"looked", "request"} => download_offset = start[current_chunk]
  /\ tpc = "fetch" => download_offset = stream
  /\ (tpc \in {"get", "waiting", "woken", "expired", "consume"} /\ resume = "consume")
       => buf_end = stream
  /\ tpc = "consume" => resume = "consume"

Inv == TypeOK /\ Control /\ Owned /\ Progress /\ Aligned

-----------------------------------------------------------------------------
(***************************************************************************)
(* clamp never lengthens a read, and its result lies in the file whenever  *)
(* the asserts of downloader_chunk_add accept it, even when line 97 of     *)
(* read.c compares a sum that has wrapped around.                          *)
(***************************************************************************)
LEMMA ClampFacts ==
  ASSUME NEW o \in Nat, NEW s \in Nat, RangeOK(o, o + clamp(o, s))
  PROVE  /\ clamp(o, s) \in Nat
         /\ clamp(o, s) = IF o >= FileSize THEN 0 ELSE MinOf(s, FileSize - o)
<1>1. FileSize \in Nat /\ UINT_MOD \in Nat \ {0}
  BY SizesAssumption
<1>2. (o + s) % UINT_MOD <= o + s /\ (o + s) % UINT_MOD \in Nat
  BY <1>1
<1>. DEFINE m == (o + s) % UINT_MOD
<1>3. m <= o + s /\ m \in Nat
  BY <1>2
<1>4. clamp(o, s) = IF o >= FileSize THEN 0 ELSE IF m >= FileSize THEN FileSize - o ELSE s
  BY DEF clamp
<1>. HIDE DEF m
<1>. QED BY <1>1, <1>3, <1>4 DEF RangeOK, MinOf

(***************************************************************************)
(* Every step keeps the types.                                             *)
(***************************************************************************)
LEMMA ConsumeType ==
  ASSUME TypeOK, Control, Consume
  PROVE  TypeOK'
<1>. DEFINE c == current_chunk
            n == MinOf(buf_end - buf_start, end[c] - start[c])
<1>1. c \in Reads
  BY DEF TypeOK, Control, Consume
<1>2. /\ n \in Nat /\ buf_start + n <= buf_end /\ start[c] + n <= end[c]
      /\ buf_start \in Nat /\ buf_end \in Nat /\ bytes_used[c] \in Nat
      /\ stream \in Nat /\ start[c] \in Nat /\ end[c] \in Nat
  BY <1>1 DEF TypeOK, MinOf
<1>3. Filled(c, n) \in [Positions -> Int]
  <2>. HIDE DEF c, n
  <2>1. \A i \in Positions : buf[c][i] \in Int
    BY <1>1 DEF TypeOK
  <2>2. \A i \in Positions : i \in Int
    BY SizesAssumption DEF Positions
  <2>. QED BY <1>1, <1>2, <2>1, <2>2 DEF Filled, Positions
<1>. DEFINE bufDone == buf_start + n = buf_end
            chunkDone == start[c] + n = end[c]
<1>4. /\ buf' = [buf EXCEPT ![c] = Filled(c, n)]
      /\ bytes_used' = [bytes_used EXCEPT ![c] = @ + n]
      /\ start' = [start EXCEPT ![c] = @ + n]
      /\ buf_start' = buf_start + n
      /\ reply' = IF AnswerNow(bufDone, chunkDone)
                    THEN [reply EXCEPT ![c] = [rc |-> "0", size |-> bytes_used[c] + n]]
                    ELSE reply
      /\ current_chunk' \in {NoChunk, c}
      /\ tpc' \in {"fetch", "get"}
      /\ download_offset' \in {buf_end, download_offset}
      /\ UNCHANGED <<handle, caller, off, size, end, chunks, seek, lost, resume, rc,
                     lookup_rc, li, buf_end, stream, crash>>
  BY DEF Consume, callerVars, OffsetAfter
<1>. HIDE DEF c, n, bufDone, chunkDone
<1>5. /\ buf' \in [Reads -> [Positions -> Int]]
      /\ bytes_used' \in [Reads -> Nat]
      /\ start' \in [Reads -> Nat]
      /\ \A r \in Reads : start'[r] <= end[r]
  BY <1>1, <1>2, <1>3, <1>4 DEF TypeOK
<1>6. reply' \in [Reads -> [rc : Errors \cup {"0", "none", "uninit"}, size : Nat]]
  <2>1. bytes_used[c] + n \in Nat
    BY <1>2
  <2>. QED BY <1>1, <1>4, <2>1 DEF TypeOK
<1>7. /\ current_chunk' \in Reads \cup {NoChunk} /\ download_offset' \in Nat
      /\ buf_start' \in Nat /\ buf_start' <= buf_end
  BY <1>1, <1>2, <1>4 DEF TypeOK
<1>. QED BY <1>4, <1>5, <1>6, <1>7 DEF TypeOK

\* fsfuse_read keeps the types: what it writes in the chunk is in range.
LEMMA ReadType ==
  ASSUME TypeOK, NEW r \in Reads, NEW o \in Offsets, NEW s \in Sizes,
         fsfuse_read(r, o, s)
  PROVE  TypeOK'
<1>1. o \in Nat /\ s \in Nat
  BY SizesAssumption
<1>2. /\ off' = [off EXCEPT ![r] = o]
      /\ size' = [size EXCEPT ![r] = s]
      /\ UNCHANGED <<handle, bytes_used, buf, reply, chunks, current_chunk,
                     download_offset, seek, lost, tpc, resume, rc, lookup_rc, li,
                     buf_start, buf_end, stream>>
  BY DEF fsfuse_read, fetchVars
<1>3. CASE tpc # "gone" /\ RangeOK(o, o + clamp(o, s))
  <2>1. clamp(o, s) \in Nat /\ o + clamp(o, s) <= FileSize
    BY <1>1, <1>3, ClampFacts DEF RangeOK
  <2>2. /\ caller' = [caller EXCEPT ![r] = "checked"]
        /\ start' = [start EXCEPT ![r] = o]
        /\ end' = [end EXCEPT ![r] = o + clamp(o, s)]
        /\ crash' = crash
    BY <1>3 DEF fsfuse_read
  <2>3. /\ start' \in [Reads -> Nat] /\ end' \in [Reads -> Nat]
        /\ \A q \in Reads : start'[q] <= end'[q] /\ end'[q] <= FileSize
    BY <1>1, <2>1, <2>2 DEF TypeOK
  <2>. QED BY <1>1, <1>2, <2>2, <2>3 DEF TypeOK
<1>4. CASE ~(tpc # "gone" /\ RangeOK(o, o + clamp(o, s)))
  <2>1. /\ crash' \in {"freed", "range"}
        /\ UNCHANGED <<caller, start, end>>
    BY <1>4 DEF fsfuse_read
  <2>. QED BY <1>1, <1>2, <2>1 DEF TypeOK
<1>. QED BY <1>3, <1>4

\* Every step keeps the types.
LEMMA NextType == TypeOK /\ Control /\ [Next]_vars => TypeOK'
<1>. SUFFICES ASSUME TypeOK, Control, [Next]_vars
              PROVE  TypeOK'
  OBVIOUS
<1>. USE DEF callerVars, chunkVars, fetchVars
<1>1. CASE fsfuse_open
  BY <1>1 DEF fsfuse_open, TypeOK
<1>2. ASSUME NEW r \in Reads, NEW o \in Offsets, NEW s \in Sizes, fsfuse_read(r, o, s)
      PROVE  TypeOK'
  BY <1>2, ReadType
<1>3. ASSUME NEW r \in Reads, downloader_chunk_add(r)
      PROVE  TypeOK'
  <2>1. /\ crash' \in {crash, "freed"} /\ chunks' \subseteq Reads
        /\ tpc' \in {tpc, "woken"}
        /\ caller' \in [Reads -> {"none", "checked", "queued"}]
    BY <1>3 DEF downloader_chunk_add, AfterSignal, TypeOK
  <2>2. UNCHANGED <<handle, off, size, start, end, bytes_used, buf, reply, current_chunk,
                    download_offset, seek, lost, resume, rc, lookup_rc, li, buf_start,
                    buf_end, stream>>
    BY <1>3 DEF downloader_chunk_add
  <2>. QED BY <2>1, <2>2 DEF TypeOK
<1>4. CASE fsfuse_release
  BY <1>4 DEF fsfuse_release, TypeOK
<1>5. CASE LoopTop
  BY <1>5 DEF LoopTop, TypeOK
<1>6. CASE GotChunk
  BY <1>6 DEF GotChunk, Least, WithChunk, TypeOK
<1>7. CASE WaitForChunk
  BY <1>7 DEF WaitForChunk, TypeOK
<1>8. CASE WaitEnds
  BY <1>8 DEF WaitEnds, TypeOK
<1>9. CASE WaitTimesOut
  BY <1>9 DEF WaitTimesOut, TypeOK
<1>10. CASE TimedOut
  BY <1>10 DEF TimedOut, AfterTimeout, Least, TypeOK
<1>11. ASSUME NEW found \in BOOLEAN, NEW e \in Errors \cup {"0"}, Lookup(found, e)
       PROVE  TypeOK'
  BY <1>11 DEF Lookup, TypeOK, Control
<1>12. CASE UseLookup
  <2>1. /\ crash' \in {crash, "null"} /\ tpc' \in {tpc, "exit", "request"}
        /\ rc' \in {rc, "EBUSY"} /\ lookup_rc' = "0" /\ li' = FALSE
    BY <1>12 DEF UseLookup
  <2>2. UNCHANGED <<handle, caller, off, size, start, end, bytes_used, buf, reply, chunks,
                    current_chunk, download_offset, seek, lost, resume, buf_start,
                    buf_end, stream>>
    BY <1>12 DEF UseLookup
  <2>3. /\ li' \in BOOLEAN /\ lookup_rc' \in Errors \cup {"0"}
        /\ rc' \in Errors \cup {"0", "uninit"}
    BY <2>1 DEF TypeOK, Errors
  <2>. QED BY <2>1, <2>2, <2>3 DEF TypeOK
<1>13. CASE RequestAccepted
  BY <1>13 DEF RequestAccepted, TypeOK, Control
<1>14. ASSUME NEW e \in Errors, RequestRefused(e)
       PROVE  TypeOK'
  BY <1>14 DEF RequestRefused, TypeOK
<1>15. ASSUME NEW n \in 1 .. MaxBuf, Deliver(n)
       PROVE  TypeOK'
  BY <1>15, SizesAssumption DEF Deliver, TypeOK
<1>16. CASE FetchOver
  BY <1>16 DEF FetchOver, TypeOK
<1>17. CASE FetchFails
  BY <1>17 DEF FetchFails, TypeOK, Errors
<1>18. CASE Consume
  BY <1>18, ConsumeType
<1>19. CASE BailToSeek
  BY <1>19 DEF BailToSeek, TypeOK
<1>20. CASE ExitClean
  BY <1>20 DEF ExitClean, TypeOK
<1>21. CASE ExitFailed
  <2>1. CASE current_chunk = NoChunk
    BY <1>21, <2>1 DEF ExitFailed, TypeOK
  <2>2. CASE current_chunk # NoChunk
    <3>1. reply' \in [Reads -> [rc : Errors \cup {"0", "none", "uninit"}, size : Nat]]
      BY <1>21, <2>2 DEF ExitFailed, Refused, TypeOK
    <3>2. chunks' \subseteq Reads /\ current_chunk' \in Reads \cup {NoChunk} /\ tpc' = "delete"
      BY <1>21, <2>2 DEF ExitFailed
    <3>3. UNCHANGED <<callerVars, chunkVars, download_offset, seek, lost, resume, rc, fetchVars, crash>>
      BY <1>21 DEF ExitFailed
    <3>. QED BY <3>1, <3>2, <3>3 DEF callerVars, chunkVars, fetchVars, TypeOK
  <2>. QED BY <2>1, <2>2
<1>22. CASE thread_delete
  BY <1>22 DEF thread_delete, TypeOK
<1>23. CASE UNCHANGED vars
  BY <1>23 DEF vars, TypeOK
<1>. QED BY <1>1, <1>2, <1>3, <1>4, <1>5, <1>6, <1>7, <1>8, <1>9, <1>10, <1>11, <1>12,
            <1>13, <1>14, <1>15, <1>16, <1>17, <1>18, <1>19, <1>20, <1>21, <1>22, <1>23
         DEF Next, DownloadThread, ThreadSteps, RemoteSteps, FuseThreads

(***************************************************************************)
(* Every step keeps the facts about the chunk in hand.                     *)
(***************************************************************************)
LEMMA NextControl == TypeOK /\ Control /\ [Next]_vars => Control'
<1>. SUFFICES ASSUME TypeOK, Control, [Next]_vars
              PROVE  Control'
  OBVIOUS
<1>. USE DEF callerVars, chunkVars, fetchVars
<1>1. CASE fsfuse_open
  BY <1>1 DEF fsfuse_open, Control, TypeOK
<1>2. ASSUME NEW r \in Reads, NEW o \in Offsets, NEW s \in Sizes, fsfuse_read(r, o, s)
      PROVE  Control'
  <2>1. UNCHANGED <<tpc, current_chunk, rc, seek, chunks>> /\ crash' \in {crash, "freed", "range"}
    BY <1>2 DEF fsfuse_read
  <2>. QED BY <2>1 DEF Control, TypeOK
<1>3. ASSUME NEW r \in Reads, downloader_chunk_add(r)
      PROVE  Control'
  <2>1. UNCHANGED <<current_chunk, rc, seek>>
    BY <1>3 DEF downloader_chunk_add
  <2>2. CASE tpc = "gone"
    BY <1>3, <2>1, <2>2 DEF downloader_chunk_add, Control
  <2>3. CASE tpc # "gone"
    BY <1>3, <2>1, <2>3 DEF downloader_chunk_add, AfterSignal, Control
  <2>. QED BY <2>2, <2>3
<1>4. CASE fsfuse_release
  BY <1>4 DEF fsfuse_release, Control
<1>5. CASE LoopTop
  BY <1>5 DEF LoopTop, Control, TypeOK
<1>6. CASE GotChunk
  BY <1>6, NoChunkAssumption DEF GotChunk, Least, WithChunk, Control, TypeOK
<1>7. CASE WaitForChunk
  BY <1>7 DEF WaitForChunk, Control
<1>8. CASE WaitEnds
  BY <1>8 DEF WaitEnds, Control
<1>9. CASE WaitTimesOut
  BY <1>9 DEF WaitTimesOut, Control
<1>10. CASE TimedOut
  <2>1. /\ tpc = "expired" /\ tpc' \in {"exit", "top"}
        /\ UNCHANGED <<current_chunk, seek, crash>>
    BY <1>10 DEF TimedOut, AfterTimeout
  <2>. QED BY <2>1 DEF Control
<1>11. ASSUME NEW found \in BOOLEAN, NEW e \in Errors \cup {"0"}, Lookup(found, e)
       PROVE  Control'
  BY <1>11 DEF Lookup, Control
<1>12. CASE UseLookup
  <2>1. /\ tpc = "looked" /\ UNCHANGED <<current_chunk, seek, chunks>>
        /\ \/ tpc' = "exit" /\ rc' = "EBUSY" /\ crash' = crash
           \/ tpc' = "request" /\ crash' = crash
           \/ tpc' = tpc /\ crash' = "null"
    BY <1>12 DEF UseLookup
  <2>. QED BY <2>1 DEF Control, Errors
<1>13. CASE RequestAccepted
  BY <1>13 DEF RequestAccepted, Control
<1>14. ASSUME NEW e \in Errors, RequestRefused(e)
       PROVE  Control'
  BY <1>14 DEF RequestRefused, Control
<1>15. ASSUME NEW n \in 1 .. MaxBuf, Deliver(n)
       PROVE  Control'
  BY <1>15 DEF Deliver, Control
<1>16. CASE FetchOver
  BY <1>16 DEF FetchOver, Control
<1>17. CASE FetchFails
  BY <1>17 DEF FetchFails, Control, Errors
<1>18. CASE Consume
  <2>. DEFINE c == current_chunk
              n == MinOf(buf_end - buf_start, end[c] - start[c])
              bufDone == buf_start + n = buf_end
              chunkDone == start[c] + n = end[c]
  <2>1. c \in Reads
    BY <1>18 DEF TypeOK, Control, Consume
  <2>2. bufDone \/ chunkDone
    BY <2>1 DEF TypeOK, MinOf
  <2>3. /\ tpc = "consume"
        /\ current_chunk' = (IF chunkDone THEN NoChunk ELSE c)
        /\ tpc' = (IF bufDone THEN "fetch" ELSE "get")
        /\ UNCHANGED <<seek, chunks, crash, rc>>
    BY <1>18 DEF Consume
  <2>. HIDE DEF bufDone, chunkDone, n, c
  <2>. QED BY <2>2, <2>3 DEF Control
<1>19. CASE BailToSeek
  BY <1>19 DEF BailToSeek, Control
<1>20. CASE ExitClean
  BY <1>20 DEF ExitClean, Control, Errors
<1>21. CASE ExitFailed
  BY <1>21 DEF ExitFailed, Control
<1>22. CASE thread_delete
  BY <1>22 DEF thread_delete, Control
<1>23. CASE UNCHANGED vars
  BY <1>23 DEF vars, Control
<1>. QED BY <1>1, <1>2, <1>3, <1>4, <1>5, <1>6, <1>7, <1>8, <1>9, <1>10, <1>11, <1>12,
            <1>13, <1>14, <1>15, <1>16, <1>17, <1>18, <1>19, <1>20, <1>21, <1>22, <1>23
         DEF Next, DownloadThread, ThreadSteps, RemoteSteps, FuseThreads

(***************************************************************************)
(* Every step keeps one owner per chunk.                                   *)
(***************************************************************************)
LEMMA OwnedUnchanged ==
  ASSUME Owned, UNCHANGED <<caller, chunks, current_chunk, reply, lost>>
  PROVE  Owned'
BY DEF Owned, Answered

\* Every step keeps each accepted chunk with exactly one owner.
LEMMA NextOwned == TypeOK /\ Control /\ Owned /\ [Next]_vars => Owned'
<1>. SUFFICES ASSUME TypeOK, Control, Owned, [Next]_vars
              PROVE  Owned'
  OBVIOUS
<1>. USE DEF callerVars, chunkVars, fetchVars
<1>1. CASE \/ fsfuse_open \/ fsfuse_release \/ LoopTop \/ WaitForChunk \/ WaitEnds
           \/ WaitTimesOut \/ UseLookup \/ RequestAccepted \/ FetchOver
           \/ FetchFails \/ BailToSeek \/ ExitClean \/ thread_delete \/ UNCHANGED vars
  <2>1. UNCHANGED <<caller, chunks, current_chunk, reply, lost>>
    BY <1>1 DEF fsfuse_open, fsfuse_release, LoopTop, WaitForChunk, WaitEnds,
                WaitTimesOut, UseLookup, RequestAccepted, FetchOver, FetchFails,
                BailToSeek, ExitClean, thread_delete, vars
  <2>. QED BY <2>1, OwnedUnchanged
<1>2. ASSUME NEW r \in Reads, NEW o \in Offsets, NEW s \in Sizes, fsfuse_read(r, o, s)
      PROVE  Owned'
  <2>1. UNCHANGED <<chunks, current_chunk, reply, lost>>
    BY <1>2 DEF fsfuse_read
  <2>2. \A q \in Reads : (caller'[q] = "queued") <=> (caller[q] = "queued")
    BY <1>2 DEF fsfuse_read, TypeOK
  <2>. QED BY <2>1, <2>2 DEF Owned, Answered
<1>3. ASSUME NEW r \in Reads, downloader_chunk_add(r)
      PROVE  Owned'
  <2>1. CASE tpc = "gone"
    <3>1. UNCHANGED <<caller, chunks, current_chunk, reply, lost>>
      BY <1>3, <2>1 DEF downloader_chunk_add
    <3>. QED BY <3>1, OwnedUnchanged
  <2>2. CASE tpc # "gone"
    <3>1. /\ caller[r] = "checked" /\ caller' = [caller EXCEPT ![r] = "queued"]
          /\ chunks' = chunks \cup {r} /\ UNCHANGED <<current_chunk, reply, lost>>
      BY <1>3, <2>2 DEF downloader_chunk_add
    <3>2. /\ r \notin chunks /\ r # current_chunk /\ ~Answered(r) /\ r \notin lost
          /\ caller'[r] = "queued" /\ \A q \in Reads : q # r => caller'[q] = caller[q]
      BY <3>1 DEF Owned, TypeOK
    <3>. QED BY <3>1, <3>2 DEF Owned, Answered
  <2>. QED BY <2>1, <2>2
<1>4. CASE GotChunk
  <2>1. PICK r \in Least : chunks' = chunks \ {r} /\ current_chunk' = r
    BY <1>4 DEF GotChunk
  <2>2. r \in chunks /\ current_chunk = NoChunk /\ UNCHANGED <<caller, reply, lost>>
    BY <1>4, <2>1 DEF GotChunk, Least, Control
  <2>. QED BY <2>1, <2>2, NoChunkAssumption DEF Owned, Answered
<1>5. CASE TimedOut
  <2>1. UNCHANGED <<caller, reply, current_chunk>> /\ current_chunk = NoChunk
    BY <1>5 DEF TimedOut, Control
  <2>2. CASE chunks = {}
    <3>1. UNCHANGED <<chunks, lost>>
      BY <1>5, <2>2 DEF TimedOut
    <3>. QED BY <2>1, <3>1, OwnedUnchanged
  <2>3. CASE chunks # {}
    <3>1. PICK r \in Least : chunks' = chunks \ {r} /\ lost' = lost \cup {r}
      BY <1>5, <2>3 DEF TimedOut
    <3>2. r \in chunks
      BY <3>1 DEF Least
    <3>. QED BY <2>1, <3>1, <3>2, NoChunkAssumption DEF Owned, Answered
  <2>. QED BY <2>2, <2>3
<1>6. ASSUME NEW found \in BOOLEAN, NEW e \in Errors \cup {"0"}, Lookup(found, e)
      PROVE  Owned'
  <2>1. UNCHANGED <<caller, chunks, current_chunk, reply, lost>>
    BY <1>6 DEF Lookup
  <2>. QED BY <2>1, OwnedUnchanged
<1>7. ASSUME NEW e \in Errors, RequestRefused(e)
      PROVE  Owned'
  <2>1. UNCHANGED <<caller, chunks, current_chunk, reply, lost>>
    BY <1>7 DEF RequestRefused
  <2>. QED BY <2>1, OwnedUnchanged
<1>8. ASSUME NEW n \in 1 .. MaxBuf, Deliver(n)
      PROVE  Owned'
  <2>1. UNCHANGED <<caller, chunks, current_chunk, reply, lost>>
    BY <1>8 DEF Deliver
  <2>. QED BY <2>1, OwnedUnchanged
<1>9. CASE Consume
  <2>. DEFINE c == current_chunk
              n == MinOf(buf_end - buf_start, end[c] - start[c])
              done == start[c] + n = end[c]
  <2>1. c \in Reads /\ c # NoChunk
    BY <1>9, NoChunkAssumption DEF TypeOK, Control, Consume
  <2>2. UNCHANGED <<caller, chunks, lost>>
    BY <1>9 DEF Consume
  <2>3. CASE done
    <3>1. /\ reply' = [reply EXCEPT ![c] = [rc |-> "0", size |-> bytes_used[c] + n]]
          /\ current_chunk' = NoChunk
      BY <1>9, <2>3 DEF Consume, AnswerNow
    <3>2. /\ reply'[c] # NoReply
          /\ \A q \in Reads : q # c => reply'[q] = reply[q]
      BY <2>1, <3>1 DEF NoReply, TypeOK
    <3>. QED BY <2>1, <2>2, <3>1, <3>2, NoChunkAssumption DEF Owned, Answered
  <2>4. CASE ~done
    <3>1. UNCHANGED <<reply, current_chunk>>
      BY <1>9, <2>4 DEF Consume, AnswerNow
    <3>. QED BY <2>2, <3>1, OwnedUnchanged
  <2>. QED BY <2>3, <2>4
<1>10. CASE ExitFailed
  <2>1. UNCHANGED <<caller, lost>>
    BY <1>10 DEF ExitFailed
  <2>2. CASE current_chunk = NoChunk
    <3>1. UNCHANGED <<chunks, current_chunk, reply>>
      BY <1>10, <2>2 DEF ExitFailed
    <3>. QED BY <2>1, <3>1, OwnedUnchanged
  <2>3. CASE current_chunk # NoChunk
    <3>1. /\ reply' = Refused(chunks \cup {current_chunk}, rc)
          /\ chunks' = {} /\ current_chunk' = NoChunk
      BY <1>10, <2>3 DEF ExitFailed
    <3>2. [rc |-> rc, size |-> 0] # NoReply
      BY <1>10, <2>3 DEF ExitFailed, Control, Errors, NoReply
    <3>3. \A q \in Reads : reply'[q] = IF q \in chunks \cup {current_chunk}
                                        THEN [rc |-> rc, size |-> 0] ELSE reply[q]
      BY <3>1 DEF Refused
    <3>. QED BY <2>1, <3>1, <3>2, <3>3, NoChunkAssumption DEF Owned, Answered
  <2>. QED BY <2>2, <2>3
<1>. QED BY <1>1, <1>2, <1>3, <1>4, <1>5, <1>6, <1>7, <1>8, <1>9, <1>10
         DEF Next, DownloadThread, ThreadSteps, RemoteSteps, FuseThreads

(***************************************************************************)
(* Every step keeps the data of the chunks, and the stream aligned.        *)
(***************************************************************************)
LEMMA ProgressUnchanged ==
  ASSUME Progress, UNCHANGED <<caller, off, size, start, end, bytes_used, buf, reply>>
  PROVE  Progress'
BY DEF Progress, ChunkData, Due

\* fsfuse_read makes a chunk of exactly the range that is due.
LEMMA ReadProgress ==
  ASSUME Inv, NEW r \in Reads, NEW o \in Offsets, NEW s \in Sizes,
         fsfuse_read(r, o, s)
  PROVE  Progress'
<1>1. o \in Nat /\ s \in Nat
  BY SizesAssumption
<1>2. /\ caller[r] = "none"
      /\ off' = [off EXCEPT ![r] = o] /\ size' = [size EXCEPT ![r] = s]
      /\ UNCHANGED <<bytes_used, buf, reply>>
  BY DEF fsfuse_read
<1>3. bytes_used[r] = 0 /\ reply[r].rc # "0"
  BY <1>2 DEF Inv, Progress, ChunkData
<1>4. /\ off'[r] = o /\ size'[r] = s
      /\ \A q \in Reads : q # r => off'[q] = off[q] /\ size'[q] = size[q]
  BY <1>2 DEF Inv, TypeOK
<1>5. CASE tpc # "gone" /\ RangeOK(o, o + clamp(o, s))
  <2>1. /\ caller' = [caller EXCEPT ![r] = "checked"]
        /\ start' = [start EXCEPT ![r] = o]
        /\ end' = [end EXCEPT ![r] = o + clamp(o, s)]
    BY <1>5 DEF fsfuse_read
  <2>2. /\ caller'[r] = "checked" /\ start'[r] = o /\ end'[r] = o + clamp(o, s)
        /\ \A q \in Reads : q # r => /\ caller'[q] = caller[q]
                                     /\ start'[q] = start[q] /\ end'[q] = end[q]
    BY <2>1 DEF Inv, TypeOK
  <2>3. clamp(o, s) = IF o >= FileSize THEN 0 ELSE MinOf(s, FileSize - o)
    BY <1>1, <1>5, ClampFacts
  <2>4. ChunkData(r)'
    BY <1>1, <1>2, <1>3, <1>4, <2>2, <2>3 DEF ChunkData, Due
  <2>5. ASSUME NEW q \in Reads, q # r PROVE ChunkData(q)'
    BY <1>2, <1>4, <2>2, <2>5 DEF Inv, Progress, ChunkData, Due
  <2>. QED BY <2>4, <2>5 DEF Progress
<1>6. CASE ~(tpc # "gone" /\ RangeOK(o, o + clamp(o, s)))
  <2>1. UNCHANGED <<caller, start, end>>
    BY <1>6 DEF fsfuse_read
  <2>2. ChunkData(r)'
    BY <1>2, <1>3, <2>1 DEF ChunkData
  <2>3. ASSUME NEW q \in Reads, q # r PROVE ChunkData(q)'
    BY <1>2, <1>4, <2>1, <2>3 DEF Inv, Progress, ChunkData, Due
  <2>. QED BY <2>2, <2>3 DEF Progress
<1>. QED BY <1>5, <1>6

\* An iteration of buf_consumer copies the right bytes to the right place
\* and keeps the thread's idea of the offset true to the stream.
LEMMA ConsumeProgress ==
  ASSUME Inv, Consume
  PROVE  Progress' /\ Aligned'
<1>. DEFINE c == current_chunk
            n == MinOf(buf_end - buf_start, end[c] - start[c])
            bufDone == buf_start + n = buf_end
            chunkDone == start[c] + n = end[c]
<1>1. c \in Reads /\ caller[c] = "queued" /\ reply[c].rc # "0"
  <2>1. c \in Reads
    BY DEF Inv, TypeOK, Control, Consume
  <2>2. caller[c] = "queued" /\ reply[c] = NoReply
    BY <2>1 DEF Inv, Owned, Answered
  <2>. QED BY <2>1, <2>2 DEF NoReply
<1>2. /\ n \in Nat /\ bytes_used[c] \in Nat /\ stream \in Nat /\ off[c] \in Nat
      /\ start[c] \in Nat /\ end[c] \in Nat /\ buf_start \in Nat /\ buf_end \in Nat
      /\ start[c] + n <= end[c] /\ end[c] <= FileSize /\ FileSize \in Nat
      /\ start[c] = off[c] + bytes_used[c] /\ end[c] = off[c] + Due(c)
      /\ start[c] = buf_start /\ buf_end = stream
      /\ \A i \in 0 .. bytes_used[c] - 1 : buf[c][i] = off[c] + i
  <2>1. tpc = "consume" /\ start[c] = buf_start
    BY DEF Consume
  <2>2. buf_end = stream
    BY <2>1 DEF Inv, Aligned
  <2>3. ChunkData(c)
    BY <1>1 DEF Inv, Progress
  <2>. QED BY <1>1, <2>1, <2>2, <2>3, SizesAssumption DEF Inv, TypeOK, MinOf, ChunkData
<1>3. /\ buf' = [buf EXCEPT ![c] = Filled(c, n)]
      /\ bytes_used' = [bytes_used EXCEPT ![c] = @ + n]
      /\ start' = [start EXCEPT ![c] = @ + n]
      /\ reply' = IF chunkDone
                    THEN [reply EXCEPT ![c] = [rc |-> "0", size |-> bytes_used[c] + n]]
                    ELSE reply
      /\ tpc' = (IF bufDone THEN "fetch" ELSE "get")
      /\ download_offset' = (IF bufDone THEN buf_end ELSE download_offset)
      /\ UNCHANGED <<caller, off, size, end, buf_end, stream, resume>>
  BY DEF Consume, callerVars, AnswerNow, OffsetAfter
<1>4. \A i \in 0 .. bytes_used[c] + n - 1 : Filled(c, n)[i] = off[c] + i
  <2>. SUFFICES ASSUME NEW i \in 0 .. bytes_used[c] + n - 1
                PROVE  Filled(c, n)[i] = off[c] + i
    OBVIOUS
  <2>. HIDE DEF c, n
  <2>1. i \in 0 .. FileSize - 1
    BY <1>2
  <2>2. Filled(c, n)[i] = IF i >= bytes_used[c] /\ i < bytes_used[c] + n
                            THEN stream - (buf_end - buf_start) + (i - bytes_used[c])
                            ELSE buf[c][i]
    BY <2>1 DEF Filled
  <2>. QED BY <1>2, <2>1, <2>2
<1>. HIDE DEF c, n, bufDone
<1>5. /\ buf'[c] = Filled(c, n) /\ bytes_used'[c] = bytes_used[c] + n
      /\ start'[c] = start[c] + n
      /\ chunkDone => reply'[c] = [rc |-> "0", size |-> bytes_used[c] + n]
      /\ ~chunkDone => reply'[c] = reply[c]
      /\ \A q \in Reads : q # c => /\ buf'[q] = buf[q] /\ bytes_used'[q] = bytes_used[q]
                                   /\ start'[q] = start[q] /\ reply'[q] = reply[q]
  BY <1>1, <1>3 DEF Inv, TypeOK
<1>6. PICK d \in Reads : d = c
  BY <1>1
<1>7. ChunkData(d)'
  <2>1. Due(d)' = Due(d)
    BY <1>3 DEF Due
  <2>. QED BY <1>1, <1>2, <1>3, <1>4, <1>5, <1>6, <2>1 DEF ChunkData
<1>8. ASSUME NEW q \in Reads, q # d PROVE ChunkData(q)'
  BY <1>3, <1>5, <1>6, <1>8 DEF Inv, Progress, ChunkData, Due
<1>9. Progress'
  BY <1>7, <1>8 DEF Progress
<1>10. Aligned'
  BY <1>2, <1>3 DEF Aligned
<1>. QED BY <1>9, <1>10

\* Every step keeps the chunks' contents and the offsets right.
LEMMA NextData == Inv /\ [Next]_vars => Progress' /\ Aligned'
<1>. SUFFICES ASSUME Inv, [Next]_vars
              PROVE  Progress' /\ Aligned'
  OBVIOUS
<1>. USE DEF callerVars, chunkVars, fetchVars
<1>1. CASE \/ fsfuse_open \/ fsfuse_release \/ LoopTop \/ GotChunk \/ WaitForChunk
           \/ WaitEnds \/ WaitTimesOut \/ TimedOut \/ UseLookup \/ RequestAccepted
           \/ FetchOver \/ FetchFails \/ BailToSeek \/ ExitClean \/ thread_delete
           \/ UNCHANGED vars
  <2>1. UNCHANGED <<caller, off, size, start, end, bytes_used, buf, reply>>
    BY <1>1 DEF fsfuse_open, fsfuse_release, LoopTop, GotChunk, WaitForChunk, WaitEnds,
                WaitTimesOut, TimedOut, UseLookup, RequestAccepted, FetchOver,
                FetchFails, BailToSeek, ExitClean, thread_delete, vars
  <2>2. Progress'
    BY <2>1, ProgressUnchanged DEF Inv
  <2>3. CASE fsfuse_open \/ LoopTop \/ FetchOver \/ FetchFails \/ BailToSeek
             \/ ExitClean \/ thread_delete
    <3>1. CASE LoopTop
      BY <2>2, <3>1 DEF LoopTop, Aligned
    <3>2. CASE ~LoopTop
      <4>1. tpc' \in {"top", "exit", "delete", "gone"}
        BY <2>3, <3>2 DEF fsfuse_open, FetchOver, FetchFails, BailToSeek, ExitClean,
                          thread_delete
      <4>. QED BY <2>2, <4>1 DEF Aligned
    <3>. QED BY <3>1, <3>2
  <2>4. CASE fsfuse_release \/ UNCHANGED vars
    BY <2>2, <2>4 DEF fsfuse_release, vars, Inv, Aligned
  <2>5. CASE GotChunk
    BY <2>2, <2>5 DEF GotChunk, WithChunk, Inv, TypeOK, Aligned
  <2>6. CASE WaitForChunk \/ WaitEnds \/ WaitTimesOut
    BY <2>2, <2>6 DEF WaitForChunk, WaitEnds, WaitTimesOut, Inv, Aligned
  <2>7. CASE TimedOut
    <3>1. tpc' \in {"exit", "top"}
      BY <2>7 DEF TimedOut, AfterTimeout
    <3>. QED BY <2>2, <3>1 DEF Aligned
  <2>8. CASE UseLookup
    <3>1. /\ tpc = "looked" /\ tpc' \in {"exit", "request", tpc}
          /\ UNCHANGED <<download_offset, start, current_chunk, resume>>
      BY <2>8 DEF UseLookup
    <3>. QED BY <2>2, <3>1 DEF Inv, Aligned
  <2>9. CASE RequestAccepted
    BY <2>2, <2>9 DEF RequestAccepted, Inv, Aligned
  <2>. QED BY <1>1, <2>3, <2>4, <2>5, <2>6, <2>7, <2>8, <2>9
<1>2. ASSUME NEW r \in Reads, NEW o \in Offsets, NEW s \in Sizes, fsfuse_read(r, o, s)
      PROVE  Progress' /\ Aligned'
  <2>1. UNCHANGED <<tpc, resume, download_offset, current_chunk, stream, buf_end>>
    BY <1>2 DEF fsfuse_read
  <2>2. tpc \in {"looked", "request"} => start'[current_chunk] = start[current_chunk]
    <3>. SUFFICES ASSUME tpc \in {"looked", "request"}
                  PROVE  start'[current_chunk] = start[current_chunk]
      OBVIOUS
    <3>1. current_chunk \in Reads /\ caller[current_chunk] = "queued"
      BY DEF Inv, TypeOK, Control, Owned
    <3>2. current_chunk # r /\ (start' = start \/ start' = [start EXCEPT ![r] = o])
      BY <1>2, <3>1 DEF fsfuse_read
    <3>. QED BY <3>1, <3>2 DEF Inv, TypeOK
  <2>. QED BY <1>2, <2>1, <2>2, ReadProgress DEF Inv, Aligned
<1>3. ASSUME NEW r \in Reads, downloader_chunk_add(r)
      PROVE  Progress' /\ Aligned'
  <2>1. /\ UNCHANGED <<off, size, start, end, bytes_used, buf, reply, current_chunk,
                       download_offset, resume, buf_end, stream>>
        /\ caller[r] = "checked"
        /\ caller' = caller \/ caller' = [caller EXCEPT ![r] = "queued"]
        /\ tpc' = tpc \/ (tpc = "waiting" /\ tpc' = "woken")
    <3>1. CASE tpc = "gone"
      BY <1>3, <3>1 DEF downloader_chunk_add
    <3>2. CASE tpc # "gone"
      BY <1>3, <3>2 DEF downloader_chunk_add, AfterSignal
    <3>. QED BY <3>1, <3>2
  <2>2. \A q \in Reads : ChunkData(q)'
    BY <2>1 DEF Inv, TypeOK, Progress, ChunkData, Due
  <2>. QED BY <2>1, <2>2 DEF Inv, Progress, Aligned
<1>4. ASSUME NEW found \in BOOLEAN, NEW e \in Errors \cup {"0"}, Lookup(found, e)
      PROVE  Progress' /\ Aligned'
  BY <1>4, ProgressUnchanged DEF Lookup, Inv, Aligned
<1>5. ASSUME NEW e \in Errors, RequestRefused(e)
      PROVE  Progress' /\ Aligned'
  BY <1>5, ProgressUnchanged DEF RequestRefused, Inv, Aligned
<1>6. ASSUME NEW n \in 1 .. MaxBuf, Deliver(n)
      PROVE  Progress' /\ Aligned'
  BY <1>6, ProgressUnchanged, SizesAssumption DEF Deliver, Inv, TypeOK, Aligned
<1>7. CASE Consume
  BY <1>7, ConsumeProgress
<1>8. CASE ExitFailed
  <2>1. /\ UNCHANGED <<caller, off, size, start, end, bytes_used, buf>>
        /\ tpc' = "delete"
    BY <1>8 DEF ExitFailed
  <2>2. \A q \in Reads : reply'[q] = reply[q] \/ reply'[q].rc # "0"
    BY <1>8 DEF ExitFailed, Refused, Inv, Control, Errors
  <2>3. \A q \in Reads : ChunkData(q)'
    BY <2>1, <2>2 DEF Inv, Progress, ChunkData, Due
  <2>. QED BY <2>1, <2>3 DEF Progress, Aligned
<1>. QED BY <1>1, <1>2, <1>3, <1>4, <1>5, <1>6, <1>7, <1>8
         DEF Next, DownloadThread, ThreadSteps, RemoteSteps, FuseThreads

-----------------------------------------------------------------------------
\* The inductive invariant holds before the file is opened,
LEMMA InitInv == Init => Inv
<1>. SUFFICES ASSUME Init PROVE Inv
  OBVIOUS
<1>1. TypeOK
  <2>1. /\ off \in [Reads -> Nat] /\ size \in [Reads -> Nat]
        /\ start \in [Reads -> Nat] /\ end \in [Reads -> Nat]
        /\ \A r \in Reads : start[r] <= end[r] /\ end[r] <= FileSize
        /\ bytes_used \in [Reads -> Nat]
        /\ caller \in [Reads -> {"none", "checked", "queued"}]
    BY SizesAssumption DEF Init
  <2>2. buf \in [Reads -> [Positions -> Int]]
    BY DEF Init, Positions, Junk
  <2>3. reply \in [Reads -> [rc : Errors \cup {"0", "none", "uninit"}, size : Nat]]
    BY DEF Init, NoReply
  <2>4. /\ chunks \subseteq Reads /\ lost \subseteq Reads
        /\ current_chunk \in Reads \cup {NoChunk}
        /\ download_offset \in Nat /\ buf_start \in Nat /\ buf_end \in Nat
        /\ stream \in Nat /\ buf_start <= buf_end
    BY DEF Init
  <2>5. seek \in BOOLEAN /\ li \in BOOLEAN
    BY DEF Init
  <2>. QED BY <2>1, <2>2, <2>3, <2>4, <2>5 DEF Init, TypeOK
<1>2. Control /\ Aligned
  BY DEF Init, Control, Aligned
<1>3. Owned
  BY NoChunkAssumption DEF Init, Owned, Answered
<1>4. Progress
  BY DEF Init, Progress, ChunkData, NoReply
<1>. QED BY <1>1, <1>2, <1>3, <1>4 DEF Inv

\* every step keeps it,
LEMMA NextInv == Inv /\ [Next]_vars => Inv'
BY NextType, NextControl, NextOwned, NextData DEF Inv

\* and so it always holds.
LEMMA Invariance == Spec => []Inv
<1>1. Inv /\ [Next]_vars => Inv'
  BY NextInv
<1>. QED BY <1>1, InitInv, PTL DEF Spec

(***************************************************************************)
(* Type correctness of the open file, its chunks and its download thread.  *)
(***************************************************************************)
THEOREM TypeCorrect == Spec => []TypeOK
<1>1. Inv => TypeOK
  BY DEF Inv
<1>. QED BY <1>1, Invariance, PTL

(***************************************************************************)
(* A read that succeeds returned the bytes it asked for, for every number  *)
(* of concurrent reads, every file size and every way libcurl may cut the  *)
(* body up (fsfuse_read, buf_consumer).                                    *)
(***************************************************************************)
THEOREM ReadsAreExact == Spec => []ReadIntegrity
<1>1. Inv => ReadIntegrity
  <2>. SUFFICES ASSUME Inv, NEW r \in Reads, reply[r].rc = "0"
                PROVE  /\ reply[r].size = Due(r)
                       /\ \A i \in 0 .. reply[r].size - 1 : buf[r][i] = off[r] + i
    BY DEF ReadIntegrity
  <2>1. ChunkData(r)
    BY DEF Inv, Progress
  <2>2. /\ off[r] \in Nat /\ size[r] \in Nat /\ bytes_used[r] \in Nat
        /\ Due(r) \in Int
    BY SizesAssumption DEF Inv, TypeOK, Due, MinOf
  <2>. QED BY <2>1, <2>2 DEF ChunkData
<1>. QED BY <1>1, Invariance, PTL

(***************************************************************************)
(* Every accepted chunk is in the queue, in hand, answered or dropped, and *)
(* in one of them only (downloader_chunk_add to signal_read_thread).       *)
(***************************************************************************)
THEOREM ChunksHaveOneOwner == Spec => []OneOwner
<1>1. Inv => OneOwner
  BY DEF Inv, Owned, OneOwner
<1>. QED BY <1>1, Invariance, PTL

(***************************************************************************)
(* The signal of downloader_chunk_add is never lost on a thread that has   *)
(* decided to wait.                                                        *)
(***************************************************************************)
THEOREM WakeupsAreKept == Spec => []NoLostWakeup
<1>1. Inv => NoLostWakeup
  BY DEF Inv, Control, NoLostWakeup
<1>. QED BY <1>1, Invariance, PTL

(***************************************************************************)
(* The asserts of downloader.c about current_chunk (139, 318, 385) hold.   *)
(***************************************************************************)
THEOREM AssertsHold == Spec => []InHandAsserts
<1>1. Inv => InHandAsserts
  BY DEF Inv, Control, InHandAsserts
<1>. QED BY <1>1, Invariance, PTL

(***************************************************************************)
(* The thread frees itself only after every accepted read was answered or  *)
(* dropped.                                                                *)
(***************************************************************************)
THEOREM NobodyStranded == Spec => []NoneStranded
<1>1. Inv => NoneStranded
  BY NoChunkAssumption DEF Inv, Control, Owned, NoneStranded
<1>. QED BY <1>1, Invariance, PTL

(***************************************************************************)
(* Only the chunk in hand, and at the end the queued ones, are written or  *)
(* answered, and none of those has an owner in the replies.                *)
(***************************************************************************)
LEMMA StepKeepsAnswers ==
  ASSUME Inv, [Next]_vars, NEW r \in Reads, Answered(r)
  PROVE  reply'[r] = reply[r] /\ buf'[r] = buf[r]
<1>. USE DEF callerVars, chunkVars, fetchVars
<1>1. r # current_chunk /\ r \notin chunks
  BY DEF Inv, Owned
<1>2. CASE Consume
  <2>1. current_chunk \in Reads
    BY <1>2 DEF Inv, TypeOK, Control, Consume
  <2>. QED BY <1>1, <1>2, <2>1 DEF Consume, Inv, TypeOK
<1>3. CASE ExitFailed
  BY <1>1, <1>3 DEF ExitFailed, Refused
<1>4. CASE ~Consume /\ ~ExitFailed
  <2>1. ASSUME NEW q \in Reads, NEW o \in Offsets, NEW s \in Sizes, fsfuse_read(q, o, s)
        PROVE  UNCHANGED <<reply, buf>>
    BY <2>1 DEF fsfuse_read
  <2>2. ASSUME NEW q \in Reads, downloader_chunk_add(q)
        PROVE  UNCHANGED <<reply, buf>>
    BY <2>2 DEF downloader_chunk_add
  <2>3. ASSUME NEW found \in BOOLEAN, NEW e \in Errors \cup {"0"}, Lookup(found, e)
        PROVE  UNCHANGED <<reply, buf>>
    BY <2>3 DEF Lookup
  <2>4. ASSUME NEW e \in Errors, RequestRefused(e)
        PROVE  UNCHANGED <<reply, buf>>
    BY <2>4 DEF RequestRefused
  <2>5. ASSUME NEW n \in 1 .. MaxBuf, Deliver(n)
        PROVE  UNCHANGED <<reply, buf>>
    BY <2>5 DEF Deliver
  <2>6. ASSUME \/ fsfuse_open \/ fsfuse_release \/ LoopTop \/ GotChunk \/ WaitForChunk
               \/ WaitEnds \/ WaitTimesOut \/ TimedOut \/ UseLookup \/ RequestAccepted
               \/ FetchOver \/ FetchFails \/ BailToSeek \/ ExitClean \/ thread_delete
               \/ UNCHANGED vars
        PROVE  UNCHANGED <<reply, buf>>
    BY <2>6 DEF fsfuse_open, fsfuse_release, LoopTop, GotChunk, WaitForChunk, WaitEnds,
                WaitTimesOut, TimedOut, UseLookup, RequestAccepted, FetchOver,
                FetchFails, BailToSeek, ExitClean, thread_delete, vars
  <2>7. UNCHANGED <<reply, buf>>
    BY <1>4, <2>1, <2>2, <2>3, <2>4, <2>5, <2>6 DEF Next, DownloadThread, ThreadSteps, RemoteSteps, FuseThreads
  <2>. QED BY <2>7
<1>. QED BY <1>2, <1>3, <1>4

(***************************************************************************)
(* Once chunk_done has answered a read, neither the answer nor the buffer  *)
(* it frees is touched again: no double fuse_reply, no write after free.   *)
(***************************************************************************)
THEOREM AnswersAreFinal == Spec => AnswersFinal
<1>1. Inv /\ [Next]_vars =>
        [\A r \in Reads : Answered(r) => reply'[r] = reply[r] /\ buf'[r] = buf[r]]_vars
  BY StepKeepsAnswers
<1>. QED BY <1>1, Invariance, PTL DEF Spec, AnswersFinal

-----------------------------------------------------------------------------
\* A process that died does nothing more: every step asks for Alive.
LEMMA DeadStaysDead == ~Alive /\ [Next]_vars => UNCHANGED vars
BY DEF Next, DownloadThread, ThreadSteps, RemoteSteps, FuseThreads, LoopTop, GotChunk, WaitForChunk, WaitEnds,
       WaitTimesOut, TimedOut, Lookup, UseLookup, RequestAccepted, RequestRefused,
       Deliver, FetchOver, FetchFails, Consume, BailToSeek, ExitClean, ExitFailed,
       thread_delete, fsfuse_open, fsfuse_read, downloader_chunk_add, fsfuse_release

\* No step but fsfuse_read fails the asserts of downloader_chunk_add.
LEMMA OnlyReadsCheckRanges ==
  ASSUME Alive, [Next]_vars,
         ~\E r \in Reads, o \in Offsets, s \in Sizes : fsfuse_read(r, o, s)
  PROVE  crash' # "range"
<1>. USE DEF Alive
<1>1. CASE \E r \in Reads : downloader_chunk_add(r)
  BY <1>1 DEF downloader_chunk_add
<1>2. CASE fsfuse_open \/ fsfuse_release \/ LoopTop \/ GotChunk \/ WaitForChunk
  BY <1>2 DEF fsfuse_open, fsfuse_release, LoopTop, GotChunk, WaitForChunk
<1>3. CASE WaitEnds \/ WaitTimesOut \/ TimedOut \/ UseLookup \/ RequestAccepted
  BY <1>3 DEF WaitEnds, WaitTimesOut, TimedOut, UseLookup, RequestAccepted
<1>4. CASE FetchOver \/ FetchFails \/ Consume \/ BailToSeek \/ ExitClean
           \/ ExitFailed \/ thread_delete
  BY <1>4 DEF FetchOver, FetchFails, Consume, BailToSeek, ExitClean, ExitFailed,
              thread_delete
<1>5. CASE \/ \E found \in BOOLEAN, e \in Errors \cup {"0"} : Lookup(found, e)
           \/ \E e \in Errors : RequestRefused(e)
           \/ \E n \in 1 .. MaxBuf : Deliver(n)
  BY <1>5 DEF Lookup, RequestRefused, Deliver
<1>6. CASE UNCHANGED vars
  BY <1>6 DEF vars
<1>. QED BY <1>1, <1>2, <1>3, <1>4, <1>5, <1>6 DEF Next, DownloadThread, ThreadSteps, RemoteSteps, FuseThreads

\* Which ranges fail the asserts of downloader_chunk_add: those that begin
\* beyond the end of the file, and those whose end, counted in 32 bits, seems
\* to lie inside it (read.c:97).  All others, of whatever length, are served.
\* The first are what read.c:88-91 means to answer with no bytes: the size is
\* cut to 0 but the offset is not, and the assert on the start fails.
OnlyBadRangesAssert ==
  crash = "range" =>
    \E r \in Reads :
      /\ caller[r] = "none"
      /\ \/ off[r] > FileSize
         \/ off[r] + size[r] > FileSize /\ (off[r] + size[r]) % UINT_MOD < FileSize

\* A range that the asserts refuse begins beyond the file, or ends beyond it
\* with a sum whose low bits lie inside.
LEMMA RefusedRange ==
  ASSUME NEW o \in Nat, NEW s \in Nat, ~RangeOK(o, o + clamp(o, s))
  PROVE  o > FileSize \/ (o + s > FileSize /\ (o + s) % UINT_MOD < FileSize)
<1>1. FileSize \in Nat /\ UINT_MOD \in Nat \ {0}
  BY SizesAssumption
<1>. DEFINE m == (o + s) % UINT_MOD
<1>2. m \in Nat
  BY <1>1
<1>3. clamp(o, s) = IF o >= FileSize THEN 0 ELSE IF m >= FileSize THEN FileSize - o ELSE s
  BY DEF clamp
<1>. HIDE DEF m
<1>4. o > FileSize \/ (o + s > FileSize /\ m < FileSize)
  BY <1>1, <1>2, <1>3 DEF RangeOK
<1>. QED BY <1>4 DEF m

\* A step that fails the range asserts is a read of a bad range, and nothing
\* happens after it.
LEMMA NextBadRange ==
  TypeOK /\ OnlyBadRangesAssert /\ [Next]_vars => OnlyBadRangesAssert'
<1>. SUFFICES ASSUME TypeOK, OnlyBadRangesAssert, [Next]_vars
              PROVE  OnlyBadRangesAssert'
  OBVIOUS
<1>1. CASE ~Alive
  <2>1. UNCHANGED <<crash, caller, off, size>>
    BY <1>1, DeadStaysDead DEF vars, callerVars
  <2>. QED BY <2>1 DEF OnlyBadRangesAssert
<1>2. CASE Alive /\ ~\E r \in Reads, o \in Offsets, s \in Sizes : fsfuse_read(r, o, s)
  BY <1>2, OnlyReadsCheckRanges DEF OnlyBadRangesAssert
<1>3. ASSUME Alive, NEW r \in Reads, NEW o \in Offsets, NEW s \in Sizes,
             fsfuse_read(r, o, s)
      PROVE  OnlyBadRangesAssert'
  <2>. SUFFICES ASSUME crash' = "range"
                PROVE  /\ caller'[r] = "none"
                       /\ \/ off'[r] > FileSize
                          \/ /\ off'[r] + size'[r] > FileSize
                             /\ (off'[r] + size'[r]) % UINT_MOD < FileSize
    BY DEF OnlyBadRangesAssert
  <2>1. o \in Nat /\ s \in Nat
    BY SizesAssumption
  <2>2. off'[r] = o /\ size'[r] = s
    BY <1>3 DEF fsfuse_read, TypeOK
  <2>3. ~RangeOK(o, o + clamp(o, s)) /\ caller'[r] = "none"
    BY <1>3 DEF fsfuse_read, Alive
  <2>. QED BY <2>1, <2>2, <2>3, RefusedRange
<1>. QED BY <1>1, <1>2, <1>3

(***************************************************************************)
(* The asserts at the head of downloader_chunk_add end the process only on *)
(* a read that begins beyond the file, which read.c:88-91 and the tests    *)
(* would have answered with no bytes, or on one whose end wraps around to  *)
(* lie inside it, for every offset, size, file size and width of the       *)
(* unsigned sum.                                                           *)
(***************************************************************************)
THEOREM OnlyBadRanges == Spec => []OnlyBadRangesAssert
<1>1. Init => OnlyBadRangesAssert
  BY DEF Init, OnlyBadRangesAssert
<1>2. Inv /\ OnlyBadRangesAssert /\ [Next]_vars => OnlyBadRangesAssert'
  BY NextBadRange DEF Inv
<1>. QED BY <1>1, <1>2, Invariance, PTL DEF Spec

(***************************************************************************)
(* What a released file leaves the thread with: no chunk queued or in      *)
(* hand, and no FUSE thread on its way to the queue.                       *)
(***************************************************************************)
Quiet ==
  handle = "released" =>
    /\ crash \in {"none", "deadline"}
    /\ chunks = {} /\ current_chunk = NoChunk
    /\ \A r \in Reads : caller[r] # "checked"

\* Every step keeps a released file quiet.
LEMMA NextQuiet == Inv /\ Quiet /\ [Next]_vars => Quiet'
<1>. SUFFICES ASSUME Inv, Quiet, [Next]_vars, handle' = "released"
              PROVE  /\ crash' \in {"none", "deadline"}
                     /\ chunks' = {} /\ current_chunk' = NoChunk
                     /\ \A r \in Reads : caller'[r] # "checked"
  BY DEF Quiet
<1>. USE DEF callerVars, chunkVars, fetchVars
<1>1. CASE ~Alive \/ UNCHANGED vars
  <2>1. UNCHANGED <<handle, crash, chunks, current_chunk, caller>>
    BY <1>1, DeadStaysDead DEF vars
  <2>. QED BY <2>1 DEF Quiet
<1>2. CASE fsfuse_release
  <2>1. /\ crash' = "none" /\ UNCHANGED <<chunks, current_chunk, caller>>
        /\ \A r \in Reads : caller[r] = "none" \/ Answered(r)
    BY <1>2 DEF fsfuse_release, Alive, Answered
  <2>2. \A r \in Reads : r \notin chunks /\ r # current_chunk /\ caller[r] # "checked"
    BY <2>1 DEF Inv, Owned
  <2>3. chunks = {} /\ current_chunk = NoChunk
    BY <2>2 DEF Inv, TypeOK
  <2>. QED BY <2>1, <2>2, <2>3
<1>3. CASE Alive /\ handle = "released"
  <2>1. /\ chunks = {} /\ current_chunk = NoChunk /\ crash = "none"
        /\ \A r \in Reads : caller[r] # "checked"
        /\ tpc \notin {"lookup", "looked", "request", "consume"}
        /\ ~seek
    BY <1>3 DEF Quiet, Alive, Inv, Control
  <2>2. CASE LoopTop \/ WaitForChunk \/ WaitEnds \/ WaitTimesOut
    BY <2>1, <2>2 DEF LoopTop, WaitForChunk, WaitEnds, WaitTimesOut
  <2>3. CASE FetchOver \/ FetchFails \/ ExitClean \/ ExitFailed \/ thread_delete
    BY <2>1, <2>3 DEF FetchOver, FetchFails, ExitClean, ExitFailed, thread_delete
  <2>4. CASE TimedOut
    BY <2>1, <2>4 DEF TimedOut
  <2>5. ASSUME NEW n \in 1 .. MaxBuf, Deliver(n)
        PROVE  UNCHANGED <<crash, chunks, current_chunk, caller>>
    BY <2>5 DEF Deliver
  <2>6. ~(GotChunk \/ UseLookup \/ RequestAccepted \/ Consume \/ BailToSeek)
    BY <2>1 DEF GotChunk, Least, UseLookup, RequestAccepted, Consume, BailToSeek
  <2>7. /\ \A found \in BOOLEAN, e \in Errors \cup {"0"} : ~Lookup(found, e)
        /\ \A e \in Errors : ~RequestRefused(e)
    BY <2>1 DEF Lookup, RequestRefused
  <2>8. /\ ~fsfuse_open /\ ~fsfuse_release
        /\ \A r \in Reads, o \in Offsets, s \in Sizes : ~fsfuse_read(r, o, s)
        /\ \A r \in Reads : ~downloader_chunk_add(r)
    BY <1>3, <2>1 DEF fsfuse_open, fsfuse_release, fsfuse_read, downloader_chunk_add
  <2>9. CASE UNCHANGED vars
    BY <1>1, <2>9
  <2>. QED BY <2>1, <2>2, <2>3, <2>4, <2>5, <2>6, <2>7, <2>8, <2>9
           DEF Next, DownloadThread, ThreadSteps, RemoteSteps, FuseThreads
<1>4. CASE handle # "released"
  <2>1. fsfuse_release
    BY <1>4 DEF Next, DownloadThread, ThreadSteps, RemoteSteps, FuseThreads, LoopTop, GotChunk, WaitForChunk,
                WaitEnds, WaitTimesOut, TimedOut, Lookup, UseLookup, RequestAccepted,
                RequestRefused, Deliver, FetchOver, FetchFails, Consume, BailToSeek,
                ExitClean, ExitFailed, thread_delete, fsfuse_open, fsfuse_read,
                downloader_chunk_add, vars
  <2>. QED BY <1>2, <2>1
<1>. QED BY <1>1, <1>2, <1>3, <1>4

(***************************************************************************)
(* The thread nobody stops after fsfuse_release runs into none of its      *)
(* asserts, null pointers or freed chunks: the worst left is the deadline  *)
(* that pthread_cond_timedwait refuses.                                    *)
(***************************************************************************)
THEOREM ReleasedIsClean == Spec => []ReleasedEndsCleanly
<1>1. Init => Quiet
  BY DEF Init, Quiet
<1>2. Inv /\ Quiet /\ [Next]_vars => Quiet'
  BY NextQuiet
<1>3. Quiet => ReleasedEndsCleanly
  BY DEF Quiet, ReleasedEndsCleanly
<1>. QED BY <1>1, <1>2, <1>3, Invariance, PTL DEF Spec
=============================================================================
