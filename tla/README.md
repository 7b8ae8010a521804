# fsfuse: TLA+ models and proofs

fsfuse mounts the files that *fs2 indexnodes* publish. This directory models the
parts of it where threads, timeouts and the network meet, model-checks them
with TLC on small instances and proves results about its core with TLAPS for
every instance. Source paths are relative to the repository (`src/downloader/...`);
"line n of read.c" is a line of that file.

## 1. The system

| Component | State it keeps | Operations | Used by |
|---|---|---|---|
| FUSE methods (`src/fuse_methods`) | per open file: `open_file_ctxt_t` (direntry, downloader); per read: `read_context_t` | one handler per kernel request, run on FUSE's threads (one thread with `-s`) | the kernel |
| downloader (`src/downloader`) | per open file: a heap of chunks under `chunks_mutex`/`chunks_cond`, the chunk in hand, the stream offset, flags | `downloader_new`, `downloader_chunk_add`, the thread `downloaderead_main` with libcurl's callback `buf_consumer` | open, read |
| binary heap (`src/binary_heap.c`) | growing array of (int, pointer) | `add`, `trypop`, `delete` | downloader, always under its mutex |
| fetcher (`src/fetcher.c`) | a libcurl handle | blocking HEAD or GET, errors mapped to errno | downloader, indexnode |
| listings, peer choice (`src/nativefs/listing*.c`, `src/peerstats.c`) | immutable, reference counted | fetch alternatives, choose one by configured preference | downloader, direntries |
| direntries, inode map (`src/nativefs`) | a tree grown on demand; inode -> direntry | lookup, children, delete | every FUSE method |
| indexnodes (`src/indexnodes`) | the current list, a readers-writer lock | `indexnodes_get` (expires old nodes), `new_indexnode_event` | statfs; listener and ping threads |
| listener, statics manager, alarms | a thread each, a pipe to stop it | UDP adverts; a ping at half the expiry time | raise `new_indexnode_event` |
| readers-writer lock (`src/locks.c`) | two counters, a mutex, a condition, `locking_thread` | rlock, runlock, wlock, wunlock | indexnodes |
| reference counts (`src/ref_count.c`) | a counter under a mutex | inc, dec | indexnodes, listings, direntries |
| configuration (`src/config`) | a stack of layers behind a singleton | add a layer, get a reader | everyone |
| parsers (`src/parser`) | two automata on XML events | consume | indexnode |
| start-up, tracing, strings, utilities | - | - | - |

How they interact. A `read` call becomes a chunk in the heap of its file; the
FUSE thread returns at once. The download thread pops the chunk with the least
start, asks an indexnode for alternatives, fetches one of them from that offset
and copies the body into that chunk and the next ones; `chunk_done` answers the
kernel on the download thread. Nobody but a timeout ends the thread, and it
frees the downloader itself. Independently, adverts and pings add indexnodes to
a list that FUSE threads copy and prune.

What is hard here: the timeouts that race with new work; a thread that frees
what others point to; a stream that has to be realigned after each seek; the
unlocked fast path of the lock; a list replaced under a read lock; error codes
whose sense differs between caller and callee; `assert`s that are never compiled
out (`NDEBUG` is not defined by any build).

What makes each part correct:

* heap: it is a priority queue whatever the sequence of calls, and never reads a
  slot that was not written;
* downloader: a successful read returns exactly its bytes, each accepted read is
  answered once, an error reaches everyone who waits, the thread ends;
* lock: writers alone, no lost wakeup, never held by nobody;
* indexnodes: the list is never used after it was freed, holds an indexnode once,
  and keeps those that keep advertising;
* reference counts: each reference is dropped once;
* statfs: one answer for each request, the sum over the indexnodes;
* listener, alarms: they run only while what they use is there, and stop when told;
* parsers, peer choice: what is listed is what was sent, what is chosen is permitted;
* configuration: later layers over-ride earlier ones, the command line all of them,
  a reader stays usable;
* main program: what is taken down on a way out was set up before.

## 2. Modules

| Module | Models | Builds on |
|---|---|---|
| `PriorityQueue` | what the downloader expects of a heap (abstract) | |
| `BinaryHeap` | `binary_heap.c`, an action for each loop iteration; implements `PriorityQueue` | `PriorityQueue` |
| `Downloader` | one open file: open, reads, release, and the download thread, with the fetcher and the peer as it meets them | the heap as `BinaryHeap` justifies it |
| `RwLock` | `locks.c` and the threads that use it | |
| `Indexnodes` | `indexnodes.c`, `indexnodes_list.c`, `indexnode.c`, reference counts: the list while FUSE threads copy it and others add to it | `RwLock` (composition: its actions are the lock steps) |
| `Announcers` | the listener, the alarms and their pings, from `indexnodes_new` to `indexnodes_delete` | |
| `ParserXml` | the events that `parser_xml.c` makes of libxml2's calls | |
| `Statfs` | one `statfs` request and the automaton of `parser_stats.c` | `ParserXml` |
| `Listings` | `listing_tryget_best_alternative`: the automaton of `parser_filelist.c`, the list, the choice of `peerstats.c` | `ParserXml` |
| `Config` | the stack of configuration layers and its readers | |
| `Startup` | `fsfuse.c` from `main` to `exit`, with the threads that read settings | `Config` (composition) |
| `DirentryRefs` | the references that FUSE methods and download threads take and drop on directory entries | |
| `BinaryHeapProofs`, `DownloaderProofs`, `IndexnodesProofs`, `AnnouncersProofs`, `StatfsProofs`, `ListingsProofs`, `StartupProofs`, `DirentryRefsProofs` | theorems about the module of that name; those about `RwLock` are the first part of `IndexnodesProofs` | |
| `MC*` | the instances TLC checks | |

A definition whose name ends in `_Mutant` (or `_OffByOne`) is a plausible wrong version
of the one that follows it. No specification uses it; with it in place of the right one
the matching property fails, which shows that the property is about that code.

Where C defines nothing (use of freed memory, a NULL given to `strcmp`) and where an
`assert` fails, the behaviour ends, and a variable (`undefined`, in `Downloader` `crash`)
says so. Properties are about everything up to there; where it matters, a
property says when the end can come.

**BinaryHeap.** `array`, `allocated`, `used` are the struct; `pc` and `target_pos`
are the loop being run. The array is a function on `0..allocated-1` in which a
slot that was never written is `NoKvp`. `trypop` leaves the pair it moves to the
root in the slot behind the heap as well, as the code does, and `child_pos` looks
at that slot when the last parent has one child, as the code does.

**Downloader.** Variables have the names of the struct fields. `tpc` says where the
thread is: at the loop's head (`top`), in `chunk_get_next` (`get`, `waiting`, `woken`,
`expired`), between `listing_tryget_best_alternative`'s call and its use (`lookup`,
`looked`), waiting for the peer (`request`, `fetch`), in `buf_consumer` (`consume`), on
the way out (`exit`, `delete`, `gone`). Each critical section of `chunks_mutex` is one
step. A wait that has ended but not got the mutex back is a state of its own:
that is where a chunk may be queued too late. The heap is a set from which a
least key is taken, which `BinaryHeap` justifies; keys go through the conversion
to `int` (`IntKey`). The byte at position *n* of the peer's file is *n*; a byte of a
buffer nobody wrote is `Junk`. `clamp` keeps the 32-bit comparison (`UINT_MOD`).
`lost` holds chunks no pointer leads to any more; it is the one history variable.
`rc` starts as `uninit`, and an exit with it may take either branch.

The peer and libcurl are external: a request may be refused with any error
`http2errno` and `process_curl_response` produce; an accepted one delivers the body
in pieces of up to `MaxBuf` bytes and may stop at any point. Callbacks are
modelled through the interface `fetcher.h` declares. `fetcher.c` hands libcurl the
inner context in place of its wrapper (lines 350 and 380); that is outside these
models. `ThreadSteps` are what the thread does by itself, `RemoteSteps` what it waits for
in libcurl: `fetcher.c` sets no timeout, so nothing obliges the latter to happen.

**RwLock.** A thread is `out`, `entering` (it read `locking_thread` without the mutex),
`waiting`, `woken` or `in`. `Readers` are FUSE threads in `indexnodes_get`, `Writers`
the threads on which `new_indexnode_event` runs. `skipped` is a history variable: whether
a reader was let in without being counted, because its id was left in `locking_thread`
by an earlier visit while others read. One reader alone never is; with two, as in FUSE's
default loop, it happens, and what it leads to is part of the models.

**Indexnodes.** `step` is where each thread is, `list` what `ins->list` points to and
`dangling` whether that was freed. `indexnodes_get` builds, frees, publishes and copies
in four steps, because the search in `new_indexnode_event` takes no lock and can
fall between them; `held` says what became of the pointer it loaded. `node` records
each `indexnode_t` ever made with its counter, so leaks and early frees show.
`check_version` joins its two bounds with `||` (line 59 of indexnode.c), so every version
passes; the run's only version lies below the minimum and is listed.

**Announcers.** `thread` is what each thread does, `stop` its pipe, `freed` whether its
structure is gone. A packet is its fields, by what `parse_advert_packet` tells apart. An
answered ping reads pointers that nobody set: the keys of `fs2_constants.c` end in
": " and `header_cb_wrapper` cuts a header before its colon, so `header_cb` never
matches. The models keep this: an answered ping ends in `undefined`, a failed one
goes on. So adverts are the only way in which an indexnode is found.

**ParserXml, Statfs, Listings.** A document is the sequence of calls libxml2 makes;
`parser_xml_consume` turns it into the events the automata get, and these take one
event a step, so a fetch may break off after any of them. Attribute and element
names are the ones the code compares with. `ULONG_MOD` is the number of values of the
`unsigned long` that `stats_cb` adds in. A page may have a count twice; `raise_cb_if_done`
then reports again, as the code does.

**Config, Startup.** Five settings stand for all, one for each way the code treats a type
or an option. A reader is the array and its length as they were; `stale` and `dead`
say whether the array was moved or its strings freed since. `Startup` gives `main` one
action for each stretch between two calls that can fail, every `goto` included. Options
come in any combination; of `-v` and `-h` the one given last counts (`Asked`).
`"~/.fsfuserc"` is opened as it is written: nothing expands the `~`.

**DirentryRefs.** Each handler is a list of copies, deletes and replies (`todo`), carried
out one by one and interleaved with those of other threads. The kernel is external: it
sends requests only for inodes it knows and releases a handle once, after its reads
were answered.

## 3. Runs

Passing:

| Run | Instance | Shows |
|---|---|---|
| `heap` | 3 keys, 5 values | Five pairs make a heap of three levels, with and without a right child on the last parent, equal keys included. `StaleSlotIsTarget`, `RootIsLeast`, `ImplementsPriorityQueue` |
| `reads` | 3 reads, file of 3 bytes, offsets 0, 1, 3, 4, sizes 1, 4, buffers of 1 or 2 bytes, `UINT_MOD` 5 | Three reads are needed for one in hand, one queued and one late; two-byte buffers for buffers that end inside, at and after a chunk; ranges lie inside the file, cross its end, start at it or past it, and their end may wrap. `ReadIntegrity`, `OneOwner`, `NoLostWakeup`, `InHandAsserts`, `NoneStranded`, `AnswersFinal`; `ReleasedEndsCleanly`: once a file is released, with its reads answered, none of its thread's asserts and pointers fails, but for the deadline that rounds up to 10^9 ns (downloader.c:231); under fairness of the local threads only `AnsweredUnlessStalled` and `TidiesUpUnlessHung` |
| `indexnodes` | 2 FUSE threads, 2 event threads, 1 id, timeout 1, 2 instants, 2 indexnodes | The smallest instance in which readers overlap, two events race each other and a copy, and an indexnode expires. Of the lock: `WriterCounted`, `NoForgottenWaiter`, `HeldBySomebody`, `ExclusiveUntilSkipped`; of the list: `RefsExact`, `OnePerWriter`, `LiveUntilSkipped`, `FreshStaysUntilSkipped` |
| `announcers` | 3 hosts and 2 ports configured (so 2 alarms), 2 sockets, one waiting datagram each | `JoinedBeforeFreed`: no thread runs on what is not there yet or freed already; under fairness `StopsUnlessPingHangs`, `EverySocketServed` |
| `statfs` | up to 3 indexnodes, 6 kinds of page, one with a count twice, sums modulo 16, blocks of 2 bytes | `ReplyIsTheSum`, `AnsweredUnlessSilent`: exactly when the request is answered; `FreedOnlyByRepeats`: the context is used after its free, which does happen here, only on account of the page that repeats a count |
| `listings` | 6 kinds of page, 3 peers, each favourite, blocked, both or neither | `ListedAsSent`, `BestIsPermitted`, `HeldOnceTooOften` |
| `startup` | up to 4 files of 4 kinds or unreadable, every combination of the options c d f s p v h, 2 FUSE threads, 1 download thread | `LayersOverride`: what every setting of the session is; `ReadersStayValid`, `ConfigThereToDelete` |
| `direntry_refs` | 2 FUSE threads; a directory, its child directory, a file; 2 reads, 1 of most other requests | `RefsAccounted`, `OnlyOverdraftsFree`: which handlers keep the books and how many overdrafts it takes to free an entry in use |

`heap`, `reads` and `indexnodes` (for the lock) check `TypeOK` as well. The type invariants of the other modules hold
in the same instances and are there for proofs to start from; the runs leave them out.

Runs that TLC must refute:

| Run | Property | What happens |
|---|---|---|
| `lost_read` | `EveryReadAnswered` | a chunk queued as the wait expires is popped and dropped (read.c:40 promises an answer) |
| `freed_list` | `NoFreedListUsed` | an advert is looked up in the list while `indexnodes_get` frees it (TODO:58 asks for locking) |
| `dead_copy` | `OnlyLiveGivenOut` | two FUSE threads, one let in uncounted: a writer adds an expired indexnode between a reader's pruning and its copy ("it only contains live indexnodes", indexnodes.c:13) |
| `swapped_flags` | `FlagsAsGiven` | `-f` arrives as single-threaded and `-s` as foreground, fsfuse.c:353-357 against config_manager.c:118-122 (the command line is to be "over-writing any config settings", fsfuse.c:101) |

`CHECK_DEADLOCK FALSE` where the system may stop: the file is released and its thread
gone, a bound on requests or on time is reached, `main` has exited, a request is over,
or the behaviour has ended. The heap never stops, and deadlock is checked there.

**Fairness.** Downloader: the thread's own steps are taken (weak fairness of
`ThreadSteps`); a FUSE thread past the asserts gets the mutex (weak); a wait whose
absolute deadline lies in the future cannot be woken and resumed for ever (strong
fairness of `WaitTimesOut`). No indexnode and no peer is assumed to answer, since
`fetcher.c` sets no timeout, and no read or release to come. So the properties say what a
read or a released thread can wait for: `AnsweredUnlessStalled` that a read stays
unanswered only if it was dropped, the process died, or the thread is for ever in calls
on remotes that bring no more bytes (one that hangs, or one after another, since the
code retries while `rc` is 0); `TidiesUpUnlessHung` that the thread of a released file
ends unless the transfer it left running hangs. They also hold for an empty file, each of
whose reads is stalled. Announcers: the threads run and an event handler returns (weak);
datagrams need not come, `destroy` need not be called, and a ping need not end, since no
timeout is set for it. The liveness properties allow for a crash where the code has
asserts that can fail. Of the lock no liveness is claimed: readers that overlap starve a
writer, and a writer that comes by starves one that was woken.

### What the models show that no run refutes

The models do what the code does in these places as well; properties are stated
around them.

* Empty file: a read of it is refetched for ever, as an empty body calls nobody
  (downloader.c:375; tests/integration/read_test.c:55 expects 0 bytes).
* A read that starts past the end fails the assert of downloader.c:163 and ends the
  process, although read.c:88-91 says "start > length: return 0 bytes" (read.c sets the size
  to 0 and leaves the start) and tests/integration/read_test.c:13-17 and 129-132 expect
  them. So does one whose end passes a multiple of 2^32. The theorem `OnlyBadRanges` says
  that no others do.
* A read of a file that has been open and idle for longer than the timeout finds a
  downloader that its thread has freed, or fails the assert at downloader.c:386
  (`ReleasedEndsCleanly` is about released files for that reason).
* The download thread takes the success of `listing_tryget_best_alternative` for its
  failure (downloader.c:352), and fetches only when the lookup failed.
* Once a reader was let in uncounted (locks.c:60) a writer may get in beside a reader:
  `Exclusion` and, beside what `dead_copy` shows, the promise that an added indexnode stays
  listed are lost from there on.
* A page that has a count twice makes its indexnode report again: the reply may come
  early, without another indexnode's counts, or the report go to the freed context.
* A config file that could be read hides the collections that earlier ones list, also
  when it lists none itself (config_loader.c:148; `LayersOverride` says so).
* If `fuse_lowlevel_new` fails, the mount is left behind (fsfuse.c:197-220).
* `release`, `releasedir`, `getattr` and each answered read drop one reference too many
  (`RefsAccounted`); refused opens and `entry_found` keep one too many.

## 4. Proofs

The proofs are for arbitrary constants, under the assumptions named in the
component's module (sizes and bounds are naturals, keys are integers, the null values
are not members of their sets, pages are finite and the counts on them are not
negative) and the hypotheses a theorem states. Bounds that TLC
needs (numbers of threads, reads, indexnodes, instants) are arbitrary naturals or
finite sets there.

* **BinaryHeapProofs.** `TypeCorrect`, `StaleSlotSafe`, `RootLeast`, and
  `HeapRefinesQueue`: `Spec => ImplementsPriorityQueue`. The invariant is `TypeOK`,
  `SiftOrder`, `StaleSlotIsTarget` and `Distinct`. Heap order alone is not inductive
  while a loop runs: `SiftOrder` adds that the pairs on both sides of the hole are
  in order with each other, and `StaleSlotIsTarget` that the slot read past the end
  holds the moving pair, so that `move_down` never swaps a pair out of the heap.
  That the root is least follows from order between parent and child by taking
  the least position of a smaller key (`LeastNatural`, from well-foundedness of
  the naturals), so no induction over the array is needed.
* **DownloaderProofs.** `TypeCorrect`, `ReadsAreExact`, `ChunksHaveOneOwner`,
  `WakeupsAreKept`, `AssertsHold`, `NobodyStranded`, `AnswersAreFinal`, `OnlyBadRanges`,
  `ReleasedIsClean`. The invariant is `TypeOK`, `Control` (where a chunk is in hand, what
  `rc` is then), `Owned` (`OneOwner` without arithmetic), `Progress` (what each chunk's
  fields and buffer say about the bytes copied so far) and `Aligned` (the offset the
  thread believes in is the one the stream has reached, while a transfer is on).
  `ReadIntegrity` needs the last two: an abandoned buffer leaves `download_offset` behind
  the stream, which is harmless only because the next transfer sets it again before a
  byte is copied. `ReleasedIsClean` adds `Quiet`: a released file has nothing queued,
  nothing in hand and no FUSE thread on its way to the queue, so the only assert its
  thread can still fail is the one on the deadline.
* **IndexnodesProofs, the lock.** `TypeCorrect`, `WritersExclude`, `WakeupsAreKept` for any number of
  readers and writers; `NobodyGoneHolds` and `OnlyTheShortCutOverlaps`
  (`ExclusiveUntilSkipped`) for finitely many readers (they count them). The invariant
  adds `Apart`: counted readers and a counted writer are never there together, and
  `locking_thread` does not keep the name of a writer that left. For readers the second
  half is false with two of them. `Exact` says that until one goes in uncounted the count is
  the number of readers inside, and hence that a writer, who waits for 0, meets none.
* **IndexnodesProofs, the list.** For finitely many readers and event threads: `ListTypeCorrect`,
  `ReferencesExact`, `NobodyAddsTwice`, `CopiesAreLive` (`LiveUntilSkipped`), `AddedStaysListed`
  (`FreshStaysUntilSkipped`). `ListUsesLock`: the composition implements `RwLock`'s
  specification, so the lock's theorems hold of the list's lock.
  The base invariant is the lock's, the types, `Steps` (a thread is in the lock exactly
  between its lock and unlock steps), `Handed` (what a step overwrites holds no
  reference), `Pointer` (`ins->list` dangles only while one reader is between freeing
  and publishing, and nobody's loaded pointer is current then) and `RefsExact` itself.
  `ReferencesExact` needs nothing of the lock's exclusion: two readers at once lose
  indexnodes, but no count. References are counted as pairs of a holder and a place in
  what it holds, so that each action replaces one holder's share of a finite set.
  What `remove_expired`'s loop leaves is proved by the least index at which the claim
  would fail, not by an induction principle. `Searched` carries a search's answer to
  the moment of adding: a writer that looks for an id has not added it. `Clock`, `Live`
  and `Lasting` carry the time a request began, the expiry test at that time and the
  place of what was added through the four steps of `indexnodes_get`, while other readers
  take theirs: a list that one of them publishes in between is pruned no earlier.
* **AnnouncersProofs.** `TypeCorrect`, `ThreadsJoinedBeforeFreed`, and `StoppedOnce`: a thread
  is told to stop once, while it runs. For any number of hosts and ports configured.
  The invariant is `Stacked` (the manager's list holds the alarms not yet stopped, in
  order), `Phases` (how far `main` has come says which threads exist), `OneByOne` (a
  thread is listed, or the one waited for, or joined and freed) and `Stops` (only the
  one waited for has a STOP in its pipe).
* **StatfsProofs.** `TypeCorrect` and `ContextOutlivesReports` (`FreedOnlyByRepeats`), for any
  pages. `StatfsAddsUp` and `AnsweredByEachPage`, if each page has both counts, in its general
  div, and its events give under the span what the document
  says there (`ReadAsSaid`); whether the value comes first in its span, and whether it is
  0, is left open, as that decides who is heard. TLC evaluates `ReadAsSaid` on the run's
  pages. The invariant is `Request` (the context is freed with the reply, when nothing is
  outstanding), `Met` (a count that the parser has, or waits for, it has met on the page)
  and, while no page of the request has a count twice, `Outstanding`: at least as many
  reports are awaited as indexnodes have not been heard. With a repeated count that
  fails: each further value of a page that has both counts reports again, so the reply comes
  before others were asked and they report to freed memory. For the sums, `Followed` says what the parser has
  made of the page up to this event, and `Sums` that the context holds the running total
  as long as nobody was missed. The total is a function on the list's places, shown to
  exist by the least place where it would not.
* **ListingsProofs.** `TypeCorrect`, `ListingsStayHeld`, `ChoiceIsAllowed` (the choice is a
  listing that `split_list`'s lists allow, and nothing is chosen only if they allow
  none) and `BestIsPermittedIfListed`, for any pages, peers and preferences. The
  invariant is `Lists` (each listing has its counter) and `Undecided`. The last of these
  has `[]ListedAsSent` as a hypothesis: what it adds is that nothing is lost between the
  parsed listings and the chosen one. `ListingsAreAsSent` and `ChosenPeerIsPermitted` ask it
  of the pages instead: that each page's `<a>`s lie one after another in its list, and that
  the last attribute for a field among the events of one has the value it says
  (`ReadAsSaid`; TLC evaluates it on the run's pages, with the places of the `<a>`s
  sorted as witnesses). `Place` says between which two `<a>`s the parser is, or in which,
  `Held` that its fields are the last attributes met in this one or what the ones before
  left, so that at its end they are what it says or inherits (`CarriedOn`). An `<a>` of a
  type that is not known ends the account: `listing_type_from_string` asserts.
* **StartupProofs.** `TypeCorrect`, `LaterLayersWin`, `NoReaderLeftBehind`,
  `DeletesWhatIsThere`, for any files that set the five items, options and threads. The invariant is `Alone`
  (nobody reads settings while layers are still added), `Configured` (at which points of
  `main` there is a configuration), `Sound` (no reader's array was moved, none was freed
  before the exit) and `Layered` (what each item's value is after the files and options
  so far; after the command line it is `Effective`, the swapped flags included).
* **DirentryRefsProofs.** `TypeCorrect`, `CountsAccountedFor`, `FreedOnlyByOverdrafts`, for
  finitely many FUSE threads and any number of requests. The equation of
  `RefsAccounted` is not enough for `OnlyOverdraftsFree`: with a copy to come, a count
  may be 0 and nothing overdrawn. `AllClosed` adds that each copy still to come is matched
  with a later step of the same thread that accounts for it, each with another, so
  what is to come never adds references; `HandlesCounted` adds that no handle is released
  twice. Steps are counted as pairs of a thread and a place in its list.

Model-checked only:

* the liveness properties, which need reasoning about fairness and ENABLED;
* that `parser_xml_consume` turns a document into the events that `ReadAsSaid` (of `Statfs`
  and of `Listings`) describes, which needs induction over documents; TLC evaluates it on
  the pages of the runs.

## 5. Not modelled

* How the tree of directory entries and the inode map grow. In this commit that code
  starts with steps C does not define: `inode_map.h:14` declares another `inode_map_add`
  than `inode_map.c:30` defines; the root has no counter, and `direntry_init` counts
  references to it (direntry.c:218-245); `direntry_from_listing` (198-216) clears and
  reallocates more than the entry has. Whatever a model said of the tree would be about
  another program. `Startup` has that initialisation as a step that may end the
  behaviour, `DirentryRefs` starts from entries that are listed.
* URLs, `struct stat` and directory buffers, tracing, string buffers, locale, usage and
  version texts: formatting and output.
* Write-side FUSE methods, which answer `EROFS` and keep no state.
* `http.c`, `uri.c` and `scrap/`, which are not built.
* libcurl, libxml2, libfuse, pthreads, the kernel and the other hosts are external,
  modelled by what this code relies on.

## 6. Plan

Left: who may pass a sleeper of the lock, as an action property; the lists of steps of
`DirentryRefs` for a tree of any shape in place of the three entries.
