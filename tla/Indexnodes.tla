----------------------------- MODULE Indexnodes ------------------------------
(***************************************************************************)
(* indexnodes.c with indexnodes_list.c, indexnode.c and ref_count.c: the   *)
(* list of known indexnodes, on top of the lock of RwLock.  A reader is a  *)
(* FUSE thread in indexnodes_get, a writer a thread on which               *)
(* new_indexnode_event runs.                                               *)
(*                                                                         *)
(* indexnodes_get builds a list without the expired indexnodes, frees the  *)
(* old one, publishes the new one and copies it, each a step of its own,   *)
(* under the read lock; new_indexnode_event searches the list without any  *)
(* lock and takes the write lock only to add.  held says what the list     *)
(* pointer that a thread has loaded points to; walking or freeing freed    *)
(* memory, and freeing it twice, ends the behaviour in `undefined'.        *)
(***************************************************************************)
EXTENDS RwLock, Sequences, SequencesExt

CONSTANTS Ids,             \* what indexnodes call themselves
          NoAdvert,        \* no event is being handled
          Versions,        \* the protocol versions they advertise
          TIMEOUT,         \* config_indexnode_timeout
          MaxTime, MaxNodes  \* bounds on the clock and on indexnode_new

ASSUME IndexnodesAssumption ==
  /\ TIMEOUT \in Nat
  /\ MaxTime \in Nat /\ MaxNodes \in Nat
  /\ Versions \subseteq Seq(Nat)

VARIABLES now,             \* time(NULL)
          node,            \* the indexnode_t's made so far, in order
          list, dangling,  \* what ins->list points to; whether that is freed
          step, held,      \* what each thread does; its list pointer
          advert, found,   \* what a writer was told; its own indexnode, or 0
          fresh,           \* the list a reader builds
          copy, asked      \* the list indexnodes_get returned; when it began

VARIABLE undefined         \* "no", or what made the rest of the run undefined

listVars == <<now, node, list, dangling, step, held, advert, found, fresh, copy, asked, undefined>>
allVars == <<vars, listVars>>

Advert == [id : Ids, version : Versions]

IndexnodesInit ==
  /\ Init
  /\ now = 0
  /\ node = <<>>
  /\ list = <<>> /\ dangling = FALSE
  /\ step = [t \in Threads |-> "idle"]
  /\ held = [t \in Threads |-> "none"]
  /\ advert = [w \in Writers |-> NoAdvert]
  /\ found = [w \in Writers |-> 0]
  /\ fresh = [r \in Readers |-> <<>>]
  /\ copy = [r \in Readers |-> <<>>]
  /\ asked = [r \in Readers |-> 0]
  /\ undefined = "no"

At(t, s) == step[t] = s /\ undefined = "no"
GoTo(t, s) == step' = [step EXCEPT ![t] = s]

\* A thread does something C does not define; nothing more is said of it.
Undefined(why) ==
  /\ undefined' = why
  /\ UNCHANGED <<vars, now, node, list, dangling, step, held, advert, found, fresh, copy, asked>>

-----------------------------------------------------------------------------
\* utils.c and indexnode.c

\* The n-th component of a dotted version; strtol finds 0 beyond its end.
Component(v, n) == IF n \in DOMAIN v THEN v[n] ELSE 0

\* compare_dotted_version(v, w) < 0.
DottedLess(v, w) ==
  \E n \in DOMAIN v \cup DOMAIN w :
    /\ Component(v, n) < Component(w, n)
    /\ \A m \in 1 .. (n - 1) : Component(v, m) = Component(w, m)

PROTO_MINIMUM == <<0, 5>>
PROTO_MAXIMUM == <<0, 13>>

check_version(v) == DottedLess(PROTO_MINIMUM, v) \/ DottedLess(v, PROTO_MAXIMUM)

indexnode_still_valid(n) == now - node[n].last_seen < TIMEOUT

\* Where n occurs in the list l, and how often.
Places(l, n) == {i \in DOMAIN l : l[i] = n}
Times(l, n) == Cardinality(Places(l, n))

\* The nodes once every entry of `more' is a reference more (indexnode_copy)
\* and every entry of `less' one less (indexnode_delete frees at 0).
Counted(more, less) ==
  [n \in DOMAIN node |->
     [node[n] EXCEPT !.ref_count = @ + Times(more, n) - Times(less, n)]]

\* ref_count_inc and ref_count_dec assert that the counter is not 0.
AllAlive(l) == \A i \in DOMAIN l : node[l[i]].ref_count > 0

-----------------------------------------------------------------------------
\* indexnodes_get, on a FUSE thread

Get(r) ==
  /\ At(r, "idle")
  /\ copy[r] = <<>>
  /\ asked' = [asked EXCEPT ![r] = now]
  /\ GoTo(r, "lock")
  /\ UNCHANGED <<vars, now, node, list, dangling, held, advert, found, fresh, copy, undefined>>

\* Either lock function of RwLock, one critical section at a time.
Lock(t) ==
  /\ At(t, "lock")
  /\ \/ AlreadyMine(t)
     \/ NotMine(t)
     \/ Wait(t)
     \/ SpuriousWakeup(t)
     \/ t \in Readers /\ rw_lock_rlock(t)
     \/ t \in Writers /\ rw_lock_wlock(t)
  /\ IF pc'[t] = "in" THEN GoTo(t, "locked") ELSE UNCHANGED step
  /\ UNCHANGED <<now, node, list, dangling, held, advert, found, fresh, copy, asked, undefined>>

\* The list once its expired entries are left out.  made[k] is what the loop
\* has made of the first k entries: each is inserted at the head, so they come
\* out backwards.
remove_expired_Mutant(l) == Reverse(l)
remove_expired(l) ==
  LET made[k \in 0 .. Len(l)] ==
        IF k = 0 THEN <<>>
        ELSE IF indexnode_still_valid(l[k]) THEN <<l[k]>> \o made[k - 1]
        ELSE made[k - 1]
  IN made[Len(l)]

\* indexnodes_list_remove_expired as far as the end of its loop.
BuildUnexpired(r) ==
  /\ At(r, "locked")
  /\ IF dangling \/ ~AllAlive(list) THEN Undefined("list")
     ELSE /\ fresh' = [fresh EXCEPT ![r] = remove_expired(list)]
          /\ node' = Counted(remove_expired(list), <<>>)
          /\ held' = [held EXCEPT ![r] = "current"]
          /\ GoTo(r, "built")
          /\ UNCHANGED <<vars, now, list, dangling, advert, found, copy, asked, undefined>>

\* Freeing the list but none of its references.
FreeOldList_Mutant(r) ==
  /\ At(r, "built")
  /\ IF held[r] = "freed" \/ ~AllAlive(list) THEN Undefined("list")
     ELSE /\ list' = <<>> /\ dangling' = TRUE
          /\ held' = [t \in Threads |-> IF t = r THEN "none"
                                        ELSE IF held[t] = "current" THEN "freed"
                                        ELSE held[t]]
          /\ GoTo(r, "freed")
          /\ UNCHANGED <<vars, now, node, advert, found, fresh, copy, asked, undefined>>

\* indexnodes_list_delete of the old list, which some other thread may be
\* walking, or may have freed.
FreeOldList(r) ==
  /\ At(r, "built")
  /\ IF held[r] = "freed" \/ ~AllAlive(list) THEN Undefined("list")
     ELSE /\ node' = Counted(<<>>, list)
          /\ list' = <<>> /\ dangling' = TRUE
          /\ held' = [t \in Threads |-> IF t = r THEN "none"
                                        ELSE IF held[t] = "current" THEN "freed"
                                        ELSE held[t]]
          /\ GoTo(r, "freed")
          /\ UNCHANGED <<vars, now, advert, found, fresh, copy, asked, undefined>>

\* ins->list = ...
Publish(r) ==
  /\ At(r, "freed")
  /\ list' = fresh[r] /\ dangling' = FALSE
  /\ fresh' = [fresh EXCEPT ![r] = <<>>]
  /\ GoTo(r, "published")
  /\ UNCHANGED <<vars, now, node, held, advert, found, copy, asked, undefined>>

\* indexnodes_list_copy; the iterator and the caller only read the copy.
CopyList(r) ==
  /\ At(r, "published")
  /\ IF dangling \/ ~AllAlive(list) THEN Undefined("list")
     ELSE /\ copy' = [copy EXCEPT ![r] = Reverse(list)]
          /\ node' = Counted(list, <<>>)
          /\ GoTo(r, "unlock")
          /\ UNCHANGED <<vars, now, list, dangling, held, advert, found, fresh, asked, undefined>>

Unlock(t) ==
  /\ At(t, "unlock")
  /\ \/ t \in Readers /\ rw_lock_runlock(t)
     \/ t \in Writers /\ rw_lock_wunlock(t)
  /\ GoTo(t, "idle")
  /\ UNCHANGED <<now, node, list, dangling, held, advert, found, fresh, copy, asked, undefined>>

\* The caller is done with its copy: indexnodes_list_delete.
DeleteCopy(r) ==
  /\ At(r, "idle")
  /\ copy[r] # <<>>
  /\ node' = Counted(<<>>, copy[r])
  /\ copy' = [copy EXCEPT ![r] = <<>>]
  /\ UNCHANGED <<vars, now, list, dangling, step, held, advert, found, fresh, asked, undefined>>

-----------------------------------------------------------------------------
\* new_indexnode_event, on the listener thread or an alarm thread

\* parse_fs2protocol, and the unlocked load of ins->list for the search.
new_indexnode_event(w, a) ==
  /\ At(w, "idle")
  /\ advert' = [advert EXCEPT ![w] = a]
  /\ held' = [held EXCEPT ![w] = IF dangling THEN "freed" ELSE "current"]
  /\ GoTo(w, "find")
  /\ UNCHANGED <<vars, now, node, list, dangling, found, fresh, copy, asked, undefined>>

\* A protocol without the prefix is freed by parse_fs2protocol and again by
\* its caller.
MalformedProtocol(w) ==
  /\ At(w, "idle")
  /\ Undefined("protocol")

\* Where indexnodes_list_find stops: the first entry with this id, or 0.
FirstMatch_Mutant(id) ==
  SelectInSeq(list, LAMBDA n : node[n].id = id /\ indexnode_still_valid(n))
FirstMatch(id) == SelectInSeq(list, LAMBDA n : node[n].id = id)

indexnodes_list_find(w) ==
  /\ At(w, "find")
  /\ LET i == FirstMatch(advert[w].id) IN
     IF held[w] = "freed" \/ ~AllAlive(list) THEN Undefined("list")
     ELSE /\ held' = [held EXCEPT ![w] = "none"]
          /\ IF i = 0
               THEN GoTo(w, "new") /\ UNCHANGED <<node, advert, found>>
               ELSE /\ node' = Counted(<<list[i]>>, <<>>)
                    /\ found' = [found EXCEPT ![w] = list[i]]
                    /\ advert' = [advert EXCEPT ![w] = NoAdvert]
                    /\ GoTo(w, "seen")
          /\ UNCHANGED <<vars, now, list, dangling, fresh, copy, asked, undefined>>

\* indexnode_seen and indexnode_delete of the indexnode that was found.
SeenAgain(w) ==
  /\ At(w, "seen")
  /\ node' = [Counted(<<>>, <<found[w]>>) EXCEPT ![found[w]].last_seen = now]
  /\ found' = [found EXCEPT ![w] = 0]
  /\ GoTo(w, "idle")
  /\ UNCHANGED <<vars, now, list, dangling, held, advert, fresh, copy, asked, undefined>>

\* indexnode_new, which drops an unsupported version; as check_version stands
\* there is none.
indexnode_new(w) ==
  /\ At(w, "new")
  /\ advert' = [advert EXCEPT ![w] = NoAdvert]
  /\ IF check_version(advert[w].version)
       THEN /\ Len(node) < MaxNodes
            /\ node' = Append(node, [id |-> advert[w].id, by |-> w, born |-> now,
                                     last_seen |-> now, ref_count |-> 1, added |-> FALSE])
            /\ found' = [found EXCEPT ![w] = Len(node) + 1]
            /\ GoTo(w, "lock")
       ELSE /\ GoTo(w, "idle")
            /\ UNCHANGED <<node, found>>
  /\ UNCHANGED <<vars, now, list, dangling, held, fresh, copy, asked, undefined>>

\* indexnodes_list_add, under the write lock.
indexnodes_list_add(w) ==
  /\ At(w, "locked")
  /\ IF dangling THEN Undefined("list")
     ELSE /\ list' = <<found[w]>> \o list
          /\ node' = [node EXCEPT ![found[w]].added = TRUE]
          /\ found' = [found EXCEPT ![w] = 0]
          /\ GoTo(w, "unlock")
          /\ UNCHANGED <<vars, now, dangling, held, advert, fresh, copy, asked, undefined>>

Tick ==
  /\ undefined = "no"
  /\ now < MaxTime
  /\ now' = now + 1
  /\ UNCHANGED <<vars, node, list, dangling, step, held, advert, found, fresh, copy, asked, undefined>>

IndexnodesNext ==
  \/ \E r \in Readers : \/ Get(r) \/ BuildUnexpired(r) \/ FreeOldList(r) \/ Publish(r)
                        \/ CopyList(r) \/ DeleteCopy(r)
  \/ \E w \in Writers : \/ \E a \in Advert : new_indexnode_event(w, a)
                        \/ MalformedProtocol(w) \/ indexnodes_list_find(w) \/ SeenAgain(w)
                        \/ indexnode_new(w)
                        \/ indexnodes_list_add(w)
  \/ \E t \in Threads : Lock(t) \/ Unlock(t)
  \/ Tick

IndexnodesSpec == IndexnodesInit /\ [][IndexnodesNext]_allVars

-----------------------------------------------------------------------------
\* An indexnode_t: what it calls itself, whose event made it and when, when it
\* was last seen, and whether it was ever listed.
Indexnode == [id : Ids, by : Writers, born : 0 .. MaxTime, last_seen : 0 .. MaxTime,
              ref_count : Nat, added : BOOLEAN]

\* Indexnodes by number, clocks within their bounds, and the places a thread
\* can be.
IndexnodesTypeOK ==
  /\ TypeOK
  /\ now \in 0 .. MaxTime
  /\ node \in Seq(Indexnode)
  /\ list \in Seq(DOMAIN node)
  /\ fresh \in [Readers -> Seq(DOMAIN node)] /\ copy \in [Readers -> Seq(DOMAIN node)]
  /\ dangling \in BOOLEAN
  /\ step \in [Threads -> {"idle", "lock", "locked", "built", "freed", "published",
                           "unlock", "find", "seen", "new"}]
  /\ held \in [Threads -> {"none", "current", "freed"}]
  /\ advert \in [Writers -> Advert \cup {NoAdvert}]
  /\ found \in [Writers -> {0} \cup DOMAIN node]
  /\ asked \in [Readers -> 0 .. MaxTime]
  /\ undefined \in {"no", "list", "protocol"}

\* Who can hold references, and the indexnodes each holds: the published list,
\* the lists that readers build and the copies they were handed, and the event
\* handlers.
Holders ==
  {<<"list", NoThread>>} \cup ({"fresh", "copy"} \X Readers) \cup ({"found"} \X Writers)
Holds(h) ==
  CASE h[1] = "list" -> list
    [] h[1] = "fresh" -> fresh[h[2]]
    [] h[1] = "copy" -> copy[h[2]]
    [] h[1] = "found" -> IF found[h[2]] = 0 THEN <<>> ELSE <<found[h[2]]>>

References(n) == UNION {{h} \X Places(Holds(h), n) : h \in Holders}

\* Every reference is accounted for: an indexnode's counter is the number of
\* references that somebody holds to it.  So none is freed while it can be
\* reached and none is leaked, at every step of indexnodes_get and of
\* new_indexnode_event.
RefsExact == \A n \in DOMAIN node : node[n].ref_count = Cardinality(References(n))

\* "When a copy of the list is given out it only contains live indexnodes"
\* (indexnodes.c:13): each was seen less than a timeout before the call that
\* the copy answers, or later.
OnlyLiveGivenOut ==
  \A r \in Readers : \A i \in DOMAIN copy[r] :
    node[copy[r][i]].last_seen + TIMEOUT > asked[r]

\* With any number of readers that holds until the lock first lets one of
\* them in uncounted (locks.c:60): another reader that replaces the list
\* between a reader's publication and its copy puts no dead indexnode in,
\* only a writer that the lock should have kept out can.
LiveUntilSkipped == skipped = "yes" \/ OnlyLiveGivenOut

\* What new_indexnode_event adds is not lost to an indexnodes_get that is
\* replacing the list at that moment: it stays listed for a timeout at least.
\* Holds until a reader is let in uncounted, and with it perhaps a writer
\* between the copying of the list and its replacement.
FreshStaysUntilSkipped ==
  \/ skipped = "yes"
  \/ \A n \in DOMAIN node :
       node[n].added /\ now < node[n].born + TIMEOUT =>
         \/ Times(list, n) > 0
         \/ dangling /\ \E r \in Readers : step[r] = "freed" /\ Times(fresh[r], n) > 0

\* Two entries with the same id come from two threads that searched the list
\* before either had added: no thread adds an id it has already added.
OnePerWriter ==
  \A i, j \in DOMAIN list :
    i # j /\ node[list[i]].id = node[list[j]].id => node[list[i]].by # node[list[j]].by

\* The list is never walked after it was freed, nor freed twice.  Fails: the
\* search in new_indexnode_event takes no lock.
NoFreedListUsed == undefined # "list"
=============================================================================
