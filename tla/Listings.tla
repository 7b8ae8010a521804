------------------------------ MODULE Listings -------------------------------
(***************************************************************************)
(* The search for a peer to download from: listing_tryget_best_alternative *)
(* (listing.c) has the indexnode's page of alternatives parsed             *)
(* (parser_filelist.c) into a list of listings (listing_list.c), of which  *)
(* peerstats_chose_alternative (peerstats.c) takes one that the user's     *)
(* favourite and blocked peers allow; the download thread fetches from it. *)
(* The fetch of the page may fail at any point of it.                      *)
(*                                                                         *)
(* strcmp and strdup of NULL, a failed assert and the use of a freed       *)
(* listing end the behaviour in `undefined'.                               *)
(***************************************************************************)
EXTENDS Integers, ParserXml

CONSTANTS Pages, Document,   \* pages of alternatives, and their SAX calls
          Peers              \* client aliases

VARIABLES page, at,          \* the page and the event its parser comes to
          parser,            \* parser_filelist_t
          listing,           \* the listing_t's made, which alts points to
          refs               \* their reference counts

VARIABLES favs, blocks,      \* config_peers_favourites, config_peers_blocked
          rc, best,          \* what listing_tryget_best_alternative returns
          step, undefined

parseVars == <<page, at, parser, listing>>
vars == <<parseVars, refs, favs, blocks, rc, best, step, undefined>>

Fields == {"name", "hash", "type", "size", "link_count", "href", "client"}

\* The attribute keys of fs2_constants.c; fs2-path is not used.
FieldOf(key) ==
  CASE key = "fs2-name" -> "name"
    [] key = "fs2-hash" -> "hash"
    [] key = "fs2-type" -> "type"
    [] key = "fs2-size" -> "size"
    [] key \in {"fs2-linkcount", "fs2-alternativescount"} -> "link_count"
    [] key = "href" -> "href"
    [] key = "fs2-clientalias" -> "client"
    [] OTHER -> "none"

\* What calloc leaves in a field.
Zero(f) == IF f \in {"size", "link_count"} THEN 0 ELSE NULL

\* parser_filelist_new
NewParser == [state |-> "WAITING_FOR_DIV_FILELIST", field |-> [f \in Fields |-> Zero(f)]]

Init ==
  /\ page \in Pages /\ at = 1
  /\ parser = NewParser
  /\ listing = <<>> /\ refs = <<>>
  /\ favs \in SUBSET Peers /\ blocks \in SUBSET Peers
  /\ rc = 0 /\ best = 0
  /\ step = "parse"
  /\ undefined = FALSE

At(s) == step = s /\ ~undefined

Undefined ==
  /\ undefined' = TRUE
  /\ UNCHANGED <<parseVars, refs, favs, blocks, rc, best, step>>

-----------------------------------------------------------------------------
\* listing.c and listing_list.c

\* References taken and dropped on every listing in `more' and in `less'; the
\* last delete frees it.
Counted(more, less) ==
  [i \in DOMAIN refs |-> refs[i] + (IF i \in more THEN 1 ELSE 0) - (IF i \in less THEN 1 ELSE 0)]

\* listing_new has one reference, listing_list_set_item takes another.
\* listing_type_from_string knows two types.
entry_found(fields) ==
  IF fields["type"] \in {"file", "directory"}
    THEN /\ listing' = Append(listing, fields)
         /\ refs' = Append(refs, 2)
         /\ UNCHANGED undefined
    ELSE undefined' = TRUE /\ UNCHANGED <<listing, refs>>

-----------------------------------------------------------------------------
\* parser_filelist.c

IsTag(e, name) == e.event = "TAG_START" /\ e.name = name
EndsA(e) == e.event = "TAG_END" /\ e.name = "a"

StateAfter(e) ==
  CASE parser.state = "WAITING_FOR_DIV_FILELIST" /\ IsTag(e, "div") /\ e.value = "fs2-filelist"
         -> "WAITING_FOR_A"
    [] parser.state = "WAITING_FOR_A" /\ IsTag(e, "a") -> "CONSUMING_A"
    [] parser.state = "CONSUMING_A" /\ EndsA(e) -> "WAITING_FOR_A"
    [] OTHER -> parser.state

\* Keeping the first value.
FieldsAfter_Mutant(e) ==
  [f \in Fields |->
     IF parser.field[f] = Zero(f) /\ e.event = "ATTRIBUTE" /\ FieldOf(e.name) = f
       THEN e.value ELSE parser.field[f]]

\* An attribute of an <a> is kept until another <a> brings the same one.
FieldsAfter(e) ==
  [f \in Fields |->
     IF parser.state = "CONSUMING_A" /\ e.event = "ATTRIBUTE" /\ FieldOf(e.name) = f
       THEN e.value ELSE parser.field[f]]

Events == [p \in Pages |-> parser_xml_consume(Document[p])]

filelist_xml_cb ==
  LET e == Events[page][at] IN
  /\ At("parse")
  /\ at \in DOMAIN Events[page]
  /\ parser' = [state |-> StateAfter(e), field |-> FieldsAfter(e)]
  /\ at' = at + 1
  /\ IF parser.state = "CONSUMING_A" /\ EndsA(e)
       THEN entry_found(parser.field)
       ELSE UNCHANGED <<listing, refs, undefined>>
  /\ UNCHANGED <<page, favs, blocks, rc, best, step>>

\* The fetch is over: with 0 only if the whole page came.
indexnode_tryget_alternatives ==
  /\ At("parse")
  /\ rc' \in IF at > Len(Events[page]) THEN {0, 1} ELSE {1}
  /\ step' = "split"
  /\ UNCHANGED <<parseVars, refs, favs, blocks, best, undefined>>

-----------------------------------------------------------------------------
\* peerstats.c

Client(i) == listing[i]["client"]
InFavs == {i \in DOMAIN listing : Client(i) \in favs}
InBlocks == {i \in DOMAIN listing : Client(i) \in blocks \ favs}
InNormal == DOMAIN listing \ (InFavs \cup InBlocks)

\* Each listing goes to one of three lists, which takes a reference.  A
\* listing without a client is compared with whatever peers there are.
split_list ==
  /\ At("split")
  /\ IF favs \cup blocks # {} /\ \E i \in DOMAIN listing : Client(i) = NULL
       THEN Undefined
       ELSE /\ refs' = Counted(DOMAIN listing, {})
            /\ step' = "choose"
            /\ UNCHANGED <<parseVars, favs, blocks, rc, best, undefined>>

\* The favourites, or else everything else.
Candidates_Mutant == IF InFavs # {} THEN InFavs ELSE InNormal \cup InBlocks

\* The favourites, or else what is neither.
Candidates == IF InFavs # {} THEN InFavs ELSE InNormal

\* One at random; listing_list_get_item takes a reference.
peerstats_chose_alternative ==
  /\ At("choose")
  /\ \/ /\ best' \in Candidates
     \/ /\ Candidates = {}
        /\ best' = 0
  /\ refs' = Counted({best'}, {})
  /\ step' = "delete"
  /\ UNCHANGED <<parseVars, favs, blocks, rc, undefined>>

\* Deleting the list of alternatives as well.
DeleteSplitLists_Mutant ==
  /\ At("delete")
  /\ refs' = [i \in DOMAIN refs |-> refs[i] - 2]
  /\ step' = "chosen"
  /\ UNCHANGED <<parseVars, favs, blocks, rc, best, undefined>>

\* listing_list_delete of the three.
DeleteSplitLists ==
  /\ At("delete")
  /\ refs' = Counted({}, DOMAIN listing)
  /\ step' = "chosen"
  /\ UNCHANGED <<parseVars, favs, blocks, rc, best, undefined>>

\* listing_tryget_best_alternative deletes its list and returns rc.
DeleteAlternatives ==
  /\ At("chosen")
  /\ refs' = Counted({}, DOMAIN listing)
  /\ step' = "returned"
  /\ UNCHANGED <<parseVars, favs, blocks, rc, best, undefined>>

\* The download thread: with rc 0 it does not look at the listing, otherwise it
\* fetches its href, which it does not have without a listing, and deletes it.
UseBest ==
  /\ At("returned")
  /\ IF rc # 0 /\ best = 0 THEN Undefined
     ELSE /\ refs' = IF rc = 0 THEN refs ELSE Counted({}, {best})
          /\ step' = "over"
          /\ UNCHANGED <<parseVars, favs, blocks, rc, best, undefined>>

Next ==
  \/ filelist_xml_cb \/ indexnode_tryget_alternatives
  \/ split_list \/ peerstats_chose_alternative \/ DeleteSplitLists
  \/ DeleteAlternatives \/ UseBest

Spec == Init /\ [][Next]_vars

-----------------------------------------------------------------------------
\* Listings have all their fields, counts do not go below zero.
TypeOK ==
  /\ page \in Pages /\ at \in Nat
  /\ parser.state \in {"WAITING_FOR_DIV_FILELIST", "WAITING_FOR_A", "CONSUMING_A"}
  /\ DOMAIN refs = DOMAIN listing /\ \A i \in DOMAIN refs : refs[i] \in Nat
  /\ best \in {0} \cup DOMAIN listing
  /\ rc \in {0, 1} /\ undefined \in BOOLEAN
  /\ step \in {"parse", "split", "choose", "delete", "chosen", "returned", "over"}

\* The <a> elements of a page, read from the document itself, and what the
\* i-th says of a field: the last of its attributes for it.
Anchors(p) == SelectSeq(Document[p], LAMBDA c : c.call = "startElementNs" /\ c.name = "a")
Said(p, i, f) == SelectSeq(Anchors(p)[i].attrs, LAMBDA a : FieldOf(a.name) = f)

\* What the i-th says, or the nearest one before it that does.
Carried(p, i, f) ==
  LET saying == {j \in 1 .. i : Said(p, j, f) # <<>>}
  IN IF saying = {} THEN Zero(f) ELSE Last(Said(p, Max(saying), f)).value

\* Each <a> becomes one listing, in order, with what it says; what it does not
\* say comes from the nearest one before it that does, if any.  So an <a> with
\* all its attributes is listed as itself, whatever surrounds it, and nothing
\* is left out of a page that arrived whole.
ListedAsSent ==
  /\ DOMAIN listing \subseteq DOMAIN Anchors(page)
  /\ \A i \in DOMAIN listing : \A f \in Fields : listing[i][f] = Carried(page, i, f)
  /\ step # "parse" /\ rc = 0 /\ ~undefined => Len(listing) = Len(Anchors(page))

\* What is downloaded comes from a peer that the page itself names for that
\* href, and that is a favourite, or else is not blocked and no favourite had
\* it; and some peer is chosen if there is one to choose.
BestIsPermitted ==
  LET complete == \A i \in DOMAIN Anchors(page) : Said(page, i, "client") # <<>>
      peer(i) == Last(Said(page, i, "client")).value
  IN step \in {"delete", "chosen", "returned", "over"} /\ complete =>
       IF best # 0
         THEN \/ peer(best) \in favs
              \/ peer(best) \notin blocks /\ \A i \in DOMAIN listing : peer(i) \notin favs
         ELSE \A i \in DOMAIN listing : peer(i) \in blocks \ favs

\* Every listing is held by whoever still points to it, and by the one
\* reference that entry_found took and nobody drops: none is freed early, and
\* none is ever freed at all.
HeldOnceTooOften ==
  \A i \in DOMAIN listing :
    refs[i] = 1 + (IF step \in {"parse", "split", "choose", "delete", "chosen"} THEN 1 ELSE 0)
                + (IF step \in {"choose", "delete"} THEN 1 ELSE 0)
                + (IF best = i /\ ~(step = "over" /\ rc # 0) THEN 1 ELSE 0)

-----------------------------------------------------------------------------
\* Where a page has its list, and attributes for a field, among its events.
FilelistAt(p) == {k \in DOMAIN Events[p] : IsTag(Events[p][k], "div") /\ Events[p][k].value = "fs2-filelist"}
AttributesAt(p, f, places) ==
  {k \in places : Events[p][k].event = "ATTRIBUTE" /\ FieldOf(Events[p][k].name) = f}

\* The i-th <a> of page p is the events from start[i] to stop[i]: they are one
\* after another, in its list, no other event is the start or the end of an
\* <a>, and the last attribute for a field there has the value that it says.
ReadAsSaid(p, start, stop) ==
  LET n == Len(Anchors(p)) IN
  /\ start \in [1 .. n -> DOMAIN Events[p]] /\ stop \in [1 .. n -> DOMAIN Events[p]]
  /\ \A i \in 1 .. n :
       /\ IsTag(Events[p][start[i]], "a") /\ EndsA(Events[p][stop[i]]) /\ start[i] < stop[i]
       /\ \A j \in 1 .. i - 1 : stop[j] < start[i]
       /\ \E g \in FilelistAt(p) : g < start[i]
       /\ \A f \in Fields :
            LET given == AttributesAt(p, f, start[i] + 1 .. stop[i] - 1)
            IN /\ given = {} <=> Said(p, i, f) = <<>>
               /\ \A k \in given :
                    (\A j \in given : j <= k) => Events[p][k].value = Last(Said(p, i, f)).value
  /\ \A k \in DOMAIN Events[p] :
       /\ IsTag(Events[p][k], "a") => \E i \in 1 .. n : k = start[i]
       /\ EndsA(Events[p][k]) => \E i \in 1 .. n : k = stop[i]

\* A page is finite.
ASSUME PagesAssumption ==
  \A p \in Pages :
    /\ Len(Events[p]) \in Nat /\ DOMAIN Events[p] = 1 .. Len(Events[p])
    /\ Len(Anchors(p)) \in Nat /\ DOMAIN Anchors(p) = 1 .. Len(Anchors(p))
=============================================================================
