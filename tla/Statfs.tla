------------------------------- MODULE Statfs --------------------------------
(***************************************************************************)
(* fsfuse_statfs with parser_stats.c: one statfs request.  Each indexnode  *)
(* of the list is asked in turn for its statistics page; the page is       *)
(* parsed as it arrives, and what it reports is added up in a context that *)
(* is freed with the reply, when the last indexnode has reported.          *)
(*                                                                         *)
(* Nothing but these callbacks ever replies.  A fetch may fail at any      *)
(* point of the page.  Using the context after it was freed, and strcmp    *)
(* of NULL, end the behaviour in `undefined'.                              *)
(***************************************************************************)
EXTENDS Integers, ParserXml

CONSTANTS Pages,        \* names of statistics pages
          Document,     \* the SAX calls of each
          MaxIndexnodes,
          ULONG_MOD,    \* how many values an unsigned long has
          BLKSIZE       \* FSFUSE_BLKSIZE

ASSUME StatfsAssumption ==
  /\ MaxIndexnodes \in Nat
  /\ ULONG_MOD \in Nat \ {0} /\ BLKSIZE \in Nat \ {0}

VARIABLES list,         \* the pages of the indexnodes that indexnodes_get gave
          turn,         \* the one being asked; 0 before the request
          at,           \* the event its parser is about to see
          whole,        \* whether every fetch so far came to the page's end
          parser        \* parser_stats_t

VARIABLES stats,        \* stats_ctxt_t
          freed,        \* whether it has been freed
          reply,        \* what fuse_reply_statfs sent, if it was called
          undefined     \* "no", "freed" or "strcmp"

askVars == <<list, turn, at, whole, parser>>
statsVars == <<stats, freed, reply>>
vars == <<askVars, statsVars, undefined>>

Wrap(n) == n % ULONG_MOD

\* parser_stats_new
NewParser == [state |-> "WAITING_FOR_DIV_GENERAL", files |-> 0, bytes |-> 0]

Init ==
  /\ list = <<>> /\ turn = 0 /\ at = 1 /\ whole = TRUE
  /\ parser = NewParser
  /\ stats = [f_files |-> 0, bytes_total |-> 0, cbs_remaining |-> 0]
  /\ freed = FALSE
  /\ reply = <<>>
  /\ undefined = "no"

Events == [p \in Pages |-> parser_xml_consume(Document[p])]
Asking == turn \in DOMAIN list /\ undefined = "no"
Done == turn = Len(list) + 1

\* The start of fsfuse_statfs, as far as the second loop.
fsfuse_statfs(l) ==
  /\ turn = 0
  /\ list' = l
  /\ turn' = 1
  /\ stats' = [stats EXCEPT !.cbs_remaining = Len(l)]
  /\ UNCHANGED <<at, whole, parser, freed, reply, undefined>>

\* Counting down first and adding after the reply.
stats_cb_Mutant(files, bytes) ==
  LET left == stats.cbs_remaining - 1
      after == [stats EXCEPT !.f_files = Wrap(@ + files), !.bytes_total = Wrap(@ + bytes),
                             !.cbs_remaining = left]
  IN IF freed THEN undefined' = "freed" /\ UNCHANGED statsVars
     ELSE /\ stats' = after
          /\ freed' = (left = 0)
          /\ reply' = IF left = 0
                        THEN <<[f_files |-> stats.f_files, f_blocks |-> stats.bytes_total \div BLKSIZE]>>
                        ELSE reply
          /\ UNCHANGED undefined

\* Adds an indexnode's counts; the last one replies.
stats_cb(files, bytes) ==
  LET after == [f_files |-> Wrap(stats.f_files + files),
                bytes_total |-> Wrap(stats.bytes_total + bytes),
                cbs_remaining |-> stats.cbs_remaining - 1]
  IN IF freed THEN undefined' = "freed" /\ UNCHANGED statsVars
     ELSE /\ stats' = after
          /\ freed' = (after.cbs_remaining = 0)
          /\ reply' = IF after.cbs_remaining = 0
                        THEN <<[f_files |-> after.f_files,
                                f_blocks |-> after.bytes_total \div BLKSIZE]>>
                        ELSE reply
          /\ UNCHANGED undefined

\* Reporting as soon as one count is known.
raise_cb_if_done_Mutant(p) ==
  IF p.bytes # 0 \/ p.files # 0
    THEN stats_cb(p.files, p.bytes)
    ELSE UNCHANGED <<statsVars, undefined>>

raise_cb_if_done(p) ==
  IF p.bytes # 0 /\ p.files # 0
    THEN stats_cb(p.files, p.bytes)
    ELSE UNCHANGED <<statsVars, undefined>>

IsTag(e, name) == e.event = "TAG_START" /\ e.name = name
IsValue(e) == e.event = "ATTRIBUTE" /\ e.name = "value"

\* A page is finite, and what atoll makes of its values is not negative.
ASSUME PagesAssumption ==
  \A p \in Pages :
    /\ Len(Events[p]) \in Nat /\ DOMAIN Events[p] = 1 .. Len(Events[p])
    /\ \A k \in DOMAIN Events[p] : IsValue(Events[p][k]) => Events[p][k].value \in Nat

\* A CONSUMING state that waits for the value.
StateAfter_Mutant(e) ==
  CASE parser.state = "WAITING_FOR_DIV_GENERAL" /\ IsTag(e, "div") /\ e.value = "general"
         -> "WAITING_FOR_SPAN_WITH_ID"
    [] parser.state = "WAITING_FOR_SPAN_WITH_ID" /\ IsTag(e, "span") /\ e.value = "file-count"
         -> "CONSUMING_FILE_COUNT"
    [] parser.state = "WAITING_FOR_SPAN_WITH_ID" /\ IsTag(e, "span") /\ e.value = "total-size"
         -> "CONSUMING_TOTAL_SIZE"
    [] parser.state \in {"CONSUMING_FILE_COUNT", "CONSUMING_TOTAL_SIZE"} /\ IsValue(e)
         -> "WAITING_FOR_SPAN_WITH_ID"
    [] OTHER -> parser.state

\* The state that stats_xml_cb leaves its parser in: a CONSUMING state looks
\* at one event only.
StateAfter(e) ==
  CASE parser.state = "WAITING_FOR_DIV_GENERAL" /\ IsTag(e, "div") /\ e.value = "general"
         -> "WAITING_FOR_SPAN_WITH_ID"
    [] parser.state = "WAITING_FOR_SPAN_WITH_ID" /\ IsTag(e, "span") /\ e.value = "file-count"
         -> "CONSUMING_FILE_COUNT"
    [] parser.state = "WAITING_FOR_SPAN_WITH_ID" /\ IsTag(e, "span") /\ e.value = "total-size"
         -> "CONSUMING_TOTAL_SIZE"
    [] parser.state \in {"CONSUMING_FILE_COUNT", "CONSUMING_TOTAL_SIZE"}
         -> "WAITING_FOR_SPAN_WITH_ID"
    [] OTHER -> parser.state

\* A div without an id, as long as the general one has not come.
ComparesNull(e) == parser.state = "WAITING_FOR_DIV_GENERAL" /\ IsTag(e, "div") /\ e.value = NULL

stats_xml_cb ==
  LET e == Events[list[turn]][at]
      after == [state |-> StateAfter(e),
                files |-> IF parser.state = "CONSUMING_FILE_COUNT" /\ IsValue(e) THEN e.value ELSE parser.files,
                bytes |-> IF parser.state = "CONSUMING_TOTAL_SIZE" /\ IsValue(e) THEN e.value ELSE parser.bytes]
  IN /\ Asking
     /\ at \in DOMAIN Events[list[turn]]
     /\ IF ComparesNull(e)
          THEN undefined' = "strcmp" /\ UNCHANGED <<parser, at, statsVars>>
          ELSE /\ parser' = after
               /\ at' = at + 1
               /\ IF parser.state \in {"CONSUMING_FILE_COUNT", "CONSUMING_TOTAL_SIZE"} /\ IsValue(e)
                    THEN raise_cb_if_done(after)
                    ELSE UNCHANGED <<statsVars, undefined>>
     /\ UNCHANGED <<list, turn, whole>>

\* The page is over, or the fetch failed: indexnode_tryget_stats deletes the
\* parser and fsfuse_statfs, which ignores its rc, goes on.
indexnode_tryget_stats_Returns ==
  /\ Asking
  /\ turn' = turn + 1
  /\ at' = 1
  /\ whole' = (whole /\ at > Len(Events[list[turn]]))
  /\ parser' = NewParser
  /\ UNCHANGED <<list, statsVars, undefined>>

Next ==
  \/ \E n \in 0 .. MaxIndexnodes : \E l \in [1 .. n -> Pages] : fsfuse_statfs(l)
  \/ stats_xml_cb
  \/ indexnode_tryget_stats_Returns

Spec == Init /\ [][Next]_vars

-----------------------------------------------------------------------------
\* The counters stay within an unsigned long, cbs_remaining does not wrap.
TypeOK ==
  /\ list \in Seq(Pages) /\ turn \in 0 .. Len(list) + 1
  /\ at \in Nat /\ whole \in BOOLEAN
  /\ parser \in [state : {"WAITING_FOR_DIV_GENERAL", "WAITING_FOR_SPAN_WITH_ID",
                          "CONSUMING_FILE_COUNT", "CONSUMING_TOTAL_SIZE"},
                 files : Nat, bytes : Nat]
  /\ stats \in [f_files : 0 .. ULONG_MOD - 1, bytes_total : 0 .. ULONG_MOD - 1,
                cbs_remaining : 0 .. MaxIndexnodes]
  /\ freed \in BOOLEAN
  /\ Len(reply) <= 1
  /\ undefined \in {"no", "freed", "strcmp"}

\* What page p says under this id: the attributes of its span.
Span(p, id) ==
  LET i == SelectInSeq(Document[p], LAMBDA c : /\ c.call = "startElementNs" /\ c.name = "span"
                                               /\ Attr("id", id) \in ToSet(c.attrs))
  IN SelectSeq(Document[p][i].attrs, LAMBDA a : a.name # "id")
Says(p, id) == Span(p, id)[SelectInSeq(Span(p, id), LAMBDA a : a.name = "value")].value

\* Whether the parser can follow page p: both counts are there, are not 0, and
\* come first in their spans.
Counts == {"file-count", "total-size"}
Reports(p) == \A id \in Counts : Says(p, id) # 0 /\ Span(p, id)[1].name = "value"

\* Where page p has the span of a count, and its general div, among its events.
SpanAt(p, id) == {k \in DOMAIN Events[p] : IsTag(Events[p][k], "span") /\ Events[p][k].value = id}
GeneralAt(p) == {k \in DOMAIN Events[p] : IsTag(Events[p][k], "div") /\ Events[p][k].value = "general"}

\* A page has each count once at most.
ReportsOnce(p) == \A id \in Counts : \A j, k \in SpanAt(p, id) : j = k

\* It has each, in its general div; the event after the span is its first
\* attribute, and the value there is the one that the page says.
ReadAsSaid(p) ==
  \A id \in Counts :
    /\ Says(p, id) \in Nat
    /\ \E k \in SpanAt(p, id) :
         /\ k + 1 \in DOMAIN Events[p] /\ Events[p][k + 1].event = "ATTRIBUTE"
         /\ IsValue(Events[p][k + 1]) <=> Span(p, id)[1].name = "value"
         /\ IsValue(Events[p][k + 1]) => Events[p][k + 1].value = Says(p, id)
         /\ \E g \in GeneralAt(p) : g < k

\* No indexnode of this request has a count twice on its page.
Unrepeated == \A i \in DOMAIN list : ReportsOnce(list[i])

\* What the first pages of the list say under this id, added up, and all.
Totals(l, id) ==
  LET total[n \in 0 .. Len(l)] == IF n = 0 THEN 0 ELSE total[n - 1] + Says(l[n], id)
  IN total
SumOf(id) == Totals(list, id)[Len(list)]

\* A reply counts every indexnode, each once and with what its page says,
\* whichever count comes first and wherever a fetch broke off, unless a page
\* has a count twice: its indexnode then reports again, in place of another.
ReplyIsTheSum ==
  Unrepeated /\ reply # <<>> =>
    reply = <<[f_files |-> Wrap(SumOf("file-count")),
               f_blocks |-> Wrap(SumOf("total-size")) \div BLKSIZE]>>

\* The context that stats_cb freed with the reply is used again only on
\* account of a page that has a count twice, which parser_stats.c does not
\* notice: neither a fetch that breaks off, nor a count that is 0, nor the
\* order of the counts makes an indexnode report twice or after the last.
FreedOnlyByRepeats == undefined = "freed" => ~Unrepeated

\* What decides whether a statfs is answered at all, if no page has a count
\* twice: it is if there is an indexnode, every page arrives whole and the
\* parser can follow each; it is not if one shares nothing or orders its
\* attributes otherwise.  (Nobody answers the request after fsfuse_statfs
\* returned.)
AnsweredUnlessSilent ==
  Unrepeated /\ Done =>
    LET reporting == list # <<>> /\ \A i \in DOMAIN list : Reports(list[i])
    IN (reply # <<>> => reporting) /\ (whole /\ reporting => reply # <<>>)
=============================================================================
