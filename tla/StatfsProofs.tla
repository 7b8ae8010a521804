---------------------------- MODULE StatfsProofs -----------------------------
(***************************************************************************)
(* One statfs request, for any number of indexnodes and any pages: the     *)
(* context is used after the reply only if a page of the request has a     *)
(* count twice; that otherwise the reply is the sum, and when it comes,    *)
(* asks of the pages that each has both counts.                            *)
(***************************************************************************)
EXTENDS Statfs, SequenceTheorems, WellFoundedInduction, TLAPS

(***************************************************************************)
(* The parser, by what it counts.                                          *)
(***************************************************************************)
Page == list[turn]
Field(id) == IF id = "file-count" THEN parser.files ELSE parser.bytes
Consuming(id) == IF id = "file-count" THEN "CONSUMING_FILE_COUNT" ELSE "CONSUMING_TOTAL_SIZE"
Reported == parser.files # 0 /\ parser.bytes # 0

\* How many indexnodes have had their turn, or have reported in it.
Heard == turn - 1 + (IF Reported THEN 1 ELSE 0)

(***************************************************************************)
(* The inductive invariant.                                                *)
(***************************************************************************)

\* The context lasts until the last report.
Request ==
  /\ turn = 0 => list = <<>>
  /\ turn \notin DOMAIN list => parser = NewParser /\ at = 1 /\ undefined = "no"
  /\ at >= 1 /\ Len(list) <= MaxIndexnodes
  /\ freed <=> list # <<>> /\ stats.cbs_remaining = 0
  /\ freed <=> reply # <<>>

\* What the parser waits for, or has, it has met on the page.
Met ==
  turn \in DOMAIN list =>
    \A id \in Counts :
      /\ parser.state = Consuming(id) => at - 1 \in SpanAt(Page, id)
      /\ Field(id) # 0 => \E k \in SpanAt(Page, id) : k + 1 < at

\* No indexnode reports more than once.
Outstanding == turn > 0 => stats.cbs_remaining >= Len(list) - Heard

Inv == TypeOK /\ Request /\ Met

\* The values of a page's attributes are numbers.
LEMMA ValueType ==
  ASSUME TypeOK, turn \in DOMAIN list, at \in DOMAIN Events[Page], IsValue(Events[Page][at])
  PROVE  Events[Page][at].value \in Nat
<1>1. Page \in Pages
  BY ElementOfSeq, LenProperties DEF TypeOK, Page
<1>. QED BY <1>1, PagesAssumption

\* The places in a page are numbers.
LEMMA SpanInt ==
  ASSUME TypeOK, turn \in DOMAIN list, NEW id \in Counts, NEW k \in SpanAt(Page, id)
  PROVE  k \in Nat
<1>1. Page \in Pages
  BY ElementOfSeq, LenProperties DEF TypeOK, Page
<1>. QED BY <1>1, PagesAssumption DEF SpanAt

(***************************************************************************)
(* What stats_xml_cb does with an event.                                   *)
(***************************************************************************)
Stops == undefined' = "strcmp" /\ UNCHANGED <<askVars, statsVars>>

Moves == at' = at + 1 /\ UNCHANGED <<list, turn, whole>>

Passes ==
  /\ Moves
  /\ \A id \in Counts : parser.state = Consuming(id) => ~IsValue(Events[Page][at])
  /\ parser' = [parser EXCEPT !.state = StateAfter(Events[Page][at])]
  /\ UNCHANGED <<statsVars, undefined>>

Takes(id) ==
  /\ Moves
  /\ parser.state = Consuming(id) /\ IsValue(Events[Page][at])
  /\ parser'.state = "WAITING_FOR_SPAN_WITH_ID"
  /\ parser' \in [state : {"WAITING_FOR_SPAN_WITH_ID"}, files : Nat, bytes : Nat]
  /\ Field(id)' = Events[Page][at].value
  /\ \A other \in Counts \ {id} : Field(other)' = Field(other)
  /\ IF Reported' THEN stats_cb(parser'.files, parser'.bytes) ELSE UNCHANGED <<statsVars, undefined>>

\* One of these.
LEMMA EventSteps ==
  ASSUME TypeOK, stats_xml_cb
  PROVE  /\ turn \in DOMAIN list /\ undefined = "no" /\ at \in DOMAIN Events[Page]
         /\ Stops \/ Passes \/ \E id \in Counts : Takes(id)
<1>. DEFINE e == Events[Page][at]
<1>1. /\ turn \in DOMAIN list /\ undefined = "no" /\ at \in DOMAIN Events[Page]
      /\ UNCHANGED <<list, turn, whole>>
  BY DEF stats_xml_cb, Asking, Page
<1>2. CASE ComparesNull(e)
  BY <1>1, <1>2 DEF stats_xml_cb, Page, Stops, askVars
<1>3. CASE ~ComparesNull(e)
  <2>1. /\ at' = at + 1
        /\ parser' = [state |-> StateAfter(e),
                      files |-> IF parser.state = "CONSUMING_FILE_COUNT" /\ IsValue(e) THEN e.value ELSE parser.files,
                      bytes |-> IF parser.state = "CONSUMING_TOTAL_SIZE" /\ IsValue(e) THEN e.value ELSE parser.bytes]
        /\ IF parser.state \in {"CONSUMING_FILE_COUNT", "CONSUMING_TOTAL_SIZE"} /\ IsValue(e)
             THEN raise_cb_if_done(parser') ELSE UNCHANGED <<statsVars, undefined>>
    BY <1>3 DEF stats_xml_cb, Page
  <2>2. IsValue(e) => e.value \in Nat
    BY <1>1, ValueType
  <2>. HIDE DEF e
  <2>3. CASE parser.state = "CONSUMING_FILE_COUNT" /\ IsValue(e)
    <3>1. StateAfter(e) = "WAITING_FOR_SPAN_WITH_ID"
      BY <2>3 DEF StateAfter
    <3>2. parser' = [state |-> "WAITING_FOR_SPAN_WITH_ID", files |-> e.value, bytes |-> parser.bytes]
      BY <2>1, <2>3, <3>1
    <3>3. parser.bytes \in Nat
      BY DEF TypeOK
    <3>4. IF Reported' THEN stats_cb(parser'.files, parser'.bytes) ELSE UNCHANGED <<statsVars, undefined>>
      BY <2>1, <2>3 DEF raise_cb_if_done, Reported
    <3>. QED BY <1>1, <2>1, <2>2, <2>3, <3>2, <3>3, <3>4 DEF Takes, Moves, Field, Counts, Consuming, e
  <2>4. CASE parser.state = "CONSUMING_TOTAL_SIZE" /\ IsValue(e)
    <3>1. StateAfter(e) = "WAITING_FOR_SPAN_WITH_ID"
      BY <2>4 DEF StateAfter
    <3>2. parser' = [state |-> "WAITING_FOR_SPAN_WITH_ID", files |-> parser.files, bytes |-> e.value]
      BY <2>1, <2>4, <3>1
    <3>3. parser.files \in Nat
      BY DEF TypeOK
    <3>4. IF Reported' THEN stats_cb(parser'.files, parser'.bytes) ELSE UNCHANGED <<statsVars, undefined>>
      BY <2>1, <2>4 DEF raise_cb_if_done, Reported
    <3>. QED BY <1>1, <2>1, <2>2, <2>4, <3>2, <3>3, <3>4 DEF Takes, Moves, Field, Counts, Consuming, e
  <2>5. CASE ~(parser.state \in {"CONSUMING_FILE_COUNT", "CONSUMING_TOTAL_SIZE"} /\ IsValue(e))
    <3>1. parser' = [state |-> StateAfter(e), files |-> parser.files, bytes |-> parser.bytes]
      BY <2>1, <2>5
    <3>2. parser' = [parser EXCEPT !.state = StateAfter(e)]
      BY <3>1 DEF TypeOK
    <3>. QED BY <1>1, <2>1, <2>5, <3>2 DEF Passes, Moves, Counts, Consuming, e
  <2>. QED BY <1>1, <2>3, <2>4, <2>5
<1>. QED BY <1>1, <1>2, <1>3

\* Where an event that is passed leads.
LEMMA StateFacts ==
  ASSUME TypeOK, turn \in DOMAIN list, at \in DOMAIN Events[Page]
  PROVE  LET s == StateAfter(Events[Page][at]) IN
         /\ s \in {"WAITING_FOR_DIV_GENERAL", "WAITING_FOR_SPAN_WITH_ID",
                   "CONSUMING_FILE_COUNT", "CONSUMING_TOTAL_SIZE"}
         /\ \A id \in Counts : s = Consuming(id) => at \in SpanAt(Page, id)
         /\ \A id \in Counts :
              at \in SpanAt(Page, id) /\ parser.state = "WAITING_FOR_SPAN_WITH_ID" => s = Consuming(id)
         /\ s = "WAITING_FOR_DIV_GENERAL" =>
              parser.state = "WAITING_FOR_DIV_GENERAL" /\ at \notin GeneralAt(Page)
<1>. DEFINE e == Events[Page][at]
<1>1. \A id \in Counts : at \in SpanAt(Page, id) <=> IsTag(e, "span") /\ e.value = id
  BY DEF SpanAt
<1>2. at \in GeneralAt(Page) <=> IsTag(e, "div") /\ e.value = "general"
  BY DEF GeneralAt
<1>3. parser.state \in {"WAITING_FOR_DIV_GENERAL", "WAITING_FOR_SPAN_WITH_ID",
                        "CONSUMING_FILE_COUNT", "CONSUMING_TOTAL_SIZE"}
  BY DEF TypeOK
<1>. HIDE DEF e
<1>. QED BY <1>1, <1>2, <1>3 DEF StateAfter, Counts, Consuming, e

(***************************************************************************)
(* The invariant is inductive.                                             *)
(***************************************************************************)
LEMMA InitInv == Init => Inv
<1>. SUFFICES ASSUME Init PROVE Inv
  OBVIOUS
<1>1. list = <<>> /\ list \in Seq(Pages) /\ Len(list) = 0 /\ turn \notin DOMAIN list
  BY DEF Init
<1>2. TypeOK
  <2>1. Len(reply) = 0
    BY DEF Init
  <2>2. parser \in [state : {"WAITING_FOR_DIV_GENERAL", "WAITING_FOR_SPAN_WITH_ID",
                             "CONSUMING_FILE_COUNT", "CONSUMING_TOTAL_SIZE"},
                    files : Nat, bytes : Nat]
    BY DEF Init, NewParser
  <2>3. stats \in [f_files : 0 .. ULONG_MOD - 1, bytes_total : 0 .. ULONG_MOD - 1,
                   cbs_remaining : 0 .. MaxIndexnodes]
    BY StatfsAssumption DEF Init
  <2>4. turn \in 0 .. Len(list) + 1 /\ at \in Nat /\ Len(reply) <= 1
    BY <1>1, <2>1 DEF Init
  <2>5. freed \in BOOLEAN /\ whole \in BOOLEAN /\ undefined \in {"no", "freed", "strcmp"}
    BY DEF Init
  <2>. QED BY <1>1, <2>2, <2>3, <2>4, <2>5 DEF TypeOK
<1>3. Request
  BY <1>1, StatfsAssumption DEF Init, Request
<1>. QED BY <1>1, <1>2, <1>3 DEF Inv, Met

LEMMA StartInv ==
  ASSUME Inv, NEW n \in 0 .. MaxIndexnodes, NEW l \in [1 .. n -> Pages], fsfuse_statfs(l)
  PROVE  Inv'
<1>1. l \in Seq(Pages) /\ Len(l) = n /\ DOMAIN l = 1 .. n /\ n \in Nat /\ MaxIndexnodes \in Nat
  BY StatfsAssumption, LenProperties
<1>2. turn = 0 /\ list = <<>> /\ list' = l /\ turn' = 1 /\ at = 1 /\ parser = NewParser /\ undefined = "no"
      /\ UNCHANGED <<at, whole, parser, freed, reply, undefined>>
      /\ stats' = [stats EXCEPT !.cbs_remaining = Len(l)]
  BY DEF Inv, Request, fsfuse_statfs
<1>3. ~freed /\ reply = <<>>
  BY <1>2 DEF Inv, Request, TypeOK
<1>4. TypeOK'
  BY <1>1, <1>2 DEF Inv, TypeOK
<1>5. Request'
  <2>1. list' # <<>> => Len(l) # 0
    BY <1>1, <1>2, EmptySeq
  <2>2. stats'.cbs_remaining = Len(l)
    BY <1>2 DEF Inv, TypeOK
  <2>. QED BY <1>1, <1>2, <1>3, <2>1, <2>2 DEF Inv, Request
<1>6. Met'
  BY <1>2 DEF Met, NewParser, Counts, Consuming, Field
<1>. QED BY <1>4, <1>5, <1>6 DEF Inv

LEMMA ReturnsInv ==
  ASSUME Inv, indexnode_tryget_stats_Returns
  PROVE  Inv'
<1>1. /\ turn \in DOMAIN list /\ undefined = "no" /\ turn' = turn + 1 /\ at' = 1 /\ parser' = NewParser
      /\ whole' \in BOOLEAN /\ UNCHANGED <<list, stats, freed, reply, undefined>>
  BY DEF indexnode_tryget_stats_Returns, Asking, statsVars
<1>2. list \in Seq(Pages) /\ DOMAIN list = 1 .. Len(list) /\ Len(list) \in Nat
  BY LenProperties DEF Inv, TypeOK
<1>3. TypeOK'
  BY <1>1, <1>2 DEF Inv, TypeOK, NewParser
<1>4. Request'
  BY <1>1, <1>2 DEF Inv, Request
<1>5. Met'
  BY <1>1 DEF Met, NewParser, Counts, Consuming, Field
<1>. QED BY <1>3, <1>4, <1>5 DEF Inv

\* A report keeps the context's account.
LEMMA ReportKeeps ==
  ASSUME Inv, turn \in DOMAIN list, UNCHANGED <<list, turn>>,
         NEW files \in Nat, NEW bytes \in Nat, stats_cb(files, bytes)
  PROVE  /\ stats' \in [f_files : 0 .. ULONG_MOD - 1, bytes_total : 0 .. ULONG_MOD - 1,
                        cbs_remaining : 0 .. MaxIndexnodes]
         /\ freed' \in BOOLEAN /\ Len(reply') <= 1
         /\ undefined' = (IF freed THEN "freed" ELSE undefined)
         /\ freed' <=> list # <<>> /\ stats'.cbs_remaining = 0
         /\ freed' <=> reply' # <<>>
<1>1. list # <<>>
  OBVIOUS
<1>2. CASE freed
  BY <1>1, <1>2 DEF Inv, TypeOK, Request, stats_cb, statsVars
<1>3. CASE ~freed
  <2>. DEFINE after == [f_files |-> Wrap(stats.f_files + files),
                        bytes_total |-> Wrap(stats.bytes_total + bytes),
                        cbs_remaining |-> stats.cbs_remaining - 1]
              answer == [f_files |-> after.f_files, f_blocks |-> after.bytes_total \div BLKSIZE]
  <2>1. /\ stats' = after /\ freed' = (after.cbs_remaining = 0)
        /\ reply' = IF after.cbs_remaining = 0 THEN <<answer>> ELSE reply
        /\ undefined' = undefined
    BY <1>3 DEF stats_cb
  <2>2. stats.cbs_remaining \in 1 .. MaxIndexnodes /\ reply = <<>>
    BY <1>1, <1>3, StatfsAssumption DEF Inv, TypeOK, Request
  <2>3. after.f_files \in 0 .. ULONG_MOD - 1 /\ after.bytes_total \in 0 .. ULONG_MOD - 1
    <3>1. stats.f_files + files \in Nat /\ stats.bytes_total + bytes \in Nat
      BY StatfsAssumption DEF Inv, TypeOK
    <3>2. \A m \in Nat : Wrap(m) \in 0 .. ULONG_MOD - 1
      BY StatfsAssumption DEF Wrap
    <3>. QED BY <3>1, <3>2
  <2>4. after.cbs_remaining = stats.cbs_remaining - 1
    OBVIOUS
  <2>5. after \in [f_files : 0 .. ULONG_MOD - 1, bytes_total : 0 .. ULONG_MOD - 1,
                   cbs_remaining : 0 .. MaxIndexnodes]
    BY <2>2, <2>3, StatfsAssumption
  <2>6. <<answer>> # <<>> /\ Len(<<answer>>) = 1 /\ Len(<<>>) = 0
    OBVIOUS
  <2>. HIDE DEF after, answer
  <2>7. freed' <=> stats'.cbs_remaining = 0
    BY <2>1
  <2>8. Len(reply') <= 1 /\ (freed' <=> reply' # <<>>)
    <3>1. CASE after.cbs_remaining = 0
      <4>1. reply' = <<answer>> /\ freed'
        BY <2>1, <3>1
      <4>. QED BY <2>6, <4>1
    <3>2. CASE after.cbs_remaining # 0
      <4>1. reply' = <<>> /\ ~freed'
        BY <2>1, <2>2, <3>2
      <4>. QED BY <4>1
    <3>. QED BY <3>1, <3>2
  <2>9. stats' \in [f_files : 0 .. ULONG_MOD - 1, bytes_total : 0 .. ULONG_MOD - 1,
                    cbs_remaining : 0 .. MaxIndexnodes]
    BY <2>1, <2>5
  <2>10. freed' \in BOOLEAN
    BY <2>1
  <2>. QED BY <1>1, <1>3, <2>1, <2>7, <2>8, <2>9, <2>10
<1>. QED BY <1>2, <1>3

\* Meeting an event keeps what has been met.
LEMMA EventInv ==
  ASSUME Inv, stats_xml_cb
  PROVE  Inv'
<1>1. /\ turn \in DOMAIN list /\ undefined = "no" /\ at \in DOMAIN Events[Page]
      /\ Stops \/ Passes \/ \E id \in Counts : Takes(id)
  BY EventSteps DEF Inv
<1>2. at \in Nat /\ at >= 1
  BY DEF Inv, TypeOK, Request
<1>3. CASE Stops
  BY <1>1, <1>3 DEF Inv, TypeOK, Request, Met, Stops, askVars, statsVars, Page, Field, Consuming
<1>4. CASE Passes
  <2>1. /\ at' = at + 1 /\ UNCHANGED <<list, turn, whole, stats, freed, reply, undefined>>
        /\ parser' = [parser EXCEPT !.state = StateAfter(Events[Page][at])]
    BY <1>4 DEF Passes, Moves, statsVars
  <2>2. /\ StateAfter(Events[Page][at]) \in {"WAITING_FOR_DIV_GENERAL", "WAITING_FOR_SPAN_WITH_ID",
                                             "CONSUMING_FILE_COUNT", "CONSUMING_TOTAL_SIZE"}
        /\ \A id \in Counts : StateAfter(Events[Page][at]) = Consuming(id) => at \in SpanAt(Page, id)
    BY <1>1, StateFacts DEF Inv
  <2>3. /\ parser'.state = StateAfter(Events[Page][at])
        /\ parser'.files = parser.files /\ parser'.bytes = parser.bytes
    BY <2>1 DEF Inv, TypeOK
  <2>4. TypeOK'
    <3>1. parser' \in [state : {"WAITING_FOR_DIV_GENERAL", "WAITING_FOR_SPAN_WITH_ID",
                          "CONSUMING_FILE_COUNT", "CONSUMING_TOTAL_SIZE"},
                 files : Nat, bytes : Nat]
      BY <2>1, <2>2 DEF Inv, TypeOK
    <3>. QED BY <1>2, <2>1, <3>1 DEF Inv, TypeOK
  <2>5. Request'
    BY <1>1, <1>2, <2>1 DEF Inv, Request
  <2>6. Met'
    <3>1. Page' = Page /\ \A id \in Counts : Field(id)' = Field(id)
      BY <2>1, <2>3 DEF Page, Field
    <3>2. \A id \in Counts : parser'.state = Consuming(id) => at' - 1 \in SpanAt(Page, id)
      BY <1>2, <2>1, <2>2, <2>3
    <3>3. \A id \in Counts : Field(id) # 0 => \E k \in SpanAt(Page, id) : k + 1 < at
      BY <1>1 DEF Inv, Met
    <3>4. \A id \in Counts : \A k \in SpanAt(Page, id) : k + 1 < at => k + 1 < at'
      <4>. SUFFICES ASSUME NEW id \in Counts, NEW k \in SpanAt(Page, id), k + 1 < at PROVE k + 1 < at'
        OBVIOUS
      <4>. QED BY <1>2, <2>1, SpanInt, <1>1 DEF Inv
    <3>. QED BY <3>1, <3>2, <3>3, <3>4 DEF Met, Consuming
  <2>. QED BY <2>4, <2>5, <2>6 DEF Inv
<1>5. ASSUME NEW id \in Counts, Takes(id) PROVE Inv'
  <2>1. /\ at' = at + 1 /\ UNCHANGED <<list, turn, whole>>
        /\ parser.state = Consuming(id) /\ parser'.state = "WAITING_FOR_SPAN_WITH_ID"
        /\ parser' \in [state : {"WAITING_FOR_SPAN_WITH_ID"}, files : Nat, bytes : Nat]
        /\ \A other \in Counts \ {id} : Field(other)' = Field(other)
        /\ IF Reported' THEN stats_cb(parser'.files, parser'.bytes) ELSE UNCHANGED <<statsVars, undefined>>
    BY <1>5 DEF Takes, Moves
  <2>2. /\ stats' \in [f_files : 0 .. ULONG_MOD - 1, bytes_total : 0 .. ULONG_MOD - 1,
                       cbs_remaining : 0 .. MaxIndexnodes]
        /\ freed' \in BOOLEAN /\ Len(reply') <= 1
        /\ undefined' \in {"no", "freed", "strcmp"}
        /\ freed' <=> list # <<>> /\ stats'.cbs_remaining = 0
        /\ freed' <=> reply' # <<>>
    <3>1. CASE Reported'
      BY <1>1, <2>1, <3>1, ReportKeeps
    <3>2. CASE ~Reported'
      BY <1>1, <2>1, <3>2 DEF Inv, TypeOK, Request, statsVars
    <3>. QED BY <3>1, <3>2
  <2>3. TypeOK'
    BY <1>2, <2>1, <2>2 DEF Inv, TypeOK
  <2>4. Request'
    BY <1>1, <1>2, <2>1, <2>2 DEF Inv, Request
  <2>5. Met'
    <3>1. Page' = Page
      BY <2>1 DEF Page
    <3>2. \A o \in Counts : Field(o)' # 0 => \E k \in SpanAt(Page, o) : k + 1 < at'
      <4>. SUFFICES ASSUME NEW o \in Counts, Field(o)' # 0 PROVE \E k \in SpanAt(Page, o) : k + 1 < at'
        OBVIOUS
      <4>1. CASE o = id
        BY <1>1, <1>2, <2>1, <4>1 DEF Inv, Met
      <4>2. CASE o # id
        <5>1. PICK k \in SpanAt(Page, o) : k + 1 < at
          BY <1>1, <2>1, <4>2 DEF Inv, Met
        <5>. QED BY <1>1, <1>2, <2>1, <5>1, SpanInt DEF Inv
      <4>. QED BY <4>1, <4>2
    <3>3. \A o \in Counts : parser'.state # Consuming(o)
      BY <2>1 DEF Counts, Consuming
    <3>. QED BY <3>1, <3>2, <3>3 DEF Met, Consuming
  <2>. QED BY <2>3, <2>4, <2>5 DEF Inv
<1>. QED BY <1>1, <1>3, <1>4, <1>5

LEMMA NextInv == Inv /\ [Next]_vars => Inv'
<1>. SUFFICES ASSUME Inv, [Next]_vars PROVE Inv'
  OBVIOUS
<1>1. CASE UNCHANGED vars
  BY <1>1 DEF Inv, TypeOK, Request, Met, vars, askVars, statsVars, Page, Field, Consuming
<1>. QED BY <1>1, StartInv, ReturnsInv, EventInv DEF Next

\* The counters of the context and of the parser keep their types: the number
\* of callbacks still to come never drops below 0 (stats_cb, statfs.c), however
\* often an indexnode's page repeats its counts.
THEOREM TypeCorrect == Spec => []TypeOK
<1>1. Inv => TypeOK
  BY DEF Inv
<1>. QED BY <1>1, InitInv, NextInv, PTL DEF Spec

(***************************************************************************)
(* The context outlives the reports.                                       *)
(***************************************************************************)
LEMMA PageType ==
  ASSUME Inv, turn \in DOMAIN list
  PROVE  Page \in Pages
BY ElementOfSeq, LenProperties DEF Inv, TypeOK, Page

LEMMA ListFacts ==
  ASSUME Inv
  PROVE  /\ list \in Seq(Pages) /\ Len(list) \in Nat /\ DOMAIN list = 1 .. Len(list)
         /\ turn \in 0 .. Len(list) + 1 /\ stats.cbs_remaining \in Nat
         /\ Heard \in Int /\ Heard <= turn /\ (Reported => Heard = turn) /\ (~Reported => Heard = turn - 1)
<1>1. /\ list \in Seq(Pages) /\ Len(list) \in Nat /\ DOMAIN list = 1 .. Len(list)
      /\ turn \in 0 .. Len(list) + 1 /\ stats.cbs_remaining \in Nat
  BY LenProperties, StatfsAssumption DEF Inv, TypeOK
<1>. QED BY <1>1 DEF Heard

\* The parser comes to the value of a count once.
LEMMA FirstTime ==
  ASSUME Inv, turn \in DOMAIN list, ReportsOnce(Page), NEW id \in Counts, parser.state = Consuming(id)
  PROVE  Field(id) = 0 /\ ~Reported
<1>1. Field(id) = 0
  <2>. SUFFICES ASSUME Field(id) # 0 PROVE FALSE
    OBVIOUS
  <2>1. at - 1 \in SpanAt(Page, id) /\ at \in Nat
    BY DEF Inv, Met, TypeOK
  <2>2. PICK k \in SpanAt(Page, id) : k + 1 < at
    BY DEF Inv, Met
  <2>3. k = at - 1
    BY <2>1, <2>2 DEF ReportsOnce
  <2>. QED BY <2>1, <2>2, <2>3
<1>. QED BY <1>1 DEF Field, Reported, Counts

Account == Outstanding /\ undefined # "freed"

\* A step of the parser that takes a value reports for the first time, to a
\* context that still waits for it.
LEMMA TakesAccount ==
  ASSUME Inv, Account, turn \in DOMAIN list, undefined = "no", ReportsOnce(Page),
         NEW id \in Counts, Takes(id)
  PROVE  /\ Account' /\ undefined' = "no"
         /\ Reported' => /\ ~freed /\ stats'.cbs_remaining = stats.cbs_remaining - 1
                         /\ stats_cb(parser'.files, parser'.bytes)
         /\ ~Reported' => UNCHANGED statsVars
<1>1. Field(id) = 0 /\ ~Reported
  BY FirstTime DEF Takes
<1>2. /\ list \in Seq(Pages) /\ Len(list) \in Nat /\ DOMAIN list = 1 .. Len(list)
      /\ stats.cbs_remaining \in Nat /\ Heard = turn - 1 /\ turn \in 1 .. Len(list)
  BY <1>1, ListFacts
<1>3. stats.cbs_remaining >= 1 /\ stats.cbs_remaining >= Len(list) - turn + 1 /\ ~freed
  BY <1>2 DEF Account, Outstanding, Inv, Request
<1>4. list' = list /\ turn' = turn
  BY DEF Takes, Moves
<1>5. CASE Reported'
  <2>1. stats_cb(parser'.files, parser'.bytes)
    BY <1>5 DEF Takes
  <2>2. stats'.cbs_remaining = stats.cbs_remaining - 1 /\ undefined' = undefined
    BY <1>3, <2>1 DEF stats_cb
  <2>3. Heard' = turn
    BY <1>2, <1>4, <1>5 DEF Heard
  <2>4. Outstanding'
    BY <1>2, <1>3, <1>4, <2>2, <2>3 DEF Outstanding
  <2>. QED BY <1>3, <1>5, <2>1, <2>2, <2>4 DEF Account
<1>6. CASE ~Reported'
  <2>1. UNCHANGED statsVars /\ undefined' = undefined
    BY <1>6 DEF Takes
  <2>2. Heard' = Heard
    BY <1>2, <1>4, <1>6 DEF Heard
  <2>. QED BY <1>4, <1>6, <2>1, <2>2 DEF Account, Outstanding, statsVars
<1>. QED BY <1>5, <1>6

LEMMA NextAccount ==
  ASSUME Unrepeated, Inv, Account, [Next]_vars
  PROVE  Account'
<1>1. CASE UNCHANGED vars
  BY <1>1 DEF Account, Outstanding, Heard, Reported, vars, askVars, statsVars
<1>2. ASSUME NEW n \in 0 .. MaxIndexnodes, NEW l \in [1 .. n -> Pages], fsfuse_statfs(l)
      PROVE  Account'
  <2>1. l \in Seq(Pages) /\ Len(l) \in Nat
    BY StatfsAssumption, LenProperties
  <2>2. list' = l /\ turn' = 1 /\ stats' = [stats EXCEPT !.cbs_remaining = Len(l)]
        /\ UNCHANGED <<parser, undefined>> /\ parser = NewParser
    <3>1. turn = 0 /\ turn \notin DOMAIN list
      BY <1>2, ListFacts DEF fsfuse_statfs
    <3>. QED BY <1>2, <3>1 DEF fsfuse_statfs, Inv, Request
  <2>3. Heard' = 0
    BY <2>2 DEF Heard, Reported, NewParser
  <2>4. stats'.cbs_remaining = Len(l)
    BY <2>2 DEF Inv, TypeOK
  <2>. QED BY <2>1, <2>2, <2>3, <2>4 DEF Account, Outstanding
<1>3. CASE indexnode_tryget_stats_Returns
  <2>1. /\ turn \in DOMAIN list /\ turn' = turn + 1 /\ parser' = NewParser
        /\ UNCHANGED <<list, stats, undefined>>
    BY <1>3 DEF indexnode_tryget_stats_Returns, Asking, statsVars
  <2>2. ~Reported'
    BY <2>1 DEF Reported, NewParser
  <2>3. Heard' = turn
    BY <2>1, <2>2, ListFacts DEF Heard
  <2>. QED BY <2>1, <2>3, ListFacts DEF Account, Outstanding
<1>4. CASE stats_xml_cb
  <2>1. /\ turn \in DOMAIN list /\ undefined = "no"
        /\ Stops \/ Passes \/ \E id \in Counts : Takes(id)
    BY <1>4, EventSteps DEF Inv
  <2>2. ReportsOnce(Page)
    BY <2>1 DEF Unrepeated, Page
  <2>3. CASE Stops
    BY <2>3 DEF Stops, askVars, statsVars, Account, Outstanding, Heard, Reported
  <2>4. CASE Passes
    <3>1. /\ UNCHANGED <<list, turn, stats, undefined>>
          /\ parser'.files = parser.files /\ parser'.bytes = parser.bytes
      BY <2>4 DEF Passes, Moves, statsVars, Inv, TypeOK
    <3>. QED BY <3>1 DEF Account, Outstanding, Heard, Reported
  <2>. QED BY <2>1, <2>2, <2>3, <2>4, TakesAccount
<1>. QED BY <1>1, <1>2, <1>3, <1>4 DEF Next

LEMMA InitAccount == Init => Account
BY DEF Init, Account, Outstanding

\* The list is fixed when the request begins, and empty before.
LEMMA UnrepeatedBefore ==
  ASSUME Inv, [Next]_vars, Unrepeated'
  PROVE  Unrepeated
<1>1. CASE turn = 0
  BY <1>1 DEF Inv, Request, Unrepeated
<1>2. CASE turn # 0
  <2>1. list' = list
    BY <1>2 DEF Next, fsfuse_statfs, stats_xml_cb, indexnode_tryget_stats_Returns, vars, askVars
  <2>. QED BY <2>1 DEF Unrepeated
<1>. QED BY <1>1, <1>2

\* stats_cb frees the context with the reply; a callback of parser_stats.c
\* comes to it after that only if a page of the request has one of its counts
\* twice.  Otherwise the number still to come is never less than the number of
\* indexnodes that have not reported, for any pages and any list.
THEOREM ContextOutlivesReports == Spec => []FreedOnlyByRepeats
<1>. DEFINE Sound == Unrepeated => Account
<1>1. Init => Sound
  BY InitAccount
<1>2. Inv /\ Sound /\ [Next]_vars => Sound'
  <2>. SUFFICES ASSUME Inv, Sound, [Next]_vars, Unrepeated' PROVE Account'
    OBVIOUS
  <2>. QED BY UnrepeatedBefore, NextAccount
<1>3. Sound => FreedOnlyByRepeats
  BY DEF Account, FreedOnlyByRepeats
<1>4. Inv /\ [Next]_vars => Inv'
  BY NextInv
<1>. QED BY <1>1, <1>2, <1>3, <1>4, InitInv, PTL DEF Spec

-----------------------------------------------------------------------------
(***************************************************************************)
(* Remainders, and running totals.                                         *)
(***************************************************************************)
LEMMA DivMod ==
  ASSUME NEW n \in Nat
  PROVE  /\ n \div ULONG_MOD \in Nat /\ Wrap(n) \in Nat /\ Wrap(n) < ULONG_MOD
         /\ n = ULONG_MOD * (n \div ULONG_MOD) + Wrap(n)
<1>1. n % ULONG_MOD \in Nat /\ n % ULONG_MOD < ULONG_MOD
  BY StatfsAssumption
<1>2. n \div ULONG_MOD \in Nat
  BY StatfsAssumption
<1>3. n = ULONG_MOD * (n \div ULONG_MOD) + (n % ULONG_MOD)
  BY StatfsAssumption
<1>. QED BY <1>1, <1>2, <1>3 DEF Wrap

LEMMA SmallMultiple ==
  ASSUME NEW k \in Int, ULONG_MOD * k < ULONG_MOD, -ULONG_MOD < ULONG_MOD * k
  PROVE  k = 0
<1>1. ASSUME k >= 1 PROVE FALSE
  <2>1. ULONG_MOD * k >= ULONG_MOD * 1
    BY <1>1, StatfsAssumption
  <2>. QED BY <2>1, StatfsAssumption
<1>2. ASSUME k <= -1 PROVE FALSE
  <2>1. ULONG_MOD * k <= ULONG_MOD * (-1)
    BY <1>2, StatfsAssumption
  <2>. QED BY <2>1, StatfsAssumption
<1>. QED BY <1>1, <1>2

LEMMA RemainderUnique ==
  ASSUME NEW q \in Int, NEW r \in Nat, r < ULONG_MOD,
         NEW q2 \in Int, NEW r2 \in Nat, r2 < ULONG_MOD,
         ULONG_MOD * q + r = ULONG_MOD * q2 + r2
  PROVE  r = r2
<1>1. ULONG_MOD * (q - q2) = r2 - r
  BY StatfsAssumption
<1>2. q - q2 = 0
  BY <1>1, SmallMultiple, StatfsAssumption
<1>. QED BY <1>1, <1>2, StatfsAssumption

\* Wrapping at each addition is wrapping the sum.
LEMMA WrapAdd ==
  ASSUME NEW a \in Nat, NEW b \in Nat
  PROVE  Wrap(Wrap(a) + b) = Wrap(a + b)
<1>. DEFINE q == a \div ULONG_MOD   r == Wrap(a)
            x == r + b   q1 == x \div ULONG_MOD   r1 == Wrap(x)
            y == a + b   q2 == y \div ULONG_MOD   r2 == Wrap(y)
<1>. HIDE DEF q, r, x, q1, r1, y, q2, r2
<1>1. q \in Nat /\ r \in Nat /\ a = ULONG_MOD * q + r
  BY DivMod DEF q, r
<1>2. x \in Nat /\ y \in Nat
  BY <1>1 DEF x, y
<1>3. q1 \in Nat /\ r1 \in Nat /\ r1 < ULONG_MOD /\ x = ULONG_MOD * q1 + r1
  BY <1>2, DivMod DEF q1, r1
<1>4. q2 \in Nat /\ r2 \in Nat /\ r2 < ULONG_MOD /\ y = ULONG_MOD * q2 + r2
  BY <1>2, DivMod DEF q2, r2
<1>5. ULONG_MOD * (q + q1) + r1 = ULONG_MOD * q2 + r2
  <2>1. y = ULONG_MOD * q + x
    BY <1>1, StatfsAssumption DEF x, y
  <2>2. ULONG_MOD * (q + q1) = ULONG_MOD * q + ULONG_MOD * q1
    BY <1>1, <1>3, StatfsAssumption
  <2>. QED BY <1>1, <1>2, <1>3, <1>4, <2>1, <2>2, StatfsAssumption
<1>6. q + q1 \in Int /\ q2 \in Int
  BY <1>1, <1>3, <1>4
<1>7. r1 = r2
  BY <1>3, <1>4, <1>5, <1>6, RemainderUnique
<1>. QED BY <1>7 DEF r, x, r1, y, r2

\* A set of naturals that is not empty has a least element.
LEMMA LeastNumber ==
  ASSUME NEW S \in SUBSET Nat, S # {}
  PROVE  \E m \in S : \A k \in S : m <= k
<1>1. \E R : IsWellFoundedOn(R, Nat) /\ \A x, y \in Nat : x < y => <<x, y>> \in R
  <2>1. IsWellFoundedOn(OpToRel(<, Nat), Nat)
    BY NatLessThanWellFounded
  <2>2. \A x, y \in Nat : x < y => <<x, y>> \in OpToRel(<, Nat)
    BY DEF OpToRel
  <2>. QED BY <2>1, <2>2, Zenon
<1>2. PICK R : IsWellFoundedOn(R, Nat) /\ \A x, y \in Nat : x < y => <<x, y>> \in R
  BY <1>1
<1>3. PICK m \in S : \A k \in S : ~(<<k, m>> \in R)
  <2>1. IsWellFoundedOn(R, Nat) /\ S \subseteq Nat /\ S # {}
    BY <1>2
  <2>. QED BY <2>1, WFMin, Zenon
<1>4. \A k \in S : ~(k < m)
  BY <1>2, <1>3
<1>. QED BY <1>4

\* g adds up what the first m pages of l say.
Adds(l, id, m, g) ==
  g = [n \in 0 .. m |-> IF n = 0 THEN 0 ELSE g[n - 1] + Says(l[n], id)]

LEMMA AddsRuns ==
  ASSUME NEW l \in Seq(Pages), NEW id
  PROVE  \A m \in 0 .. Len(l) : \E g : Adds(l, id, m, g)
<1>. DEFINE stuck == {m \in 0 .. Len(l) : ~\E g : Adds(l, id, m, g)}
<1>0. Len(l) \in Nat
  BY LenProperties
<1>1. SUFFICES ASSUME stuck # {} PROVE FALSE
  OBVIOUS
<1>2. PICK m \in stuck : \A k \in stuck : m <= k
  <2>1. stuck \in SUBSET Nat
    BY <1>0
  <2>. HIDE DEF stuck
  <2>. QED BY <1>1, <2>1, LeastNumber
<1>3. m \in 0 .. Len(l) /\ \A g : ~Adds(l, id, m, g)
  BY <1>2
<1>4. m # 0
  <2>1. SUFFICES ASSUME m = 0 PROVE FALSE
    OBVIOUS
  <2>2. Adds(l, id, 0, [k \in 0 .. 0 |-> 0])
    BY DEF Adds
  <2>. QED BY <1>3, <2>1, <2>2
<1>5. m - 1 \in 0 .. Len(l) /\ m - 1 \notin stuck
  BY <1>0, <1>2, <1>3, <1>4
<1>6. PICK g : Adds(l, id, m - 1, g)
  BY <1>5
<1>. DEFINE h == [k \in 0 .. m |-> IF k = m THEN g[m - 1] + Says(l[m], id) ELSE g[k]]
<1>7. Adds(l, id, m, h)
  <2>. DEFINE F == [k \in 0 .. m |-> IF k = 0 THEN 0 ELSE h[k - 1] + Says(l[k], id)]
  <2>1. ASSUME NEW k \in 0 .. m PROVE h[k] = F[k]
    <3>1. CASE k = m
      <4>1. m - 1 \in 0 .. m /\ m - 1 # m /\ m \in 0 .. m
        BY <1>0, <1>3, <1>4
      <4>2. h[m] = g[m - 1] + Says(l[m], id) /\ h[m - 1] = g[m - 1]
        BY <4>1
      <4>3. F[m] = h[m - 1] + Says(l[m], id)
        BY <1>4, <4>1
      <4>. QED BY <3>1, <4>2, <4>3
    <3>2. CASE k # m /\ k = 0
      BY <1>0, <1>3, <1>4, <1>6, <3>2 DEF Adds
    <3>3. CASE k # m /\ k # 0
      <4>1. k \in 0 .. m - 1 /\ k - 1 \in 0 .. m /\ k - 1 # m
        BY <1>0, <1>3, <3>3
      <4>2. h[k] = g[k] /\ h[k - 1] = g[k - 1]
        BY <3>3, <4>1
      <4>3. g[k] = g[k - 1] + Says(l[k], id)
        BY <1>6, <3>3, <4>1 DEF Adds
      <4>4. F[k] = h[k - 1] + Says(l[k], id)
        BY <3>3
      <4>. QED BY <4>2, <4>3, <4>4
    <3>. QED BY <3>1, <3>2, <3>3
  <2>2. h = F
    BY <2>1
  <2>. QED BY <2>2 DEF Adds
<1>. QED BY <1>3, <1>7

\* So Totals does.
LEMMA TotalsAdd ==
  ASSUME NEW l \in Seq(Pages), NEW id
  PROVE  /\ Totals(l, id)[0] = 0
         /\ \A n \in 1 .. Len(l) : Totals(l, id)[n] = Totals(l, id)[n - 1] + Says(l[n], id)
<1>. DEFINE F(g) == [n \in 0 .. Len(l) |-> IF n = 0 THEN 0 ELSE g[n - 1] + Says(l[n], id)]
            made == CHOOSE g : g = F(g)
<1>0. Len(l) \in Nat
  BY LenProperties
<1>1. \E g : g = F(g)
  <2>1. Len(l) \in 0 .. Len(l)
    BY <1>0
  <2>. QED BY <2>1, AddsRuns DEF Adds
<1>2. made = F(made)
  BY <1>1
<1>3. Totals(l, id) = made
  BY DEF Totals
<1>4. Totals(l, id) = [n \in 0 .. Len(l) |-> IF n = 0 THEN 0 ELSE Totals(l, id)[n - 1] + Says(l[n], id)]
  BY <1>2, <1>3
<1>. HIDE DEF made
<1>. QED BY <1>0, <1>4

-----------------------------------------------------------------------------
(***************************************************************************)
(* What the parser has made of the page so far is what the page says.      *)
(***************************************************************************)
Readable == \A i \in DOMAIN list : ReadAsSaid(list[i]) /\ ReportsOnce(list[i])

Followed ==
  turn \in DOMAIN list =>
    /\ \A id \in Counts :
         Field(id) # 0 => Field(id) = Says(Page, id) /\ Span(Page, id)[1].name = "value"
    /\ parser.state = "WAITING_FOR_DIV_GENERAL" => \A g \in GeneralAt(Page) : g >= at
    /\ \A id \in Counts : \A k \in SpanAt(Page, id) :
         /\ k + 1 = at => parser.state = Consuming(id)
         /\ k + 1 < at /\ Span(Page, id)[1].name = "value" => Field(id) = Says(Page, id)

\* What ReadAsSaid says of the one span of a count.
LEMMA SaidAt ==
  ASSUME Readable, turn \in DOMAIN list, NEW id \in Counts, NEW k \in SpanAt(Page, id)
  PROVE  /\ k + 1 \in DOMAIN Events[Page] /\ Events[Page][k + 1].event = "ATTRIBUTE"
         /\ IsValue(Events[Page][k + 1]) <=> Span(Page, id)[1].name = "value"
         /\ IsValue(Events[Page][k + 1]) => Events[Page][k + 1].value = Says(Page, id)
         /\ \E g \in GeneralAt(Page) : g < k
         /\ Says(Page, id) \in Nat
<1>1. ReadAsSaid(Page) /\ ReportsOnce(Page)
  BY DEF Readable, Page
<1>2. /\ Says(Page, id) \in Nat
      /\ \E j \in SpanAt(Page, id) :
            /\ j + 1 \in DOMAIN Events[Page] /\ Events[Page][j + 1].event = "ATTRIBUTE"
            /\ IsValue(Events[Page][j + 1]) <=> Span(Page, id)[1].name = "value"
            /\ IsValue(Events[Page][j + 1]) => Events[Page][j + 1].value = Says(Page, id)
            /\ \E g \in GeneralAt(Page) : g < j
  BY <1>1 DEF ReadAsSaid
<1>3. \A j \in SpanAt(Page, id) : j = k
  BY <1>1 DEF ReportsOnce
<1>. QED BY <1>2, <1>3

\* At a page's first event the parser has nothing.
LEMMA FreshFollowed ==
  ASSUME NEW p \in Pages
  PROVE  /\ \A id \in Counts : \A k \in SpanAt(p, id) : k \in Nat /\ k >= 1
         /\ \A g \in GeneralAt(p) : g \in Nat /\ g >= 1
BY PagesAssumption DEF SpanAt, GeneralAt

LEMMA NewFollowed ==
  ASSUME Inv', at' = 1, parser' = NewParser
  PROVE  Followed'
<1>. SUFFICES ASSUME (turn \in DOMAIN list)'
     PROVE  /\ \A id \in Counts : Field(id)' = 0
            /\ \A g \in GeneralAt(Page') : g >= at'
            /\ \A id \in Counts : \A k \in SpanAt(Page', id) : k + 1 # at' /\ ~(k + 1 < at')
  BY DEF Followed
<1>1. Page' \in Pages
  <2>1. (list \in Seq(Pages))'
    BY DEF Inv, TypeOK
  <2>. QED BY <2>1, ElementOfSeq, LenProperties DEF Page
<1>2. \A id \in Counts : Field(id)' = 0
  BY DEF Field, NewParser
<1>3. \A g \in GeneralAt(Page') : g >= at'
  BY <1>1, FreshFollowed
<1>4. ASSUME NEW id \in Counts, NEW k \in SpanAt(Page', id) PROVE k + 1 # at' /\ ~(k + 1 < at')
  <2>1. k \in Nat /\ k >= 1
    BY <1>1, FreshFollowed
  <2>. QED BY <2>1
<1>. QED BY <1>2, <1>3, <1>4

\* The parser is in its CONSUMING state after the tag of a count: it is past
\* the general div, and does not miss the tag on account of the other count.
LEMMA SpanMet ==
  ASSUME Readable, Inv, Followed, turn \in DOMAIN list, at \in DOMAIN Events[Page],
         NEW id \in Counts, at \in SpanAt(Page, id)
  PROVE  parser.state = "WAITING_FOR_SPAN_WITH_ID"
<1>1. Page \in Pages /\ at \in Nat
  BY PageType DEF Inv, TypeOK
<1>2. parser.state # "WAITING_FOR_DIV_GENERAL"
  <2>1. PICK g \in GeneralAt(Page) : g < at
    BY <1>1, SaidAt
  <2>2. g \in Nat
    BY <1>1, FreshFollowed
  <2>. QED BY <1>1, <2>1, <2>2 DEF Followed
<1>3. ASSUME NEW o \in Counts PROVE parser.state # Consuming(o)
  <2>. SUFFICES ASSUME parser.state = Consuming(o) PROVE FALSE
    OBVIOUS
  <2>1. at - 1 \in SpanAt(Page, o)
    BY DEF Inv, Met
  <2>2. Events[Page][at].event = "ATTRIBUTE"
    <3>1. Events[Page][(at - 1) + 1].event = "ATTRIBUTE"
      BY <1>1, <2>1, SaidAt
    <3>. QED BY <1>1, <3>1
  <2>3. Events[Page][at].event = "TAG_START"
    BY DEF SpanAt, IsTag
  <2>. QED BY <2>2, <2>3
<1>4. parser.state \in {"WAITING_FOR_DIV_GENERAL", "WAITING_FOR_SPAN_WITH_ID",
                        "CONSUMING_FILE_COUNT", "CONSUMING_TOTAL_SIZE"}
  BY DEF Inv, TypeOK
<1>5. parser.state # "CONSUMING_FILE_COUNT" /\ parser.state # "CONSUMING_TOTAL_SIZE"
  BY <1>3 DEF Counts, Consuming
<1>. QED BY <1>2, <1>4, <1>5

LEMMA PassesFollowed ==
  ASSUME Readable, Inv, Followed, turn \in DOMAIN list, at \in DOMAIN Events[Page], Passes
  PROVE  Followed'
<1>1. Page \in Pages /\ at \in Nat
  BY PageType DEF Inv, TypeOK
<1>2. /\ at' = at + 1 /\ Page' = Page /\ list' = list /\ turn' = turn
      /\ parser'.state = StateAfter(Events[Page][at])
      /\ \A id \in Counts : Field(id)' = Field(id)
  BY DEF Passes, Moves, Page, Field, Inv, TypeOK
<1>. DEFINE s == StateAfter(Events[Page][at])
<1>3. /\ \A id \in Counts :
           at \in SpanAt(Page, id) /\ parser.state = "WAITING_FOR_SPAN_WITH_ID" => s = Consuming(id)
      /\ s = "WAITING_FOR_DIV_GENERAL" =>
           parser.state = "WAITING_FOR_DIV_GENERAL" /\ at \notin GeneralAt(Page)
  BY StateFacts DEF Inv
<1>. HIDE DEF s
<1>4. \A id \in Counts :
        Field(id)' # 0 => Field(id)' = Says(Page, id) /\ Span(Page, id)[1].name = "value"
  BY <1>2 DEF Followed
<1>5. parser'.state = "WAITING_FOR_DIV_GENERAL" => \A g \in GeneralAt(Page) : g >= at'
  <2>. SUFFICES ASSUME parser'.state = "WAITING_FOR_DIV_GENERAL", NEW g \in GeneralAt(Page) PROVE g >= at'
    OBVIOUS
  <2>1. g >= at /\ g # at /\ g \in Nat
    BY <1>1, <1>2, <1>3, FreshFollowed DEF Followed, s
  <2>. QED BY <1>1, <1>2, <2>1
<1>6. ASSUME NEW id \in Counts, NEW k \in SpanAt(Page, id)
      PROVE  /\ k + 1 = at' => parser'.state = Consuming(id)
             /\ k + 1 < at' /\ Span(Page, id)[1].name = "value" => Field(id)' = Says(Page, id)
  <2>1. k \in Nat
    BY <1>1, FreshFollowed
  <2>2. CASE k = at
    <3>1. parser.state = "WAITING_FOR_SPAN_WITH_ID"
      BY <2>2, SpanMet
    <3>. QED BY <1>1, <1>2, <1>3, <2>2, <3>1 DEF s
  <2>3. CASE k + 1 = at
    <3>1. parser.state = Consuming(id)
      BY <2>3 DEF Followed
    <3>2. ~IsValue(Events[Page][at])
      BY <3>1 DEF Passes
    <3>3. ~IsValue(Events[Page][k + 1])
      BY <2>3, <3>2
    <3>4. Span(Page, id)[1].name # "value"
      BY <1>1, <3>3, SaidAt
    <3>. QED BY <1>1, <1>2, <2>1, <2>3, <3>4
  <2>4. CASE k # at /\ k + 1 # at
    <3>1. k + 1 # at' /\ (k + 1 < at' => k + 1 < at)
      BY <1>1, <1>2, <2>1, <2>4
    <3>. QED BY <1>2, <3>1 DEF Followed
  <2>. QED BY <2>2, <2>3, <2>4
<1>. QED BY <1>2, <1>4, <1>5, <1>6 DEF Followed, Consuming

LEMMA TakesFollowed ==
  ASSUME Readable, Inv, Followed, turn \in DOMAIN list, at \in DOMAIN Events[Page],
         NEW id \in Counts, Takes(id)
  PROVE  Followed'
<1>1. Page \in Pages /\ at \in Nat
  BY PageType DEF Inv, TypeOK
<1>2. /\ at' = at + 1 /\ Page' = Page /\ list' = list /\ turn' = turn
      /\ parser.state = Consuming(id) /\ IsValue(Events[Page][at])
      /\ parser'.state = "WAITING_FOR_SPAN_WITH_ID"
      /\ Field(id)' = Events[Page][at].value
      /\ \A o \in Counts \ {id} : Field(o)' = Field(o)
  BY DEF Takes, Moves, Page
<1>3. at - 1 \in SpanAt(Page, id)
  BY <1>2 DEF Inv, Met
<1>4. Span(Page, id)[1].name = "value" /\ Field(id)' = Says(Page, id)
  <2>1. (at - 1) + 1 = at
    BY <1>1
  <2>2. /\ IsValue(Events[Page][(at - 1) + 1]) <=> Span(Page, id)[1].name = "value"
        /\ IsValue(Events[Page][(at - 1) + 1]) => Events[Page][(at - 1) + 1].value = Says(Page, id)
    BY <1>1, <1>3, SaidAt
  <2>. QED BY <1>2, <2>1, <2>2
<1>5. \A o \in Counts :
        Field(o)' # 0 => Field(o)' = Says(Page, o) /\ Span(Page, o)[1].name = "value"
  BY <1>2, <1>4 DEF Followed
<1>6. ASSUME NEW o \in Counts, NEW k \in SpanAt(Page, o)
      PROVE  /\ k + 1 # at'
             /\ k + 1 < at' /\ Span(Page, o)[1].name = "value" => Field(o)' = Says(Page, o)
  <2>1. k \in Nat
    BY <1>1, FreshFollowed
  <2>2. k # at
    <3>. SUFFICES ASSUME k = at PROVE FALSE
      OBVIOUS
    <3>1. parser.state = "WAITING_FOR_SPAN_WITH_ID"
      BY SpanMet
    <3>. QED BY <1>2, <3>1 DEF Counts, Consuming
  <2>3. CASE o = id
    BY <1>1, <1>2, <1>4, <2>1, <2>2, <2>3
  <2>4. CASE o # id
    <3>1. k + 1 # at
      <4>. SUFFICES ASSUME k + 1 = at PROVE FALSE
        OBVIOUS
      <4>1. parser.state = Consuming(o)
        BY DEF Followed
      <4>. QED BY <1>2, <2>4, <4>1 DEF Counts, Consuming
    <3>2. k + 1 # at' /\ (k + 1 < at' => k + 1 < at)
      BY <1>1, <1>2, <2>1, <2>2, <3>1
    <3>. QED BY <1>2, <2>4, <3>2 DEF Followed
  <2>. QED BY <2>3, <2>4
<1>. QED BY <1>2, <1>5, <1>6 DEF Followed

LEMMA NextFollowed ==
  ASSUME Readable, Inv, Followed, [Next]_vars
  PROVE  Followed'
<1>1. CASE UNCHANGED vars
  BY <1>1 DEF Followed, vars, askVars, Page, Field, Consuming
<1>2. Inv'
  BY NextInv
<1>3. ASSUME NEW n \in 0 .. MaxIndexnodes, NEW l \in [1 .. n -> Pages], fsfuse_statfs(l)
      PROVE  Followed'
  <2>1. turn \notin DOMAIN list
    BY <1>3, ListFacts DEF fsfuse_statfs
  <2>. QED BY <1>2, <1>3, <2>1, NewFollowed DEF fsfuse_statfs, Inv, Request
<1>4. CASE indexnode_tryget_stats_Returns
  BY <1>2, <1>4, NewFollowed DEF indexnode_tryget_stats_Returns
<1>5. CASE stats_xml_cb
  <2>1. /\ turn \in DOMAIN list /\ at \in DOMAIN Events[Page]
        /\ Stops \/ Passes \/ \E id \in Counts : Takes(id)
    BY <1>5, EventSteps DEF Inv
  <2>2. CASE Stops
    BY <2>2 DEF Stops, Followed, askVars, Page, Field, Consuming
  <2>. QED BY <2>1, <2>2, PassesFollowed, TakesFollowed
<1>. QED BY <1>1, <1>3, <1>4, <1>5 DEF Next

-----------------------------------------------------------------------------
(***************************************************************************)
(* What has been added up, and what is missing.                            *)
(***************************************************************************)

\* If every indexnode so far has reported, the context holds their sum; and
\* only an indexnode that the parser can follow has.
Sums ==
  turn > 0 /\ stats.cbs_remaining = Len(list) - Heard =>
    /\ Totals(list, "file-count")[Heard] \in Nat
    /\ Totals(list, "total-size")[Heard] \in Nat
    /\ stats.f_files = Wrap(Totals(list, "file-count")[Heard])
    /\ stats.bytes_total = Wrap(Totals(list, "total-size")[Heard])
    /\ \A i \in 1 .. Heard : Reports(list[i])

\* Every one has, if each came whole and could be followed.
Complete ==
  turn > 0 /\ whole /\ undefined = "no" /\ (\A i \in 1 .. turn - 1 : Reports(list[i])) =>
    stats.cbs_remaining = Len(list) - Heard

\* The reply is what the context holds.
Answer ==
  reply # <<>> => reply = <<[f_files |-> stats.f_files, f_blocks |-> stats.bytes_total \div BLKSIZE]>>

\* Nothing is added before the request.
Empty == turn = 0 => stats.f_files = 0 /\ stats.bytes_total = 0

Tally == Followed /\ Sums /\ Complete /\ Answer /\ Empty

\* At the end of a page that can be followed, its indexnode has reported.
LEMMA EndReported ==
  ASSUME Readable, Inv, Followed, turn \in DOMAIN list, Reports(Page), at > Len(Events[Page])
  PROVE  Reported
<1>1. Page \in Pages /\ at \in Nat
  BY PageType DEF Inv, TypeOK
<1>2. Len(Events[Page]) \in Nat /\ DOMAIN Events[Page] = 1 .. Len(Events[Page])
  BY <1>1, PagesAssumption
<1>3. ASSUME NEW id \in Counts PROVE Field(id) # 0
  <2>1. PICK k \in SpanAt(Page, id) : k + 1 \in DOMAIN Events[Page]
    BY DEF Readable, ReadAsSaid, Page
  <2>2. k + 1 < at
    BY <1>1, <1>2, <2>1
  <2>3. Span(Page, id)[1].name = "value" /\ Says(Page, id) # 0
    BY DEF Reports
  <2>. QED BY <2>1, <2>2, <2>3 DEF Followed
<1>. QED BY <1>3 DEF Reported, Field, Counts

\* What the report adds to the sums.
LEMMA SumAdded ==
  ASSUME Inv, turn \in DOMAIN list, NEW id \in Counts, NEW s,
         Totals(list, id)[turn - 1] \in Nat, s = Wrap(Totals(list, id)[turn - 1]), Says(Page, id) \in Nat
  PROVE  /\ Totals(list, id)[turn] \in Nat
         /\ Wrap(s + Says(Page, id)) = Wrap(Totals(list, id)[turn])
<1>1. Totals(list, id)[turn] = Totals(list, id)[turn - 1] + Says(Page, id)
  BY ListFacts, TotalsAdd DEF Page
<1>. DEFINE a == Totals(list, id)[turn - 1]
            b == Says(Page, id)
<1>2. a \in Nat /\ b \in Nat /\ s = Wrap(a) /\ Totals(list, id)[turn] = a + b
  BY <1>1
<1>. HIDE DEF a, b
<1>3. Wrap(Wrap(a) + b) = Wrap(a + b)
  BY <1>2, WrapAdd
<1>4. Wrap(s + b) = Wrap(Totals(list, id)[turn])
  BY <1>2, <1>3
<1>5. Totals(list, id)[turn] \in Nat
  BY <1>2
<1>. QED BY <1>4, <1>5 DEF b

LEMMA TakesTally ==
  ASSUME Readable, Inv, Account, Tally, Inv', Followed', turn \in DOMAIN list, undefined = "no",
         NEW id \in Counts, Takes(id)
  PROVE  Tally'
<1>1. ReportsOnce(Page)
  BY DEF Readable, Page
<1>2. /\ Account' /\ undefined' = "no"
      /\ Reported' => /\ ~freed /\ stats'.cbs_remaining = stats.cbs_remaining - 1
                      /\ stats_cb(parser'.files, parser'.bytes)
      /\ ~Reported' => UNCHANGED statsVars
  BY <1>1, TakesAccount
<1>3. ~Reported
  BY <1>1, FirstTime DEF Takes
<1>4. /\ Len(list) \in Nat /\ DOMAIN list = 1 .. Len(list) /\ turn \in 1 .. Len(list)
      /\ stats.cbs_remaining \in Nat /\ Heard = turn - 1
  BY <1>3, ListFacts
<1>5. list' = list /\ turn' = turn /\ whole' = whole /\ Page' = Page
  BY DEF Takes, Moves, Page
<1>6. CASE ~Reported'
  <2>1. Heard' = Heard /\ UNCHANGED <<stats, freed, reply, undefined>>
    BY <1>2, <1>4, <1>5, <1>6 DEF Heard, statsVars
  <2>. QED BY <1>5, <2>1 DEF Tally, Sums, Complete, Answer, Empty
<1>7. CASE Reported'
  <2>1. Heard' = turn
    BY <1>4, <1>5, <1>7 DEF Heard
  <2>2. /\ stats'.f_files = Wrap(stats.f_files + parser'.files)
        /\ stats'.bytes_total = Wrap(stats.bytes_total + parser'.bytes)
        /\ stats'.cbs_remaining = stats.cbs_remaining - 1
        /\ reply' = IF stats'.cbs_remaining = 0
                      THEN <<[f_files |-> stats'.f_files, f_blocks |-> stats'.bytes_total \div BLKSIZE]>>
                      ELSE reply
    <3>. DEFINE after == [f_files |-> Wrap(stats.f_files + parser'.files),
                          bytes_total |-> Wrap(stats.bytes_total + parser'.bytes),
                          cbs_remaining |-> stats.cbs_remaining - 1]
    <3>1. /\ stats' = after
          /\ reply' = IF after.cbs_remaining = 0
                        THEN <<[f_files |-> after.f_files, f_blocks |-> after.bytes_total \div BLKSIZE]>>
                        ELSE reply
      BY <1>2, <1>7 DEF stats_cb
    <3>2. /\ after.f_files = Wrap(stats.f_files + parser'.files)
          /\ after.bytes_total = Wrap(stats.bytes_total + parser'.bytes)
          /\ after.cbs_remaining = stats.cbs_remaining - 1
      OBVIOUS
    <3>. HIDE DEF after
    <3>. QED BY <3>1, <3>2
  <2>3. reply = <<>>
    BY <1>2, <1>7 DEF Inv, Request
  <2>4. /\ Reports(Page)
        /\ parser'.files = Says(Page, "file-count") /\ parser'.bytes = Says(Page, "total-size")
        /\ parser'.files \in Nat /\ parser'.bytes \in Nat
    <3>1. Reports(Page') /\ parser'.files = Says(Page', "file-count") /\ parser'.bytes = Says(Page', "total-size")
          /\ parser'.files \in Nat /\ parser'.bytes \in Nat
      <4>1. (turn \in DOMAIN list)'
        BY <1>5
      <4>2. \A o \in Counts : Field(o)' # 0
        BY <1>7 DEF Reported, Field
      <4>3. \A o \in Counts : Field(o)' = Says(Page', o) /\ Span(Page', o)[1].name = "value"
        BY <4>1, <4>2 DEF Followed
      <4>4. Reports(Page')
        BY <4>2, <4>3 DEF Reports
      <4>. QED BY <4>3, <4>4 DEF Counts, Field, Inv, TypeOK
    <3>. QED BY <1>5, <3>1
  <2>5. Answer'
    BY <2>2, <2>3 DEF Answer
  <2>6. Complete'
    BY <1>2, <1>4, <1>5, <2>1, <2>2 DEF Tally, Complete
  <2>7. Sums'
    <3>. SUFFICES ASSUME stats'.cbs_remaining = Len(list) - turn
         PROVE  /\ Totals(list, "file-count")[turn] \in Nat
                /\ Totals(list, "total-size")[turn] \in Nat
                /\ stats'.f_files = Wrap(Totals(list, "file-count")[turn])
                /\ stats'.bytes_total = Wrap(Totals(list, "total-size")[turn])
                /\ \A i \in 1 .. turn : Reports(list[i])
      BY <1>5, <2>1 DEF Sums
    <3>1. turn > 0 /\ stats.cbs_remaining = Len(list) - Heard
      BY <1>4, <2>2
    <3>2. /\ Totals(list, "file-count")[turn - 1] \in Nat
          /\ Totals(list, "total-size")[turn - 1] \in Nat
          /\ stats.f_files = Wrap(Totals(list, "file-count")[turn - 1])
          /\ stats.bytes_total = Wrap(Totals(list, "total-size")[turn - 1])
          /\ \A i \in 1 .. turn - 1 : Reports(list[i])
      BY <1>4, <3>1 DEF Tally, Sums
    <3>3. "file-count" \in Counts /\ "total-size" \in Counts
      BY DEF Counts
    <3>4. Totals(list, "file-count")[turn] \in Nat
          /\ stats'.f_files = Wrap(Totals(list, "file-count")[turn])
      BY <2>2, <2>4, <3>2, <3>3, SumAdded
    <3>5. Totals(list, "total-size")[turn] \in Nat
          /\ stats'.bytes_total = Wrap(Totals(list, "total-size")[turn])
      BY <2>2, <2>4, <3>2, <3>3, SumAdded
    <3>6. \A i \in 1 .. turn : Reports(list[i])
      <4>. SUFFICES ASSUME NEW i \in 1 .. turn PROVE Reports(list[i])
        OBVIOUS
      <4>1. CASE i = turn
        BY <2>4, <4>1 DEF Page
      <4>2. CASE i # turn
        BY <1>4, <3>2, <4>2
      <4>. QED BY <4>1, <4>2
    <3>. QED BY <3>4, <3>5, <3>6
  <2>8. Empty'
    BY <1>4, <1>5 DEF Empty
  <2>. QED BY <2>5, <2>6, <2>7, <2>8 DEF Tally
<1>. QED BY <1>6, <1>7

LEMMA ReturnsTally ==
  ASSUME Readable, Inv, Account, Tally, Followed', indexnode_tryget_stats_Returns
  PROVE  Tally'
<1>1. /\ turn \in DOMAIN list /\ undefined = "no" /\ turn' = turn + 1 /\ parser' = NewParser
      /\ whole' = (whole /\ at > Len(Events[Page]))
      /\ UNCHANGED <<list, stats, freed, reply, undefined>>
  BY DEF indexnode_tryget_stats_Returns, Asking, statsVars, Page
<1>2. /\ Len(list) \in Nat /\ DOMAIN list = 1 .. Len(list) /\ turn \in 1 .. Len(list)
      /\ stats.cbs_remaining \in Nat /\ (Reported => Heard = turn) /\ (~Reported => Heard = turn - 1)
  BY <1>1, ListFacts
<1>3. Heard' = turn
  BY <1>1, <1>2 DEF Heard, Reported, NewParser
<1>4. Sums'
  <2>1. CASE Reported
    BY <1>1, <1>2, <1>3, <2>1 DEF Tally, Sums
  <2>2. CASE ~Reported
    <3>1. stats.cbs_remaining >= Len(list) - turn + 1
      BY <1>2, <2>2 DEF Account, Outstanding
    <3>2. stats'.cbs_remaining # Len(list') - Heard'
      BY <1>1, <1>2, <1>3, <3>1
    <3>. QED BY <3>2 DEF Sums
  <2>. QED BY <2>1, <2>2
<1>5. Complete'
  <2>. SUFFICES ASSUME whole', \A i \in 1 .. turn : Reports(list[i])
       PROVE  stats.cbs_remaining = Len(list) - turn
    <3>1. turn' - 1 = turn
      BY <1>1, <1>2
    <3>. QED BY <1>1, <1>3, <3>1 DEF Complete
  <2>1. whole /\ at > Len(Events[Page])
    BY <1>1
  <2>2. Reports(Page) /\ \A i \in 1 .. turn - 1 : Reports(list[i])
    BY <1>2 DEF Page
  <2>3. Reported
    BY <1>1, <2>1, <2>2, EndReported DEF Tally
  <2>. QED BY <1>1, <1>2, <2>1, <2>2, <2>3 DEF Tally, Complete
<1>6. Answer'
  BY <1>1 DEF Tally, Answer
<1>7. Empty'
  BY <1>1, <1>2 DEF Empty
<1>. QED BY <1>4, <1>5, <1>6, <1>7 DEF Tally

LEMMA StartTally ==
  ASSUME Inv, Tally, Followed', NEW n \in 0 .. MaxIndexnodes, NEW l \in [1 .. n -> Pages], fsfuse_statfs(l)
  PROVE  Tally'
<1>1. l \in Seq(Pages) /\ Len(l) \in Nat
  BY StatfsAssumption, LenProperties
<1>2. turn \notin DOMAIN list
  BY ListFacts DEF fsfuse_statfs
<1>3. /\ list' = l /\ turn' = 1 /\ parser' = NewParser /\ UNCHANGED <<freed, reply>>
      /\ stats'.cbs_remaining = Len(l) /\ stats'.f_files = 0 /\ stats'.bytes_total = 0
  BY <1>2 DEF fsfuse_statfs, Inv, Request, TypeOK, Tally, Empty
<1>4. Heard' = 0
  BY <1>3 DEF Heard, Reported, NewParser
<1>5. reply' = <<>>
  BY <1>2, <1>3 DEF Inv, Request, fsfuse_statfs
<1>6. Totals(l, "file-count")[0] = 0 /\ Totals(l, "total-size")[0] = 0
  BY <1>1, TotalsAdd
<1>7. Wrap(0) = 0
  BY StatfsAssumption DEF Wrap
<1>8. Sums'
  BY <1>3, <1>4, <1>6, <1>7 DEF Sums
<1>9. Complete'
  BY <1>1, <1>3, <1>4 DEF Complete
<1>10. Empty'
  BY <1>3 DEF Empty
<1>. QED BY <1>5, <1>8, <1>9, <1>10 DEF Tally, Answer

LEMMA NextTally ==
  ASSUME Readable, Inv, Account, Tally, [Next]_vars
  PROVE  Tally'
<1>1. Inv' /\ Followed'
  BY NextInv, NextFollowed DEF Tally
<1>2. CASE UNCHANGED vars
  <2>1. UNCHANGED <<list, turn, whole, stats, reply, undefined>> /\ Heard' = Heard
    BY <1>2 DEF vars, askVars, statsVars, Heard, Reported
  <2>. QED BY <1>1, <2>1 DEF Tally, Sums, Complete, Answer, Empty
<1>3. CASE stats_xml_cb
  <2>1. /\ turn \in DOMAIN list /\ undefined = "no"
        /\ Stops \/ Passes \/ \E id \in Counts : Takes(id)
    BY <1>3, EventSteps DEF Inv
  <2>2. CASE Stops
    <3>1. UNCHANGED <<list, turn, whole, stats, reply>> /\ Heard' = Heard /\ undefined' # "no"
      BY <2>2 DEF Stops, askVars, statsVars, Heard, Reported
    <3>. QED BY <1>1, <3>1 DEF Tally, Sums, Complete, Answer, Empty
  <2>3. CASE Passes
    <3>1. UNCHANGED <<list, turn, whole, stats, reply, undefined>> /\ Heard' = Heard
      BY <2>3 DEF Passes, Moves, statsVars, Heard, Reported, Inv, TypeOK
    <3>. QED BY <1>1, <3>1 DEF Tally, Sums, Complete, Answer, Empty
  <2>. QED BY <1>1, <2>1, <2>2, <2>3, TakesTally
<1>. QED BY <1>1, <1>2, <1>3, ReturnsTally, StartTally DEF Next

LEMMA InitTally == Init => Tally
<1>. SUFFICES ASSUME Init PROVE Tally
  OBVIOUS
<1>1. turn = 0 /\ turn \notin DOMAIN list /\ reply = <<>> /\ stats.f_files = 0 /\ stats.bytes_total = 0
  BY DEF Init
<1>. QED BY <1>1 DEF Tally, Followed, Sums, Complete, Answer, Empty

\* All of it, unless a page of the request has a count twice.
Counted == Unrepeated => Account /\ Tally

LEMMA CountedInv ==
  ASSUME \A p \in Pages : ReadAsSaid(p)
  PROVE  Spec => [](Inv /\ Counted)
<1>1. Init => Counted
  BY InitAccount, InitTally DEF Counted
<1>2. Inv /\ Counted /\ [Next]_vars => Inv' /\ Counted'
  <2>. SUFFICES ASSUME Inv, Counted, [Next]_vars PROVE Inv' /\ Counted'
    OBVIOUS
  <2>1. Inv'
    BY NextInv
  <2>2. ASSUME Unrepeated' PROVE Account' /\ Tally'
    <3>1. Unrepeated /\ Account /\ Tally
      BY <2>2, UnrepeatedBefore DEF Counted
    <3>2. Readable
      <4>1. \A i \in DOMAIN list : list[i] \in Pages
        BY ElementOfSeq, LenProperties DEF Inv, TypeOK
      <4>. QED BY <3>1, <4>1 DEF Readable, Unrepeated
    <3>. QED BY <3>1, <3>2, NextAccount, NextTally
  <2>. QED BY <2>1, <2>2 DEF Counted
<1>. QED BY <1>1, <1>2, InitInv, PTL DEF Spec

\* When the context has been freed everyone has been heard.
LEMMA AllHeard ==
  ASSUME Inv, Account, reply # <<>>
  PROVE  turn > 0 /\ Heard = Len(list) /\ stats.cbs_remaining = Len(list) - Heard /\ list # <<>>
<1>1. freed /\ list # <<>> /\ stats.cbs_remaining = 0
  BY DEF Inv, Request
<1>2. turn # 0
  BY <1>1 DEF Inv, Request
<1>3. turn \notin DOMAIN list => ~Reported
  BY DEF Inv, Request, NewParser, Reported
<1>4. Heard <= Len(list) /\ turn > 0 /\ Heard \in Int /\ Len(list) \in Nat
  BY <1>2, <1>3, ListFacts
<1>. QED BY <1>1, <1>4 DEF Account, Outstanding

\* The reply of fsfuse_statfs counts every indexnode once, with what its page
\* says, in whatever order parser_stats.c meets the two counts and wherever a
\* fetch breaks off: the sum of the whole list, wrapped as an unsigned long is,
\* unless a page of the list has a count twice.
THEOREM StatfsAddsUp ==
  ASSUME \A p \in Pages : ReadAsSaid(p)
  PROVE  Spec => []ReplyIsTheSum
<1>1. Inv /\ Counted => ReplyIsTheSum
  <2>. SUFFICES ASSUME Inv, Account, Tally, reply # <<>>
       PROVE  reply = <<[f_files |-> Wrap(SumOf("file-count")),
                         f_blocks |-> Wrap(SumOf("total-size")) \div BLKSIZE]>>
    BY DEF ReplyIsTheSum, Counted
  <2>1. stats.f_files = Wrap(SumOf("file-count")) /\ stats.bytes_total = Wrap(SumOf("total-size"))
    BY AllHeard DEF Tally, Sums, SumOf
  <2>2. reply = <<[f_files |-> stats.f_files, f_blocks |-> stats.bytes_total \div BLKSIZE]>>
    BY DEF Tally, Answer
  <2>. QED BY <2>1, <2>2
<1>. QED BY <1>1, CountedInv, PTL

\* Whether fsfuse_statfs is answered is decided by the pages: unless one has a
\* count twice, it is, once all of them came whole, if the parser can follow
\* each; an indexnode that it cannot follow leaves the request without an
\* answer.
THEOREM AnsweredByEachPage ==
  ASSUME \A p \in Pages : ReadAsSaid(p)
  PROVE  Spec => []AnsweredUnlessSilent
<1>1. Inv /\ Counted => AnsweredUnlessSilent
  <2>. SUFFICES ASSUME Inv, Account, Tally, Done
       PROVE  LET reporting == list # <<>> /\ \A i \in DOMAIN list : Reports(list[i])
              IN (reply # <<>> => reporting) /\ (whole /\ reporting => reply # <<>>)
    BY DEF AnsweredUnlessSilent, Counted
  <2>1. /\ Len(list) \in Nat /\ DOMAIN list = 1 .. Len(list) /\ turn = Len(list) + 1
        /\ turn \notin DOMAIN list /\ turn > 0
    BY ListFacts DEF Done
  <2>2. undefined = "no" /\ Heard = Len(list)
    BY <2>1 DEF Inv, Request, NewParser, Reported, Heard
  <2>3. reply # <<>> => list # <<>> /\ \A i \in DOMAIN list : Reports(list[i])
    BY <2>1, AllHeard DEF Tally, Sums
  <2>4. ASSUME whole, list # <<>>, \A i \in DOMAIN list : Reports(list[i]) PROVE reply # <<>>
    <3>1. stats.cbs_remaining = 0
      <4>1. turn - 1 = Len(list)
        BY <2>1
      <4>. QED BY <2>1, <2>2, <2>4, <4>1 DEF Tally, Complete
    <3>. QED BY <2>4, <3>1 DEF Inv, Request
  <2>. QED BY <2>3, <2>4
<1>. QED BY <1>1, CountedInv, PTL
=============================================================================
