---------------------------- MODULE ListingsProofs ----------------------------
(***************************************************************************)
(* The search for a peer, for any pages, peers and preferences: who holds  *)
(* the listings, which of them is chosen, and, for pages whose <a>s follow *)
(* one another, that the listings are what was sent.                       *)
(***************************************************************************)
EXTENDS Listings, SequenceTheorems, TLAPS

\* The listings are a list, and each has a counter.
Lists ==
  /\ Len(listing) \in Nat /\ listing = [i \in 1 .. Len(listing) |-> listing[i]]
  /\ refs \in Seq(Nat) /\ Len(refs) = Len(listing)

\* Nothing is chosen before peerstats_chose_alternative has run.
Undecided == step \in {"parse", "split", "choose"} => best = 0

Inv == TypeOK /\ Lists /\ Undecided /\ HeldOnceTooOften

\* What peerstats_chose_alternative has chosen, by the listings themselves.
Chosen ==
  step \in {"delete", "chosen", "returned", "over"} =>
    IF best # 0
      THEN \/ Client(best) \in favs
           \/ Client(best) \notin blocks /\ \A i \in DOMAIN listing : Client(i) \notin favs
      ELSE \A i \in DOMAIN listing : Client(i) \in blocks \ favs

-----------------------------------------------------------------------------
\* An entry more at the end of a list.
LEMMA Longer ==
  ASSUME NEW l, Len(l) \in Nat, l = [i \in 1 .. Len(l) |-> l[i]], NEW x
  PROVE  LET m == Append(l, x) IN
         /\ Len(m) = Len(l) + 1 /\ m = [i \in 1 .. Len(m) |-> m[i]]
         /\ m[Len(l) + 1] = x /\ \A i \in 1 .. Len(l) : m[i] = l[i]
<1>. DEFINE S == {l[i] : i \in 1 .. Len(l)} \cup {x}
            m == Append(l, x)
<1>1. l \in Seq(S)
  <2>1. l \in [1 .. Len(l) -> S]
    OBVIOUS
  <2>. HIDE DEF S
  <2>. QED BY <2>1, SeqDef
<1>2. x \in S
  OBVIOUS
<1>. HIDE DEF S
<1>3. /\ m \in Seq(S) /\ Len(m) = Len(l) + 1
      /\ m[Len(l) + 1] = x /\ \A i \in 1 .. Len(l) : m[i] = l[i]
  BY <1>1, <1>2, AppendProperties
<1>. HIDE DEF m
<1>4. m = [i \in 1 .. Len(m) |-> m[i]]
  BY <1>3, LenProperties
<1>. QED BY <1>3, <1>4 DEF m

\* The places of the lists.
LEMMA Places ==
  ASSUME Lists
  PROVE  /\ DOMAIN listing = 1 .. Len(listing) /\ DOMAIN refs = 1 .. Len(listing) /\ Len(listing) \in Nat
         /\ \A i \in DOMAIN refs : refs[i] \in Nat
         /\ 0 \notin DOMAIN listing
<1>1. DOMAIN listing = 1 .. Len(listing) /\ Len(listing) \in Nat
  BY DEF Lists
<1>2. DOMAIN refs = 1 .. Len(refs) /\ \A i \in DOMAIN refs : refs[i] \in Nat
  BY LenProperties, ElementOfSeq DEF Lists
<1>. QED BY <1>1, <1>2 DEF Lists

\* Counting keeps the counters a list.
LEMMA CountedFacts ==
  ASSUME Lists, NEW more, NEW less, \A i \in DOMAIN refs : i \in less => refs[i] > 0
  PROVE  /\ Counted(more, less) \in Seq(Nat) /\ Len(Counted(more, less)) = Len(refs)
         /\ DOMAIN Counted(more, less) = DOMAIN refs
         /\ \A i \in DOMAIN refs :
              Counted(more, less)[i]
                = refs[i] + (IF i \in more THEN 1 ELSE 0) - (IF i \in less THEN 1 ELSE 0)
<1>. DEFINE c == Counted(more, less)
<1>1. /\ DOMAIN refs = 1 .. Len(refs) /\ Len(refs) \in Nat
      /\ \A i \in DOMAIN refs : refs[i] \in Nat
  BY Places DEF Lists
<1>2. c = [i \in DOMAIN refs |-> refs[i] + (IF i \in more THEN 1 ELSE 0) - (IF i \in less THEN 1 ELSE 0)]
  BY DEF Counted
<1>. HIDE DEF c
<1>3. \A i \in DOMAIN refs :
        /\ c[i] = refs[i] + (IF i \in more THEN 1 ELSE 0) - (IF i \in less THEN 1 ELSE 0)
        /\ c[i] \in Nat
  BY <1>1, <1>2
<1>4. c \in [1 .. Len(refs) -> Nat]
  BY <1>1, <1>2, <1>3
<1>5. c \in Seq(Nat)
  BY <1>1, <1>4, SeqDef
<1>6. Len(c) = Len(refs) /\ DOMAIN c = DOMAIN refs
  BY <1>1, <1>4, <1>5, LenProperties
<1>. QED BY <1>3, <1>5, <1>6 DEF c

-----------------------------------------------------------------------------
\* Each step keeps the lists, their counters and the types.
LEMMA NextLists ==
  ASSUME Inv, [Next]_vars
  PROVE  Inv'
<1>. USE DEF Inv
<1>0. /\ DOMAIN listing = 1 .. Len(listing) /\ DOMAIN refs = 1 .. Len(listing) /\ Len(listing) \in Nat
      /\ \A i \in DOMAIN refs : refs[i] \in Nat
      /\ 0 \notin DOMAIN listing
  BY Places
<1>1. CASE UNCHANGED vars \/ Undefined
  <2>1. /\ UNCHANGED <<page, at, parser, listing, refs, rc, best, step>>
        /\ undefined' \in BOOLEAN
    BY <1>1 DEF vars, parseVars, Undefined, TypeOK
  <2>2. TypeOK'
    BY <2>1 DEF TypeOK
  <2>3. Lists' /\ Undecided'
    BY <2>1 DEF Lists, Undecided
  <2>4. HeldOnceTooOften'
    BY <2>1 DEF HeldOnceTooOften
  <2>. QED BY <2>2, <2>3, <2>4
<1>2. CASE filelist_xml_cb
  <2>1. /\ At("parse") /\ at' = at + 1
        /\ parser'.state \in {"WAITING_FOR_DIV_FILELIST", "WAITING_FOR_A", "CONSUMING_A"}
        /\ UNCHANGED <<page, favs, blocks, rc, best, step>>
    <3>. DEFINE e == Events[page][at]
    <3>1. parser' = [state |-> StateAfter(e), field |-> FieldsAfter(e)] /\ At("parse") /\ at' = at + 1
          /\ UNCHANGED <<page, favs, blocks, rc, best, step>>
      BY <1>2 DEF filelist_xml_cb
    <3>2. StateAfter(e) \in {"WAITING_FOR_DIV_FILELIST", "WAITING_FOR_A", "CONSUMING_A"}
      BY DEF StateAfter, TypeOK
    <3>. HIDE DEF e
    <3>. QED BY <3>1, <3>2
  <2>2. \/ UNCHANGED <<listing, refs>> /\ undefined' \in {undefined, TRUE}
        \/ /\ \E fields : listing' = Append(listing, fields)
           /\ refs' = Append(refs, 2) /\ UNCHANGED undefined
    BY <1>2 DEF filelist_xml_cb, entry_found
  <2>3. CASE UNCHANGED <<listing, refs>> /\ undefined' \in {undefined, TRUE}
    <3>1. TypeOK'
      <4>1. undefined \in BOOLEAN /\ undefined' \in {undefined, TRUE}
        BY <2>3 DEF TypeOK
      <4>2. undefined' \in BOOLEAN
        BY <4>1, Zenon
      <4>3. at' \in Nat
        BY <2>1 DEF TypeOK
      <4>. QED BY <2>1, <2>3, <4>2, <4>3 DEF TypeOK
    <3>2. Lists' /\ Undecided'
      BY <2>1, <2>3 DEF Lists, Undecided
    <3>3. HeldOnceTooOften'
      BY <2>1, <2>3 DEF HeldOnceTooOften
    <3>. QED BY <3>1, <3>2, <3>3
  <2>4. CASE /\ \E fields : listing' = Append(listing, fields)
             /\ refs' = Append(refs, 2) /\ UNCHANGED undefined
    <3>1. PICK fields : listing' = Append(listing, fields)
      BY <2>4
    <3>2. /\ Len(listing') = Len(listing) + 1 /\ listing' = [i \in 1 .. Len(listing') |-> listing'[i]]
      BY <3>1, Longer DEF Lists
    <3>3. /\ refs' \in Seq(Nat) /\ Len(refs') = Len(refs) + 1
          /\ refs'[Len(refs) + 1] = 2 /\ \A i \in 1 .. Len(refs) : refs'[i] = refs[i]
      BY <2>4, AppendProperties DEF Lists
    <3>4. Lists'
      BY <1>0, <3>2, <3>3 DEF Lists
    <3>5. /\ DOMAIN listing' = 1 .. Len(listing) + 1 /\ DOMAIN refs' = DOMAIN listing'
          /\ \A i \in DOMAIN refs' : refs'[i] \in Nat
      <4>1. DOMAIN listing' = 1 .. Len(listing) + 1
        BY <3>2
      <4>. QED BY <3>3, <4>1, LenProperties, ElementOfSeq DEF Lists
    <3>6. step = "parse" /\ step' = "parse" /\ best = 0 /\ best' = 0
      BY <2>1 DEF At, Undecided
    <3>7. HeldOnceTooOften'
      <4>1. ASSUME NEW i \in DOMAIN listing' PROVE refs'[i] = 2 /\ i # 0
        <5>1. CASE i = Len(listing) + 1
          BY <1>0, <3>3, <5>1 DEF Lists
        <5>2. CASE i # Len(listing) + 1
          <6>1. i \in DOMAIN listing /\ i \in 1 .. Len(refs)
            BY <1>0, <3>5, <5>2 DEF Lists
          <6>2. refs[i] = 2
            BY <1>0, <3>6, <6>1 DEF HeldOnceTooOften
          <6>. QED BY <1>0, <3>3, <6>1, <6>2
        <5>. QED BY <5>1, <5>2
      <4>. QED BY <3>6, <4>1 DEF HeldOnceTooOften
    <3>8. TypeOK' /\ Undecided'
      BY <2>1, <2>4, <3>5, <3>6 DEF TypeOK, Undecided
    <3>. QED BY <3>4, <3>7, <3>8
  <2>. QED BY <2>2, <2>3, <2>4
<1>3. CASE indexnode_tryget_alternatives
  BY <1>3 DEF indexnode_tryget_alternatives, parseVars, TypeOK, Lists, Undecided, HeldOnceTooOften, At
<1>4. ASSUME NEW more, NEW less, refs' = Counted(more, less),
             UNCHANGED <<listing, page, at, parser, rc, undefined>>,
             \A i \in DOMAIN refs : i \in less => refs[i] > 0,
             step' \in {"parse", "split", "choose", "delete", "chosen", "returned", "over"},
             best' \in {0} \cup DOMAIN listing
      PROVE  /\ TypeOK' /\ Lists' /\ DOMAIN listing' = DOMAIN listing
             /\ \A i \in DOMAIN listing :
                  refs'[i] = refs[i] + (IF i \in more THEN 1 ELSE 0) - (IF i \in less THEN 1 ELSE 0)
  <2>1. /\ refs' \in Seq(Nat) /\ Len(refs') = Len(refs) /\ DOMAIN refs' = DOMAIN refs
        /\ \A i \in DOMAIN refs :
             refs'[i] = refs[i] + (IF i \in more THEN 1 ELSE 0) - (IF i \in less THEN 1 ELSE 0)
    BY <1>4, CountedFacts
  <2>2. \A i \in DOMAIN refs' : refs'[i] \in Nat
    BY <2>1, LenProperties, ElementOfSeq
  <2>3. Lists'
    BY <1>4, <2>1 DEF Lists
  <2>4. TypeOK'
    BY <1>0, <1>4, <2>1, <2>2 DEF TypeOK
  <2>. QED BY <1>0, <1>4, <2>1, <2>3, <2>4
<1>5. CASE split_list
  <2>1. CASE Undefined
    BY <1>1, <2>1
  <2>2. CASE ~Undefined
    <3>1. /\ refs' = Counted(DOMAIN listing, {}) /\ step = "split" /\ step' = "choose"
          /\ UNCHANGED <<listing, page, at, parser, rc, best, undefined>>
      BY <1>5, <2>2 DEF split_list, At, parseVars
    <3>2. /\ TypeOK' /\ Lists' /\ DOMAIN listing' = DOMAIN listing
          /\ \A i \in DOMAIN listing : refs'[i] = refs[i] + 1 - 0
      BY <1>4, <3>1 DEF TypeOK
    <3>. QED BY <1>0, <3>1, <3>2 DEF HeldOnceTooOften, Undecided
  <2>. QED BY <2>1, <2>2
<1>6. CASE peerstats_chose_alternative
  <2>1. /\ refs' = Counted({best'}, {}) /\ step = "choose" /\ step' = "delete"
        /\ UNCHANGED <<listing, page, at, parser, rc, undefined>>
        /\ best' \in {0} \cup DOMAIN listing
    BY <1>6 DEF peerstats_chose_alternative, At, parseVars, Candidates, InFavs, InNormal
  <2>2. /\ TypeOK' /\ Lists' /\ DOMAIN listing' = DOMAIN listing
        /\ \A i \in DOMAIN listing : refs'[i] = refs[i] + (IF i \in {best'} THEN 1 ELSE 0) - 0
    BY <1>4, <2>1
  <2>. QED BY <1>0, <2>1, <2>2 DEF HeldOnceTooOften, Undecided
<1>7. CASE DeleteSplitLists \/ DeleteAlternatives
  <2>1. /\ refs' = Counted({}, DOMAIN listing)
        /\ \/ step = "delete" /\ step' = "chosen"
           \/ step = "chosen" /\ step' = "returned"
        /\ UNCHANGED <<listing, page, at, parser, rc, best, undefined>>
    BY <1>7 DEF DeleteSplitLists, DeleteAlternatives, At, parseVars
  <2>2. \A i \in DOMAIN refs : refs[i] > 0
    BY <1>0, <2>1 DEF HeldOnceTooOften
  <2>3. /\ TypeOK' /\ Lists' /\ DOMAIN listing' = DOMAIN listing
        /\ \A i \in DOMAIN listing : refs'[i] = refs[i] + 0 - 1
    BY <1>4, <2>1, <2>2 DEF TypeOK
  <2>. QED BY <1>0, <2>1, <2>3 DEF HeldOnceTooOften, Undecided
<1>8. CASE UseBest
  <2>1. CASE Undefined
    BY <1>1, <2>1
  <2>2. CASE ~Undefined
    <3>1. /\ refs' = IF rc = 0 THEN refs ELSE Counted({}, {best})
          /\ step = "returned" /\ step' = "over"
          /\ UNCHANGED <<listing, page, at, parser, rc, best, undefined>>
      BY <1>8, <2>2 DEF UseBest, At, parseVars
    <3>2. CASE rc = 0
      BY <3>1, <3>2 DEF TypeOK, Lists, Undecided, HeldOnceTooOften
    <3>3. CASE rc # 0
      <4>1. \A i \in DOMAIN refs : i \in {best} => refs[i] > 0
        BY <1>0, <3>1 DEF HeldOnceTooOften
      <4>2. /\ TypeOK' /\ Lists' /\ DOMAIN listing' = DOMAIN listing
            /\ \A i \in DOMAIN listing : refs'[i] = refs[i] + 0 - (IF i \in {best} THEN 1 ELSE 0)
        <5>1. refs' = Counted({}, {best}) /\ best' \in {0} \cup DOMAIN listing
          BY <3>1, <3>3 DEF TypeOK
        <5>2. step' \in {"parse", "split", "choose", "delete", "chosen", "returned", "over"}
          BY <3>1
        <5>. QED BY <1>4, <3>1, <4>1, <5>1, <5>2
      <4>3. \A i \in DOMAIN listing : refs[i] = 1 + 0 + 0 + (IF best = i THEN 1 ELSE 0)
        BY <3>1 DEF HeldOnceTooOften
      <4>4. \A i \in DOMAIN listing : refs'[i] = 1
        BY <4>2, <4>3
      <4>. QED BY <3>1, <3>3, <4>2, <4>4 DEF HeldOnceTooOften, Undecided
    <3>. QED BY <3>2, <3>3
  <2>. QED BY <2>1, <2>2
<1>. QED BY <1>1, <1>2, <1>3, <1>5, <1>6, <1>7, <1>8 DEF Next

LEMMA InitInv == Init => Inv
<1>. SUFFICES ASSUME Init PROVE Inv
  OBVIOUS
<1>1. <<>> \in Seq(Nat) /\ Len(<<>>) = 0 /\ DOMAIN <<>> = {} /\ <<>> = [i \in 1 .. 0 |-> <<>>[i]]
  BY EmptySeq
<1>2. Lists
  BY <1>1 DEF Init, Lists
<1>. QED BY <1>1, <1>2 DEF Init, Inv, TypeOK, Undecided, HeldOnceTooOften, NewParser

\* The invariant holds.
LEMMA Invariance == Spec => []Inv
BY InitInv, NextLists, PTL DEF Spec

\* Listings and their counters stay in step, and what is chosen is a listing.
THEOREM TypeCorrect == Spec => []TypeOK
BY Invariance, PTL DEF Inv

\* On every page, with every choice and after every failure of the fetch, a
\* listing is held by those that point to it and by one reference more: none
\* is used after it was freed, and every one is leaked.
THEOREM ListingsStayHeld == Spec => []HeldOnceTooOften
BY Invariance, PTL DEF Inv

-----------------------------------------------------------------------------
\* The choice, once made, is what split_list's three lists allow.
LEMMA NextChosen == Lists /\ Chosen /\ [Next]_vars => Chosen'
<1>. SUFFICES ASSUME Lists, Chosen, [Next]_vars PROVE Chosen'
  OBVIOUS
<1>1. CASE peerstats_chose_alternative
  <2>1. /\ UNCHANGED <<listing, favs, blocks>> /\ \A i : Client(i)' = Client(i)
        /\ best' \in Candidates \/ (Candidates = {} /\ best' = 0)
    BY <1>1 DEF peerstats_chose_alternative, parseVars, Client
  <2>2. /\ InFavs = {i \in DOMAIN listing : Client(i) \in favs}
        /\ InNormal = {i \in DOMAIN listing : Client(i) \notin favs /\ Client(i) \notin blocks}
    BY DEF InFavs, InBlocks, InNormal
  <2>3. CASE best' \in Candidates
    <3>1. \/ best' \in InFavs
          \/ best' \in InNormal /\ InFavs = {}
      BY <2>3 DEF Candidates
    <3>2. \/ Client(best') \in favs
          \/ Client(best') \notin blocks /\ \A i \in DOMAIN listing : Client(i) \notin favs
      BY <2>2, <3>1
    <3>3. best' # 0
      BY <2>2, <3>1, Places
    <3>4. Client(best)' = Client(best')
      BY <2>1 DEF Client
    <3>. QED BY <2>1, <3>2, <3>3, <3>4 DEF Chosen
  <2>4. CASE Candidates = {} /\ best' = 0
    <3>1. InFavs = {} /\ InNormal = {}
      BY <2>4 DEF Candidates
    <3>2. \A i \in DOMAIN listing : Client(i) \in blocks \ favs
      BY <2>2, <3>1
    <3>. QED BY <2>1, <2>4, <3>2 DEF Chosen
  <2>. QED BY <2>1, <2>3, <2>4
<1>2. CASE UNCHANGED vars \/ Undefined
  BY <1>2 DEF vars, parseVars, Undefined, Chosen, Client
<1>3. CASE filelist_xml_cb \/ indexnode_tryget_alternatives \/ split_list
  BY <1>3 DEF filelist_xml_cb, indexnode_tryget_alternatives, split_list, Undefined, At, Chosen
<1>4. CASE DeleteSplitLists \/ DeleteAlternatives \/ UseBest
  BY <1>2, <1>4 DEF DeleteSplitLists, DeleteAlternatives, UseBest, At, parseVars, Chosen, Client
<1>. QED BY <1>1, <1>2, <1>3, <1>4 DEF Next

\* Of any listings, the one chosen is a favourite's, or no favourite has it
\* and its peer is not blocked; none is chosen only if all are blocked.
THEOREM ChoiceIsAllowed == Spec => []Chosen
<1>1. Init => Chosen
  BY DEF Init, Chosen
<1>. QED BY <1>1, NextChosen, Invariance, PTL DEF Spec, Inv

-----------------------------------------------------------------------------
(***************************************************************************)
(* What is listed is what the page says, if its events are.                *)
(***************************************************************************)

\* The <a> of a page that the parser is in, or comes to next.
Coming == Len(listing) + 1
Anchored == Coming <= Len(Anchors(page))

\* Where the parser is: start and stop say where each page has its <a>s.
Place(start, stop) ==
  /\ Len(listing) <= Len(Anchors(page))
  /\ at >= 1
  /\ Len(listing) >= 1 => stop[page][Len(listing)] < at
  /\ parser.state = "CONSUMING_A" =>
       Anchored /\ start[page][Coming] < at /\ at <= stop[page][Coming]
  /\ parser.state # "CONSUMING_A" /\ Anchored => at <= start[page][Coming]
  /\ parser.state = "WAITING_FOR_DIV_FILELIST" => \A g \in FilelistAt(page) : g >= at

\* The attributes for a field that it has met in this <a>.
Given(start, f) == AttributesAt(page, f, start[page][Coming] + 1 .. at - 1)

\* What the fields hold: the last of those, or what the <a>s before left.
Held(start) ==
  \A f \in Fields :
    \/ /\ parser.state # "CONSUMING_A" \/ Given(start, f) = {}
       /\ parser.field[f] = Carried(page, Len(listing), f)
    \/ /\ parser.state = "CONSUMING_A"
       /\ \E k \in Given(start, f) :
            (\A j \in Given(start, f) : j <= k) /\ parser.field[f] = Events[page][k].value

\* The listings, and the parser's account of the next one while it goes on.
Listed ==
  /\ DOMAIN listing \subseteq DOMAIN Anchors(page)
  /\ \A i \in DOMAIN listing : \A f \in Fields : listing[i][f] = Carried(page, i, f)

Whole == step # "parse" /\ rc = 0 /\ ~undefined => Len(listing) = Len(Anchors(page))

Read(start, stop) ==
  /\ Listed /\ Whole
  /\ step = "parse" /\ ~undefined => Place(start, stop) /\ Held(start)

\* Nothing is said by an <a> that is not there to be said by.
LEMMA CarriedNone ==
  ASSUME NEW p, NEW f
  PROVE  Carried(p, 0, f) = Zero(f)
<1>1. {j \in 1 .. 0 : Said(p, j, f) # <<>>} = {}
  OBVIOUS
<1>. QED BY <1>1 DEF Carried

\* An <a> hands on what it does not say.
LEMMA CarriedOn ==
  ASSUME NEW p, NEW f, NEW i \in Nat
  PROVE  /\ Said(p, i + 1, f) = <<>> => Carried(p, i + 1, f) = Carried(p, i, f)
         /\ Said(p, i + 1, f) # <<>> => Carried(p, i + 1, f) = Last(Said(p, i + 1, f)).value
<1>. DEFINE saying(m) == {j \in 1 .. m : Said(p, j, f) # <<>>}
<1>1. \A m : Carried(p, m, f) = IF saying(m) = {} THEN Zero(f) ELSE Last(Said(p, Max(saying(m)), f)).value
  BY DEF Carried
<1>2. CASE Said(p, i + 1, f) = <<>>
  <2>1. saying(i + 1) = saying(i)
    <3>1. 1 .. i + 1 = (1 .. i) \cup {i + 1}
      OBVIOUS
    <3>. QED BY <1>2, <3>1
  <2>. HIDE DEF saying
  <2>. QED BY <1>1, <1>2, <2>1
<1>3. CASE Said(p, i + 1, f) # <<>>
  <2>1. i + 1 \in saying(i + 1) /\ \A j \in saying(i + 1) : j \in Nat /\ i + 1 >= j
    BY <1>3
  <2>. HIDE DEF saying
  <2>2. Max(saying(i + 1)) = i + 1
    <3>1. Max(saying(i + 1)) \in saying(i + 1) /\ \A j \in saying(i + 1) : Max(saying(i + 1)) >= j
      BY <2>1 DEF Max
    <3>. QED BY <2>1, <3>1
  <2>. QED BY <1>1, <1>3, <2>1, <2>2
<1>. QED BY <1>2, <1>3

\* The hypothesis, for the page at hand.
LEMMA PageFacts ==
  ASSUME NEW start, NEW stop, TypeOK, ReadAsSaid(page, start[page], stop[page])
  PROVE  LET n == Len(Anchors(page))
             b == start[page]
             e == stop[page]
         IN
         /\ n \in Nat /\ DOMAIN Anchors(page) = 1 .. n
         /\ Len(Events[page]) \in Nat /\ DOMAIN Events[page] = 1 .. Len(Events[page])
         /\ \A i \in 1 .. n :
              /\ b[i] \in DOMAIN Events[page] /\ e[i] \in DOMAIN Events[page]
              /\ b[i] \in Nat \ {0} /\ e[i] \in Nat /\ b[i] < e[i]
              /\ IsTag(Events[page][b[i]], "a") /\ EndsA(Events[page][e[i]])
              /\ \A j \in 1 .. n : j < i => e[j] < b[i]
              /\ \E g \in FilelistAt(page) : g < b[i]
         /\ \A g \in FilelistAt(page) : g \in Nat \ {0}
         /\ \A k \in DOMAIN Events[page] :
              /\ IsTag(Events[page][k], "a") => \E i \in 1 .. n : k = b[i]
              /\ EndsA(Events[page][k]) => \E i \in 1 .. n : k = e[i]
<1>. DEFINE n == Len(Anchors(page))
            b == start[page]
            e == stop[page]
<1>1. /\ n \in Nat /\ DOMAIN Anchors(page) = 1 .. n
      /\ Len(Events[page]) \in Nat /\ DOMAIN Events[page] = 1 .. Len(Events[page])
  BY PagesAssumption DEF TypeOK
<1>2. /\ b \in [1 .. n -> DOMAIN Events[page]] /\ e \in [1 .. n -> DOMAIN Events[page]]
      /\ \A i \in 1 .. n :
           /\ IsTag(Events[page][b[i]], "a") /\ EndsA(Events[page][e[i]]) /\ b[i] < e[i]
           /\ \A j \in 1 .. i - 1 : e[j] < b[i]
           /\ \E g \in FilelistAt(page) : g < b[i]
      /\ \A k \in DOMAIN Events[page] :
           /\ IsTag(Events[page][k], "a") => \E i \in 1 .. n : k = b[i]
           /\ EndsA(Events[page][k]) => \E i \in 1 .. n : k = e[i]
  BY DEF ReadAsSaid
<1>3. \A g \in FilelistAt(page) : g \in Nat \ {0}
  BY <1>1 DEF FilelistAt
<1>. HIDE DEF n, b, e
<1>4. \A i \in 1 .. n : \A j \in 1 .. n : j < i => e[j] < b[i]
  <2>. SUFFICES ASSUME NEW i \in 1 .. n, NEW j \in 1 .. n, j < i PROVE e[j] < b[i]
    OBVIOUS
  <2>1. j \in 1 .. i - 1
    BY <1>1
  <2>. QED BY <1>2, <2>1
<1>5. \A i \in 1 .. n :
        /\ b[i] \in DOMAIN Events[page] /\ e[i] \in DOMAIN Events[page]
        /\ b[i] \in Nat \ {0} /\ e[i] \in Nat /\ b[i] < e[i]
        /\ IsTag(Events[page][b[i]], "a") /\ EndsA(Events[page][e[i]])
        /\ \E g \in FilelistAt(page) : g < b[i]
  <2>. SUFFICES ASSUME NEW i \in 1 .. n
       PROVE  /\ b[i] \in DOMAIN Events[page] /\ e[i] \in DOMAIN Events[page]
              /\ b[i] \in Nat \ {0} /\ e[i] \in Nat
    BY <1>2
  <2>1. b[i] \in DOMAIN Events[page] /\ e[i] \in DOMAIN Events[page]
    BY <1>2
  <2>. QED BY <1>1, <2>1
<1>. QED BY <1>1, <1>2, <1>3, <1>4, <1>5 DEF n, b, e

\* The start of an <a> that the parser meets outside of one is the next one's.
LEMMA AtStart ==
  ASSUME NEW start, NEW stop, TypeOK, Lists, ReadAsSaid(page, start[page], stop[page]),
         Place(start, stop), at \in DOMAIN Events[page], parser.state # "CONSUMING_A"
  PROVE  /\ IsTag(Events[page][at], "a") => Anchored /\ at = start[page][Coming]
         /\ parser.state = "WAITING_FOR_DIV_FILELIST" /\ Anchored => at # start[page][Coming]
<1>. DEFINE n == Len(Anchors(page))
            b == start[page]
            e == stop[page]
            l == Len(listing)
<1>1. /\ n \in Nat /\ l \in Nat /\ at \in Nat /\ l <= n
      /\ \A i \in 1 .. n : /\ b[i] \in Nat \ {0} /\ e[i] \in Nat /\ b[i] < e[i]
                           /\ \A j \in 1 .. n : j < i => e[j] < b[i]
      /\ l >= 1 => e[l] < at
      /\ l + 1 <= n => at <= b[l + 1]
  BY PageFacts DEF TypeOK, Lists, Place, Anchored, Coming
<1>2. ASSUME IsTag(Events[page][at], "a") PROVE l + 1 <= n /\ at = b[l + 1]
  <2>1. PICK i \in 1 .. n : at = b[i]
    BY <1>2, PageFacts
  <2>. HIDE DEF n, b, e, l
  <2>2. ~(i <= l)
    <3>1. CASE i = l
      BY <1>1, <2>1, <3>1
    <3>2. CASE i < l
      <4>1. l \in 1 .. n /\ l >= 1
        BY <1>1, <3>2
      <4>2. e[i] < b[l] /\ b[l] < e[l] /\ b[i] < e[i]
        BY <1>1, <3>2, <4>1
      <4>. QED BY <1>1, <2>1, <4>1, <4>2
    <3>. QED BY <1>1, <3>1, <3>2
  <2>3. ~(i > l + 1)
    <3>. SUFFICES ASSUME i > l + 1 PROVE FALSE
      OBVIOUS
    <3>1. l + 1 \in 1 .. n
      BY <1>1
    <3>2. at <= b[l + 1] /\ b[l + 1] < e[l + 1] /\ e[l + 1] < b[i]
      BY <1>1, <3>1
    <3>. QED BY <1>1, <2>1, <3>1, <3>2
  <2>4. i = l + 1
    BY <1>1, <2>2, <2>3
  <2>. QED BY <1>1, <2>1, <2>4
<1>3. ASSUME parser.state = "WAITING_FOR_DIV_FILELIST", l + 1 <= n PROVE at # b[l + 1]
  <2>1. l + 1 \in 1 .. n
    BY <1>1, <1>3
  <2>2. PICK g \in FilelistAt(page) : g < b[l + 1]
    BY <2>1, PageFacts
  <2>3. g >= at /\ g \in Nat
    BY <1>3, PageFacts DEF Place
  <2>. QED BY <1>1, <2>1, <2>2, <2>3
<1>. QED BY <1>2, <1>3 DEF Anchored, Coming

\* The end of an <a> that it meets within one is that one's.
LEMMA AtStop ==
  ASSUME NEW start, NEW stop, TypeOK, Lists, ReadAsSaid(page, start[page], stop[page]),
         Place(start, stop), at \in DOMAIN Events[page], parser.state = "CONSUMING_A",
         EndsA(Events[page][at])
  PROVE  at = stop[page][Coming]
<1>. DEFINE n == Len(Anchors(page))
            b == start[page]
            e == stop[page]
            l == Len(listing)
<1>1. /\ n \in Nat /\ l \in Nat /\ at \in Nat
      /\ \A i \in 1 .. n : /\ b[i] \in Nat \ {0} /\ e[i] \in Nat /\ b[i] < e[i]
                           /\ \A j \in 1 .. n : j < i => e[j] < b[i]
      /\ l + 1 \in 1 .. n /\ b[l + 1] < at /\ at <= e[l + 1]
  <2>1. /\ n \in Nat
        /\ \A i \in 1 .. n : /\ b[i] \in Nat \ {0} /\ e[i] \in Nat /\ b[i] < e[i]
                             /\ \A j \in 1 .. n : j < i => e[j] < b[i]
    BY PageFacts
  <2>2. l \in Nat /\ at \in Nat
    BY DEF TypeOK, Lists
  <2>3. l + 1 <= n /\ b[l + 1] < at /\ at <= e[l + 1]
    BY DEF Place, Anchored, Coming
  <2>. HIDE DEF n, b, e, l
  <2>. QED BY <2>1, <2>2, <2>3
<1>2. PICK i \in 1 .. n : at = e[i]
  <2>1. \A k \in DOMAIN Events[page] : EndsA(Events[page][k]) => \E i \in 1 .. n : k = e[i]
    BY DEF ReadAsSaid
  <2>. QED BY <2>1
<1>. HIDE DEF n, b, e, l
<1>3. ~(i < l + 1)
  <2>. SUFFICES ASSUME i < l + 1 PROVE FALSE
    OBVIOUS
  <2>1. e[i] < b[l + 1]
    BY <1>1
  <2>. QED BY <1>1, <1>2, <2>1
<1>4. ~(i > l + 1)
  <2>. SUFFICES ASSUME i > l + 1 PROVE FALSE
    OBVIOUS
  <2>1. e[l + 1] < b[i] /\ b[i] < e[i]
    BY <1>1
  <2>. QED BY <1>1, <1>2, <2>1
<1>5. i = l + 1
  BY <1>1, <1>3, <1>4
<1>. QED BY <1>2, <1>5 DEF e, l, Coming

\* When the parser is at the end of an <a>, its fields are what that <a> says.
LEMMA FieldsSaid ==
  ASSUME NEW start, NEW stop, TypeOK, Lists, ReadAsSaid(page, start[page], stop[page]),
         Place(start, stop), Held(start), parser.state = "CONSUMING_A", at = stop[page][Coming],
         NEW f \in Fields
  PROVE  parser.field[f] = Carried(page, Coming, f)
<1>1. Len(listing) \in Nat /\ Coming \in 1 .. Len(Anchors(page))
  BY PageFacts DEF Lists, Place, Anchored, Coming
<1>. DEFINE given == AttributesAt(page, f, start[page][Coming] + 1 .. stop[page][Coming] - 1)
<1>2. given = Given(start, f)
  BY DEF Given
<1>3. /\ given = {} <=> Said(page, Coming, f) = <<>>
      /\ \A k \in given :
           (\A j \in given : j <= k) => Events[page][k].value = Last(Said(page, Coming, f)).value
  BY <1>1 DEF ReadAsSaid
<1>. HIDE DEF given
<1>4. /\ Said(page, Coming, f) = <<>> => Carried(page, Coming, f) = Carried(page, Len(listing), f)
      /\ Said(page, Coming, f) # <<>> => Carried(page, Coming, f) = Last(Said(page, Coming, f)).value
  BY <1>1, CarriedOn DEF Coming
<1>5. CASE given = {}
  BY <1>2, <1>3, <1>4, <1>5 DEF Held
<1>6. CASE given # {}
  <2>1. PICK k \in given : (\A j \in given : j <= k) /\ parser.field[f] = Events[page][k].value
    BY <1>2, <1>6 DEF Held
  <2>. QED BY <1>3, <1>4, <1>6, <2>1
<1>. QED BY <1>5, <1>6

\* What filelist_xml_cb does with an event, by the state it is met in.
LEMMA EventSteps ==
  ASSUME TypeOK, filelist_xml_cb
  PROVE  LET e == Events[page][at] IN
         /\ at \in DOMAIN Events[page] /\ step = "parse" /\ ~undefined /\ step' = "parse"
         /\ at' = at + 1 /\ page' = page /\ rc' = rc
         /\ \A f \in Fields : parser'.field[f] =
              IF parser.state = "CONSUMING_A" /\ e.event = "ATTRIBUTE" /\ FieldOf(e.name) = f
                THEN e.value ELSE parser.field[f]
         /\ parser.state # "CONSUMING_A" =>
              /\ UNCHANGED <<listing, undefined>>
              /\ parser'.state = "CONSUMING_A" => IsTag(e, "a")
              /\ parser.state = "WAITING_FOR_A" /\ IsTag(e, "a") => parser'.state = "CONSUMING_A"
              /\ parser'.state = "WAITING_FOR_DIV_FILELIST" =>
                   parser.state = "WAITING_FOR_DIV_FILELIST" /\ at \notin FilelistAt(page)
         /\ parser.state = "CONSUMING_A" /\ ~EndsA(e) =>
              UNCHANGED <<listing, undefined>> /\ parser'.state = "CONSUMING_A"
         /\ parser.state = "CONSUMING_A" /\ EndsA(e) =>
              /\ parser'.state = "WAITING_FOR_A" /\ e.event # "ATTRIBUTE"
              /\ \/ undefined' = TRUE /\ listing' = listing
                 \/ listing' = Append(listing, parser.field)
<1>. DEFINE e == Events[page][at]
<1>1. /\ at \in DOMAIN Events[page] /\ step = "parse" /\ ~undefined /\ step' = "parse"
      /\ at' = at + 1 /\ page' = page /\ rc' = rc
      /\ parser' = [state |-> StateAfter(e), field |-> FieldsAfter(e)]
      /\ IF parser.state = "CONSUMING_A" /\ EndsA(e)
           THEN entry_found(parser.field)
           ELSE UNCHANGED <<listing, refs, undefined>>
  BY DEF filelist_xml_cb, At
<1>2. at \in FilelistAt(page) <=> IsTag(e, "div") /\ e.value = "fs2-filelist"
  BY <1>1 DEF FilelistAt
<1>. HIDE DEF e
<1>3. parser'.state = StateAfter(e) /\ parser'.field = FieldsAfter(e)
  BY <1>1
<1>4. parser.state \in {"WAITING_FOR_DIV_FILELIST", "WAITING_FOR_A", "CONSUMING_A"}
  BY DEF TypeOK
<1>5. \A f \in Fields : parser'.field[f] =
        IF parser.state = "CONSUMING_A" /\ e.event = "ATTRIBUTE" /\ FieldOf(e.name) = f
          THEN e.value ELSE parser.field[f]
  BY <1>3 DEF FieldsAfter
<1>6. ASSUME parser.state # "CONSUMING_A"
      PROVE  /\ UNCHANGED <<listing, undefined>>
             /\ parser'.state = "CONSUMING_A" => IsTag(e, "a")
             /\ parser.state = "WAITING_FOR_A" /\ IsTag(e, "a") => parser'.state = "CONSUMING_A"
             /\ parser'.state = "WAITING_FOR_DIV_FILELIST" =>
                  parser.state = "WAITING_FOR_DIV_FILELIST" /\ at \notin FilelistAt(page)
  BY <1>1, <1>2, <1>3, <1>4, <1>6 DEF StateAfter
<1>7. ASSUME parser.state = "CONSUMING_A", ~EndsA(e)
      PROVE  UNCHANGED <<listing, undefined>> /\ parser'.state = "CONSUMING_A"
  BY <1>1, <1>3, <1>7 DEF StateAfter
<1>8. ASSUME parser.state = "CONSUMING_A", EndsA(e)
      PROVE  /\ parser'.state = "WAITING_FOR_A" /\ e.event # "ATTRIBUTE"
             /\ \/ undefined' = TRUE /\ listing' = listing
                \/ listing' = Append(listing, parser.field)
  BY <1>1, <1>3, <1>8 DEF StateAfter, EndsA, entry_found
<1>. QED BY <1>1, <1>5, <1>6, <1>7, <1>8 DEF e

\* Outside of an <a>.
LEMMA OutsideRead ==
  ASSUME NEW start, NEW stop, TypeOK, Lists, ReadAsSaid(page, start[page], stop[page]),
         Read(start, stop), filelist_xml_cb, parser.state # "CONSUMING_A"
  PROVE  Read(start, stop)'
<1>. DEFINE n == Len(Anchors(page))
            b == start[page]
            e == stop[page]
            l == Len(listing)
<1>1. /\ at \in DOMAIN Events[page] /\ step = "parse" /\ ~undefined /\ step' = "parse"
      /\ at' = at + 1 /\ page' = page /\ UNCHANGED <<listing, undefined>>
      /\ parser'.state = "CONSUMING_A" => IsTag(Events[page][at], "a")
      /\ parser.state = "WAITING_FOR_A" /\ IsTag(Events[page][at], "a") => parser'.state = "CONSUMING_A"
      /\ parser'.state = "WAITING_FOR_DIV_FILELIST" =>
           parser.state = "WAITING_FOR_DIV_FILELIST" /\ at \notin FilelistAt(page)
      /\ \A f \in Fields : parser'.field[f] = parser.field[f]
  BY EventSteps
<1>2. Place(start, stop) /\ Held(start) /\ Listed
  BY <1>1 DEF Read
<1>3. n \in Nat /\ l \in Nat /\ at \in Nat
  BY PageFacts DEF TypeOK, Lists
<1>4. l <= n /\ at >= 1 /\ (l >= 1 => e[l] < at) /\ (l + 1 <= n => at <= b[l + 1])
      /\ (parser.state = "WAITING_FOR_DIV_FILELIST" => \A g \in FilelistAt(page) : g >= at)
  BY <1>2 DEF Place, Anchored, Coming
<1>5. /\ IsTag(Events[page][at], "a") => l + 1 <= n /\ at = b[l + 1]
      /\ parser.state = "WAITING_FOR_DIV_FILELIST" /\ l + 1 <= n => at # b[l + 1]
  BY <1>1, <1>2, AtStart DEF Anchored, Coming
<1>6. /\ \A i \in 1 .. n : /\ b[i] \in Nat /\ e[i] \in Nat /\ b[i] < e[i]
                           /\ IsTag(Events[page][b[i]], "a")
      /\ \A g \in FilelistAt(page) : g \in Nat
  BY PageFacts
<1>7. (l >= 1 => e[l] \in Nat) /\ (l + 1 <= n => b[l + 1] \in Nat /\ e[l + 1] \in Nat /\ b[l + 1] < e[l + 1]
                                                /\ IsTag(Events[page][b[l + 1]], "a"))
  <2>. HIDE DEF n, b, e, l
  <2>. QED BY <1>3, <1>4, <1>6
<1>8. parser.state = "WAITING_FOR_DIV_FILELIST" \/ parser.state = "WAITING_FOR_A"
  BY DEF TypeOK
<1>9. Place(start, stop)'
  <2>. SUFFICES /\ l <= n /\ at + 1 >= 1
                /\ l >= 1 => e[l] < at + 1
                /\ parser'.state = "CONSUMING_A" => l + 1 <= n /\ b[l + 1] < at + 1 /\ at + 1 <= e[l + 1]
                /\ parser'.state # "CONSUMING_A" /\ l + 1 <= n => at + 1 <= b[l + 1]
                /\ parser'.state = "WAITING_FOR_DIV_FILELIST" => \A g \in FilelistAt(page) : g >= at + 1
    BY <1>1 DEF Place, Anchored, Coming
  <2>. HIDE DEF n, b, e, l
  <2>1. l <= n /\ at + 1 >= 1 /\ (l >= 1 => e[l] < at + 1)
    BY <1>3, <1>4, <1>7
  <2>2. parser'.state = "CONSUMING_A" => l + 1 <= n /\ b[l + 1] < at + 1 /\ at + 1 <= e[l + 1]
    BY <1>1, <1>3, <1>5, <1>7
  <2>3. ASSUME parser'.state # "CONSUMING_A", l + 1 <= n PROVE at + 1 <= b[l + 1]
    <3>1. at # b[l + 1]
      BY <1>1, <1>5, <1>7, <1>8, <2>3
    <3>. QED BY <1>3, <1>4, <1>7, <2>3, <3>1
  <2>4. ASSUME parser'.state = "WAITING_FOR_DIV_FILELIST", NEW g \in FilelistAt(page) PROVE g >= at + 1
    <3>1. g >= at /\ g # at /\ g \in Nat
      BY <1>1, <1>4, <1>6, <2>4
    <3>. QED BY <1>3, <3>1
  <2>. QED BY <2>1, <2>2, <2>3, <2>4
<1>10. Held(start)'
  <2>. SUFFICES ASSUME NEW f \in Fields
       PROVE  /\ parser'.state # "CONSUMING_A" \/ Given(start, f)' = {}
              /\ parser'.field[f] = Carried(page', Len(listing'), f)
    BY DEF Held, Given
  <2>1. parser'.field[f] = Carried(page', Len(listing'), f)
    BY <1>1, <1>2 DEF Held
  <2>2. ASSUME parser'.state = "CONSUMING_A" PROVE Given(start, f)' = {}
    <3>1. at = b[l + 1]
      BY <1>1, <1>5, <2>2
    <3>2. Given(start, f)' = AttributesAt(page, f, b[l + 1] + 1 .. (at + 1) - 1)
      BY <1>1 DEF Given, Coming, AttributesAt
    <3>. HIDE DEF b, l
    <3>3. b[l + 1] + 1 .. (at + 1) - 1 = {}
      BY <1>3, <3>1
    <3>. QED BY <3>2, <3>3 DEF AttributesAt
  <2>. QED BY <2>1, <2>2
<1>11. Listed' /\ Whole'
  BY <1>1, <1>2 DEF Listed, Whole
<1>. QED BY <1>9, <1>10, <1>11 DEF Read

\* Within an <a>.
LEMMA WithinRead ==
  ASSUME NEW start, NEW stop, TypeOK, Lists, ReadAsSaid(page, start[page], stop[page]),
         Read(start, stop), filelist_xml_cb, parser.state = "CONSUMING_A", ~EndsA(Events[page][at])
  PROVE  Read(start, stop)'
<1>. DEFINE n == Len(Anchors(page))
            b == start[page]
            e == stop[page]
            l == Len(listing)
<1>1. /\ at \in DOMAIN Events[page] /\ step = "parse" /\ ~undefined /\ step' = "parse"
      /\ at' = at + 1 /\ page' = page /\ UNCHANGED <<listing, undefined>>
      /\ parser'.state = "CONSUMING_A"
      /\ \A f \in Fields : parser'.field[f] =
           IF Events[page][at].event = "ATTRIBUTE" /\ FieldOf(Events[page][at].name) = f
             THEN Events[page][at].value ELSE parser.field[f]
  BY EventSteps
<1>2. Place(start, stop) /\ Held(start) /\ Listed
  BY <1>1 DEF Read
<1>3. n \in Nat /\ l \in Nat /\ at \in Nat
  BY PageFacts DEF TypeOK, Lists
<1>4. /\ l <= n /\ at >= 1 /\ (l >= 1 => e[l] < at)
      /\ l + 1 <= n /\ b[l + 1] < at /\ at <= e[l + 1]
  BY <1>2 DEF Place, Anchored, Coming
<1>5. \A i \in 1 .. n : b[i] \in Nat /\ e[i] \in Nat /\ EndsA(Events[page][e[i]])
  BY PageFacts
<1>6. /\ l >= 1 => e[l] \in Nat
      /\ b[l + 1] \in Nat /\ e[l + 1] \in Nat /\ at # e[l + 1]
  <2>. HIDE DEF n, b, e, l
  <2>1. l + 1 \in 1 .. n /\ (l >= 1 => l \in 1 .. n)
    BY <1>3, <1>4
  <2>. QED BY <1>5, <2>1
<1>7. Place(start, stop)'
  <2>. SUFFICES /\ l <= n /\ at + 1 >= 1
                /\ l >= 1 => e[l] < at + 1
                /\ l + 1 <= n /\ b[l + 1] < at + 1 /\ at + 1 <= e[l + 1]
    BY <1>1 DEF Place, Anchored, Coming
  <2>. HIDE DEF n, b, e, l
  <2>. QED BY <1>3, <1>4, <1>6
<1>8. Held(start)'
  <2>. SUFFICES ASSUME NEW f \in Fields
       PROVE  \/ Given(start, f)' = {} /\ parser'.field[f] = Carried(page, l, f)
              \/ \E k \in Given(start, f)' :
                   (\A j \in Given(start, f)' : j <= k) /\ parser'.field[f] = Events[page][k].value
    BY <1>1 DEF Held, Given
  <2>. DEFINE old == Given(start, f)
              new == Given(start, f)'
              from == b[l + 1] + 1
              isOne == Events[page][at].event = "ATTRIBUTE" /\ FieldOf(Events[page][at].name) = f
  <2>1. old = AttributesAt(page, f, from .. at - 1) /\ new = AttributesAt(page, f, from .. at)
    <3>1. (at + 1) - 1 = at
      BY <1>3
    <3>. QED BY <1>1, <3>1 DEF Given, Coming, AttributesAt
  <2>2. from .. at = (from .. at - 1) \cup {at}
    <3>. HIDE DEF b, l
    <3>. QED BY <1>3, <1>4, <1>6
  <2>. HIDE DEF from
  <2>3. new = IF isOne THEN old \cup {at} ELSE old
    BY <2>1, <2>2 DEF AttributesAt
  <2>4. \A j \in old : j <= at
    <3>1. \A j \in old : j \in from .. at - 1
      BY <2>1 DEF AttributesAt
    <3>2. \A j \in from .. at - 1 : j <= at
      <4>. HIDE DEF b, l
      <4>. QED BY <1>3, <1>6 DEF from
    <3>. QED BY <3>1, <3>2
  <2>5. parser'.field[f] = IF isOne THEN Events[page][at].value ELSE parser.field[f]
    BY <1>1
  <2>6. \/ old = {} /\ parser.field[f] = Carried(page, l, f)
        \/ \E k \in old : (\A j \in old : j <= k) /\ parser.field[f] = Events[page][k].value
    BY <1>2 DEF Held
  <2>. HIDE DEF old, new, isOne
  <2>7. CASE isOne
    <3>1. at \in new /\ \A j \in new : j <= at
      BY <1>3, <2>3, <2>4, <2>7
    <3>. QED BY <2>5, <2>7, <3>1 DEF new
  <2>8. CASE ~isOne
    BY <2>3, <2>5, <2>6, <2>8 DEF new
  <2>. QED BY <2>7, <2>8
<1>9. Listed' /\ Whole'
  BY <1>1, <1>2 DEF Listed, Whole
<1>. QED BY <1>7, <1>8, <1>9 DEF Read

\* At its end: it is listed, or its type is unknown.
LEMMA EndRead ==
  ASSUME NEW start, NEW stop, TypeOK, Lists, ReadAsSaid(page, start[page], stop[page]),
         Read(start, stop), filelist_xml_cb, parser.state = "CONSUMING_A", EndsA(Events[page][at])
  PROVE  Read(start, stop)'
<1>. DEFINE n == Len(Anchors(page))
            b == start[page]
            e == stop[page]
            l == Len(listing)
<1>1. /\ at \in DOMAIN Events[page] /\ step = "parse" /\ ~undefined /\ step' = "parse"
      /\ at' = at + 1 /\ page' = page /\ parser'.state = "WAITING_FOR_A"
      /\ \A f \in Fields : parser'.field[f] = parser.field[f]
      /\ \/ undefined' = TRUE /\ listing' = listing
         \/ listing' = Append(listing, parser.field)
  BY EventSteps
<1>2. Place(start, stop) /\ Held(start) /\ Listed
  BY <1>1 DEF Read
<1>3. CASE undefined' = TRUE /\ listing' = listing
  BY <1>1, <1>2, <1>3 DEF Read, Listed, Whole
<1>4. CASE listing' = Append(listing, parser.field)
  <2>1. /\ n \in Nat /\ l \in Nat /\ at \in Nat /\ l + 1 <= n
        /\ DOMAIN Anchors(page) = 1 .. n /\ DOMAIN listing = 1 .. l
    BY <1>2, PageFacts DEF TypeOK, Lists, Place, Anchored, Coming
  <2>2. at = e[l + 1] /\ at >= 1
    BY <1>1, <1>2, AtStop DEF Coming, Place
  <2>3. \A f \in Fields : parser.field[f] = Carried(page, l + 1, f)
    BY <1>2, <2>2, FieldsSaid DEF Coming
  <2>4. /\ Len(listing') = l + 1 /\ listing'[l + 1] = parser.field
        /\ \A i \in 1 .. l : listing'[i] = listing[i]
        /\ DOMAIN listing' = 1 .. l + 1
    BY <1>4, Longer DEF Lists
  <2>5. Listed'
    <3>1. DOMAIN listing' \subseteq DOMAIN Anchors(page)
      BY <2>1, <2>4
    <3>2. ASSUME NEW i \in DOMAIN listing', NEW f \in Fields PROVE listing'[i][f] = Carried(page, i, f)
      <4>1. CASE i = l + 1
        BY <2>3, <2>4, <4>1
      <4>2. CASE i # l + 1
        <5>1. i \in 1 .. l
          BY <2>1, <2>4, <4>2
        <5>. QED BY <1>2, <2>1, <2>4, <5>1 DEF Listed
      <4>. QED BY <4>1, <4>2
    <3>. QED BY <1>1, <3>1, <3>2 DEF Listed
  <2>6. Place(start, stop)'
    <3>. SUFFICES /\ l + 1 <= n /\ at + 1 >= 1 /\ e[l + 1] < at + 1
                  /\ (l + 1) + 1 <= n => at + 1 <= b[(l + 1) + 1]
      BY <1>1, <2>4 DEF Place, Anchored, Coming
    <3>1. ASSUME (l + 1) + 1 <= n PROVE b[(l + 1) + 1] \in Nat /\ e[l + 1] < b[(l + 1) + 1]
      <4>1. l + 1 \in 1 .. n /\ (l + 1) + 1 \in 1 .. n /\ l + 1 < (l + 1) + 1
        BY <2>1, <3>1
      <4>. QED BY <4>1, PageFacts
    <3>. HIDE DEF n, b, e, l
    <3>. QED BY <2>1, <2>2, <3>1
  <2>7. Held(start)'
    <3>1. \A f \in Fields : parser'.field[f] = Carried(page', Len(listing'), f)
      BY <1>1, <2>3, <2>4
    <3>. QED BY <1>1, <3>1 DEF Held, Given
  <2>8. Whole'
    BY <1>1 DEF Whole
  <2>. QED BY <2>5, <2>6, <2>7, <2>8 DEF Read
<1>. QED BY <1>1, <1>3, <1>4

LEMMA NextRead ==
  ASSUME NEW start, NEW stop, \A p \in Pages : ReadAsSaid(p, start[p], stop[p]),
         TypeOK, Lists, Read(start, stop), [Next]_vars
  PROVE  Read(start, stop)'
<1>1. ReadAsSaid(page, start[page], stop[page])
  BY DEF TypeOK
<1>2. CASE UNCHANGED vars \/ Undefined
  <2>1. UNCHANGED <<page, at, parser, listing, rc, step>> /\ (~undefined' => ~undefined)
    BY <1>2 DEF vars, parseVars, Undefined
  <2>2. Place(start, stop) => Place(start, stop)'
    BY <2>1 DEF Place, Anchored, Coming
  <2>3. Held(start) => Held(start)'
    BY <2>1 DEF Held, Given, Coming, AttributesAt
  <2>. QED BY <2>1, <2>2, <2>3 DEF Read, Listed, Whole
<1>3. CASE filelist_xml_cb
  BY <1>1, <1>3, OutsideRead, WithinRead, EndRead
<1>4. CASE indexnode_tryget_alternatives
  <2>1. /\ step = "parse" /\ ~undefined /\ step' = "split"
        /\ UNCHANGED <<page, listing, undefined>>
        /\ rc' = 0 => at > Len(Events[page])
    BY <1>4 DEF indexnode_tryget_alternatives, At, parseVars
  <2>2. ASSUME rc' = 0 PROVE Len(listing) = Len(Anchors(page))
    <3>. DEFINE n == Len(Anchors(page))
                l == Len(listing)
    <3>1. /\ n \in Nat /\ l \in Nat /\ at \in Nat /\ l <= n
          /\ Len(Events[page]) \in Nat /\ DOMAIN Events[page] = 1 .. Len(Events[page])
      BY <1>1, <2>1, PageFacts DEF Read, Place, TypeOK, Lists
    <3>. SUFFICES ASSUME l + 1 <= n PROVE FALSE
      <4>. HIDE DEF n, l
      <4>1. l = n
        BY <3>1
      <4>. QED BY <4>1 DEF n, l
    <3>2. at <= start[page][l + 1] \/ at <= stop[page][l + 1]
      BY <2>1 DEF Read, Place, Anchored, Coming
    <3>3. start[page][l + 1] \in DOMAIN Events[page] /\ stop[page][l + 1] \in DOMAIN Events[page]
      <4>1. l + 1 \in 1 .. n
        BY <3>1
      <4>. QED BY <1>1, <4>1, PageFacts
    <3>. HIDE DEF n, l
    <3>. QED BY <2>1, <2>2, <3>1, <3>2, <3>3
  <2>. QED BY <2>1, <2>2 DEF Read, Listed, Whole
<1>5. CASE \/ split_list /\ ~Undefined
           \/ peerstats_chose_alternative
           \/ DeleteSplitLists
           \/ DeleteAlternatives
           \/ UseBest /\ ~Undefined
  <2>1. /\ step # "parse" /\ step' # "parse" /\ UNCHANGED <<page, listing, rc, undefined>>
    BY <1>5 DEF split_list, peerstats_chose_alternative, DeleteSplitLists, DeleteAlternatives, UseBest,
                At, parseVars
  <2>. QED BY <2>1 DEF Read, Listed, Whole
<1>. QED BY <1>2, <1>3, <1>4, <1>5 DEF Next

LEMMA InitRead ==
  ASSUME NEW start, NEW stop, \A p \in Pages : ReadAsSaid(p, start[p], stop[p]), Init
  PROVE  Read(start, stop)
<1>1. /\ page \in Pages /\ at = 1 /\ parser = NewParser /\ listing = <<>> /\ Len(listing) = 0
      /\ DOMAIN listing = {} /\ step = "parse"
  BY DEF Init
<1>2. TypeOK /\ ReadAsSaid(page, start[page], stop[page])
  <2>1. Inv
    BY InitInv
  <2>. QED BY <1>1, <2>1 DEF Inv
<1>3. parser.state = "WAITING_FOR_DIV_FILELIST" /\ \A f \in Fields : parser.field[f] = Zero(f)
  BY <1>1 DEF NewParser
<1>4. Place(start, stop)
  <2>1. /\ Len(Anchors(page)) \in Nat
        /\ \A i \in 1 .. Len(Anchors(page)) : start[page][i] \in Nat \ {0}
        /\ \A g \in FilelistAt(page) : g \in Nat \ {0}
    BY <1>2, PageFacts
  <2>2. Coming = 1
    BY <1>1 DEF Coming
  <2>3. Anchored => start[page][1] \in Nat \ {0}
    BY <2>1, <2>2 DEF Anchored
  <2>. QED BY <1>1, <1>3, <2>1, <2>2, <2>3 DEF Place
<1>5. Held(start)
  BY <1>1, <1>3, CarriedNone DEF Held
<1>. QED BY <1>1, <1>4, <1>5 DEF Read, Listed, Whole

\* Each <a> of a page becomes one listing, in order, wherever the fetch breaks
\* off, and all of them do if it does not: parser_filelist.c gives a field what
\* its <a> says of it, or else what the nearest one before it said.
THEOREM ListingsAreAsSent ==
  ASSUME NEW start, NEW stop, \A p \in Pages : ReadAsSaid(p, start[p], stop[p])
  PROVE  Spec => []ListedAsSent
<1>1. Init => Inv /\ Read(start, stop)
  BY InitInv, InitRead
<1>2. Inv /\ Read(start, stop) /\ [Next]_vars => Inv' /\ Read(start, stop)'
  BY NextLists, NextRead DEF Inv
<1>3. Read(start, stop) => ListedAsSent
  BY DEF Read, Listed, Whole, ListedAsSent
<1>. QED BY <1>1, <1>2, <1>3, PTL DEF Spec

\* If the listings are what the page says, the peer that is chosen is one that
\* the page names and the user's lists permit: nothing is lost between the
\* parser and the download.
LEMMA PermittedIfListed == TypeOK /\ Lists /\ Chosen /\ ListedAsSent => BestIsPermitted
<1>. SUFFICES ASSUME TypeOK, Lists, Chosen, ListedAsSent,
                     \A i \in DOMAIN Anchors(page) : Said(page, i, "client") # <<>>
     PROVE  \A i \in DOMAIN listing : Client(i) = Last(Said(page, i, "client")).value
  BY DEF BestIsPermitted, Chosen, TypeOK
<1>1. ASSUME NEW i \in DOMAIN listing PROVE Client(i) = Last(Said(page, i, "client")).value
  <2>1. i \in Nat \ {0} /\ i \in DOMAIN Anchors(page)
    BY Places DEF ListedAsSent
  <2>2. i - 1 \in Nat /\ (i - 1) + 1 = i
    BY <2>1
  <2>3. Carried(page, i, "client") = Last(Said(page, i, "client")).value
    BY <2>1, <2>2, CarriedOn
  <2>. QED BY <2>3 DEF ListedAsSent, Client, Fields
<1>. QED BY <1>1

\* For any pages, that is if what was parsed is what was sent.
THEOREM BestIsPermittedIfListed == Spec /\ []ListedAsSent => []BestIsPermitted
BY PermittedIfListed, Invariance, ChoiceIsAllowed, PTL DEF Inv

\* The peer to download from is one that the page names, and the user's
\* favourite and blocked peers permit it.
THEOREM ChosenPeerIsPermitted ==
  ASSUME NEW start, NEW stop, \A p \in Pages : ReadAsSaid(p, start[p], stop[p])
  PROVE  Spec => []BestIsPermitted
BY BestIsPermittedIfListed, ListingsAreAsSent, PTL
=============================================================================
