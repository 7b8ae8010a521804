----------------------------- MODULE MCListings ------------------------------
(* Pages on the pattern of tests/unit/testdata/filelist.xml: two and three *)
(* alternatives; entries that leave attributes out; none; an unknown type. *)
EXTENDS Listings

Entry(peer, n) ==
  Element("a", <<Attr("fs2-alternativescount", 1), Attr("fs2-clientalias", peer), Attr("fs2-hash", "h"),
                 Attr("fs2-name", "n"), Attr("fs2-size", n), Attr("fs2-type", "file"),
                 Attr("href", peer), Attr("fs2-path", "x")>>, Text(FALSE))
Directory(n) ==
  Element("a", <<Attr("fs2-linkcount", n), Attr("fs2-name", "d"), Attr("fs2-type", "directory"),
                 Attr("fs2-size", n)>>, Text(FALSE))
Link(n) == Element("a", <<Attr("href", n), Attr("fs2-type", "link")>>, Text(FALSE))
Row(a) == Text(TRUE) \o Element("b", <<>>, Text(FALSE)) \o a
          \o Element("span", <<>>, Text(FALSE)) \o Element("br", <<>>, <<>>)
Html(rows) ==
  Element("html", <<>>, Element("body", <<>>, Element("div", <<>>,
    Element("div", <<Attr("id", "fs2-filelist")>>, rows))))

MCDocument ==
  [p \in Pages |->
     CASE p = "two" -> Html(Row(Entry("p1", 5)) \o Row(Entry("p2", 6)))
       [] p = "three" -> Html(Row(Entry("p2", 5)) \o Row(Entry("p1", 5)) \o Row(Entry("p3", 5)))
       [] p = "same" -> Html(Row(Entry("p1", 5)) \o Row(Entry("p1", 5)))
       [] p = "mixed" -> Html(Row(Directory(2)) \o Row(Entry("p1", 5)) \o Row(Directory(3)))
       [] p = "none" -> Html(<<>>)
       [] p = "odd" -> Html(Row(Entry("p1", 5)) \o Row(Link("l")))]

\* What the theorems ask of a page holds of these.
Places(p, ok(_)) == SetToSortSeq({k \in DOMAIN Events[p] : ok(Events[p][k])}, <)
ASSUME ReadAssumption ==
  \A p \in Pages : ReadAsSaid(p, Places(p, LAMBDA e : IsTag(e, "a")), Places(p, EndsA))
=============================================================================
