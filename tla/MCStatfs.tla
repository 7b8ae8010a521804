------------------------------ MODULE MCStatfs -------------------------------
(* Pages on the pattern of tests/unit/testdata/stats.xml: as there; the    *)
(* counts the other way round; of an indexnode that shares nothing; with a *)
(* title before one value; with a div that has no id first; with a total   *)
(* that is given twice.                                                    *)
EXTENDS Statfs

CountSpan(id, n) == Element("span", <<Attr("id", id), Attr("value", n)>>, Text(FALSE))
Started == Element("span", <<Attr("id", "indexnode-started"), Attr("value", 7)>>, Text(FALSE))
General(spans) ==
  Element("div", <<Attr("id", "general")>>, Text(TRUE) \o spans \o Element("br", <<>>, <<>>))
Html(content) == Element("html", <<>>, Element("body", <<>>, content))
Titled(id, n) ==
  Element("span", <<Attr("id", id), Attr("title", "count"), Attr("value", n)>>, Text(FALSE))

MCDocument ==
  [p \in Pages |->
     CASE p = "test" -> Html(General(CountSpan("file-count", 3) \o Started \o CountSpan("total-size", 7)))
       [] p = "sizefirst" -> Html(General(CountSpan("total-size", 6) \o CountSpan("file-count", 1)))
       [] p = "nothing" -> Html(General(CountSpan("file-count", 0) \o CountSpan("total-size", 0)))
       [] p = "titled" -> Html(General(Titled("file-count", 2) \o CountSpan("total-size", 5)))
       [] p = "plaindiv" -> Html(Element("div", <<>>, <<>>)
                                 \o General(CountSpan("file-count", 2) \o CountSpan("total-size", 5)))
       [] p = "twice" -> Html(General(CountSpan("file-count", 3) \o CountSpan("total-size", 4)
                                      \o CountSpan("total-size", 4)))]

\* What the theorems ask of a page holds of these.
ASSUME ReadAssumption == \A p \in Pages : ReadAsSaid(p)
=============================================================================
