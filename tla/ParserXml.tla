----------------------------- MODULE ParserXml -------------------------------
(***************************************************************************)
(* parser_xml.c: the events that libxml2's SAX calls become, in order.     *)
(* libxml2 itself is external; a document is the sequence of SAX calls it  *)
(* makes, built with Start, End, Text and Element below.                   *)
(***************************************************************************)
EXTENDS Sequences, SequencesExt

\* A pointer that is NULL.
NULL == "NULL"

\* An attribute, and the SAX calls with what parser_xml.c reads of them.
Attr(name, value) == [name |-> name, value |-> value]
Start(name, attrs) == <<[call |-> "startElementNs", name |-> name, attrs |-> attrs]>>
End(name) == <<[call |-> "endElementNs", name |-> name]>>
Text(blank) == <<[call |-> "characters", blank |-> blank]>>
Element(name, attrs, content) == Start(name, attrs) \o content \o End(name)

Event(event, name, value) == [event |-> event, name |-> name, value |-> value]

\* TAG_START with the id, if there is one, and the other attributes after it.
on_start_element_ns(name, attrs) ==
  LET isId(a) == a.name = "id"
      ids == SelectSeq(attrs, isId)
      others == SelectSeq(attrs, LAMBDA a : ~isId(a))
  IN <<Event("TAG_START", name, IF ids = <<>> THEN NULL ELSE Last(ids).value)>>
     \o [i \in DOMAIN others |-> Event("ATTRIBUTE", others[i].name, others[i].value)]

on_end_element_ns(name) == <<Event("TAG_END", name, NULL)>>

\* Text that is only white space is layout.
on_characters(blank) == IF blank THEN <<>> ELSE <<Event("TEXT", "text", NULL)>>

\* The events of the whole document.
parser_xml_consume(calls) ==
  FlattenSeq([i \in DOMAIN calls |->
                CASE calls[i].call = "startElementNs" -> on_start_element_ns(calls[i].name, calls[i].attrs)
                  [] calls[i].call = "endElementNs" -> on_end_element_ns(calls[i].name)
                  [] calls[i].call = "characters" -> on_characters(calls[i].blank)])
=============================================================================
