---------------------------- MODULE PriorityQueue ----------------------------
(***************************************************************************)
(* What the downloader expects of binary_heap.c ("Mostly meant for the     *)
(* Pri-Q ADT"): a bag of (key, value) pairs from which trypop takes a pair *)
(* of least key, or reports that there is none.  Values are the chunk      *)
(* pointers, so a value is in the queue at most once.                      *)
(***************************************************************************)
EXTENDS Integers

CONSTANTS Keys,     \* the ints that may be keys
          Values,   \* the void pointers that may be stored
          NoKvp     \* no pair: trypop's answer 0

VARIABLES items,    \* the pairs in the queue
          out       \* the answer of the last trypop

Kvps == [key : Keys, value : Values]

Init == items = {} /\ out = NoKvp

Insert(k, v) ==
  /\ \A m \in items : m.value # v
  /\ items' = items \cup {[key |-> k, value |-> v]}
  /\ UNCHANGED out

TakeLeast ==
  \E m \in items :
    /\ \A n \in items : m.key <= n.key
    /\ items' = items \ {m}
    /\ out' = m

TakeNone == items = {} /\ out' = NoKvp /\ UNCHANGED items

Next ==
  \/ \E k \in Keys, v \in Values : Insert(k, v)
  \/ TakeLeast
  \/ TakeNone

Spec == Init /\ [][Next]_<<items, out>>
=============================================================================
