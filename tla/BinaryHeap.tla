----------------------------- MODULE BinaryHeap ------------------------------
(***************************************************************************)
(* binary_heap.c: a binary min-heap in a growing array, one action per     *)
(* iteration of its sifting loops.  binary_heap_add and binary_heap_trypop *)
(* are the entry points; move_up and move_down leave the heap order broken *)
(* at target_pos only, and the invariants below say exactly how.           *)
(*                                                                         *)
(* The array is a function on 0..allocated-1.  A slot that was allocated   *)
(* but never written is NoKvp, so reading one is visible.  trypop does not *)
(* clear the slot it vacates: array[used] keeps the pointer that was moved *)
(* to the root, and move_down does read it.                                *)
(***************************************************************************)
EXTENDS Integers

CONSTANTS Keys,     \* the ints that may be keys
          Values,   \* the void pointers that may be stored
          NoKvp     \* an unwritten slot, and trypop's answer 0

ASSUME KeysAssumption == Keys \subseteq Int

VARIABLES array, allocated, used,   \* struct _binary_heap_t
          pc,                       \* "idle", or the loop being run
          target_pos,               \* the loop's position
          result                    \* *key and *value of the last trypop

vars == <<array, allocated, used, pc, target_pos, result>>

Kvps == [key : Keys, value : Values]

ASSUME NoKvpAssumption == NoKvp \notin Kvps

-----------------------------------------------------------------------------
parent(n) == (n - 1) \div 2
left_child(n) == 2 * n + 1
right_child(n) == 2 * n + 2

MaxOf(a, b) == IF a >= b THEN a ELSE b

\* ensure_space: the array and its capacity once `space` slots exist.
new_space_Mutant(space) == allocated * 2
new_space(space) ==
  IF allocated < space THEN MaxOf(allocated * 2, space) ELSE allocated

ensure_space(space) ==
  [i \in 0 .. new_space(space) - 1 |-> IF i < allocated THEN array[i] ELSE NoKvp]

Swap(a, i, j) == [a EXCEPT ![i] = a[j], ![j] = a[i]]

Key(i) == array[i].key

-----------------------------------------------------------------------------
Init ==
  /\ array = [i \in {} |-> NoKvp]
  /\ allocated = 0
  /\ used = 0
  /\ pc = "idle"
  /\ target_pos = 0
  /\ result = NoKvp

\* The values in the queue; a chunk pointer is added once.
Stored == {array[i].value : i \in 0 .. used - 1}

\* binary_heap_add up to its call of move_up.
binary_heap_add(k, v) ==
  /\ pc = "idle"
  /\ v \notin Stored
  /\ array' = [ensure_space(used + 1) EXCEPT ![used] = [key |-> k, value |-> v]]
  /\ allocated' = new_space(used + 1)
  /\ pc' = "up"
  /\ target_pos' = used
  /\ UNCHANGED <<used, result>>

OutOfPlaceUp_Mutant == target_pos > 0 /\ Key(target_pos) > Key(parent(target_pos))
OutOfPlaceUp == target_pos > 0 /\ Key(target_pos) < Key(parent(target_pos))

move_up ==
  /\ pc = "up"
  /\ OutOfPlaceUp
  /\ array' = Swap(array, target_pos, parent(target_pos))
  /\ target_pos' = parent(target_pos)
  /\ UNCHANGED <<allocated, used, pc, result>>

\* The loop ends and binary_heap_add counts the new pair.
move_up_done ==
  /\ pc = "up"
  /\ ~OutOfPlaceUp
  /\ used' = used + 1
  /\ pc' = "idle"
  /\ UNCHANGED <<array, allocated, target_pos, result>>

\* A trypop that tidily clears the slot it vacates.
trypop_Mutant ==
  /\ pc = "idle"
  /\ used > 0
  /\ result' = array[0]
  /\ used' = used - 1
  /\ array' = [i \in DOMAIN array |->
                 IF i = used - 1 THEN NoKvp ELSE IF i = 0 THEN array[used - 1] ELSE array[i]]
  /\ pc' = IF used > 1 THEN "down" ELSE "idle"
  /\ target_pos' = 0
  /\ UNCHANGED allocated

\* binary_heap_trypop on a non-empty heap, up to its call of move_down.
trypop ==
  /\ pc = "idle"
  /\ used > 0
  /\ result' = array[0]
  /\ used' = used - 1
  /\ array' = IF used > 1 THEN [array EXCEPT ![0] = array[used - 1]] ELSE array
  /\ pc' = IF used > 1 THEN "down" ELSE "idle"
  /\ target_pos' = 0
  /\ UNCHANGED allocated

trypop_empty ==
  /\ pc = "idle"
  /\ used = 0
  /\ result' = NoKvp
  /\ UNCHANGED <<array, allocated, used, pc, target_pos>>

\* move_down's choice of a child: the right one even when it lies one past
\* the end of the heap, if its (stale) key is smaller.
child_pos_Mutant(t) == left_child(t)
child_pos(t) ==
  IF left_child(t) > used - 1 \/ Key(left_child(t)) > Key(right_child(t))
    THEN right_child(t)
    ELSE left_child(t)

HasChild(t) == t < used \div 2

OutOfPlaceDown ==
  HasChild(target_pos) /\ Key(target_pos) > Key(child_pos(target_pos))

move_down ==
  /\ pc = "down"
  /\ OutOfPlaceDown
  /\ array' = Swap(array, target_pos, child_pos(target_pos))
  /\ target_pos' = child_pos(target_pos)
  /\ UNCHANGED <<allocated, used, pc, result>>

move_down_done ==
  /\ pc = "down"
  /\ ~OutOfPlaceDown
  /\ pc' = "idle"
  /\ UNCHANGED <<array, allocated, used, target_pos, result>>

Next ==
  \/ \E k \in Keys, v \in Values : binary_heap_add(k, v)
  \/ move_up
  \/ move_up_done
  \/ trypop
  \/ trypop_empty
  \/ move_down
  \/ move_down_done

Spec == Init /\ [][Next]_vars

-----------------------------------------------------------------------------
\* The last occupied slot: binary_heap_add counts the pair it places only
\* once it is in position.
Last == IF pc = "up" THEN used ELSE used - 1

\* The structure keeps its shape, and every slot of the heap has been
\* allocated and written.
TypeOK ==
  /\ allocated \in Nat /\ used \in Nat /\ target_pos \in Nat
  /\ pc \in {"idle", "up", "down"}
  /\ array \in [0 .. allocated - 1 -> Kvps \cup {NoKvp}]
  /\ result \in Kvps \cup {NoKvp}
  /\ Last < allocated
  /\ \A i \in 0 .. Last : array[i] \in Kvps
  /\ pc = "up" => target_pos <= used

\* How far from a heap the array is while a loop of binary_heap.c runs: the
\* pair at target_pos may be out of order with its parent (move_up) or with
\* its children (move_down), every other pair is below its parent, and the
\* pairs on either side of target_pos are in order with each other.
SiftOrder ==
  \A i \in 1 .. Last :
    /\ \/ Key(parent(i)) <= Key(i)
       \/ pc = "up" /\ i = target_pos
       \/ pc = "down" /\ parent(i) = target_pos
    /\ (pc # "idle" /\ parent(i) = target_pos /\ target_pos > 0)
         => Key(parent(target_pos)) <= Key(i)

\* move_down (lines 85-112) reads the right child even when the heap ends at
\* the left one.  That slot was allocated and written, and still holds the
\* pair being moved, so the read is defined and the loop never swaps a pair
\* out of the heap.
StaleSlotIsTarget ==
  pc = "down" =>
    /\ target_pos < used /\ used < allocated
    /\ array[used] = array[target_pos]
    /\ HasChild(target_pos) => right_child(target_pos) <= used

\* binary_heap_trypop (line 121) hands out array[0]: between calls no pair in
\* the heap has a smaller key, whatever sequence of adds and pops came before.
RootIsLeast ==
  pc = "idle" => \A i \in 0 .. used - 1 : Key(0) <= Key(i)

\* No pair is duplicated or dropped by the swaps.
Distinct ==
  \A i, j \in 0 .. Last : i # j => array[i].value # array[j].value

PQ == INSTANCE PriorityQueue
        WITH items <- {array[i] : i \in 0 .. Last}, out <- result

\* The array with its sifting loops is a priority queue: a pair enters when
\* binary_heap_add writes it, trypop removes a pair of least key, and neither
\* loop loses, duplicates or invents a pair.
ImplementsPriorityQueue == PQ!Spec
=============================================================================
