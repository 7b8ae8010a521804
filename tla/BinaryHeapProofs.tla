-------------------------- MODULE BinaryHeapProofs --------------------------
(***************************************************************************)
(* Proofs about binary_heap.c for every set of keys, every set of values   *)
(* and every number of pairs in the heap.                                  *)
(***************************************************************************)
EXTENDS BinaryHeap, TLAPS, WellFoundedInduction

(***************************************************************************)
(* The shape of the tree: every position but the root is the left or the   *)
(* right child of its parent, which comes before it.                       *)
(***************************************************************************)
LEMMA ParentFacts ==
  ASSUME NEW n \in Nat, n > 0
  PROVE  /\ parent(n) \in Nat
         /\ parent(n) < n
         /\ n = 2 * parent(n) + 1 \/ n = 2 * parent(n) + 2
BY DEF parent

(***************************************************************************)
(* A position that move_down looks at has its left child in the heap, and  *)
(* its right child at most one past the end.                               *)
(***************************************************************************)
LEMMA ChildFacts ==
  ASSUME NEW t \in Nat, NEW u \in Nat, t < u \div 2
  PROVE  2 * t + 1 < u /\ 2 * t + 2 <= u
OBVIOUS

(***************************************************************************)
(* ensure_space returns an array that has room for the new pair and keeps  *)
(* the old ones.                                                           *)
(***************************************************************************)
LEMMA SpaceFacts ==
  ASSUME TypeOK, pc = "idle"
  PROVE  /\ new_space(used + 1) \in Nat
         /\ new_space(used + 1) >= used + 1
         /\ new_space(used + 1) >= allocated
BY DEF TypeOK, Last, new_space, MaxOf

-----------------------------------------------------------------------------
(***************************************************************************)
(* The slots of the heap are allocated and written after every step.       *)
(***************************************************************************)
LEMMA AddType ==
  ASSUME TypeOK, NEW k \in Keys, NEW v \in Values, binary_heap_add(k, v)
  PROVE  TypeOK'
<1>. DEFINE c == [key |-> k, value |-> v]
            a == ensure_space(used + 1)
            m == new_space(used + 1)
<1>1. c \in Kvps
  BY DEF Kvps
<1>2. m \in Nat /\ m >= used + 1 /\ m >= allocated
  BY SpaceFacts DEF binary_heap_add
<1>3. a \in [0 .. m - 1 -> Kvps \cup {NoKvp}]
  <2>. HIDE DEF m
  <2>. QED BY <1>2 DEF ensure_space, TypeOK, m
<1>4. \A i \in 0 .. used - 1 : a[i] \in Kvps
  BY <1>2 DEF ensure_space, TypeOK, Last, binary_heap_add
<1>5. array' = [a EXCEPT ![used] = c] /\ allocated' = m
  BY DEF binary_heap_add
<1>. HIDE DEF a, c, m
<1>6. array' \in [0 .. m - 1 -> Kvps \cup {NoKvp}]
  BY <1>1, <1>2, <1>3, <1>5
<1>7. \A i \in 0 .. used : array'[i] \in Kvps
  BY <1>1, <1>2, <1>3, <1>4, <1>5 DEF TypeOK
<1>8. /\ used \in Nat /\ used' = used /\ pc' = "up" /\ target_pos' = used
      /\ Last' = used /\ result' = result /\ result \in Kvps \cup {NoKvp}
  BY DEF TypeOK, Last, binary_heap_add
<1>. QED BY <1>2, <1>5, <1>6, <1>7, <1>8 DEF TypeOK

\* A swap of two slots keeps the types.
LEMMA SwapType ==
  ASSUME TypeOK, NEW i \in 0 .. Last, NEW j \in 0 .. Last,
         array' = Swap(array, i, j)
  PROVE  /\ array' \in [0 .. allocated - 1 -> Kvps \cup {NoKvp}]
         /\ \A n \in 0 .. Last : array'[n] \in Kvps
         /\ array'[i] = array[j] /\ array'[j] = array[i]
         /\ \A n \in 0 .. allocated - 1 : n # i /\ n # j => array'[n] = array[n]
<1>1. Last < allocated /\ allocated \in Nat /\ Last \in Int
  BY DEF TypeOK, Last
<1>. QED BY <1>1 DEF TypeOK, Swap

(***************************************************************************)
(* The inductive invariant: what the sifting loops of binary_heap.c keep   *)
(* between their iterations.                                               *)
(***************************************************************************)
Inv == TypeOK /\ SiftOrder /\ StaleSlotIsTarget /\ Distinct

\* What is in the heap has an integer key.
LEMMA KeysAreIntegers ==
  ASSUME TypeOK
  PROVE  \A i \in 0 .. Last : Key(i) \in Int
BY KeysAssumption DEF TypeOK, Kvps, Key

(***************************************************************************)
(* move_down looks at a pair only while it has children, and swaps it with *)
(* a child inside the heap whose key is least among the children.          *)
(***************************************************************************)
LEMMA ChosenChild ==
  ASSUME Inv, pc = "down", HasChild(target_pos)
  PROVE  LET c == child_pos(target_pos)
         IN  /\ c \in Nat /\ c > 0
             /\ parent(c) = target_pos
             /\ \A i \in 1 .. Last : parent(i) = target_pos => Key(c) <= Key(i)
             /\ Key(c) \in Int
             /\ Key(target_pos) > Key(c) => c \in 0 .. Last
<1>. DEFINE c == child_pos(target_pos)
<1>1. /\ target_pos \in Nat /\ used \in Nat /\ Last = used - 1
      /\ target_pos < used /\ used < allocated
      /\ array[used] = array[target_pos]
  BY DEF Inv, TypeOK, StaleSlotIsTarget, Last
<1>2. left_child(target_pos) < used /\ right_child(target_pos) <= used
  BY <1>1, ChildFacts DEF HasChild, left_child, right_child
<1>3. \A i \in 0 .. used : Key(i) \in Int
  <2>1. \A i \in 0 .. used - 1 : Key(i) \in Int
    BY <1>1, KeysAreIntegers DEF Inv
  <2>. QED BY <1>1, <2>1 DEF Key
<1>4. /\ left_child(target_pos) \in 1 .. used - 1
      /\ right_child(target_pos) \in 1 .. used
  BY <1>1, <1>2 DEF left_child, right_child
<1>5. /\ c = left_child(target_pos) \/ c = right_child(target_pos)
      /\ Key(c) <= Key(left_child(target_pos))
      /\ Key(c) <= Key(right_child(target_pos))
  BY <1>1, <1>2, <1>3, <1>4 DEF child_pos
<1>6. c \in 1 .. used /\ parent(c) = target_pos
  BY <1>1, <1>4, <1>5 DEF parent, left_child, right_child
<1>7. \A i \in 1 .. Last : parent(i) = target_pos => Key(c) <= Key(i)
  BY <1>1, <1>5, ParentFacts DEF left_child, right_child
<1>8. Key(target_pos) > Key(c) => c # used
  BY <1>1, <1>3 DEF Key
<1>. QED BY <1>1, <1>3, <1>6, <1>7, <1>8

-----------------------------------------------------------------------------
\* binary_heap_add leaves only the new pair out of order.
LEMMA AddInv ==
  ASSUME Inv, NEW k \in Keys, NEW v \in Values, binary_heap_add(k, v)
  PROVE  Inv'
<1>1. TypeOK'
  BY AddType DEF Inv
<1>2. /\ pc = "idle" /\ pc' = "up" /\ used' = used /\ target_pos' = used
      /\ used \in Nat /\ Last = used - 1 /\ Last' = used
  BY DEF binary_heap_add, Inv, TypeOK, Last
<1>3. /\ \A i \in 0 .. used - 1 : array'[i] = array[i]
      /\ array'[used] = [key |-> k, value |-> v]
  <2>. DEFINE m == new_space(used + 1)
  <2>1. m \in Nat /\ m >= used + 1 /\ m >= allocated /\ used - 1 < allocated
    BY <1>2, SpaceFacts DEF Inv, TypeOK
  <2>2. array' = [[i \in 0 .. m - 1 |-> IF i < allocated THEN array[i] ELSE NoKvp]
                    EXCEPT ![used] = [key |-> k, value |-> v]]
    BY DEF binary_heap_add, ensure_space
  <2>. HIDE DEF m
  <2>. QED BY <1>2, <2>1, <2>2 DEF Inv, TypeOK
<1>4. SiftOrder'
  <2>. SUFFICES ASSUME NEW i \in 1 .. used
                PROVE  /\ i = used \/ array'[parent(i)].key <= array'[i].key
                       /\ parent(i) # used
    BY <1>2 DEF SiftOrder, Key
  <2>1. parent(i) \in Nat /\ parent(i) < i
    BY <1>2, ParentFacts
  <2>2. i # used => array[parent(i)].key <= array[i].key
    BY <1>2 DEF Inv, SiftOrder, Key
  <2>. QED BY <1>2, <1>3, <2>1, <2>2
<1>5. StaleSlotIsTarget'
  BY <1>2 DEF StaleSlotIsTarget
<1>6. Distinct'
  <2>1. \A i \in 0 .. used - 1 : array[i].value # v
    BY DEF binary_heap_add, Stored
  <2>. QED BY <1>2, <1>3, <2>1 DEF Inv, Distinct
<1>. QED BY <1>1, <1>4, <1>5, <1>6 DEF Inv

(***************************************************************************)
(* A swap of two positions inside the heap keeps the pairs distinct.       *)
(***************************************************************************)
LEMMA SwapDistinct ==
  ASSUME Inv, NEW i \in 0 .. Last, NEW j \in 0 .. Last, Last' = Last,
         array' = Swap(array, i, j)
  PROVE  Distinct'
<1>1. Last < allocated /\ allocated \in Nat /\ Last \in Int
  BY DEF Inv, TypeOK, Last
<1>. QED BY <1>1, SwapType DEF Inv, Distinct

\* An iteration of move_up moves the disorder one level up.
LEMMA MoveUpInv ==
  ASSUME Inv, move_up
  PROVE  Inv'
<1>. DEFINE t == target_pos
            p == parent(target_pos)
<1>1. /\ pc = "up" /\ pc' = "up" /\ used' = used /\ allocated' = allocated
      /\ t \in Nat /\ t > 0 /\ used \in Nat /\ Last = used /\ Last' = used /\ t <= used
      /\ used < allocated /\ allocated \in Nat
      /\ Key(t) < Key(p) /\ array' = Swap(array, t, p) /\ target_pos' = p
      /\ result' = result
  BY DEF move_up, OutOfPlaceUp, Inv, TypeOK, Last
<1>2. p \in Nat /\ p < t
  BY <1>1, ParentFacts
<1>3. /\ array' \in [0 .. allocated - 1 -> Kvps \cup {NoKvp}]
      /\ \A n \in 0 .. used : array'[n] \in Kvps
      /\ array'[t] = array[p] /\ array'[p] = array[t]
      /\ \A n \in 0 .. used : n # t /\ n # p => array'[n] = array[n]
  BY <1>1, <1>2, SwapType DEF Inv
<1>4. TypeOK'
  BY <1>1, <1>2, <1>3 DEF Inv, TypeOK
<1>5. SiftOrder'
  <2>. SUFFICES ASSUME NEW i \in 1 .. used
                PROVE  /\ i # p => array'[parent(i)].key <= array'[i].key
                       /\ parent(i) = p /\ p > 0 => array'[parent(p)].key <= array'[i].key
    BY <1>1 DEF SiftOrder, Key
  <2>0. \A n \in 0 .. used : array[n].key \in Int
    BY <1>1, KeysAreIntegers DEF Inv, Key
  <2>1. /\ parent(i) \in Nat /\ parent(i) < i
        /\ p > 0 => parent(p) \in Nat /\ parent(p) < p
    BY <1>2, ParentFacts
  <2>2. /\ i # t => array[parent(i)].key <= array[i].key
        /\ parent(i) = t => array[p].key <= array[i].key
        /\ p > 0 => array[parent(p)].key <= array[p].key
    BY <1>1, <1>2 DEF Inv, SiftOrder, Key
  <2>3. array[t].key < array[p].key
    BY <1>1 DEF Key
  <2>4. i # p => array'[parent(i)].key <= array'[i].key
    <3>. HIDE DEF t, p
    <3>1. CASE i = t
      BY <3>1, <1>3, <2>0, <2>3, <1>2, <1>1 DEF p, t
    <3>2. CASE i # t /\ parent(i) = t
      BY <3>2, <1>1, <1>2, <1>3, <2>0, <2>1, <2>2
    <3>3. CASE i # t /\ parent(i) = p
      BY <3>3, <1>1, <1>2, <1>3, <2>0, <2>1, <2>2, <2>3
    <3>4. CASE i # t /\ parent(i) # t /\ parent(i) # p
      BY <3>4, <1>1, <1>2, <1>3, <2>0, <2>1, <2>2
    <3>. QED BY <3>1, <3>2, <3>3, <3>4
  <2>5. parent(i) = p /\ p > 0 => array'[parent(p)].key <= array'[i].key
    <3>. SUFFICES ASSUME parent(i) = p, p > 0
                  PROVE  array'[parent(p)].key <= array'[i].key
      OBVIOUS
    <3>. DEFINE g == parent(p)
    <3>1. array'[g] = array[g] /\ g \in 0 .. used
      BY <1>1, <1>2, <1>3, <2>1
    <3>. HIDE DEF t, p, g
    <3>2. CASE i = t
      BY <3>1, <3>2, <1>1, <1>2, <1>3, <2>0, <2>2 DEF g
    <3>3. CASE i # t
      BY <3>1, <3>3, <1>1, <1>2, <1>3, <2>0, <2>1, <2>2 DEF g
    <3>. QED BY <3>2, <3>3 DEF g
  <2>. QED BY <2>4, <2>5
<1>6. StaleSlotIsTarget'
  BY <1>1 DEF StaleSlotIsTarget
<1>7. Distinct'
  BY <1>1, <1>2, SwapDistinct
<1>. QED BY <1>4, <1>5, <1>6, <1>7 DEF Inv

\* move_up stops when the heap is in order again.
LEMMA MoveUpDoneInv ==
  ASSUME Inv, move_up_done
  PROVE  Inv'
<1>1. /\ pc = "up" /\ pc' = "idle" /\ used' = used + 1 /\ Last = used /\ Last' = used
      /\ used \in Nat /\ target_pos \in Nat /\ target_pos <= used
      /\ UNCHANGED <<array, allocated, target_pos, result>>
  BY DEF move_up_done, Inv, TypeOK, Last
<1>2. target_pos = 0 \/ Key(parent(target_pos)) <= Key(target_pos)
  <2>1. ~OutOfPlaceUp
    BY DEF move_up_done
  <2>2. target_pos > 0 => parent(target_pos) \in 0 .. used
    BY <1>1, ParentFacts
  <2>. QED BY <1>1, <2>1, <2>2, KeysAreIntegers DEF OutOfPlaceUp, Inv
<1>3. TypeOK'
  BY <1>1 DEF Inv, TypeOK
<1>4. SiftOrder'
  BY <1>1, <1>2 DEF Inv, SiftOrder, Key
<1>5. StaleSlotIsTarget' /\ Distinct'
  BY <1>1 DEF Inv, StaleSlotIsTarget, Distinct
<1>. QED BY <1>3, <1>4, <1>5 DEF Inv

\* trypop leaves only the root out of order, and its double in the slot it
\* vacated.
LEMMA TrypopInv ==
  ASSUME Inv, trypop
  PROVE  Inv'
<1>1. /\ pc = "idle" /\ used \in Nat /\ used > 0 /\ used' = used - 1
      /\ allocated' = allocated /\ allocated \in Nat /\ used - 1 < allocated
      /\ target_pos' = 0 /\ Last = used - 1 /\ Last' = used - 2
      /\ pc' = (IF used > 1 THEN "down" ELSE "idle")
      /\ result' = array[0]
      /\ array \in [0 .. allocated - 1 -> Kvps \cup {NoKvp}]
      /\ \A i \in 0 .. used - 1 : array[i] \in Kvps
  BY DEF trypop, Inv, TypeOK, Last
<1>2. /\ array' \in [0 .. allocated - 1 -> Kvps \cup {NoKvp}]
      /\ \A i \in 1 .. used - 1 : array'[i] = array[i]
      /\ array'[0] = array[used - 1]
  BY <1>1 DEF trypop
<1>3. TypeOK'
  BY <1>1, <1>2 DEF TypeOK
<1>4. SiftOrder'
  <2>. SUFFICES ASSUME NEW i \in 1 .. used - 2
                PROVE  parent(i) # 0 => array'[parent(i)].key <= array'[i].key
    BY <1>1 DEF SiftOrder, Key
  <2>1. parent(i) \in Nat /\ parent(i) < i
    BY <1>1, ParentFacts
  <2>2. array[parent(i)].key <= array[i].key
    BY <1>1 DEF Inv, SiftOrder, Key
  <2>. QED BY <1>1, <1>2, <2>1, <2>2
<1>5. StaleSlotIsTarget'
  <2>. SUFFICES ASSUME used > 1
                PROVE  /\ array'[used - 1] = array'[0]
                       /\ 0 < (used - 1) \div 2 => 2 <= used - 1
    BY <1>1 DEF StaleSlotIsTarget, HasChild, right_child
  <2>. QED BY <1>1, <1>2
<1>6. Distinct'
  BY <1>1, <1>2 DEF Inv, Distinct
<1>. QED BY <1>3, <1>4, <1>5, <1>6 DEF Inv

\* An iteration of move_down moves the disorder one level down.
LEMMA MoveDownInv ==
  ASSUME Inv, move_down
  PROVE  Inv'
<1>. DEFINE t == target_pos
            c == child_pos(target_pos)
<1>1. /\ pc = "down" /\ pc' = "down" /\ used' = used /\ allocated' = allocated
      /\ t \in Nat /\ used \in Nat /\ Last = used - 1 /\ Last' = used - 1 /\ t < used
      /\ used < allocated /\ allocated \in Nat /\ array[used] = array[t]
      /\ HasChild(t) /\ Key(t) > Key(c) /\ array' = Swap(array, t, c) /\ target_pos' = c
      /\ result' = result
  BY DEF move_down, OutOfPlaceDown, Inv, TypeOK, StaleSlotIsTarget, Last
<1>2. /\ c \in Nat /\ c > 0 /\ c \in 0 .. used - 1 /\ parent(c) = t
      /\ \A i \in 1 .. used - 1 : parent(i) = t => Key(c) <= Key(i)
  BY <1>1, ChosenChild
<1>3. /\ array' \in [0 .. allocated - 1 -> Kvps \cup {NoKvp}]
      /\ \A n \in 0 .. used - 1 : array'[n] \in Kvps
      /\ array'[t] = array[c] /\ array'[c] = array[t]
      /\ \A n \in 0 .. used : n # t /\ n # c => array'[n] = array[n]
  BY <1>1, <1>2, SwapType DEF Inv
<1>4. TypeOK'
  BY <1>1, <1>2, <1>3 DEF Inv, TypeOK
<1>5. SiftOrder'
  <2>. SUFFICES ASSUME NEW i \in 1 .. used - 1
                PROVE  /\ parent(i) # c => array'[parent(i)].key <= array'[i].key
                       /\ parent(i) = c => array'[t].key <= array'[i].key
    BY <1>1, <1>2 DEF SiftOrder, Key
  <2>0. \A n \in 0 .. used - 1 : array[n].key \in Int
    BY <1>1, KeysAreIntegers DEF Inv, Key
  <2>1. /\ parent(i) \in Nat /\ parent(i) < i
        /\ t > 0 => parent(t) \in Nat /\ parent(t) < t
        /\ t < c
    BY <1>1, <1>2, ParentFacts
  <2>2. /\ parent(i) # t => array[parent(i)].key <= array[i].key
        /\ parent(i) = t => array[c].key <= array[i].key
        /\ t > 0 => array[parent(t)].key <= array[c].key
    BY <1>1, <1>2 DEF Inv, SiftOrder, Key
  <2>3. array[t].key > array[c].key
    BY <1>1 DEF Key
  <2>4. parent(i) # c => array'[parent(i)].key <= array'[i].key
    <3>1. CASE i = c
      BY <3>1, <1>1, <1>2, <1>3, <2>0, <2>3
    <3>2. CASE i # c /\ parent(i) = t
      BY <3>2, <1>1, <1>2, <1>3, <2>0, <2>1, <2>2
    <3>3. CASE i = t
      <4>. DEFINE g == parent(t)
      <4>1. g \in 0 .. used /\ array'[g] = array[g] /\ array[g].key <= array[c].key
        BY <3>3, <1>1, <1>2, <1>3, <2>1, <2>2
      <4>. QED BY <3>3, <4>1, <1>3
    <3>4. CASE i # c /\ i # t /\ parent(i) # t /\ parent(i) # c
      BY <3>4, <1>1, <1>2, <1>3, <2>0, <2>1, <2>2
    <3>. QED BY <3>1, <3>2, <3>3, <3>4
  <2>5. parent(i) = c => array'[t].key <= array'[i].key
    BY <1>1, <1>2, <1>3, <2>0, <2>1, <2>2
  <2>. QED BY <2>4, <2>5
<1>6. StaleSlotIsTarget'
  <2>1. array'[used] = array'[c]
    BY <1>1, <1>2, <1>3
  <2>2. c < used \div 2 => 2 * c + 2 <= used
    BY <1>1, <1>2, ChildFacts
  <2>. HIDE DEF c
  <2>. QED BY <1>1, <1>2, <2>1, <2>2 DEF StaleSlotIsTarget, HasChild, right_child
<1>7. Distinct'
  BY <1>1, <1>2, SwapDistinct
<1>. QED BY <1>4, <1>5, <1>6, <1>7 DEF Inv

\* move_down stops when the heap is in order again.
LEMMA MoveDownDoneInv ==
  ASSUME Inv, move_down_done
  PROVE  Inv'
<1>1. /\ pc = "down" /\ pc' = "idle" /\ Last = used - 1 /\ Last' = used - 1
      /\ used \in Nat /\ target_pos \in Nat /\ target_pos < used
      /\ UNCHANGED <<array, allocated, used, target_pos, result>>
  BY DEF move_down_done, Inv, TypeOK, StaleSlotIsTarget, Last
<1>2. \A i \in 1 .. used - 1 : parent(i) = target_pos => Key(target_pos) <= Key(i)
  <2>1. CASE HasChild(target_pos)
    <3>. DEFINE c == child_pos(target_pos)
    <3>1. /\ \A i \in 1 .. used - 1 : parent(i) = target_pos => Key(c) <= Key(i)
          /\ Key(c) \in Int
      BY <1>1, <2>1, ChosenChild
    <3>2. \A i \in 0 .. used - 1 : Key(i) \in Int
      BY <1>1, KeysAreIntegers DEF Inv
    <3>3. ~(Key(target_pos) > Key(c))
      BY <2>1 DEF move_down_done, OutOfPlaceDown
    <3>. HIDE DEF c
    <3>. QED BY <1>1, <3>1, <3>2, <3>3
  <2>2. CASE ~HasChild(target_pos)
    BY <1>1, <2>2, ParentFacts DEF HasChild
  <2>. QED BY <2>1, <2>2
<1>3. TypeOK'
  BY <1>1 DEF Inv, TypeOK
<1>4. SiftOrder'
  BY <1>1, <1>2 DEF Inv, SiftOrder, Key
<1>5. StaleSlotIsTarget' /\ Distinct'
  BY <1>1 DEF Inv, StaleSlotIsTarget, Distinct
<1>. QED BY <1>3, <1>4, <1>5 DEF Inv

-----------------------------------------------------------------------------
(***************************************************************************)
(* Every step of binary_heap_add, binary_heap_trypop and their loops keeps *)
(* the invariant.                                                          *)
(***************************************************************************)
LEMMA InitInv == Init => Inv
BY DEF Init, Inv, TypeOK, SiftOrder, StaleSlotIsTarget, Distinct, Last

\* Every step keeps the invariant,
LEMMA NextInv == Inv /\ [Next]_vars => Inv'
<1>. SUFFICES ASSUME Inv, [Next]_vars
              PROVE  Inv'
  OBVIOUS
<1>1. ASSUME NEW k \in Keys, NEW v \in Values, binary_heap_add(k, v)
      PROVE  Inv'
  BY <1>1, AddInv
<1>2. CASE move_up
  BY <1>2, MoveUpInv
<1>3. CASE move_up_done
  BY <1>3, MoveUpDoneInv
<1>4. CASE trypop
  BY <1>4, TrypopInv
<1>5. CASE trypop_empty
  BY <1>5 DEF trypop_empty, Inv, TypeOK, SiftOrder, StaleSlotIsTarget, Distinct,
              Last, Key, HasChild
<1>6. CASE move_down
  BY <1>6, MoveDownInv
<1>7. CASE move_down_done
  BY <1>7, MoveDownDoneInv
<1>8. CASE UNCHANGED vars
  BY <1>8 DEF vars, Inv, TypeOK, SiftOrder, StaleSlotIsTarget, Distinct,
              Last, Key, HasChild
<1>. QED BY <1>1, <1>2, <1>3, <1>4, <1>5, <1>6, <1>7, <1>8 DEF Next

\* so it always holds.
LEMMA Invariance == Spec => []Inv
<1>1. Inv /\ [Next]_vars => Inv'
  BY NextInv
<1>. QED BY <1>1, InitInv, PTL DEF Spec

(***************************************************************************)
(* The natural numbers are well founded under <, without a parameter that  *)
(* ranges over operators.                                                  *)
(***************************************************************************)
LEMMA LessThanRelation ==
  \E R : /\ IsWellFoundedOn(R, Nat)
         /\ \A x, y \in Nat : y < x => <<y, x>> \in R
<1>1. IsWellFoundedOn(OpToRel(<, Nat), Nat)
  BY NatLessThanWellFounded, Zenon
<1>2. \A x, y \in Nat : y < x => <<y, x>> \in OpToRel(<, Nat)
  BY DEF OpToRel
<1>. QED BY <1>1, <1>2, Zenon

\* A set of naturals that has an element has a least one.
LEMMA LeastNatural ==
  ASSUME NEW T, T \subseteq Nat, T # {}
  PROVE  \E x \in T : \A y \in T : x <= y
<1>1. PICK R : /\ IsWellFoundedOn(R, Nat)
               /\ \A x, y \in Nat : y < x => <<y, x>> \in R
  BY LessThanRelation
<1>2. PICK x \in T : \A y \in T : ~ (<<y, x>> \in R)
  BY <1>1, WFMin
<1>3. \A y \in T : ~(y < x)
  BY <1>1, <1>2, Zenon
<1>. QED BY <1>3

(***************************************************************************)
(* If every pair is above its children, the root has the least key: the    *)
(* first position with a smaller key would have a parent with one too.     *)
(***************************************************************************)
LEMMA OrderedRoot == Inv => RootIsLeast
<1>. SUFFICES ASSUME Inv, pc = "idle"
              PROVE  \A i \in 0 .. used - 1 : Key(0) <= Key(i)
  BY DEF RootIsLeast
<1>1. used \in Nat /\ Last = used - 1
  BY DEF Inv, TypeOK, Last
<1>2. \A i \in 0 .. used - 1 : Key(i) \in Int
  BY <1>1, KeysAreIntegers DEF Inv
<1>3. \A i \in 1 .. used - 1 : Key(parent(i)) <= Key(i)
  BY <1>1 DEF Inv, SiftOrder
<1>. DEFINE T == {i \in 0 .. used - 1 : Key(i) < Key(0)}
<1>4. ASSUME T # {} PROVE FALSE
  <2>1. T \subseteq Nat
    BY <1>1
  <2>2. PICK m \in T : \A y \in T : m <= y
    <3>. HIDE DEF T
    <3>. QED BY <1>4, <2>1, LeastNatural
  <2>3. m \in 0 .. used - 1 /\ Key(m) < Key(0) /\ m # 0
    BY <1>1, <1>2
  <2>4. parent(m) \in Nat /\ parent(m) < m
    BY <2>3, ParentFacts
  <2>5. parent(m) \in T
    BY <1>1, <1>2, <1>3, <2>3, <2>4
  <2>. QED BY <2>2, <2>3, <2>4, <2>5
<1>. QED BY <1>1, <1>2, <1>4

(***************************************************************************)
(* Type correctness of the heap: allocated, used and the array of          *)
(* struct _binary_heap_t stay consistent through every add and trypop.     *)
(***************************************************************************)
THEOREM TypeCorrect == Spec => []TypeOK
<1>1. Inv => TypeOK
  BY DEF Inv
<1>. QED BY <1>1, Invariance, PTL

(***************************************************************************)
(* The slot one past the heap that move_down reads is always defined and   *)
(* holds the pair being moved (lines 85-112).                              *)
(***************************************************************************)
THEOREM StaleSlotSafe == Spec => []StaleSlotIsTarget
<1>1. Inv => StaleSlotIsTarget
  BY DEF Inv
<1>. QED BY <1>1, Invariance, PTL

(***************************************************************************)
(* array[0], which binary_heap_trypop hands out, has the least key.        *)
(***************************************************************************)
THEOREM RootLeast == Spec => []RootIsLeast
<1>1. Inv => RootIsLeast
  BY OrderedRoot
<1>. QED BY <1>1, Invariance, PTL

-----------------------------------------------------------------------------
(***************************************************************************)
(* A swap inside the heap changes no pair of the queue.                    *)
(***************************************************************************)
LEMMA SwapSameItems ==
  ASSUME TypeOK, NEW i \in 0 .. Last, NEW j \in 0 .. Last, Last' = Last,
         array' = Swap(array, i, j)
  PROVE  {array'[n] : n \in 0 .. Last'} = {array[n] : n \in 0 .. Last}
<1>. DEFINE A == {array[n] : n \in 0 .. Last}
            B == {array'[n] : n \in 0 .. Last'}
<1>1. Last < allocated /\ allocated \in Nat /\ Last \in Int
  BY DEF TypeOK, Last
<1>2. /\ array'[i] = array[j] /\ array'[j] = array[i]
      /\ \A n \in 0 .. Last : n # i /\ n # j => array'[n] = array[n]
  BY <1>1, SwapType
<1>3. ASSUME NEW n \in 0 .. Last PROVE array[n] \in B
  BY <1>2
<1>4. ASSUME NEW n \in 0 .. Last PROVE array'[n] \in A
  BY <1>2
<1>. QED BY <1>3, <1>4

(***************************************************************************)
(* trypop takes a pair of least key out of the queue and leaves the rest.  *)
(***************************************************************************)
LEMMA TrypopTakesLeast ==
  ASSUME Inv, trypop
  PROVE  PQ!TakeLeast
<1>. DEFINE A == {array[n] : n \in 0 .. Last}
            B == {array'[n] : n \in 0 .. Last'}
<1>1. /\ pc = "idle" /\ used \in Nat /\ used > 0 /\ used - 1 < allocated
      /\ allocated \in Nat /\ Last = used - 1 /\ Last' = used - 2
      /\ result' = array[0]
      /\ array \in [0 .. allocated - 1 -> Kvps \cup {NoKvp}]
  BY DEF trypop, Inv, TypeOK, Last
<1>2. /\ \A i \in 1 .. used - 2 : array'[i] = array[i]
      /\ used > 1 => array'[0] = array[used - 1]
  BY <1>1 DEF trypop
<1>3. array[0] \in A
  BY <1>1
<1>4. \A n \in A : array[0].key <= n.key
  BY <1>1, OrderedRoot DEF RootIsLeast, Key
<1>5. \A i \in 1 .. used - 1 : array[i] # array[0]
  BY <1>1 DEF Inv, Distinct
<1>6. B = A \ {array[0]}
  <2>1. ASSUME NEW n \in 0 .. Last' PROVE array'[n] \in A \ {array[0]}
    <3>1. CASE n = 0
      BY <2>1, <3>1, <1>1, <1>2, <1>5
    <3>2. CASE n # 0
      BY <2>1, <3>2, <1>1, <1>2, <1>5
    <3>. QED BY <3>1, <3>2
  <2>2. ASSUME NEW n \in 0 .. Last, array[n] # array[0] PROVE array[n] \in B
    <3>1. CASE n = used - 1
      <4>1. n > 0 /\ array'[0] = array[n] /\ 0 \in 0 .. Last'
        BY <2>2, <3>1, <1>1, <1>2
      <4>. QED BY <4>1
    <3>2. CASE n # used - 1
      <4>1. array'[n] = array[n] /\ n \in 0 .. Last'
        BY <2>2, <3>2, <1>1, <1>2
      <4>. QED BY <4>1
    <3>. QED BY <3>1, <3>2
  <2>. QED BY <2>1, <2>2
<1>. QED BY <1>1, <1>3, <1>4, <1>6 DEF PQ!TakeLeast

(***************************************************************************)
(* Every step of binary_heap.c is a step of the priority queue or leaves   *)
(* the queue alone.                                                        *)
(***************************************************************************)
LEMMA StepRefines ==
  ASSUME Inv, [Next]_vars
  PROVE  [PQ!Next]_<<{array[i] : i \in 0 .. Last}, result>>
<1>. DEFINE A == {array[n] : n \in 0 .. Last}
<1>1. ASSUME NEW k \in Keys, NEW v \in Values, binary_heap_add(k, v)
      PROVE  PQ!Insert(k, v)
  <2>1. /\ pc = "idle" /\ used \in Nat /\ Last = used - 1 /\ Last' = used
        /\ result' = result
    BY <1>1 DEF binary_heap_add, Inv, TypeOK, Last
  <2>. DEFINE m == new_space(used + 1)
  <2>2. m \in Nat /\ m >= used + 1 /\ m >= allocated /\ used - 1 < allocated
        /\ allocated \in Nat
    BY <2>1, SpaceFacts DEF Inv, TypeOK
  <2>3. array' = [[i \in 0 .. m - 1 |-> IF i < allocated THEN array[i] ELSE NoKvp]
                    EXCEPT ![used] = [key |-> k, value |-> v]]
    BY <1>1 DEF binary_heap_add, ensure_space
  <2>. HIDE DEF m
  <2>4. /\ \A i \in 0 .. used - 1 : array'[i] = array[i]
        /\ array'[used] = [key |-> k, value |-> v]
    BY <2>1, <2>2, <2>3
  <2>5. {array'[n] : n \in 0 .. Last'} = A \cup {[key |-> k, value |-> v]}
    BY <2>1, <2>4
  <2>6. \A n \in A : n.value # v
    BY <1>1, <2>1 DEF binary_heap_add, Stored
  <2>. QED BY <2>1, <2>5, <2>6 DEF PQ!Insert
<1>2. CASE move_up
  <2>1. /\ target_pos \in 0 .. Last /\ parent(target_pos) \in 0 .. Last
        /\ Last' = Last /\ result' = result
        /\ array' = Swap(array, target_pos, parent(target_pos))
    BY <1>2, ParentFacts DEF move_up, OutOfPlaceUp, Inv, TypeOK, Last
  <2>. QED BY <2>1, SwapSameItems DEF Inv
<1>3. CASE move_up_done
  BY <1>3 DEF move_up_done, Inv, TypeOK, Last
<1>4. CASE trypop
  BY <1>4, TrypopTakesLeast DEF PQ!Next
<1>5. CASE trypop_empty
  <2>1. A = {} /\ {array'[n] : n \in 0 .. Last'} = {} /\ result' = NoKvp
    BY <1>5 DEF trypop_empty, Last
  <2>. QED BY <2>1 DEF PQ!Next, PQ!TakeNone
<1>6. CASE move_down
  <2>1. /\ target_pos \in 0 .. Last /\ child_pos(target_pos) \in 0 .. Last
        /\ Last' = Last /\ result' = result
        /\ array' = Swap(array, target_pos, child_pos(target_pos))
    BY <1>6, ChosenChild DEF move_down, OutOfPlaceDown, Inv, TypeOK,
                             StaleSlotIsTarget, Last
  <2>. QED BY <2>1, SwapSameItems DEF Inv
<1>7. CASE move_down_done
  BY <1>7 DEF move_down_done, Last
<1>8. CASE UNCHANGED vars
  BY <1>8 DEF vars, Last
<1>. QED BY <1>1, <1>2, <1>3, <1>4, <1>5, <1>6, <1>7, <1>8 DEF Next, PQ!Next

(***************************************************************************)
(* binary_heap.c implements the priority queue the downloader relies on,   *)
(* for every number of chunks.                                             *)
(***************************************************************************)
THEOREM HeapRefinesQueue == Spec => ImplementsPriorityQueue
<1>1. Init => PQ!Init
  BY DEF Init, PQ!Init, Last
<1>2. Inv /\ [Next]_vars => [PQ!Next]_<<{array[i] : i \in 0 .. Last}, result>>
  BY StepRefines
<1>. QED BY <1>1, <1>2, Invariance, PTL DEF Spec, ImplementsPriorityQueue, PQ!Spec
=============================================================================
