------------------------- MODULE DirentryRefsProofs --------------------------
(***************************************************************************)
(* The references to directory entries: an entry's count is what its       *)
(* holders and the steps still to come account for, whatever number of     *)
(* threads FUSE has and however many requests come, and without overdrafts *)
(* nothing that is freed is touched.                                       *)
(***************************************************************************)
EXTENDS DirentryRefs, FiniteSetTheorems, SequenceTheorems, TLAPS

Places(l, x) == {i \in DOMAIN l : l[i] = x}
Times(l, x) == Cardinality(Places(l, x))

\* Where a step x is in what the threads have to do, and how often.
Within(W, x) == UNION {{t} \X Places(W[t], x) : t \in Threads}
Total(W, x) == Cardinality(Within(W, x))

The(op, e) == [op |-> op, of |-> e]
Closing == {"delete", "entry", "open", "error", "thread"}
Ops == {"copy"} \cup Closing

\* References that are taken and not accounted for, from the number of steps of
\* each kind; by a list of steps, and by all threads together.
Balance(n) == n["copy"] - n["delete"] - n["entry"] - n["open"] - n["error"] - n["thread"]
Net(l, e) == Balance([op \in Ops |-> Times(l, The(op, e))])
NetTotal(W, e) == Balance([op \in Ops |-> Total(W, The(op, e))])

(***************************************************************************)
(* The inductive invariant.                                                *)
(***************************************************************************)

\* Each copy is accounted for by a later step, each by another.
Matches(l, f) ==
  /\ \A i \in DOMAIN l : l[i].op = "copy" =>
       /\ f[i] \in DOMAIN l /\ f[i] > i
       /\ l[f[i]].op # "copy" /\ l[f[i]].of = l[i].of
  /\ \A i, j \in DOMAIN l : l[i].op = "copy" /\ l[j].op = "copy" /\ f[i] = f[j] => i = j
Closed(l) == \E f \in [DOMAIN l -> Nat] : Matches(l, f)

AllClosed == \A t \in Threads : Closed(todo[t])

\* No handle is released twice.
HandlesCounted == \A e \in Entries : Handles(e) >= 0

\* What an entry's count comes to when nothing is under way.
Due(e) ==
  2 + lookups[e] + Handles(e) + refused[e] + (IF e = "F" THEN downloads ELSE 0) - Overdrawn(e)

Accounted == ~undefined => \A e \in Entries : refs[e] + NetTotal(todo, e) = Due(e)

Inv == TypeOK /\ AllClosed /\ HandlesCounted /\ Accounted /\ OnlyOverdraftsFree

-----------------------------------------------------------------------------
(***************************************************************************)
(* Counting in lists of steps.                                             *)
(***************************************************************************)

\* A list has finitely many places.
LEMMA TimesType ==
  ASSUME NEW l \in Seq(Steps), NEW x
  PROVE  IsFiniteSet(Places(l, x)) /\ Times(l, x) \in Nat
<1>1. Len(l) \in Nat /\ DOMAIN l = 1 .. Len(l)
  BY LenProperties
<1>2. IsFiniteSet(1 .. Len(l)) /\ Places(l, x) \in SUBSET (1 .. Len(l))
  BY <1>1, FS_Interval DEF Places
<1>3. IsFiniteSet(Places(l, x))
  BY <1>2, FS_Subset
<1>. QED BY <1>3, FS_CardinalityType DEF Times

\* Nothing is in the empty list.
LEMMA TimesEmpty == \A x : Times(<<>>, x) = 0
<1>1. DOMAIN <<>> = {}
  OBVIOUS
<1>2. \A x : Places(<<>>, x) = {}
  BY <1>1 DEF Places
<1>. QED BY <1>2, FS_EmptySet DEF Times

\* A list of one step.
LEMMA TimesOne ==
  ASSUME NEW s, NEW x
  PROVE  Times(<<s>>, x) = IF s = x THEN 1 ELSE 0
<1>1. DOMAIN <<s>> = {1} /\ <<s>>[1] = s
  OBVIOUS
<1>2. Places(<<s>>, x) = IF s = x THEN {1} ELSE {}
  BY <1>1 DEF Places
<1>. QED BY <1>2, FS_EmptySet, FS_Singleton DEF Times

\* Lists one after the other have what both have.
LEMMA TimesConcat ==
  ASSUME NEW k \in Seq(Steps), NEW l \in Seq(Steps), NEW x
  PROVE  Times(k \o l, x) = Times(k, x) + Times(l, x)
<1>. DEFINE m == k \o l
            K == Len(k)
            L == Len(l)
            moved == {i + K : i \in Places(l, x)}
            f == [i \in Places(l, x) |-> i + K]
<1>1. K \in Nat /\ L \in Nat /\ DOMAIN k = 1 .. K /\ DOMAIN l = 1 .. L
  BY LenProperties
<1>2. /\ m \in Seq(Steps) /\ Len(m) = K + L
      /\ \A i \in 1 .. K + L : m[i] = IF i <= K THEN k[i] ELSE l[i - K]
  BY ConcatProperties
<1>3. DOMAIN m = 1 .. K + L
  BY <1>2, LenProperties
<1>. HIDE DEF m, K, L
<1>4. Places(m, x) = Places(k, x) \cup moved
  <2>1. ASSUME NEW i \in Places(m, x) PROVE i \in Places(k, x) \cup moved
    <3>1. i \in 1 .. K + L /\ m[i] = x
      BY <1>3 DEF Places
    <3>2. CASE i <= K
      BY <1>1, <1>2, <3>1, <3>2 DEF Places
    <3>3. CASE ~(i <= K)
      <4>1. i - K \in 1 .. L /\ l[i - K] = x /\ (i - K) + K = i
        BY <1>1, <1>2, <3>1, <3>3
      <4>2. i - K \in Places(l, x)
        BY <1>1, <4>1 DEF Places
      <4>. QED BY <4>1, <4>2
    <3>. QED BY <3>2, <3>3
  <2>2. ASSUME NEW i \in Places(k, x) PROVE i \in Places(m, x)
    <3>1. i \in 1 .. K /\ k[i] = x
      BY <1>1 DEF Places
    <3>. QED BY <1>1, <1>2, <1>3, <3>1 DEF Places
  <2>3. ASSUME NEW i \in Places(l, x) PROVE i + K \in Places(m, x)
    <3>1. i \in 1 .. L /\ l[i] = x
      BY <1>1 DEF Places
    <3>2. i + K \in 1 .. K + L /\ ~(i + K <= K) /\ (i + K) - K = i
      BY <1>1, <3>1
    <3>. QED BY <1>2, <1>3, <3>1, <3>2 DEF Places
  <2>. QED BY <2>1, <2>2, <2>3
<1>5. Places(k, x) \cap moved = {}
  <2>1. \A i \in Places(k, x) : i \in 1 .. K
    BY <1>1 DEF Places
  <2>2. \A i \in Places(l, x) : i \in 1 .. L
    BY <1>1 DEF Places
  <2>3. \A i \in moved : i > K
    BY <1>1, <2>2
  <2>. HIDE DEF moved
  <2>. QED BY <1>1, <2>1, <2>3
<1>6. IsFiniteSet(moved) /\ Cardinality(moved) = Times(l, x)
  <2>1. \A i \in Places(l, x) : i \in 1 .. L
    BY <1>1 DEF Places
  <2>2. f \in Bijection(Places(l, x), moved)
    BY <1>1, <2>1 DEF Bijection, Injection, Surjection, IsInjective
  <2>. HIDE DEF f, moved
  <2>. QED BY <2>2, TimesType, FS_Bijection DEF ExistsBijection, Times
<1>. HIDE DEF moved
<1>7. Cardinality(Places(k, x) \cup moved) = Times(k, x) + Times(l, x) - 0
  <2>1. IsFiniteSet(Places(k, x)) /\ Cardinality({}) = 0
    BY TimesType, FS_EmptySet
  <2>. QED BY <1>5, <1>6, <2>1, FS_Union DEF Times
<1>8. Times(k, x) \in Nat /\ Times(l, x) \in Nat
  BY TimesType
<1>. QED BY <1>4, <1>7, <1>8 DEF Times, m

\* n deletes in a row.
LEMMA DeletesFacts ==
  ASSUME NEW e \in Entries, NEW n \in Nat, NEW x
  PROVE  /\ Deletes(e, n) \in Seq(Steps)
         /\ Len(Deletes(e, n)) = n /\ DOMAIN Deletes(e, n) = 1 .. n
         /\ \A i \in 1 .. n : Deletes(e, n)[i] = The("delete", e)
         /\ Times(Deletes(e, n), x) = IF x = The("delete", e) THEN n ELSE 0
<1>. DEFINE l == Deletes(e, n)
<1>1. The("delete", e) \in Steps /\ Delete(e)[1] = The("delete", e)
  BY DEF The, Steps, Delete
<1>2. l = [i \in 1 .. n |-> The("delete", e)]
  BY <1>1 DEF Deletes
<1>3. l \in [1 .. n -> Steps] /\ DOMAIN l = 1 .. n
  BY <1>1, <1>2
<1>. HIDE DEF l
<1>4. l \in Seq(Steps)
  BY <1>3, SeqDef
<1>5. Len(l) = n
  BY <1>3, <1>4, LenProperties
<1>6. Places(l, x) = IF x = The("delete", e) THEN 1 .. n ELSE {}
  BY <1>2 DEF Places
<1>7. Cardinality(1 .. n) = n /\ Cardinality({}) = 0
  BY FS_Interval, FS_EmptySet
<1>8. Times(l, x) = IF x = The("delete", e) THEN n ELSE 0
  BY <1>6, <1>7 DEF Times
<1>. QED BY <1>2, <1>3, <1>4, <1>5, <1>8 DEF l

\* Balances add up.
LEMMA BalanceSum ==
  ASSUME NEW f \in [Ops -> Int], NEW g \in [Ops -> Int], NEW h \in [Ops -> Int]
  PROVE  /\ Balance(f) \in Int
         /\ (\A op \in Ops : f[op] = g[op] + h[op]) => Balance(f) = Balance(g) + Balance(h)
BY DEF Balance, Ops, Closing

\* What a list of steps nets, from its parts.
LEMMA NetFacts ==
  ASSUME NEW e \in Entries
  PROVE  /\ \A l \in Seq(Steps) : Net(l, e) \in Int
         /\ Net(<<>>, e) = 0
         /\ \A s \in Steps : Net(<<s>>, e) = IF s.of # e THEN 0 ELSE IF s.op = "copy" THEN 1 ELSE -1
         /\ \A k, l \in Seq(Steps) : Net(k \o l, e) = Net(k, e) + Net(l, e)
         /\ \A d \in Entries : \A n \in Nat : Net(Deletes(d, n), e) = IF d = e THEN -n ELSE 0
<1>. DEFINE counts(l) == [op \in Ops |-> Times(l, The(op, e))]
<1>0. ASSUME NEW l \in Seq(Steps) PROVE counts(l) \in [Ops -> Int]
  <2>1. \A x : Times(l, x) \in Int
    BY TimesType
  <2>. QED BY <2>1
<1>1. ASSUME NEW l \in Seq(Steps) PROVE Net(l, e) \in Int
  <2>. HIDE DEF counts
  <2>1. Balance(counts(l)) \in Int
    BY <1>0, BalanceSum
  <2>. QED BY <2>1 DEF Net, counts
<1>2. Net(<<>>, e) = 0
  BY TimesEmpty DEF Net, Balance, Ops, Closing
<1>3. ASSUME NEW s \in Steps
      PROVE  Net(<<s>>, e) = IF s.of # e THEN 0 ELSE IF s.op = "copy" THEN 1 ELSE -1
  <2>1. \A x : Times(<<s>>, x) = IF s = x THEN 1 ELSE 0
    BY TimesOne
  <2>2. \A op : s = The(op, e) <=> s.op = op /\ s.of = e
    BY DEF Steps, The
  <2>3. s.op \in Ops
    BY DEF Steps, Ops, Closing
  <2>4. \A op : Times(<<s>>, The(op, e)) = IF s.op = op /\ s.of = e THEN 1 ELSE 0
    BY <2>1, <2>2
  <2>5. counts(<<s>>) = [op \in Ops |-> IF s.op = op /\ s.of = e THEN 1 ELSE 0]
    BY <2>4
  <2>6. Balance(counts(<<s>>)) = IF s.of # e THEN 0 ELSE IF s.op = "copy" THEN 1 ELSE -1
    <3>. HIDE DEF counts
    <3>. QED BY <2>3, <2>5 DEF Balance, Ops, Closing
  <2>. QED BY <2>6 DEF Net
<1>4. ASSUME NEW k \in Seq(Steps), NEW l \in Seq(Steps)
      PROVE  Net(k \o l, e) = Net(k, e) + Net(l, e)
  <2>1. k \o l \in Seq(Steps)
    BY ConcatProperties
  <2>2. \A op \in Ops : counts(k \o l)[op] = counts(k)[op] + counts(l)[op]
    BY TimesConcat
  <2>3. counts(k \o l) \in [Ops -> Int] /\ counts(k) \in [Ops -> Int] /\ counts(l) \in [Ops -> Int]
    BY <1>0, <2>1
  <2>4. /\ Net(k \o l, e) = Balance(counts(k \o l))
        /\ Net(k, e) = Balance(counts(k)) /\ Net(l, e) = Balance(counts(l))
    BY DEF Net
  <2>. HIDE DEF counts
  <2>5. Balance(counts(k \o l)) = Balance(counts(k)) + Balance(counts(l))
    BY <2>2, <2>3, BalanceSum, Zenon
  <2>. QED BY <2>4, <2>5, Zenon
<1>5. ASSUME NEW d \in Entries, NEW n \in Nat
      PROVE  Net(Deletes(d, n), e) = IF d = e THEN -n ELSE 0
  <2>1. \A x : Times(Deletes(d, n), x) = IF x = The("delete", d) THEN n ELSE 0
    BY DeletesFacts
  <2>2. \A op : The(op, e) = The("delete", d) <=> op = "delete" /\ e = d
    BY DEF The
  <2>3. \A op : Times(Deletes(d, n), The(op, e)) = IF op = "delete" /\ e = d THEN n ELSE 0
    BY <2>1, <2>2
  <2>4. counts(Deletes(d, n)) = [op \in Ops |-> IF op = "delete" /\ e = d THEN n ELSE 0]
    BY <2>3
  <2>5. Balance(counts(Deletes(d, n))) = IF d = e THEN -n ELSE 0
    <3>. HIDE DEF counts
    <3>. QED BY <2>4 DEF Balance, Ops, Closing
  <2>. QED BY <2>5 DEF Net
<1>. QED BY <1>1, <1>2, <1>3, <1>4, <1>5

(***************************************************************************)
(* Counting over all threads.                                              *)
(***************************************************************************)
Work == [Threads -> Seq(Steps)]

\* Another list for one thread.
LEMMA TotalReplace ==
  ASSUME NEW W \in Work, NEW t \in Threads, NEW l \in Seq(Steps), NEW x
  PROVE  /\ IsFiniteSet(Within(W, x)) /\ Total(W, x) \in Nat
         /\ Total([W EXCEPT ![t] = l], x) = Total(W, x) - Times(W[t], x) + Times(l, x)
<1>. USE DEF Work
<1>. DEFINE rest == UNION {{u} \X Places(W[u], x) : u \in Threads \ {t}}
            K == [W EXCEPT ![t] = l]
<1>1. ASSUME NEW u \in Threads PROVE IsFiniteSet({u} \X Places(W[u], x))
  <2>1. IsFiniteSet(Places(W[u], x)) /\ IsFiniteSet({u})
    BY TimesType, FS_Singleton
  <2>. QED BY <2>1, FS_Product
<1>2. IsFiniteSet(rest)
  <2>. DEFINE others == Threads \ {t}
              parts == {{u} \X Places(W[u], x) : u \in others}
              f == [u \in others |-> {u} \X Places(W[u], x)]
  <2>1. IsFiniteSet(others)
    BY DirentryRefsAssumption, FS_RemoveElement
  <2>2. f \in Surjection(others, parts)
    BY DEF Surjection
  <2>3. \A T \in parts : IsFiniteSet(T)
    BY <1>1
  <2>4. rest = UNION parts
    OBVIOUS
  <2>. HIDE DEF f, parts, others, rest
  <2>5. IsFiniteSet(parts)
    BY <2>1, <2>2, FS_Surjection
  <2>. QED BY <2>3, <2>4, <2>5, FS_UNION
<1>3. /\ Within(W, x) = rest \cup ({t} \X Places(W[t], x))
      /\ Within(K, x) = rest \cup ({t} \X Places(l, x))
  <2>1. K[t] = l /\ \A u \in Threads \ {t} : K[u] = W[u]
    OBVIOUS
  <2>. HIDE DEF K
  <2>. QED BY <2>1 DEF Within
<1>4. ASSUME NEW m \in Seq(Steps)
      PROVE  /\ IsFiniteSet(rest \cup ({t} \X Places(m, x)))
             /\ Cardinality(rest \cup ({t} \X Places(m, x))) = Cardinality(rest) + Times(m, x)
  <2>. DEFINE mine == {t} \X Places(m, x)
  <2>1. IsFiniteSet(Places(m, x)) /\ IsFiniteSet({t}) /\ Cardinality({t}) = 1 /\ Times(m, x) \in Nat
    BY TimesType, FS_Singleton
  <2>2. IsFiniteSet(mine) /\ Cardinality(mine) = 1 * Times(m, x)
    BY <2>1, FS_Product DEF Times
  <2>3. rest \cap mine = {}
    <3>1. \A p \in rest : p[1] # t
      OBVIOUS
    <3>2. \A p \in mine : p[1] = t
      OBVIOUS
    <3>. HIDE DEF rest, mine
    <3>. QED BY <3>1, <3>2
  <2>. HIDE DEF rest, mine
  <2>4. Cardinality(rest) \in Nat /\ Cardinality({}) = 0
    BY <1>2, FS_CardinalityType, FS_EmptySet
  <2>5. /\ IsFiniteSet(rest \cup mine)
        /\ Cardinality(rest \cup mine) = Cardinality(rest) + Cardinality(mine) - Cardinality(rest \cap mine)
    BY <1>2, <2>2, FS_Union
  <2>6. Cardinality(rest \cup mine) = Cardinality(rest) + Times(m, x)
    <3>1. Cardinality(mine) = Times(m, x)
      BY <2>1, <2>2
    <3>2. Cardinality(rest \cap mine) = 0
      BY <2>3, <2>4
    <3>. QED BY <2>1, <2>4, <2>5, <3>1, <3>2
  <2>. QED BY <2>5, <2>6 DEF mine
<1>. HIDE DEF rest, K
<1>5. W[t] \in Seq(Steps) /\ Times(W[t], x) \in Nat /\ Times(l, x) \in Nat
  BY TimesType
<1>6. Cardinality(rest) \in Nat
  BY <1>2, FS_CardinalityType
<1>7. /\ Total(W, x) = Cardinality(rest) + Times(W[t], x)
      /\ Total(K, x) = Cardinality(rest) + Times(l, x)
      /\ IsFiniteSet(Within(W, x))
  BY <1>3, <1>4, <1>5 DEF Total
<1>8. Total(W, x) \in Nat /\ Total(K, x) = Total(W, x) - Times(W[t], x) + Times(l, x)
  BY <1>5, <1>6, <1>7
<1>. QED BY <1>7, <1>8 DEF K

\* What all threads together net changes by what the one thread's list does.
LEMMA NetReplace ==
  ASSUME NEW W \in Work, NEW t \in Threads, NEW l \in Seq(Steps), NEW e \in Entries
  PROVE  /\ NetTotal(W, e) \in Int
         /\ NetTotal([W EXCEPT ![t] = l], e) = NetTotal(W, e) - Net(W[t], e) + Net(l, e)
<1>. DEFINE K == [W EXCEPT ![t] = l]
            totals(V) == [op \in Ops |-> Total(V, The(op, e))]
            counts(m) == [op \in Ops |-> Times(m, The(op, e))]
<1>1. W[t] \in Seq(Steps)
  BY DEF Work
<1>2. \A x : /\ Total(W, x) \in Int /\ Times(W[t], x) \in Int /\ Times(l, x) \in Int
             /\ Total(K, x) = Total(W, x) - Times(W[t], x) + Times(l, x)
  BY <1>1, TotalReplace, TimesType
<1>. HIDE DEF K
<1>3. /\ totals(K) \in [Ops -> Int] /\ totals(W) \in [Ops -> Int]
      /\ counts(W[t]) \in [Ops -> Int] /\ counts(l) \in [Ops -> Int]
  BY <1>2
<1>4. \A op \in Ops : totals(K)[op] = totals(W)[op] - counts(W[t])[op] + counts(l)[op]
  BY <1>2
<1>5. /\ NetTotal(K, e) = Balance(totals(K)) /\ NetTotal(W, e) = Balance(totals(W))
      /\ Net(W[t], e) = Balance(counts(W[t])) /\ Net(l, e) = Balance(counts(l))
  BY DEF NetTotal, Net
<1>. HIDE DEF totals, counts
<1>6. NetTotal(W, e) \in Int
  BY <1>3, <1>5, BalanceSum
<1>7. NetTotal(K, e) = NetTotal(W, e) - Net(W[t], e) + Net(l, e)
  <2>. DEFINE both == [op \in Ops |-> totals(K)[op] + counts(W[t])[op]]
  <2>1. /\ both \in [Ops -> Int]
        /\ \A op \in Ops : both[op] = totals(K)[op] + counts(W[t])[op]
        /\ \A op \in Ops : both[op] = totals(W)[op] + counts(l)[op]
    BY <1>3, <1>4
  <2>. HIDE DEF both
  <2>2. Balance(both) = Balance(totals(K)) + Balance(counts(W[t]))
    BY <1>3, <2>1, BalanceSum, Zenon
  <2>3. Balance(both) = Balance(totals(W)) + Balance(counts(l))
    BY <1>3, <2>1, BalanceSum, Zenon
  <2>4. /\ Balance(totals(K)) \in Int /\ Balance(totals(W)) \in Int
        /\ Balance(counts(W[t])) \in Int /\ Balance(counts(l)) \in Int
    BY <1>3, BalanceSum
  <2>. QED BY <1>5, <2>2, <2>3, <2>4
<1>. QED BY <1>6, <1>7 DEF K

\* When every copy is accounted for, nobody nets anything.
LEMMA ClosedNetsNothing ==
  ASSUME NEW W \in Work, \A t \in Threads : Closed(W[t]), NEW e \in Entries
  PROVE  NetTotal(W, e) <= 0
<1>. USE DEF Work
<1>. DEFINE In(op) == Within(W, The(op, e))
            closers == In("delete") \cup In("entry") \cup In("open") \cup In("error") \cup In("thread")
<1>0. CASE Threads = {}
  <2>1. \A x : Within(W, x) = {}
    BY <1>0 DEF Within
  <2>2. \A op : Total(W, The(op, e)) = 0
    BY <2>1, FS_EmptySet DEF Total
  <2>. QED BY <2>2 DEF NetTotal, Balance, Ops, Closing
<1>1. CASE Threads # {}
  <2>1. \A op : IsFiniteSet(In(op)) /\ Cardinality(In(op)) \in Nat
    <3>1. PICK t \in Threads : TRUE
      BY <1>1
    <3>2. W[t] \in Seq(Steps)
      OBVIOUS
    <3>. QED BY <3>1, <3>2, TotalReplace DEF Total
  <2>2. ASSUME NEW S, NEW T, IsFiniteSet(S), IsFiniteSet(T)
        PROVE  /\ IsFiniteSet(S \cup T) /\ Cardinality(S \cup T) \in Nat
               /\ Cardinality(S \cup T) <= Cardinality(S) + Cardinality(T)
    <3>1. /\ IsFiniteSet(S \cup T)
          /\ Cardinality(S \cup T) = Cardinality(S) + Cardinality(T) - Cardinality(S \cap T)
      BY <2>2, FS_Union
    <3>2. IsFiniteSet(S \cap T)
      BY <2>2, FS_Intersection
    <3>3. /\ Cardinality(S) \in Nat /\ Cardinality(T) \in Nat
          /\ Cardinality(S \cap T) \in Nat /\ Cardinality(S \cup T) \in Nat
      BY <2>2, <3>1, <3>2, FS_CardinalityType
    <3>. QED BY <3>1, <3>3
  <2>3. PICK F : \A t \in Threads : F[t] \in [DOMAIN W[t] -> Nat] /\ Matches(W[t], F[t])
    <3>. DEFINE F == [t \in Threads |-> CHOOSE f \in [DOMAIN W[t] -> Nat] : Matches(W[t], f)]
    <3>1. \A t \in Threads : F[t] \in [DOMAIN W[t] -> Nat] /\ Matches(W[t], F[t])
      BY DEF Closed
    <3>. QED BY <3>1
  <2>. DEFINE g == [p \in In("copy") |-> <<p[1], F[p[1]][p[2]]>>]
  <2>4. ASSUME NEW p \in In("copy")
        PROVE  /\ p = <<p[1], p[2]>> /\ p[1] \in Threads /\ p[2] \in DOMAIN W[p[1]]
               /\ W[p[1]][p[2]].op = "copy" /\ W[p[1]][p[2]].of = e
    BY DEF Within, Places, The
  <2>5. ASSUME NEW p \in In("copy") PROVE <<p[1], F[p[1]][p[2]]>> \in closers
    <3>. DEFINE t == p[1]
                j == F[p[1]][p[2]]
    <3>1. t \in Threads /\ p[2] \in DOMAIN W[t] /\ W[t][p[2]].op = "copy" /\ W[t][p[2]].of = e
      BY <2>4
    <3>2. j \in DOMAIN W[t] /\ W[t][j].op # "copy" /\ W[t][j].of = e
      BY <2>3, <3>1 DEF Matches
    <3>3. W[t] \in Seq(Steps)
      BY <3>1
    <3>4. W[t][j] \in Steps
      BY <3>2, <3>3, ElementOfSeq, LenProperties
    <3>5. \E op \in Closing : W[t][j] = The(op, e)
      BY <3>2, <3>4 DEF Steps, The, Closing
    <3>. HIDE DEF t, j
    <3>6. PICK op \in Closing : W[t][j] = The(op, e)
      BY <3>5
    <3>7. j \in Places(W[t], The(op, e))
      BY <3>2, <3>6 DEF Places
    <3>8. <<t, j>> \in Within(W, The(op, e))
      BY <3>1, <3>7 DEF Within
    <3>. QED BY <3>6, <3>8 DEF Closing, t, j
  <2>6. ASSUME NEW p \in In("copy"), NEW q \in In("copy"),
               <<p[1], F[p[1]][p[2]]>> = <<q[1], F[q[1]][q[2]]>>
        PROVE  p = q
    <3>1. p[1] = q[1] /\ F[p[1]][p[2]] = F[p[1]][q[2]]
      BY <2>6
    <3>2. p[2] = q[2]
      BY <2>3, <2>4, <3>1 DEF Matches
    <3>. QED BY <2>4, <3>1, <3>2
  <2>7. g \in Injection(In("copy"), closers)
    <3>. DEFINE C == In("copy")
                D == closers
                h(p) == <<p[1], F[p[1]][p[2]]>>
    <3>1. \A p \in C : h(p) \in D
      BY <2>5
    <3>2. \A p, q \in C : h(p) = h(q) => p = q
      BY <2>6
    <3>3. g = [p \in C |-> h(p)]
      OBVIOUS
    <3>. HIDE DEF C, D, h, g
    <3>4. g \in Injection(C, D)
      BY <3>1, <3>2, <3>3 DEF Injection, IsInjective
    <3>. QED BY <3>4 DEF C, D
  <2>. HIDE DEF g, In
  <2>8. /\ IsFiniteSet(closers)
        /\ Cardinality(closers) <= Cardinality(In("delete")) + Cardinality(In("entry"))
             + Cardinality(In("open")) + Cardinality(In("error")) + Cardinality(In("thread"))
    <3>. DEFINE A == In("delete") \cup In("entry")
                B == A \cup In("open")
                C == B \cup In("error")
                D == C \cup In("thread")
    <3>1. /\ IsFiniteSet(A) /\ Cardinality(A) \in Nat
          /\ Cardinality(A) <= Cardinality(In("delete")) + Cardinality(In("entry"))
      BY <2>1, <2>2
    <3>. HIDE DEF A
    <3>2. /\ IsFiniteSet(B) /\ Cardinality(B) \in Nat
          /\ Cardinality(B) <= Cardinality(A) + Cardinality(In("open"))
      BY <2>1, <2>2, <3>1
    <3>. HIDE DEF B
    <3>3. /\ IsFiniteSet(C) /\ Cardinality(C) \in Nat
          /\ Cardinality(C) <= Cardinality(B) + Cardinality(In("error"))
      BY <2>1, <2>2, <3>2
    <3>. HIDE DEF C
    <3>4. /\ IsFiniteSet(D) /\ Cardinality(D) \in Nat
          /\ Cardinality(D) <= Cardinality(C) + Cardinality(In("thread"))
      BY <2>1, <2>2, <3>3
    <3>5. D = closers
      BY DEF A, B, C
    <3>. HIDE DEF D, closers
    <3>6. Cardinality(D) <= Cardinality(In("delete")) + Cardinality(In("entry"))
             + Cardinality(In("open")) + Cardinality(In("error")) + Cardinality(In("thread"))
      BY <2>1, <3>1, <3>2, <3>3, <3>4
    <3>. QED BY <3>4, <3>5, <3>6
  <2>. HIDE DEF closers
  <2>9. Cardinality(In("copy")) <= Cardinality(closers)
    BY <2>7, <2>8, FS_Injection
  <2>10. Cardinality(closers) \in Nat
    BY <2>8, FS_CardinalityType
  <2>11. \A op : Total(W, The(op, e)) = Cardinality(In(op))
    BY DEF Total, In
  <2>12. NetTotal(W, e) = Balance([op \in Ops |-> Cardinality(In(op))])
    BY <2>11 DEF NetTotal
  <2>. QED BY <2>1, <2>8, <2>9, <2>10, <2>12 DEF Balance, Ops, Closing
<1>. QED BY <1>0, <1>1

-----------------------------------------------------------------------------
(***************************************************************************)
(* What the requests put into the lists.                                   *)
(***************************************************************************)

\* A list with one step more.
LEMMA Longer ==
  ASSUME NEW l \in Seq(Steps), NEW s \in Steps, NEW m \in Seq(Steps),
         Len(m) = Len(l) + 1, \A i \in 1 .. Len(l) : m[i] = l[i], m[Len(l) + 1] = s
  PROVE  l \o <<s>> = m
<1>1. l \o <<s>> = Append(l, s) /\ Len(l) \in Nat
  BY AppendIsConcat, LenProperties
<1>2. /\ Append(l, s) \in Seq(Steps) /\ Len(Append(l, s)) = Len(l) + 1
      /\ \A i \in 1 .. Len(l) : Append(l, s)[i] = l[i]
      /\ Append(l, s)[Len(l) + 1] = s
  BY AppendProperties
<1>3. \A i \in 1 .. Len(l) + 1 : i \in 1 .. Len(l) \/ i = Len(l) + 1
  BY <1>1
<1>4. \A i \in 1 .. Len(l) + 1 : Append(l, s)[i] = m[i]
  BY <1>2, <1>3
<1>5. Append(l, s) = m
  BY <1>2, <1>4, SeqEqual
<1>. QED BY <1>1, <1>5

\* Short lists, written out: of two steps.
LEMMA Two ==
  ASSUME NEW w \in Steps, NEW x \in Steps
  PROVE  <<w>> \o <<x>> = <<w, x>> /\ <<w, x>> \in Seq(Steps)
<1>. DEFINE l == <<w>>
            m == <<w, x>>
<1>1. l \in Seq(Steps) /\ m \in Seq(Steps) /\ Len(l) = 1 /\ Len(m) = 2
  OBVIOUS
<1>2. \A i \in 1 .. 1 : m[i] = l[i]
  OBVIOUS
<1>3. m[2] = x
  OBVIOUS
<1>. HIDE DEF l, m
<1>4. Len(m) = Len(l) + 1 /\ (\A i \in 1 .. Len(l) : m[i] = l[i]) /\ m[Len(l) + 1] = x
  BY <1>1, <1>2, <1>3
<1>5. l \o <<x>> = m
  BY <1>1, <1>4, Longer, Zenon
<1>. QED BY <1>1, <1>5 DEF l, m

\* Of three steps.
LEMMA Three ==
  ASSUME NEW w \in Steps, NEW x \in Steps, NEW y \in Steps
  PROVE  <<w, x>> \o <<y>> = <<w, x, y>> /\ <<w, x, y>> \in Seq(Steps)
<1>. DEFINE l == <<w, x>>
            m == <<w, x, y>>
<1>1. l \in Seq(Steps) /\ m \in Seq(Steps) /\ Len(l) = 2 /\ Len(m) = 3
  OBVIOUS
<1>2. \A i \in 1 .. 2 : m[i] = l[i]
  OBVIOUS
<1>3. m[3] = y
  OBVIOUS
<1>. HIDE DEF l, m
<1>4. Len(m) = Len(l) + 1 /\ (\A i \in 1 .. Len(l) : m[i] = l[i]) /\ m[Len(l) + 1] = y
  BY <1>1, <1>2, <1>3
<1>5. l \o <<y>> = m
  BY <1>1, <1>4, Longer, Zenon
<1>. QED BY <1>1, <1>5 DEF l, m

\* Of four steps.
LEMMA Four ==
  ASSUME NEW w \in Steps, NEW x \in Steps, NEW y \in Steps, NEW z \in Steps
  PROVE  <<w, x, y>> \o <<z>> = <<w, x, y, z>> /\ <<w, x, y, z>> \in Seq(Steps)
<1>. DEFINE l == <<w, x, y>>
            m == <<w, x, y, z>>
<1>1. l \in Seq(Steps) /\ m \in Seq(Steps) /\ Len(l) = 3 /\ Len(m) = 4
  OBVIOUS
<1>2. \A i \in 1 .. 3 : m[i] = l[i]
  OBVIOUS
<1>3. m[4] = z
  OBVIOUS
<1>. HIDE DEF l, m
<1>4. Len(m) = Len(l) + 1 /\ (\A i \in 1 .. Len(l) : m[i] = l[i]) /\ m[Len(l) + 1] = z
  BY <1>1, <1>2, <1>3
<1>5. l \o <<z>> = m
  BY <1>1, <1>4, Longer, Zenon
<1>. QED BY <1>1, <1>5 DEF l, m

\* As the handlers put four of them together.
LEMMA Written ==
  ASSUME NEW w \in Steps, NEW x \in Steps, NEW y \in Steps, NEW z \in Steps
  PROVE  /\ <<w>> \o <<x>> \o <<y>> \o <<z>> = <<w, x, y, z>>
         /\ <<w>> \o (<<x>> \o <<y>>) \o <<z>> = <<w, x, y, z>>
         /\ (<<w>> \o <<x>> \o <<>> \o <<y>>) \o <<z>> = <<w, x, y, z>>
<1>1. \A j, k, l \in Seq(Steps) : (j \o k) \o l = j \o (k \o l)
  BY ConcatAssociative
<1>2. /\ <<w>> \in Seq(Steps) /\ <<x>> \in Seq(Steps) /\ <<y>> \in Seq(Steps)
      /\ <<z>> \in Seq(Steps) /\ <<w, x>> \in Seq(Steps)
  OBVIOUS
<1>3. <<w>> \o <<x>> = <<w, x>> /\ <<x>> \o <<y>> = <<x, y>> /\ <<y>> \o <<z>> = <<y, z>>
  BY Two
<1>4. <<w, x>> \o <<y>> = <<w, x, y>>
  BY Three, Zenon
<1>5. <<w, x, y>> \o <<z>> = <<w, x, y, z>>
  BY Four, Zenon
<1>6. <<w, x>> \o <<>> = <<w, x>>
  OBVIOUS
<1>7. (<<w>> \o <<x>>) \o <<y>> = <<w>> \o (<<x>> \o <<y>>)
  BY <1>1, <1>2, ZenonT(60)
<1>9. <<w>> \o <<x>> \o <<y>> = <<w, x, y>>
  BY <1>3, <1>4, Zenon
<1>10. <<w>> \o <<x>> \o <<>> \o <<y>> = <<w, x, y>>
  BY <1>3, <1>4, <1>6, Zenon
<1>12. <<w>> \o <<x>> \o <<y>> \o <<z>> = <<w, x, y, z>>
  BY <1>5, <1>9, Zenon
<1>13. <<w>> \o (<<x>> \o <<y>>) \o <<z>> = <<w, x, y, z>>
  BY <1>5, <1>7, <1>9, Zenon
<1>14. (<<w>> \o <<x>> \o <<>> \o <<y>>) \o <<z>> = <<w, x, y, z>>
  BY <1>5, <1>10, Zenon
<1>. QED BY <1>12, <1>13, <1>14, Zenon

\* The three ways, one by one.
LEMMA WrittenFlat == \A w, x, y, z \in Steps : <<w>> \o <<x>> \o <<y>> \o <<z>> = <<w, x, y, z>>
<1>. SUFFICES ASSUME NEW w \in Steps, NEW x \in Steps, NEW y \in Steps, NEW z \in Steps
              PROVE  <<w>> \o <<x>> \o <<y>> \o <<z>> = <<w, x, y, z>>
  BY Zenon
<1>. QED BY Written, SMTT(60)

LEMMA WrittenNested ==
  \A w, x, y, z \in Steps : <<w>> \o (<<x>> \o <<y>>) \o <<z>> = <<w, x, y, z>>
<1>. SUFFICES ASSUME NEW w \in Steps, NEW x \in Steps, NEW y \in Steps, NEW z \in Steps
              PROVE  <<w>> \o (<<x>> \o <<y>>) \o <<z>> = <<w, x, y, z>>
  BY Zenon
<1>. QED BY Written, SMTT(60)

LEMMA WrittenEmpty ==
  \A w, x, y, z \in Steps : (<<w>> \o <<x>> \o <<>> \o <<y>>) \o <<z>> = <<w, x, y, z>>
<1>. SUFFICES ASSUME NEW w \in Steps, NEW x \in Steps, NEW y \in Steps, NEW z \in Steps
              PROVE  (<<w>> \o <<x>> \o <<>> \o <<y>>) \o <<z>> = <<w, x, y, z>>
  BY Zenon
<1>. QED BY Written, SMTT(60)

\* What a list of two nets.
LEMMA NetOfTwo ==
  ASSUME NEW w \in Steps, NEW x \in Steps, NEW e \in Entries
  PROVE  Net(<<w, x>>, e) = Net(<<w>>, e) + Net(<<x>>, e)
<1>1. \A k, l \in Seq(Steps) : Net(k \o l, e) = Net(k, e) + Net(l, e)
  BY NetFacts
<1>2. <<w>> \in Seq(Steps) /\ <<x>> \in Seq(Steps)
  OBVIOUS
<1>3. <<w>> \o <<x>> = <<w, x>>
  BY Two
<1>. QED BY <1>1, <1>2, <1>3, Zenon

\* A list on which every copy is accounted for, and what it nets.
Served(l, net) == l \in Seq(Steps) /\ Closed(l) /\ \A e \in Entries : Net(l, e) = net[e]

Copied(s) == s \in Steps /\ s.op = "copy"
Answers(s, e) == s \in Steps /\ s.op # "copy" /\ s.of = e

\* A copy and what accounts for it.
LEMMA OneCopy ==
  ASSUME NEW w, Copied(w), NEW x, Answers(x, w.of)
  PROVE  Served(<<w, x>>, Zero)
<1>. USE DEF Copied, Answers
<1>1. <<w, x>> \in Seq(Steps) /\ DOMAIN <<w, x>> = {1, 2} /\ <<w, x>>[1] = w /\ <<w, x>>[2] = x
  BY DEF Steps
<1>2. Closed(<<w, x>>)
  <2>. DEFINE l == <<w, x>>
              f == [i \in {1, 2} |-> 2]
  <2>1. f \in [DOMAIN l -> Nat]
    BY <1>1
  <2>2. Matches(l, f)
    BY <1>1 DEF Matches
  <2>. HIDE DEF l, f
  <2>3. Closed(l)
    BY <2>1, <2>2 DEF Closed
  <2>. QED BY <2>3 DEF l
<1>3. ASSUME NEW e \in Entries PROVE Net(<<w, x>>, e) = 0
  <2>1. Net(<<w, x>>, e) = Net(<<w>>, e) + Net(<<x>>, e)
    BY NetOfTwo
  <2>2. /\ Net(<<w>>, e) = IF w.of # e THEN 0 ELSE 1
        /\ Net(<<x>>, e) = IF w.of # e THEN 0 ELSE -1
    BY NetFacts
  <2>. QED BY <2>1, <2>2
<1>. QED BY <1>1, <1>2, <1>3 DEF Served, Zero

Paired(w, x, y, z) ==
  \/ Copied(w) /\ Copied(x) /\ Answers(y, w.of) /\ Answers(z, x.of)
  \/ Copied(w) /\ Copied(x) /\ Answers(y, x.of) /\ Answers(z, w.of)
  \/ Copied(w) /\ Answers(x, w.of) /\ Copied(y) /\ Answers(z, y.of)

\* Two copies, and what accounts for one and for the other.
LEMMA TwoCopies ==
  ASSUME NEW w \in Steps, NEW x \in Steps, NEW y \in Steps, NEW z \in Steps, Paired(w, x, y, z)
  PROVE  Served(<<w, x, y, z>>, Zero)
<1>. DEFINE l == <<w, x, y, z>>
<1>1. /\ l \in Seq(Steps) /\ DOMAIN l = 1 .. 4
      /\ l[1] = w /\ l[2] = x /\ l[3] = y /\ l[4] = z
  OBVIOUS
<1>. HIDE DEF l
<1>2. Closed(l)
  <2>1. CASE Copied(w) /\ Copied(x) /\ Answers(y, w.of) /\ Answers(z, x.of)
    <3>. DEFINE f == [i \in 1 .. 4 |-> i + 2]
    <3>1. f \in [DOMAIN l -> Nat]
      BY <1>1
    <3>2. Matches(l, f)
      BY <1>1, <2>1 DEF Matches, Copied, Answers
    <3>. HIDE DEF f
    <3>. QED BY <3>1, <3>2 DEF Closed
  <2>2. CASE Copied(w) /\ Copied(x) /\ Answers(y, x.of) /\ Answers(z, w.of)
    <3>. DEFINE f == [i \in 1 .. 4 |-> 5 - i]
    <3>1. f \in [DOMAIN l -> Nat]
      BY <1>1
    <3>2. Matches(l, f)
      BY <1>1, <2>2 DEF Matches, Copied, Answers
    <3>. HIDE DEF f
    <3>. QED BY <3>1, <3>2 DEF Closed
  <2>3. CASE Copied(w) /\ Answers(x, w.of) /\ Copied(y) /\ Answers(z, y.of)
    <3>. DEFINE f == [i \in 1 .. 4 |-> i + 1]
    <3>1. f \in [DOMAIN l -> Nat]
      BY <1>1
    <3>2. Matches(l, f)
      BY <1>1, <2>3 DEF Matches, Copied, Answers
    <3>. HIDE DEF f
    <3>. QED BY <3>1, <3>2 DEF Closed
  <2>. QED BY <2>1, <2>2, <2>3 DEF Paired
<1>3. ASSUME NEW e \in Entries PROVE Net(l, e) = 0
  <2>1. Net(l, e) = Net(<<w>>, e) + Net(<<x>>, e) + Net(<<y>>, e) + Net(<<z>>, e)
    <3>1. \A j, k \in Seq(Steps) : Net(j \o k, e) = Net(j, e) + Net(k, e)
      BY NetFacts
    <3>2. /\ <<w, x>> \in Seq(Steps) /\ <<w, x, y>> \in Seq(Steps)
          /\ <<y>> \in Seq(Steps) /\ <<z>> \in Seq(Steps)
      OBVIOUS
    <3>3. <<w, x>> \o <<y>> = <<w, x, y>>
      BY Three, Zenon
    <3>4. <<w, x, y>> \o <<z>> = <<w, x, y, z>>
      BY Four, Zenon
    <3>5. Net(<<w, x>>, e) = Net(<<w>>, e) + Net(<<x>>, e)
      BY NetOfTwo
    <3>6. Net(<<w, x, y>>, e) = Net(<<w, x>>, e) + Net(<<y>>, e)
      BY <3>1, <3>2, <3>3, Zenon
    <3>7. Net(<<w, x, y, z>>, e) = Net(<<w, x, y>>, e) + Net(<<z>>, e)
      BY <3>1, <3>2, <3>4, Zenon
    <3>. QED BY <3>5, <3>6, <3>7, Zenon DEF l
  <2>2. \A s \in Steps : Net(<<s>>, e) = IF s.of # e THEN 0 ELSE IF s.op = "copy" THEN 1 ELSE -1
    BY NetFacts
  <2>. QED BY <2>1, <2>2 DEF Paired, Copied, Answers
<1>. QED BY <1>1, <1>2, <1>3 DEF Served, Zero, l

\* Deletes alone account for no copy.
LEMMA OnlyDeletes ==
  ASSUME NEW d \in Entries, NEW n \in Nat
  PROVE  Served(Deletes(d, n), [e \in Entries |-> IF e = d THEN -n ELSE 0])
<1>. DEFINE l == Deletes(d, n)
            f == [i \in 1 .. n |-> 0]
<1>1. l \in Seq(Steps) /\ DOMAIN l = 1 .. n /\ \A i \in 1 .. n : l[i] = The("delete", d)
  BY DeletesFacts
<1>2. \A e \in Entries : Net(l, e) = IF d = e THEN -n ELSE 0
  BY NetFacts
<1>. HIDE DEF l
<1>3. f \in [DOMAIN l -> Nat]
  BY <1>1
<1>4. Matches(l, f)
  BY <1>1 DEF Matches, The
<1>. HIDE DEF f
<1>5. Closed(l)
  BY <1>3, <1>4 DEF Closed
<1>. QED BY <1>1, <1>2, <1>5 DEF Served, l

\* forget's copy, and a delete for it before all the others.
LEMMA CopyAndDeletes ==
  ASSUME NEW d \in Entries, NEW n \in Nat
  PROVE  Served(Copy(d) \o Deletes(d, n + 1), [e \in Entries |-> IF e = d THEN -n ELSE 0])
<1>. DEFINE k == Copy(d)
            m == Deletes(d, n + 1)
            l == k \o m
            f == [i \in 1 .. n + 2 |-> 2]
<1>1. /\ k \in Seq(Steps) /\ Len(k) = 1 /\ k[1] = The("copy", d) /\ k = <<The("copy", d)>>
      /\ The("copy", d) \in Steps
  BY DEF Copy, The, Steps
<1>2. m \in Seq(Steps) /\ Len(m) = n + 1 /\ \A i \in 1 .. n + 1 : m[i] = The("delete", d)
  BY DeletesFacts
<1>3. \A e \in Entries : Net(k, e) = IF d # e THEN 0 ELSE 1
  BY <1>1, NetFacts DEF The
<1>4. \A e \in Entries : Net(m, e) = IF d = e THEN -(n + 1) ELSE 0
  <2>1. n + 1 \in Nat
    OBVIOUS
  <2>. QED BY <2>1, NetFacts, Zenon
<1>. HIDE DEF k, m
<1>5. l \in Seq(Steps) /\ Len(l) = 1 + (n + 1)
      /\ \A i \in 1 .. 1 + (n + 1) : l[i] = IF i <= 1 THEN k[i] ELSE m[i - 1]
  BY <1>1, <1>2, ConcatProperties
<1>6. \A e \in Entries : Net(l, e) = Net(k, e) + Net(m, e)
  <2>1. \A e \in Entries : \A i, j \in Seq(Steps) : Net(i \o j, e) = Net(i, e) + Net(j, e)
    BY NetFacts, Zenon
  <2>. QED BY <1>1, <1>2, <2>1, Zenon
<1>. HIDE DEF l
<1>7. DOMAIN l = 1 .. n + 2
  BY <1>5, LenProperties
<1>8. l[1] = The("copy", d) /\ \A i \in 2 .. n + 2 : l[i] = The("delete", d)
  BY <1>1, <1>2, <1>5
<1>9. f \in [DOMAIN l -> Nat]
  BY <1>7
<1>10. Matches(l, f)
  <2>1. \A i \in 1 .. n + 2 : l[i].op = "copy" => i = 1
    BY <1>8 DEF The
  <2>2. 2 \in 1 .. n + 2 /\ l[2] = The("delete", d)
    BY <1>8
  <2>. QED BY <1>7, <1>8, <2>1, <2>2 DEF Matches, The
<1>. HIDE DEF f
<1>11. Closed(l)
  BY <1>9, <1>10 DEF Closed
<1>12. \A e \in Entries : Net(l, e) = IF e = d THEN -n ELSE 0
  BY <1>3, <1>4, <1>6
<1>. QED BY <1>5, <1>11, <1>12 DEF Served, k, m, l

\* What is left of a list after its first step.
LEMMA TailFacts ==
  ASSUME NEW l \in Seq(Steps), l # <<>>, Closed(l)
  PROVE  /\ Head(l) \in Steps /\ Tail(l) \in Seq(Steps) /\ Closed(Tail(l))
         /\ \A e \in Entries : Net(Tail(l), e) = Net(l, e) - Net(<<Head(l)>>, e)
<1>. DEFINE m == Tail(l)
            n == Len(l)
<1>1. /\ Head(l) \in Steps /\ m \in Seq(Steps) /\ Len(m) = n - 1
      /\ \A i \in 1 .. Len(m) : m[i] = l[i + 1]
  BY HeadTailProperties
<1>2. n \in Nat /\ n > 0 /\ DOMAIN l = 1 .. n /\ Head(l) = l[1]
  BY EmptySeq, LenProperties
<1>3. DOMAIN m = 1 .. n - 1
  BY <1>1, LenProperties
<1>. HIDE DEF m, n
<1>4. Closed(m)
  <2>1. PICK f \in [DOMAIN l -> Nat] : Matches(l, f)
    BY DEF Closed
  <2>. DEFINE g == [i \in 1 .. n - 1 |-> IF f[i + 1] > 0 THEN f[i + 1] - 1 ELSE 0]
  <2>2. \A i \in 1 .. n - 1 : i + 1 \in 1 .. n /\ m[i] = l[i + 1] /\ f[i + 1] \in Nat
    BY <1>1, <1>2
  <2>3. g \in [DOMAIN m -> Nat]
    BY <1>3, <2>2
  <2>4. ASSUME NEW i \in 1 .. n - 1, m[i].op = "copy"
        PROVE  /\ g[i] = f[i + 1] - 1 /\ g[i] \in 1 .. n - 1 /\ g[i] > i
               /\ m[g[i]].op # "copy" /\ m[g[i]].of = m[i].of
    <3>1. /\ f[i + 1] \in 1 .. n /\ f[i + 1] > i + 1
          /\ l[f[i + 1]].op # "copy" /\ l[f[i + 1]].of = l[i + 1].of
      BY <1>2, <2>1, <2>2, <2>4 DEF Matches
    <3>2. g[i] = f[i + 1] - 1 /\ g[i] \in 1 .. n - 1 /\ g[i] > i /\ g[i] + 1 = f[i + 1]
      BY <1>2, <3>1
    <3>. HIDE DEF g
    <3>3. m[g[i]] = l[f[i + 1]]
      BY <2>2, <3>2
    <3>4. m[i].of = l[i + 1].of
      BY <2>2
    <3>. QED BY ONLY <3>1, <3>2, <3>3, <3>4
  <2>5. ASSUME NEW i \in 1 .. n - 1, NEW j \in 1 .. n - 1,
               m[i].op = "copy", m[j].op = "copy", g[i] = g[j]
        PROVE  i = j
    <3>1. f[i + 1] - 1 = f[j + 1] - 1
      BY <2>4, <2>5
    <3>2. f[i + 1] = f[j + 1]
      <4>1. f[i + 1] \in Int /\ f[j + 1] \in Int
        BY <1>2, <2>1, <2>2, <2>5 DEF Matches
      <4>. QED BY ONLY <3>1, <4>1
    <3>3. /\ i + 1 \in DOMAIN l /\ j + 1 \in DOMAIN l
          /\ l[i + 1].op = "copy" /\ l[j + 1].op = "copy"
      BY <1>2, <2>2, <2>5
    <3>4. \A a, b \in DOMAIN l : l[a].op = "copy" /\ l[b].op = "copy" /\ f[a] = f[b] => a = b
      BY <2>1 DEF Matches
    <3>5. i + 1 = j + 1
      BY <3>2, <3>3, <3>4, Zenon
    <3>. QED BY <3>5
  <2>. HIDE DEF g
  <2>6. Matches(m, g)
    BY <1>3, <2>4, <2>5 DEF Matches
  <2>. QED BY <2>3, <2>6 DEF Closed
<1>5. l = <<Head(l)>> \o m
  <2>. DEFINE h == <<Head(l)>>
  <2>1. h \in Seq(Steps) /\ Len(h) = 1 /\ h[1] = Head(l)
    BY <1>1
  <2>. HIDE DEF h
  <2>2. /\ h \o m \in Seq(Steps) /\ Len(h \o m) = 1 + (n - 1)
        /\ \A i \in 1 .. 1 + (n - 1) : (h \o m)[i] = IF i <= 1 THEN h[i] ELSE m[i - 1]
    <3>1. /\ h \o m \in Seq(Steps) /\ Len(h \o m) = Len(h) + Len(m)
          /\ \A i \in 1 .. Len(h) + Len(m) : (h \o m)[i] = IF i <= Len(h) THEN h[i] ELSE m[i - Len(h)]
      <4>1. \A j, k \in Seq(Steps) :
              /\ j \o k \in Seq(Steps) /\ Len(j \o k) = Len(j) + Len(k)
              /\ \A i \in 1 .. Len(j) + Len(k) : (j \o k)[i] = IF i <= Len(j) THEN j[i] ELSE k[i - Len(j)]
        BY ConcatProperties
      <4>. QED BY <1>1, <2>1, <4>1, Zenon
    <3>. QED BY <1>1, <2>1, <3>1
  <2>3. \A i \in 1 .. n : (h \o m)[i] = l[i]
    <3>1. ASSUME NEW i \in 1 .. n PROVE (h \o m)[i] = l[i]
      <4>1. CASE i = 1
        BY <1>2, <2>1, <2>2, <4>1
      <4>2. CASE i # 1
        <5>1. i - 1 \in 1 .. n - 1 /\ (i - 1) + 1 = i
          BY <1>2, <4>2
        <5>2. m[i - 1] = l[i]
          BY <1>1, <5>1
        <5>. QED BY <1>2, <2>2, <4>2, <5>2
      <4>. QED BY <4>1, <4>2
    <3>. QED BY <3>1
  <2>4. Len(h \o m) = n
    BY <1>2, <2>2
  <2>5. h \o m = l
    BY <2>2, <2>3, <2>4, SeqEqual DEF n
  <2>. QED BY <2>5 DEF h
<1>6. ASSUME NEW e \in Entries PROVE Net(m, e) = Net(l, e) - Net(<<Head(l)>>, e)
  <2>1. <<Head(l)>> \in Seq(Steps)
    BY <1>1
  <2>2. \A j, k \in Seq(Steps) : Net(j \o k, e) = Net(j, e) + Net(k, e)
    BY NetFacts
  <2>3. Net(l, e) = Net(<<Head(l)>>, e) + Net(m, e)
    BY <1>1, <1>5, <2>1, <2>2, Zenon
  <2>4. Net(m, e) \in Int /\ Net(<<Head(l)>>, e) \in Int
    BY <1>1, <2>1, NetFacts
  <2>. QED BY <2>3, <2>4
<1>. QED BY <1>1, <1>4, <1>6 DEF m

\* Nothing is left of nothing.
LEMMA Nothing == Closed(<<>>) /\ <<>> \in Seq(Steps)
<1>. DEFINE f == [i \in {} |-> 0]
<1>1. DOMAIN <<>> = {} /\ <<>> \in Seq(Steps)
  OBVIOUS
<1>2. f \in [DOMAIN <<>> -> Nat]
  BY <1>1
<1>. HIDE DEF f
<1>3. Matches(<<>>, f)
  BY <1>1 DEF Matches
<1>4. Closed(<<>>)
  BY <1>2, <1>3, Zenon DEF Closed
<1>. QED BY <1>1, <1>4

\* The counts over all threads are natural numbers, and 0 if nobody does anything.
LEMMA TotalType ==
  ASSUME NEW W \in Work, NEW x
  PROVE  /\ Total(W, x) \in Nat
         /\ (\A t \in Threads : W[t] = <<>>) => Total(W, x) = 0
<1>1. ASSUME \A t \in Threads : W[t] = <<>> PROVE Total(W, x) = 0
  <2>1. DOMAIN <<>> = {}
    OBVIOUS
  <2>2. Places(<<>>, x) = {}
    BY <2>1 DEF Places
  <2>3. Within(W, x) = {}
    BY <1>1, <2>2 DEF Within
  <2>. QED BY <2>3, FS_EmptySet DEF Total
<1>2. CASE Threads = {}
  BY <1>1, <1>2
<1>3. CASE Threads # {}
  <2>1. PICK t \in Threads : TRUE
    BY <1>3
  <2>2. W[t] \in Seq(Steps)
    BY DEF Work
  <2>. QED BY <1>1, <2>2, TotalReplace
<1>. QED BY <1>1, <1>2, <1>3

-----------------------------------------------------------------------------
(***************************************************************************)
(* Every step keeps the invariant.                                         *)
(***************************************************************************)

\* What the threads have to do after a request.
LEMMA Serving ==
  ASSUME TypeOK, AllClosed, NEW t \in Threads, NEW l, NEW net, Served(l, net), Free(t), Serve(t, l)
  PROVE  /\ todo' \in [Threads -> Seq(Steps)] /\ AllClosed'
         /\ \A e \in Entries : /\ NetTotal(todo, e) \in Int
                               /\ NetTotal(todo', e) = NetTotal(todo, e) + net[e]
<1>1. todo \in Work /\ l \in Seq(Steps) /\ Closed(l) /\ todo[t] = <<>>
  BY DEF TypeOK, Work, Served, Free
<1>2. todo' = [todo EXCEPT ![t] = l]
  BY DEF Serve
<1>3. todo' \in [Threads -> Seq(Steps)]
  BY <1>1, <1>2 DEF Work
<1>4. ASSUME NEW u \in Threads PROVE Closed(todo'[u])
  <2>1. todo'[u] = IF u = t THEN l ELSE todo[u]
    BY <1>1, <1>2 DEF Work
  <2>. QED BY <1>1, <2>1 DEF AllClosed
<1>5. ASSUME NEW e \in Entries
      PROVE  /\ NetTotal(todo, e) \in Int
             /\ NetTotal(todo', e) = NetTotal(todo, e) + net[e]
  <2>1. /\ NetTotal(todo, e) \in Int
        /\ NetTotal([todo EXCEPT ![t] = l], e) = NetTotal(todo, e) - Net(todo[t], e) + Net(l, e)
    BY <1>1, NetReplace
  <2>2. Net(todo[t], e) = 0
    BY <1>1, NetFacts
  <2>3. Net(l, e) = net[e] /\ Net(l, e) \in Int
    BY <1>1, NetFacts DEF Served
  <2>. QED BY <1>2, <2>1, <2>2, <2>3
<1>. QED BY <1>3, <1>4, <1>5 DEF AllClosed

\* The lists of the requests that keep the books.
LEMMA BalancedLists ==
  /\ \A d \in Entries : Child[d] # "none" =>
       /\ Served(direntry_get_child_by_name(d, TRUE) \o ReplyEntry(Child[d]), Zero)
       /\ Served(direntry_get_child_by_name(d, FALSE), Zero)
  /\ \A e \in Entries : Served(direntry_get_by_inode(e) \o Delete(e), Zero)
  /\ \A e \in Entries : Served(direntry_get_by_inode(e) \o ReplyOpen(e), Zero)
  /\ \A e \in Entries : Served(direntry_get_by_inode(e) \o ReplyError(e), Zero)
  /\ Served(direntry_get_by_inode("F") \o downloader_new \o ReplyOpen("F"), Zero)
  /\ Served(Copy("P") \o Delete("P") \o Copy("F") \o Delete("F"), Zero)
<1>0. /\ \A e \in Entries : /\ Copied(The("copy", e)) /\ The("copy", e).of = e
                            /\ Answers(The("delete", e), e) /\ Answers(The("entry", e), e)
                            /\ Answers(The("open", e), e) /\ Answers(The("error", e), e)
      /\ Answers(The("thread", "F"), "F")
      /\ "F" \in Entries /\ "P" \in Entries
  BY DEF Copied, Answers, The, Steps, Entries
<1>00. \A w, e : Copied(w) \/ Answers(w, e) => w \in Steps
  BY DEF Copied, Answers
<1>1. ASSUME NEW d \in Entries, Child[d] # "none"
      PROVE  /\ Served(direntry_get_child_by_name(d, TRUE) \o ReplyEntry(Child[d]), Zero)
             /\ Served(direntry_get_child_by_name(d, FALSE), Zero)
  <2>. DEFINE c == Child[d]
              w == The("copy", d)
              x == The("copy", c)
              y == The("delete", d)
              z == The("entry", c)
              v == The("delete", c)
  <2>1. c \in Entries
    BY <1>1 DEF Child, Entries
  <2>2. /\ w \in Steps /\ x \in Steps /\ y \in Steps /\ z \in Steps /\ v \in Steps
        /\ Paired(w, x, y, z) /\ Paired(w, x, v, y)
    BY <1>0, <1>00, <2>1 DEF Paired
  <2>3. /\ direntry_get_child_by_name(d, TRUE) \o ReplyEntry(c)
             = (<<w>> \o <<x>> \o <<>> \o <<y>>) \o <<z>>
        /\ direntry_get_child_by_name(d, FALSE) = <<w>> \o <<x>> \o <<v>> \o <<y>>
    BY Zenon DEF direntry_get_child_by_name, direntry_get_by_inode, Copy, Delete, ReplyEntry, The
  <2>. HIDE DEF w, x, y, z, v, c
  <2>4. (<<w>> \o <<x>> \o <<>> \o <<y>>) \o <<z>> = <<w, x, y, z>>
    BY <2>2, WrittenEmpty, SMTT(60)
  <2>5. <<w>> \o <<x>> \o <<v>> \o <<y>> = <<w, x, v, y>>
    BY <2>2, WrittenFlat, SMTT(60)
  <2>6. Served(<<w, x, y, z>>, Zero) /\ Served(<<w, x, v, y>>, Zero)
    BY <2>2, TwoCopies
  <2>. QED BY <2>3, <2>4, <2>5, <2>6, Zenon DEF c
<1>2. ASSUME NEW e \in Entries, NEW x, Answers(x, e)
      PROVE  Served(direntry_get_by_inode(e) \o <<x>>, Zero)
  <2>. DEFINE w == The("copy", e)
  <2>1. Copied(w) /\ w.of = e /\ w \in Steps /\ x \in Steps
    BY <1>0, <1>00, <1>2
  <2>2. direntry_get_by_inode(e) = <<w>>
    BY DEF direntry_get_by_inode, Copy, The
  <2>. HIDE DEF w
  <2>3. <<w>> \o <<x>> = <<w, x>>
    BY <2>1, Two
  <2>4. Served(<<w, x>>, Zero)
    BY <1>2, <2>1, OneCopy
  <2>. QED BY <2>2, <2>3, <2>4, Zenon
<1>3. ASSUME NEW e \in Entries
      PROVE  /\ Served(direntry_get_by_inode(e) \o Delete(e), Zero)
             /\ Served(direntry_get_by_inode(e) \o ReplyOpen(e), Zero)
             /\ Served(direntry_get_by_inode(e) \o ReplyError(e), Zero)
  <2>1. /\ Delete(e) = <<The("delete", e)>> /\ ReplyOpen(e) = <<The("open", e)>>
        /\ ReplyError(e) = <<The("error", e)>>
    BY DEF Delete, ReplyOpen, ReplyError, The
  <2>. QED BY <1>0, <1>2, <2>1, Zenon
<1>4. Served(direntry_get_by_inode("F") \o downloader_new \o ReplyOpen("F"), Zero)
  <2>. DEFINE w == The("copy", "F")
              y == The("thread", "F")
              z == The("open", "F")
  <2>1. w \in Steps /\ y \in Steps /\ z \in Steps /\ Paired(w, w, y, z)
    BY <1>0, <1>00 DEF Paired
  <2>2. direntry_get_by_inode("F") \o downloader_new \o ReplyOpen("F") = <<w>> \o (<<w>> \o <<y>>) \o <<z>>
    BY Zenon DEF direntry_get_by_inode, downloader_new, Copy, StartThread, ReplyOpen, The
  <2>. HIDE DEF w, y, z
  <2>3. <<w>> \o (<<w>> \o <<y>>) \o <<z>> = <<w, w, y, z>>
    BY <2>1, WrittenNested, Zenon
  <2>4. Served(<<w, w, y, z>>, Zero)
    BY <2>1, TwoCopies
  <2>. QED BY <2>2, <2>3, <2>4, Zenon
<1>5. Served(Copy("P") \o Delete("P") \o Copy("F") \o Delete("F"), Zero)
  <2>. DEFINE w == The("copy", "P")
              x == The("delete", "P")
              y == The("copy", "F")
              z == The("delete", "F")
  <2>1. w \in Steps /\ x \in Steps /\ y \in Steps /\ z \in Steps /\ Paired(w, x, y, z)
    BY <1>0, <1>00 DEF Paired
  <2>2. Copy("P") \o Delete("P") \o Copy("F") \o Delete("F") = <<w>> \o <<x>> \o <<y>> \o <<z>>
    BY Zenon DEF Copy, Delete, The
  <2>. HIDE DEF w, x, y, z
  <2>3. <<w>> \o <<x>> \o <<y>> \o <<z>> = <<w, x, y, z>>
    BY <2>1, WrittenFlat, Zenon
  <2>4. Served(<<w, x, y, z>>, Zero)
    BY <2>1, TwoCopies
  <2>. QED BY <2>2, <2>3, <2>4, Zenon
<1>. QED BY <1>1, <1>3, <1>4, <1>5

\* What the kernel holds, for the arithmetic.
KernelTypes ==
  /\ lookups \in [Entries -> Nat] /\ opened \in [Entries -> Nat]
  /\ refused \in [Entries -> Nat] /\ released \in [Entries -> Nat]
  /\ reads \in Nat /\ answered \in Nat /\ getattrs \in Nat /\ downloads \in Nat

LEMMA KernelTyped == TypeOK <=>
  KernelTypes /\ refs \in [Entries -> Nat] /\ todo \in [Threads -> Seq(Steps)] /\ undefined \in BOOLEAN
BY DEF TypeOK, KernelTypes

\* What is due is a number.
LEMMA DueType == KernelTypes => \A e \in Entries : Due(e) \in Int
BY DEF KernelTypes, Due, Overdrawn, Handles

\* A request whose list nets what it changes of what is due.
LEMMA RequestKeeps ==
  ASSUME Inv, NEW t \in Threads, NEW l, NEW net \in [Entries -> Int],
         Served(l, net), Free(t), Serve(t, l), UNCHANGED <<refs, undefined>>,
         KernelTypes', HandlesCounted', \A e \in Entries : Due(e)' = Due(e) + net[e]
  PROVE  Inv'
<1>1. /\ KernelTypes /\ refs \in [Entries -> Nat] /\ undefined \in BOOLEAN
      /\ TypeOK /\ AllClosed /\ ~undefined
  BY KernelTyped DEF Inv, Free
<1>2. /\ todo' \in [Threads -> Seq(Steps)] /\ AllClosed'
      /\ \A e \in Entries : NetTotal(todo, e) \in Int /\ NetTotal(todo', e) = NetTotal(todo, e) + net[e]
  BY <1>1, Serving
<1>3. TypeOK'
  BY <1>1, <1>2 DEF TypeOK, KernelTypes
<1>4. OnlyOverdraftsFree'
  BY <1>1 DEF OnlyOverdraftsFree
<1>5. ASSUME NEW e \in Entries PROVE refs'[e] + NetTotal(todo', e) = Due(e)'
  <2>1. refs[e] + NetTotal(todo, e) = Due(e) /\ Due(e) \in Int
    BY <1>1, DueType DEF Inv, Accounted
  <2>2. refs[e] \in Int /\ refs'[e] = refs[e] /\ net[e] \in Int
    BY <1>1
  <2>. QED BY <1>2, <2>1, <2>2
<1>6. Accounted'
  BY <1>5 DEF Accounted
<1>. QED BY <1>2, <1>3, <1>4, <1>6 DEF Inv

\* A request that nets nothing and tells nobody anything.
LEMMA KeepsBooks ==
  ASSUME Inv, NEW t \in Threads, NEW l, Served(l, Zero), Free(t), Serve(t, l),
         UNCHANGED <<refs, undefined, kernelVars>>
  PROVE  Inv'
<1>1. KernelTypes /\ HandlesCounted
  BY KernelTyped DEF Inv
<1>2. KernelTypes' /\ HandlesCounted'
  BY <1>1 DEF KernelTypes, HandlesCounted, Handles, kernelVars
<1>3. Zero \in [Entries -> Int] /\ \A e \in Entries : Zero[e] = 0
  BY DEF Zero
<1>4. ASSUME NEW e \in Entries PROVE Due(e)' = Due(e)
  BY DEF Due, Overdrawn, Handles, kernelVars
<1>5. \A e \in Entries : Due(e)' = Due(e) + Zero[e]
  BY <1>1, <1>3, <1>4, DueType
<1>. QED BY <1>2, <1>3, <1>5, RequestKeeps

\* forget gives up the kernel's lookups.
LEMMA ForgetKeeps ==
  ASSUME Inv, NEW t \in Threads, NEW d \in Entries, fsfuse_forget(t, d)
  PROVE  Inv'
<1>. DEFINE n == lookups[d]
            l == direntry_get_by_inode(d) \o Deletes(d, n + 1)
            net == [e \in Entries |-> IF e = d THEN -n ELSE 0]
<1>1. KernelTypes /\ HandlesCounted
  BY KernelTyped DEF Inv
<1>2. n \in Nat /\ net \in [Entries -> Int]
  BY <1>1 DEF KernelTypes
<1>3. Served(l, net)
  BY <1>2, CopyAndDeletes DEF direntry_get_by_inode
<1>4. /\ Free(t) /\ Serve(t, l) /\ lookups' = [lookups EXCEPT ![d] = 0]
      /\ UNCHANGED <<refs, undefined, opened, refused, released, reads, answered, getattrs, downloads>>
  BY DEF fsfuse_forget
<1>. HIDE DEF l
<1>5. KernelTypes' /\ HandlesCounted'
  BY <1>1, <1>4 DEF KernelTypes, HandlesCounted, Handles
<1>6. \A e \in Entries : Due(e)' = Due(e) + net[e]
  BY <1>1, <1>4 DEF KernelTypes, Due, Overdrawn, Handles
<1>. HIDE DEF net
<1>. QED BY <1>2, <1>3, <1>4, <1>5, <1>6, RequestKeeps

\* getattr deletes a reference that is not its own.
LEMMA GetattrKeeps ==
  ASSUME Inv, NEW t \in Threads, fsfuse_getattr(t)
  PROVE  Inv'
<1>. DEFINE l == Delete("F")
            net == [e \in Entries |-> IF e = "F" THEN -1 ELSE 0]
<1>1. KernelTypes /\ HandlesCounted
  BY KernelTyped DEF Inv
<1>2. net \in [Entries -> Int]
  OBVIOUS
<1>3. Served(l, net)
  <2>. DEFINE m == Deletes("F", 1)
  <2>1. "F" \in Entries
    BY DEF Entries
  <2>2. m \in Seq(Steps) /\ Len(m) = 1 /\ \A i \in 1 .. 1 : m[i] = The("delete", "F")
    BY <2>1, DeletesFacts
  <2>3. l \in Seq(Steps) /\ Len(l) = 1 /\ l[1] = The("delete", "F")
    BY DEF Delete, The, Steps, Entries
  <2>4. Served(m, [e \in Entries |-> IF e = "F" THEN -1 ELSE 0])
    BY <2>1, OnlyDeletes
  <2>5. \A i \in 1 .. 1 : i = 1
    OBVIOUS
  <2>. HIDE DEF l, m
  <2>6. \A i \in 1 .. Len(m) : m[i] = l[i]
    BY <2>2, <2>3, <2>5
  <2>7. m = l
    BY <2>2, <2>3, <2>6, SeqEqual
  <2>. QED BY <2>4, <2>7
<1>4. /\ Free(t) /\ Serve(t, l) /\ getattrs' = getattrs + 1
      /\ UNCHANGED <<refs, undefined, lookups, opened, refused, released, reads, answered, downloads>>
  BY DEF fsfuse_getattr
<1>. HIDE DEF l
<1>5. KernelTypes' /\ HandlesCounted'
  BY <1>1, <1>4 DEF KernelTypes, HandlesCounted, Handles
<1>6. \A e \in Entries : Due(e)' = Due(e) + net[e]
  BY <1>1, <1>4 DEF KernelTypes, Due, Overdrawn, Handles
<1>. HIDE DEF net
<1>. QED BY <1>2, <1>3, <1>4, <1>5, <1>6, RequestKeeps

\* release and releasedir give up a handle and overdraw.
LEMMA ReleaseKeeps ==
  ASSUME Inv, NEW t \in Threads, NEW d \in Entries, Release(t, d)
  PROVE  Inv'
<1>. DEFINE l == Deletes(d, 2)
            net == [e \in Entries |-> IF e = d THEN -2 ELSE 0]
<1>1. KernelTypes /\ HandlesCounted
  BY KernelTyped DEF Inv
<1>2. net \in [Entries -> Int]
  OBVIOUS
<1>3. Served(l, net)
  BY OnlyDeletes
<1>4. /\ Free(t) /\ Serve(t, l) /\ Handles(d) > 0 /\ released' = [released EXCEPT ![d] = @ + 1]
      /\ UNCHANGED <<refs, undefined, lookups, opened, refused, reads, answered, getattrs, downloads>>
  BY DEF Release
<1>. HIDE DEF l
<1>5. KernelTypes' /\ HandlesCounted'
  BY <1>1, <1>4 DEF KernelTypes, HandlesCounted, Handles
<1>6. \A e \in Entries : Due(e)' = Due(e) + net[e]
  BY <1>1, <1>4 DEF KernelTypes, Due, Overdrawn, Handles
<1>. HIDE DEF net
<1>. QED BY <1>2, <1>3, <1>4, <1>5, <1>6, RequestKeeps

\* So is what all threads net, and it is 0 if nobody does anything.
LEMMA NetType ==
  ASSUME NEW W \in Work, NEW e \in Entries
  PROVE  /\ NetTotal(W, e) \in Int
         /\ (\A t \in Threads : W[t] = <<>>) => NetTotal(W, e) = 0
<1>. DEFINE n == [op \in Ops |-> Total(W, The(op, e))]
<1>1. n \in [Ops -> Int]
  BY TotalType
<1>2. NetTotal(W, e) \in Int
  <2>. HIDE DEF n
  <2>1. Balance(n) \in Int
    BY <1>1, BalanceSum
  <2>. QED BY <2>1 DEF NetTotal, n
<1>3. ASSUME \A t \in Threads : W[t] = <<>> PROVE NetTotal(W, e) = 0
  <2>1. \A op \in Ops : Total(W, The(op, e)) = 0
    BY <1>3, TotalType
  <2>. QED BY <2>1 DEF NetTotal, Balance, Ops, Closing
<1>. QED BY <1>2, <1>3

\* A freed entry has been overdrawn twice: what is still to come takes nothing
\* that it does not account for.
LEMMA FreedOverdrawn ==
  ASSUME Inv, ~undefined, NEW e \in Entries, refs[e] = 0
  PROVE  Overdrawn(e) >= 2
<1>1. KernelTypes /\ todo \in Work /\ AllClosed /\ HandlesCounted
  BY KernelTyped DEF Inv, Work
<1>2. NetTotal(todo, e) <= 0
  BY <1>1, ClosedNetsNothing DEF AllClosed
<1>3. refs[e] + NetTotal(todo, e) = Due(e)
  BY DEF Inv, Accounted
<1>4. NetTotal(todo, e) = Due(e)
  <2>1. NetTotal(todo, e) \in Int
    BY <1>1, NetType
  <2>. QED BY <1>3, <2>1
<1>5. /\ lookups[e] \in Nat /\ refused[e] \in Nat /\ downloads \in Nat
      /\ Handles(e) \in Int /\ Handles(e) >= 0 /\ Overdrawn(e) \in Int
  BY <1>1 DEF KernelTypes, HandlesCounted, Handles, Overdrawn
<1>6. Due(e) <= 0
  BY <1>2, <1>4
<1>. QED BY <1>5, <1>6 DEF Due

\* The next step of a request.
LEMMA StepKeeps ==
  ASSUME Inv, NEW t \in Threads, Step(t)
  PROVE  Inv'
<1>. DEFINE s == Head(todo[t])
<1>1. /\ KernelTypes /\ TypeOK /\ AllClosed /\ HandlesCounted /\ todo \in Work
      /\ refs \in [Entries -> Nat] /\ undefined \in BOOLEAN
  BY KernelTyped DEF Inv, Work
<1>2. todo[t] \in Seq(Steps) /\ todo[t] # <<>> /\ ~undefined /\ Closed(todo[t])
  BY <1>1 DEF Step, Work, AllClosed
<1>3. /\ s \in Steps /\ Tail(todo[t]) \in Seq(Steps) /\ Closed(Tail(todo[t]))
      /\ \A e \in Entries : Net(Tail(todo[t]), e) = Net(todo[t], e) - Net(<<s>>, e)
  BY <1>2, TailFacts
<1>4. s.of \in Entries /\ s.op \in Ops /\ (s.op = "thread" => s.of = "F")
  BY <1>3 DEF Steps, Ops, Closing
<1>5. CASE s.op \in {"copy", "delete"} /\ refs[s.of] = 0
  <2>1. undefined' = TRUE /\ UNCHANGED <<refs, todo, kernelVars>>
    BY <1>5 DEF Step
  <2>2. TypeOK' /\ AllClosed' /\ HandlesCounted'
    BY <1>1, <2>1 DEF TypeOK, AllClosed, HandlesCounted, Handles, kernelVars
  <2>3. PICK d \in Entries : refs[d] = 0
    BY <1>4, <1>5
  <2>4. Overdrawn(d)' = Overdrawn(d)
    BY <2>1 DEF Overdrawn, kernelVars
  <2>5. OnlyOverdraftsFree'
    BY <1>2, <2>3, <2>4, FreedOverdrawn DEF OnlyOverdraftsFree
  <2>6. Accounted'
    BY <2>1 DEF Accounted
  <2>. QED BY <2>2, <2>5, <2>6 DEF Inv
<1>6. CASE ~(s.op \in {"copy", "delete"} /\ refs[s.of] = 0)
  <2>1. /\ refs' = Counted(s) /\ todo' = [todo EXCEPT ![t] = Tail(todo[t])]
        /\ lookups' = Bump(lookups, s, "entry") /\ opened' = Bump(opened, s, "open")
        /\ refused' = Bump(refused, s, "error")
        /\ downloads' = downloads + (IF s.op = "thread" THEN 1 ELSE 0)
        /\ UNCHANGED <<undefined, released, reads, answered, getattrs>>
    BY <1>6 DEF Step
  <2>. HIDE DEF s
  <2>2. todo' \in Work /\ AllClosed'
    <3>1. todo' \in Work
      BY <1>1, <1>3, <2>1 DEF Work
    <3>2. \A u \in Threads : todo'[u] = IF u = t THEN Tail(todo[t]) ELSE todo[u]
      BY <1>1, <2>1 DEF Work
    <3>. QED BY <1>1, <1>3, <3>1, <3>2 DEF AllClosed
  <2>3. ASSUME NEW e \in Entries
        PROVE  /\ NetTotal(todo, e) \in Int
               /\ NetTotal(todo', e) = NetTotal(todo, e) - Net(<<s>>, e)
    <3>1. /\ NetTotal(todo, e) \in Int
          /\ NetTotal(todo', e) = NetTotal(todo, e) - Net(todo[t], e) + Net(Tail(todo[t]), e)
      BY <1>1, <1>3, <2>1, NetReplace
    <3>2. Net(todo[t], e) \in Int /\ Net(<<s>>, e) \in Int
      <4>1. <<s>> \in Seq(Steps)
        BY <1>3
      <4>. QED BY <1>2, <4>1, NetFacts
    <3>3. Net(Tail(todo[t]), e) = Net(todo[t], e) - Net(<<s>>, e)
      BY <1>3
    <3>. QED BY <3>1, <3>2, <3>3
  <2>4. \A e \in Entries : Net(<<s>>, e) = IF s.of # e THEN 0 ELSE IF s.op = "copy" THEN 1 ELSE -1
    BY <1>3, NetFacts
  <2>5. /\ refs' \in [Entries -> Nat]
        /\ \A e \in Entries : refs'[e] = refs[e] + (IF s.of # e THEN 0 ELSE IF s.op = "copy" THEN 1
                                                    ELSE IF s.op = "delete" THEN -1 ELSE 0)
    <3>. DEFINE d == s.of
                k == IF s.op = "copy" THEN 1 ELSE IF s.op = "delete" THEN -1 ELSE 0
    <3>1. refs' = [refs EXCEPT ![d] = refs[d] + k]
      BY <2>1 DEF Counted
    <3>2. d \in Entries /\ refs[d] + k \in Nat /\ k \in Int
      BY <1>1, <1>4, <1>6
    <3>3. k = IF s.op = "copy" THEN 1 ELSE IF s.op = "delete" THEN -1 ELSE 0
      OBVIOUS
    <3>. HIDE DEF k
    <3>4. \A e \in Entries : refs'[e] = refs[e] + (IF d # e THEN 0 ELSE k)
      BY <1>1, <3>1, <3>2
    <3>5. refs' \in [Entries -> Nat]
      BY <1>1, <3>1, <3>2
    <3>. QED BY <3>3, <3>4, <3>5
  <2>6. KernelTypes' /\ HandlesCounted'
    <3>1. ASSUME NEW f \in [Entries -> Nat], NEW op
          PROVE  /\ Bump(f, s, op) \in [Entries -> Nat]
                 /\ \A e \in Entries : Bump(f, s, op)[e] >= f[e]
      BY <1>4 DEF Bump
    <3>2. /\ lookups \in [Entries -> Nat] /\ opened \in [Entries -> Nat]
          /\ refused \in [Entries -> Nat] /\ released \in [Entries -> Nat]
          /\ reads \in Nat /\ answered \in Nat /\ getattrs \in Nat /\ downloads \in Nat
      BY <1>1 DEF KernelTypes
    <3>3. /\ lookups' \in [Entries -> Nat] /\ refused' \in [Entries -> Nat]
          /\ opened' \in [Entries -> Nat] /\ \A e \in Entries : opened'[e] >= opened[e]
      BY <2>1, <3>1, <3>2
    <3>4. downloads' \in Nat
      BY <2>1, <3>2
    <3>5. KernelTypes'
      BY <2>1, <3>2, <3>3, <3>4 DEF KernelTypes
    <3>6. ASSUME NEW e \in Entries PROVE opened'[e] - released'[e] >= 0
      <4>1. opened[e] \in Nat /\ opened'[e] \in Nat /\ released[e] \in Nat
        BY <3>2, <3>3
      <4>2. opened[e] - released[e] >= 0
        BY <1>1 DEF HandlesCounted, Handles
      <4>3. opened'[e] >= opened[e] /\ released'[e] = released[e]
        BY <2>1, <3>3
      <4>. QED BY <4>1, <4>2, <4>3
    <3>. QED BY <3>5, <3>6 DEF HandlesCounted, Handles
  <2>7. ASSUME NEW e \in Entries
        PROVE  Due(e)' = Due(e) + (IF s.of # e \/ s.op \in {"copy", "delete"} THEN 0 ELSE 1)
    <3>1. /\ lookups'[e] = lookups[e] + (IF s.of = e /\ s.op = "entry" THEN 1 ELSE 0)
          /\ opened'[e] = opened[e] + (IF s.of = e /\ s.op = "open" THEN 1 ELSE 0)
          /\ refused'[e] = refused[e] + (IF s.of = e /\ s.op = "error" THEN 1 ELSE 0)
      <4>1. ASSUME NEW f \in [Entries -> Nat], NEW op
            PROVE  Bump(f, s, op)[e] = f[e] + (IF s.of = e /\ s.op = op THEN 1 ELSE 0)
        BY <1>4 DEF Bump
      <4>2. /\ lookups \in [Entries -> Nat] /\ opened \in [Entries -> Nat]
            /\ refused \in [Entries -> Nat]
        BY <1>1 DEF KernelTypes
      <4>. QED BY <2>1, <4>1, <4>2
    <3>2. (IF e = "F" THEN downloads' ELSE 0)
            = (IF e = "F" THEN downloads ELSE 0) + (IF s.of = e /\ s.op = "thread" THEN 1 ELSE 0)
      BY <1>1, <1>4, <2>1 DEF KernelTypes
    <3>3. Overdrawn(e)' = Overdrawn(e) /\ Overdrawn(e) \in Int
      BY <1>1, <2>1 DEF Overdrawn, KernelTypes
    <3>4. /\ lookups[e] \in Int /\ opened[e] \in Int /\ released[e] \in Int /\ refused[e] \in Int
          /\ downloads \in Int /\ released'[e] = released[e]
      BY <1>1, <2>1 DEF KernelTypes
    <3>. QED BY <1>4, <3>1, <3>2, <3>3, <3>4 DEF Due, Handles, Ops, Closing
  <2>8. ASSUME NEW e \in Entries PROVE refs'[e] + NetTotal(todo', e) = Due(e)'
    <3>1. refs[e] + NetTotal(todo, e) = Due(e) /\ Due(e) \in Int /\ refs[e] \in Int
      BY <1>1, <1>2, DueType DEF Inv, Accounted
    <3>. QED BY <2>3, <2>4, <2>5, <2>7, <3>1
  <2>9. TypeOK'
    BY <1>1, <2>1, <2>2, <2>5, <2>6 DEF TypeOK, KernelTypes, Work
  <2>10. Accounted' /\ OnlyOverdraftsFree'
    BY <1>2, <2>1, <2>8 DEF Accounted, OnlyOverdraftsFree
  <2>. QED BY <2>2, <2>6, <2>9, <2>10 DEF Inv
<1>. QED BY <1>5, <1>6

\* A read under way holds nothing.
LEMMA ReadKeeps == Inv /\ fsfuse_read => Inv'
<1>. SUFFICES ASSUME Inv, fsfuse_read PROVE Inv'
  OBVIOUS
<1>1. TypeOK' /\ AllClosed' /\ HandlesCounted'
  BY DEF Inv, fsfuse_read, TypeOK, AllClosed, HandlesCounted, Handles
<1>2. Accounted' /\ OnlyOverdraftsFree'
  BY DEF Inv, fsfuse_read, Accounted, Due, Handles, Overdrawn, OnlyOverdraftsFree
<1>. QED BY <1>1, <1>2 DEF Inv

\* The download threads.
LEMMA DownloadKeeps ==
  ASSUME Inv, chunk_done \/ thread_delete
  PROVE  Inv'
<1>1. /\ KernelTypes /\ TypeOK /\ AllClosed /\ HandlesCounted
      /\ refs \in [Entries -> Nat] /\ undefined \in BOOLEAN /\ "F" \in Entries
  BY KernelTyped DEF Inv, Entries
<1>2. /\ ~undefined /\ DeleteFile
      /\ UNCHANGED <<todo, lookups, opened, refused, released, getattrs>>
  BY DEF chunk_done, thread_delete
<1>3. \/ /\ reads > 0 /\ reads' = reads - 1 /\ answered' = answered + 1 /\ downloads' = downloads
      \/ /\ downloads > 0 /\ downloads' = downloads - 1 /\ reads' = reads /\ answered' = answered
  BY DEF chunk_done, thread_delete
<1>4. KernelTypes' /\ AllClosed' /\ HandlesCounted'
  BY <1>1, <1>2, <1>3 DEF KernelTypes, AllClosed, HandlesCounted, Handles
<1>5. \A e \in Entries : Due(e)' = Due(e) - (IF e = "F" THEN 1 ELSE 0)
  BY <1>1, <1>2, <1>3 DEF KernelTypes, Due, Handles, Overdrawn
<1>6. CASE refs["F"] = 0
  <2>1. undefined' = TRUE /\ UNCHANGED refs
    BY <1>2, <1>6 DEF DeleteFile
  <2>2. TypeOK'
    BY <1>1, <1>2, <1>4, <2>1 DEF TypeOK, KernelTypes
  <2>3. Overdrawn("F") >= 2
    BY <1>1, <1>2, <1>6, FreedOverdrawn
  <2>4. Overdrawn("F")' >= Overdrawn("F") /\ Overdrawn("F") \in Int /\ Overdrawn("F")' \in Int
    BY <1>1, <1>2, <1>3 DEF Overdrawn, KernelTypes
  <2>5. \E e \in Entries : Overdrawn(e)' >= 2
    BY <1>1, <2>3, <2>4
  <2>. QED BY <1>4, <2>1, <2>2, <2>5 DEF Inv, Accounted, OnlyOverdraftsFree
<1>7. CASE refs["F"] # 0
  <2>1. refs' = [refs EXCEPT !["F"] = @ - 1] /\ UNCHANGED undefined
    BY <1>2, <1>7 DEF DeleteFile
  <2>2. refs' \in [Entries -> Nat] /\ \A e \in Entries : refs'[e] = refs[e] - (IF e = "F" THEN 1 ELSE 0)
    BY <1>1, <1>7, <2>1
  <2>3. TypeOK'
    BY <1>1, <1>2, <1>4, <2>1, <2>2 DEF TypeOK, KernelTypes
  <2>4. ASSUME NEW e \in Entries PROVE refs'[e] + NetTotal(todo', e) = Due(e)'
    <3>1. /\ refs[e] + NetTotal(todo, e) = Due(e) /\ Due(e) \in Int /\ refs[e] \in Int
          /\ todo' = todo
      BY <1>1, <1>2, DueType DEF Inv, Accounted
    <3>2. NetTotal(todo, e) \in Int
      BY <1>1, NetType DEF TypeOK, Work
    <3>. QED BY <1>5, <2>2, <3>1, <3>2
  <2>. QED BY <1>2, <1>4, <2>1, <2>3, <2>4 DEF Inv, Accounted, OnlyOverdraftsFree
<1>. QED BY <1>6, <1>7

\* The start.
LEMMA InitInv == Init => Inv
<1>. SUFFICES ASSUME Init PROVE Inv
  OBVIOUS
<1>1. todo \in Work /\ \A t \in Threads : todo[t] = <<>>
  BY Nothing DEF Init, Work
<1>2. TypeOK
  <2>1. Zero \in [Entries -> Nat]
    BY DEF Zero
  <2>2. refs \in [Entries -> Nat]
    BY DEF Init
  <2>3. lookups \in [Entries -> Nat]
    BY <2>1 DEF Init
  <2>4. opened = Zero /\ refused = Zero /\ released = Zero
    BY DEF Init
  <2>5. reads = 0 /\ answered = 0 /\ getattrs = 0 /\ downloads = 0 /\ undefined = FALSE
    BY DEF Init
  <2>6. \A f \in {lookups, opened, refused, released} : f \in [Entries -> Nat]
    BY <2>1, <2>3, <2>4
  <2>7. {reads, answered, getattrs, downloads} \subseteq Nat
    BY <2>5
  <2>. QED BY <1>1, <2>2, <2>5, <2>6, <2>7 DEF TypeOK, Work
<1>3. AllClosed
  BY <1>1, Nothing DEF AllClosed
<1>4. \A e \in Entries : NetTotal(todo, e) = 0
  BY <1>1, NetType
<1>5. HandlesCounted /\ OnlyOverdraftsFree
  BY DEF Init, HandlesCounted, Handles, Zero, OnlyOverdraftsFree
<1>6. ASSUME NEW e \in Entries PROVE refs[e] + NetTotal(todo, e) = Due(e)
  BY <1>4 DEF Init, Due, Handles, Overdrawn, Zero, Entries
<1>. QED BY <1>2, <1>3, <1>5, <1>6 DEF Inv, Accounted

\* One case for each handler.
LEMMA NextInv == Inv /\ [Next]_vars => Inv'
<1>. SUFFICES ASSUME Inv, [Next]_vars PROVE Inv'
  OBVIOUS
<1>1. ASSUME NEW t \in Threads, NEW d \in Entries, fsfuse_lookup(t, d) PROVE Inv'
  <2>1. PICK l : Served(l, Zero) /\ Serve(t, l)
    BY <1>1, BalancedLists DEF fsfuse_lookup
  <2>. QED BY <1>1, <2>1, KeepsBooks DEF fsfuse_lookup
<1>2. ASSUME NEW t \in Threads, NEW d \in Entries, fsfuse_access(t, d) \/ fsfuse_opendir(t, d) PROVE Inv'
  <2>1. PICK l : Served(l, Zero) /\ Serve(t, l)
    BY <1>2, BalancedLists DEF fsfuse_access, fsfuse_opendir
  <2>. QED BY <1>2, <2>1, KeepsBooks DEF fsfuse_access, fsfuse_opendir
<1>3. ASSUME NEW t \in Threads, fsfuse_open(t) PROVE Inv'
  <2>1. "F" \in Entries
    BY DEF Entries
  <2>2. PICK l : Served(l, Zero) /\ Serve(t, l)
    BY <1>3, <2>1, BalancedLists DEF fsfuse_open
  <2>. QED BY <1>3, <2>2, KeepsBooks DEF fsfuse_open
<1>4. ASSUME NEW t \in Threads, fsfuse_readdir(t) PROVE Inv'
  <2>1. PICK l : Served(l, Zero) /\ Serve(t, l)
    BY <1>4, BalancedLists DEF fsfuse_readdir
  <2>. QED BY <1>4, <2>1, KeepsBooks DEF fsfuse_readdir
<1>5. ASSUME NEW t \in Threads, fsfuse_release(t) \/ fsfuse_releasedir(t) PROVE Inv'
  BY <1>5, ReleaseKeeps DEF fsfuse_release, fsfuse_releasedir, Entries
<1>6. CASE UNCHANGED vars
  BY <1>6 DEF vars, kernelVars, Inv, TypeOK, AllClosed, HandlesCounted, Handles, Accounted, Due,
              Overdrawn, OnlyOverdraftsFree
<1>. QED BY <1>1, <1>2, <1>3, <1>4, <1>5, <1>6, ForgetKeeps, GetattrKeeps, StepKeeps, ReadKeeps,
            DownloadKeeps DEF Next

\* The inductive invariant holds.
THEOREM Invariance == Spec => []Inv
<1>1. Init => Inv
  BY InitInv
<1>2. Inv /\ [Next]_vars => Inv'
  BY NextInv
<1>. QED BY <1>1, <1>2, PTL DEF Spec

(***************************************************************************)
(* Counters stay natural numbers: no reference count goes below 0, and no  *)
(* step names an entry that is not there.                                  *)
(***************************************************************************)
THEOREM TypeCorrect == Spec => []TypeOK
<1>1. Inv => TypeOK
  BY DEF Inv
<1>. QED BY <1>1, Invariance, PTL

(***************************************************************************)
(* For any number of FUSE threads and of requests, an entry's count is     *)
(* what the map, the listing, lookups, handles and download threads hold,  *)
(* what refused opens leaked, less what was overdrawn, up to the steps     *)
(* still to come.                                                          *)
(***************************************************************************)
THEOREM CountsAccountedFor == Spec => []RefsAccounted
<1>1. ASSUME Inv PROVE RefsAccounted
  <2>1. KernelTypes /\ todo \in Work /\ refs \in [Entries -> Nat]
    BY <1>1, KernelTyped DEF Inv, Work
  <2>2. ASSUME NEW e \in Entries
        PROVE  /\ Pending(Copy(e)) = Total(todo, The("copy", e))
               /\ Pending(Delete(e)) = Total(todo, The("delete", e))
               /\ Pending(ReplyEntry(e)) = Total(todo, The("entry", e))
               /\ Pending(ReplyOpen(e)) = Total(todo, The("open", e))
               /\ Pending(ReplyError(e)) = Total(todo, The("error", e))
               /\ Pending(StartThread(e)) = Total(todo, The("thread", e))
    <3>1. \A s : Pending(<<s>>) = Total(todo, s)
      <4>1. \A s : <<s>>[1] = s
        OBVIOUS
      <4>. QED BY <4>1 DEF Pending, Awaited, Total, Within, Places
    <3>. QED BY <3>1, Zenon DEF Copy, Delete, ReplyEntry, ReplyOpen, ReplyError, StartThread, The
  <2>3. ASSUME ~undefined, NEW e \in Entries
        PROVE  refs[e] + Pending(Copy(e)) - Pending(Delete(e))
                 = 2 + lookups[e] + Pending(ReplyEntry(e))
                     + Handles(e) + Pending(ReplyOpen(e)) + refused[e] + Pending(ReplyError(e))
                     + (IF e = "F" THEN downloads ELSE 0) + Pending(StartThread(e))
                     - Overdrawn(e)
    <3>. DEFINE n == [op \in Ops |-> Total(todo, The(op, e))]
    <3>1. n \in [Ops -> Nat]
      BY <2>1, TotalType
    <3>2. /\ Pending(Copy(e)) = n["copy"] /\ Pending(Delete(e)) = n["delete"]
          /\ Pending(ReplyEntry(e)) = n["entry"] /\ Pending(ReplyOpen(e)) = n["open"]
          /\ Pending(ReplyError(e)) = n["error"] /\ Pending(StartThread(e)) = n["thread"]
      BY <2>2 DEF Ops, Closing
    <3>3. refs[e] + Balance(n) = Due(e)
      BY <1>1, <2>3 DEF Inv, Accounted, NetTotal
    <3>. HIDE DEF n
    <3>4. /\ n["copy"] \in Int /\ n["delete"] \in Int /\ n["entry"] \in Int
          /\ n["open"] \in Int /\ n["error"] \in Int /\ n["thread"] \in Int
      BY <3>1 DEF Ops, Closing
    <3>5. /\ refs[e] \in Int /\ lookups[e] \in Int /\ Handles(e) \in Int /\ refused[e] \in Int
          /\ downloads \in Int /\ Overdrawn(e) \in Int
      BY <2>1 DEF KernelTypes, Handles, Overdrawn
    <3>. DEFINE k == IF e = "F" THEN downloads ELSE 0
    <3>6. k \in Int
      BY <3>5
    <3>7. Due(e) = 2 + lookups[e] + Handles(e) + refused[e] + k - Overdrawn(e)
      BY DEF Due
    <3>8. Balance(n) = n["copy"] - n["delete"] - n["entry"] - n["open"] - n["error"] - n["thread"]
      BY DEF Balance
    <3>. DEFINE pc == Pending(Copy(e))
                pd == Pending(Delete(e))
                pe == Pending(ReplyEntry(e))
                po == Pending(ReplyOpen(e))
                pr == Pending(ReplyError(e))
                pt == Pending(StartThread(e))
    <3>9. /\ pc = n["copy"] /\ pd = n["delete"] /\ pe = n["entry"]
          /\ po = n["open"] /\ pr = n["error"] /\ pt = n["thread"]
      BY <3>2
    <3>. HIDE DEF k, pc, pd, pe, po, pr, pt
    <3>10. /\ pc \in Int /\ pd \in Int /\ pe \in Int /\ po \in Int /\ pr \in Int /\ pt \in Int
           /\ Balance(n) = pc - pd - pe - po - pr - pt
      BY <3>4, <3>8, <3>9
    <3>11. refs[e] + pc - pd
             = 2 + lookups[e] + pe + Handles(e) + po + refused[e] + pr + k + pt - Overdrawn(e)
      BY <3>3, <3>5, <3>6, <3>7, <3>10
    <3>. QED BY <3>11 DEF k, pc, pd, pe, po, pr, pt
  <2>. QED BY <2>3 DEF RefsAccounted
<1>. QED BY <1>1, Invariance, PTL

(***************************************************************************)
(* For any number of FUSE threads and of requests, a freed entry is        *)
(* touched only after two references to some entry were overdrawn.         *)
(***************************************************************************)
THEOREM FreedOnlyByOverdrafts == Spec => []OnlyOverdraftsFree
<1>1. Inv => OnlyOverdraftsFree
  BY DEF Inv
<1>. QED BY <1>1, Invariance, PTL
=============================================================================
