---------------------------- MODULE StartupProofs -----------------------------
(***************************************************************************)
(* The main program and its layers of configuration, for any number of     *)
(* threads, any config files and any options.                              *)
(***************************************************************************)
EXTENDS Startup, SequenceTheorems, WellFoundedInduction, TLAPS

-----------------------------------------------------------------------------
(***************************************************************************)
(* Layers.                                                                 *)
(***************************************************************************)

\* A set of indices that is not empty has a largest one.
LEMMA LargestIndex ==
  ASSUME NEW n \in Nat, NEW I \in SUBSET (1 .. n), I # {}
  PROVE  Max(I) \in I /\ \A i \in I : i <= Max(I)
<1>1. \E R : IsWellFoundedOn(R, Nat) /\ \A x, y \in Nat : x < y => <<x, y>> \in R
  <2>1. IsWellFoundedOn(OpToRel(<, Nat), Nat)
    BY NatLessThanWellFounded
  <2>2. \A x, y \in Nat : x < y => <<x, y>> \in OpToRel(<, Nat)
    BY DEF OpToRel
  <2>. QED BY <2>1, <2>2, Zenon
<1>2. PICK R : IsWellFoundedOn(R, Nat) /\ \A x, y \in Nat : x < y => <<x, y>> \in R
  BY <1>1
<1>. DEFINE T == {n - i : i \in I}
<1>0. \A i \in I : n - i \in Nat
  OBVIOUS
<1>3. PICK x \in T : \A y \in T : ~(<<y, x>> \in R)
  <2>1. IsWellFoundedOn(R, Nat) /\ T \subseteq Nat /\ T # {}
    BY <1>2, <1>0
  <2>. HIDE DEF T
  <2>. QED BY <2>1, WFMin, Zenon
<1>4. PICK m \in I : x = n - m
  BY <1>3
<1>5. \A i \in I : ~(n - i < n - m)
  <2>. SUFFICES ASSUME NEW i \in I, n - i < n - m PROVE FALSE
    OBVIOUS
  <2>1. n - i \in T /\ n - i \in Nat /\ n - m \in Nat
    BY <1>0
  <2>2. <<n - i, n - m>> \in R
    BY <1>2, <2>1
  <2>. QED BY <1>3, <1>4, <2>1, <2>2
<1>6. \A i \in I : i <= m
  BY <1>5
<1>7. \A i \in I : m >= i
  BY <1>6
<1>8. Max(I) \in I /\ \A i \in I : Max(I) >= i
  BY <1>7 DEF Max
<1>. QED BY <1>8

\* A layer gives some items a value that is 0 or 1.
LEMMA LayerFacts ==
  /\ \A l \in Layer : DOMAIN l \subseteq Items /\ \A i \in DOMAIN l : l[i] \in {0, 1}
  /\ \A P \in SUBSET Items : \A l \in [P -> {0, 1}] : l \in Layer
BY DEF Layer

\* The layer that i is read from, in a stack that has one for it.
TopLayer(layers, i) == {n \in 1 .. Len(layers) : i \in DOMAIN layers[n]}

\* Value looks from the top down.
LEMMA ValueFromTop ==
  ASSUME NEW s \in Seq(Layer), NEW i \in Items
  PROVE  TopLayer(s, i) # {} => Value(s, i) = s[Max(TopLayer(s, i))][i]
BY DEF Value, SelectLastInSeq, TopLayer

\* A pushed layer decides the items that it has, and leaves the others.
LEMMA PushedValue ==
  ASSUME NEW s \in Seq(Layer), NEW l \in Layer, NEW i \in Items
  PROVE  /\ i \in DOMAIN l => TopLayer(Append(s, l), i) # {} /\ Value(Append(s, l), i) = l[i]
         /\ TopLayer(s, i) # {} /\ i \notin DOMAIN l =>
              TopLayer(Append(s, l), i) # {} /\ Value(Append(s, l), i) = Value(s, i)
<1>. DEFINE t == Append(s, l)
            n == Len(s)
<1>1. /\ n \in Nat /\ t \in Seq(Layer) /\ Len(t) = n + 1 /\ t[n + 1] = l
      /\ \A k \in 1 .. n : t[k] = s[k]
  BY AppendProperties
<1>. HIDE DEF t, n
<1>2. CASE i \in DOMAIN l
  <2>1. n + 1 \in TopLayer(t, i) /\ TopLayer(t, i) \in SUBSET (1 .. n + 1)
    BY <1>1, <1>2 DEF TopLayer
  <2>2. Max(TopLayer(t, i)) \in 1 .. n + 1 /\ n + 1 <= Max(TopLayer(t, i))
    <3>1. n + 1 \in Nat /\ TopLayer(t, i) # {}
      BY <1>1, <2>1
    <3>. QED BY <2>1, <3>1, LargestIndex
  <2>3. Max(TopLayer(t, i)) = n + 1
    BY <1>1, <2>2
  <2>4. Value(t, i) = t[Max(TopLayer(t, i))][i]
    BY <1>1, <2>1, ValueFromTop
  <2>. QED BY <1>1, <1>2, <2>1, <2>3, <2>4 DEF t
<1>3. CASE i \notin DOMAIN l
  <2>1. TopLayer(t, i) = TopLayer(s, i) /\ TopLayer(s, i) \in SUBSET (1 .. n)
    BY <1>1, <1>3 DEF TopLayer, n
  <2>2. TopLayer(s, i) # {} => Max(TopLayer(s, i)) \in 1 .. n
    BY <1>1, <2>1, LargestIndex
  <2>3. TopLayer(s, i) # {} => t[Max(TopLayer(s, i))] = s[Max(TopLayer(s, i))]
    BY <1>1, <2>2
  <2>4. TopLayer(s, i) # {} => /\ Value(t, i) = t[Max(TopLayer(t, i))][i]
                               /\ Value(s, i) = s[Max(TopLayer(s, i))][i]
    BY <1>1, <2>1, ValueFromTop
  <2>. QED BY <1>3, <2>1, <2>3, <2>4 DEF t
<1>. QED BY <1>2, <1>3

-----------------------------------------------------------------------------
(***************************************************************************)
(* Until my_fuse_main no thread but main's runs, so nobody has a reader    *)
(* when data_push moves the array; and from the first file on there is a   *)
(* configuration, until pre_init_bail deletes it.                          *)
(***************************************************************************)
Before == {"version", "files", "switch", "init"}

Alone ==
  main \in Before =>
    /\ downloads = {} /\ settings = NoReader /\ ~mounted
    /\ \A r \in Readers : reader[r] = NoReader

Configured ==
  /\ main = "version" => files = <<>> /\ ~singleton
  /\ main = "files" /\ files # <<>> => singleton
  /\ main \in {"switch", "init", "session", "finalise"} => singleton
  /\ main = "bail" => singleton \/ files = <<>>

\* What the threads find.
Sound ==
  /\ \A r \in Readers :
       reader[r] # NoReader => ~reader[r].stale /\ (reader[r].dead => main = "exit")
  /\ undefined = "assert" => files = <<>>
  /\ undefined = "config" => main = "exit"

(***************************************************************************)
(* What the stack says of each item, as it grows.                          *)
(***************************************************************************)
Current == config_singleton_get

Layered ==
  /\ main \in Before =>
       \A i \in Items : TopLayer(Current, i) # {} /\ Value(Current, i) \in {0, 1}
  /\ main \in {"version", "files"} =>
       /\ \A i \in Integer \cup String : Value(Current, i) = FromFiles(i)
       /\ \A i \in Collection : Value(Current, i) = FromLastFile(i)
  /\ main \in {"switch", "init"} => \A i \in Items : Value(Current, i) = Effective(i)

Inv == TypeOK /\ Alone /\ Configured /\ Sound /\ Layered /\ LayersOverride

-----------------------------------------------------------------------------
(***************************************************************************)
(* The operations of config_manager.c.                                     *)
(***************************************************************************)

Reader == [layers : Seq(Layer), stale : BOOLEAN, dead : BOOLEAN]

\* What config_singleton_get finds or makes is a stack with a layer in it.
LEMMA CurrentType ==
  ASSUME ConfigTypeOK
  PROVE  Current \in Seq(Layer) /\ Current # <<>> /\ Defaults \in Layer
<1>1. Defaults \in [Items -> {0, 1}]
  BY DEF Defaults
<1>2. Defaults \in Layer
  BY <1>1, LayerFacts
<1>3. <<>> \in Seq(Layer)
  OBVIOUS
<1>4. Append(<<>>, Defaults) \in Seq(Layer) /\ Append(<<>>, Defaults) # <<>>
  BY <1>2, <1>3, AppendProperties
<1>. QED BY <1>2, <1>4 DEF Current, config_singleton_get, data_push, ConfigTypeOK

\* config_manager_add pushes a layer; nobody's reader but those that exist.
LEMMA AddFacts ==
  ASSUME ConfigTypeOK, NEW l \in Layer, config_manager_add(l)
  PROVE  /\ ConfigTypeOK' /\ singleton' /\ Current' = Append(Current, l)
         /\ (\A r \in Readers : reader[r] = NoReader) => \A r \in Readers : reader'[r] = NoReader
<1>1. Current \in Seq(Layer)
  BY CurrentType
<1>2. singleton' = TRUE /\ stack' = Append(Current, l)
  BY DEF config_manager_add, data_push, Current
<1>3. stack' \in Seq(Layer) /\ stack' # <<>>
  BY <1>1, <1>2, AppendProperties
<1>4. Current' = stack'
  BY <1>2 DEF Current, config_singleton_get
<1>5. reader' \in [Readers -> {NoReader} \cup Reader]
  <2>1. Moved \in [Readers -> {NoReader} \cup Reader]
    BY DEF Moved, ConfigTypeOK, Reader
  <2>. QED BY <2>1 DEF config_manager_add, ConfigTypeOK, Reader
<1>6. (\A r \in Readers : reader[r] = NoReader) => \A r \in Readers : reader'[r] = NoReader
  BY DEF config_manager_add, Moved
<1>. QED BY <1>2, <1>3, <1>4, <1>5, <1>6 DEF ConfigTypeOK, Reader

\* config_get_reader makes the singleton if there is none.
LEMMA GetReaderFacts ==
  ASSUME ConfigTypeOK, NEW t \in Readers, config_get_reader(t)
  PROVE  /\ ConfigTypeOK' /\ singleton'
         /\ \A r \in Readers :
              r # t => reader'[r] = reader[r]
         /\ ~reader'[t].stale /\ ~reader'[t].dead
<1>1. Current \in Seq(Layer) /\ Current # <<>>
  BY CurrentType
<1>2. /\ singleton' = TRUE /\ stack' = Current
      /\ reader' = [reader EXCEPT ![t] = [layers |-> Current, stale |-> FALSE, dead |-> FALSE]]
  BY DEF config_get_reader, Current
<1>3. [layers |-> Current, stale |-> FALSE, dead |-> FALSE] \in Reader
  BY <1>1 DEF Reader
<1>4. reader \in [Readers -> {NoReader} \cup Reader]
  BY DEF ConfigTypeOK, Reader
<1>5. reader' \in [Readers -> {NoReader} \cup Reader]
  BY <1>2, <1>3, <1>4
<1>. QED BY <1>1, <1>2, <1>4, <1>5 DEF ConfigTypeOK, Reader

\* config_reader_delete and config_singleton_delete.
LEMMA DeleteFacts ==
  ASSUME ConfigTypeOK
  PROVE  /\ \A t \in Readers : config_reader_delete(t) =>
              /\ ConfigTypeOK' /\ UNCHANGED <<singleton, stack>>
              /\ \A r \in Readers : reader'[r] \in {reader[r], NoReader}
         /\ config_singleton_delete =>
              /\ ConfigTypeOK'
              /\ \A r \in Readers :
                   reader'[r] # NoReader => reader[r] # NoReader /\ reader'[r].stale = reader[r].stale
<1>1. reader \in [Readers -> {NoReader} \cup Reader]
  BY DEF ConfigTypeOK, Reader
<1>2. ASSUME NEW t \in Readers, config_reader_delete(t)
      PROVE  /\ ConfigTypeOK' /\ UNCHANGED <<singleton, stack>>
             /\ \A r \in Readers : reader'[r] \in {reader[r], NoReader}
  <2>1. reader' = [reader EXCEPT ![t] = NoReader] /\ UNCHANGED <<singleton, stack>>
    BY <1>2 DEF config_reader_delete
  <2>2. reader' \in [Readers -> {NoReader} \cup Reader]
    BY <1>1, <2>1
  <2>. QED BY <1>1, <2>1, <2>2 DEF ConfigTypeOK, Reader
<1>3. ASSUME config_singleton_delete
      PROVE  /\ ConfigTypeOK'
             /\ \A r \in Readers :
                  reader'[r] # NoReader => reader[r] # NoReader /\ reader'[r].stale = reader[r].stale
  <2>1. /\ singleton' = FALSE /\ stack' = <<>>
        /\ reader' = [r \in Readers |-> IF reader[r] = NoReader THEN NoReader
                                        ELSE [reader[r] EXCEPT !.dead = TRUE]]
    BY <1>3 DEF config_singleton_delete
  <2>2. reader' \in [Readers -> {NoReader} \cup Reader]
    BY <1>1, <2>1 DEF Reader
  <2>3. ConfigTypeOK'
    <3>1. stack' \in Seq(Layer)
      BY <2>1
    <3>2. singleton' \in BOOLEAN
      BY <2>1
    <3>3. singleton' <=> stack' # <<>>
      BY <2>1, Zenon
    <3>. QED BY <2>2, <3>1, <3>2, <3>3 DEF ConfigTypeOK, Reader
  <2>4. ASSUME NEW r \in Readers, reader'[r] # NoReader
        PROVE  reader[r] # NoReader /\ reader'[r].stale = reader[r].stale
    <3>1. reader[r] # NoReader /\ reader'[r] = [reader[r] EXCEPT !.dead = TRUE]
      BY <2>1, <2>4
    <3>2. reader[r] \in Reader
      BY <1>1, <3>1
    <3>. QED BY <3>1, <3>2 DEF Reader
  <2>. QED BY <2>3, <2>4
<1>. QED BY <1>2, <1>3

\* The layers that files and the command line make.
LEMMA MadeLayers ==
  /\ \A f \in Layer :
       LET l == config_loader_tryread_from_file(f)
       IN /\ l \in Layer /\ DOMAIN l = DOMAIN f \cup Collection
          /\ \A i \in DOMAIN l : l[i] = IF i \in DOMAIN f THEN f[i] ELSE 0
  /\ \A d, g, h \in BOOLEAN :
       LET l == [i \in {x \in Integer : \/ x = "proc_debug" /\ d
                                        \/ x = "proc_singlethread" /\ g
                                        \/ x = "proc_fg" /\ h} |-> 1]
       IN /\ l \in Layer /\ \A i \in DOMAIN l : l[i] = 1
          /\ DOMAIN l = {x \in Integer : \/ x = "proc_debug" /\ d
                                         \/ x = "proc_singlethread" /\ g
                                         \/ x = "proc_fg" /\ h}
<1>1. ASSUME NEW f \in Layer
      PROVE  LET l == config_loader_tryread_from_file(f)
             IN /\ l \in Layer /\ DOMAIN l = DOMAIN f \cup Collection
                /\ \A i \in DOMAIN l : l[i] = IF i \in DOMAIN f THEN f[i] ELSE 0
  <2>. DEFINE l == config_loader_tryread_from_file(f)
  <2>1. l = [i \in DOMAIN f \cup Collection |-> IF i \in DOMAIN f THEN f[i] ELSE 0]
    BY DEF config_loader_tryread_from_file
  <2>2. DOMAIN f \cup Collection \in SUBSET Items /\ \A i \in DOMAIN f : f[i] \in {0, 1}
    BY LayerFacts DEF Items
  <2>3. l \in [DOMAIN f \cup Collection -> {0, 1}]
    BY <2>1, <2>2
  <2>. HIDE DEF l
  <2>4. l \in Layer
    BY <2>2, <2>3, LayerFacts
  <2>5. DOMAIN l = DOMAIN f \cup Collection
        /\ \A i \in DOMAIN l : l[i] = IF i \in DOMAIN f THEN f[i] ELSE 0
    BY <2>1
  <2>. QED BY <2>4, <2>5 DEF l
<1>2. ASSUME NEW d \in BOOLEAN, NEW g \in BOOLEAN, NEW h \in BOOLEAN
      PROVE  LET l == [i \in {x \in Integer : \/ x = "proc_debug" /\ d
                                              \/ x = "proc_singlethread" /\ g
                                              \/ x = "proc_fg" /\ h} |-> 1]
             IN /\ l \in Layer /\ \A i \in DOMAIN l : l[i] = 1
                /\ DOMAIN l = {x \in Integer : \/ x = "proc_debug" /\ d
                                               \/ x = "proc_singlethread" /\ g
                                               \/ x = "proc_fg" /\ h}
  <2>. DEFINE P == {x \in Integer : \/ x = "proc_debug" /\ d
                                    \/ x = "proc_singlethread" /\ g
                                    \/ x = "proc_fg" /\ h}
              l == [i \in P |-> 1]
  <2>1. P \in SUBSET Items
    BY DEF Items
  <2>. HIDE DEF P
  <2>3. l \in [P -> {0, 1}] /\ DOMAIN l = P /\ \A i \in P : l[i] = 1
    OBVIOUS
  <2>. HIDE DEF l
  <2>4. l \in Layer
    BY <2>1, <2>3, LayerFacts
  <2>5. l \in Layer /\ (\A i \in DOMAIN l : l[i] = 1) /\ DOMAIN l = P
    BY <2>3, <2>4
  <2>. QED BY <2>5 DEF l, P
<1>. QED BY <1>1, <1>2

\* Items of each kind are different.
LEMMA ItemFacts ==
  /\ {"proc_debug", "proc_fg", "proc_singlethread"} = Integer
  /\ {"alias"} = String /\ {"indexnode_hosts"} = Collection
  /\ Items = Integer \cup String \cup Collection
  /\ Integer \cap String = {} /\ Integer \cap Collection = {} /\ String \cap Collection = {}
BY DEF Integer, String, Collection, Items

-----------------------------------------------------------------------------
(***************************************************************************)
(* What the files say, as one more is looked at.                           *)
(***************************************************************************)
\* A readable file decides the items it has, and every collection.
LEMMA NextFile ==
  ASSUME files \in Seq(Files \cup {NoReader}), NEW f \in Files \cup {NoReader},
         files' = Append(files, f), NEW i \in Items
  PROVE  /\ FromFiles(i)' = IF f # NoReader /\ i \in DOMAIN f THEN f[i] ELSE FromFiles(i)
         /\ FromLastFile(i)' = IF f # NoReader THEN (IF i \in DOMAIN f THEN f[i] ELSE 0)
                               ELSE FromLastFile(i)
<1>. DEFINE n == Len(files)
            giving == {k \in DOMAIN files : files[k] # NoReader /\ i \in DOMAIN files[k]}
<1>1. /\ n \in Nat /\ n + 1 \in Nat /\ DOMAIN files = 1 .. n /\ DOMAIN files' = 1 .. n + 1
      /\ files'[n + 1] = f
      /\ \A k \in 1 .. n : files'[k] = files[k]
  <2>1. /\ files' \in Seq(Files \cup {NoReader}) /\ Len(files') = n + 1
        /\ files'[n + 1] = f /\ \A k \in 1 .. n : files'[k] = files[k]
    BY AppendProperties
  <2>2. n \in Nat /\ DOMAIN files = 1 .. n /\ DOMAIN files' = 1 .. Len(files')
    BY <2>1, LenProperties
  <2>. QED BY <2>1, <2>2
<1>2. giving \in SUBSET (1 .. n) /\ Readable \in SUBSET (1 .. n)
  BY <1>1 DEF Readable
<1>3. /\ giving # {} => Max(giving) \in 1 .. n
      /\ Readable # {} => Max(Readable) \in 1 .. n
  BY <1>1, <1>2, LargestIndex
<1>4. /\ FromFiles(i) = IF giving = {} THEN 0 ELSE files[Max(giving)][i]
      /\ FromFiles(i)' = IF giving' = {} THEN 0 ELSE files'[Max(giving')][i]
  BY DEF FromFiles
<1>5. CASE f # NoReader
  <2>1. Readable' = Readable \cup {n + 1}
    BY <1>1, <1>5 DEF Readable
  <2>2. Max(Readable') = n + 1
    <3>0. 1 .. n \subseteq 1 .. n + 1 /\ n + 1 \in 1 .. n + 1
      BY <1>1
    <3>1. Readable' \in SUBSET (1 .. n + 1) /\ Readable' # {} /\ n + 1 \in Readable'
      BY <1>2, <2>1, <3>0, Zenon
    <3>2. Max(Readable') \in 1 .. n + 1 /\ n + 1 <= Max(Readable')
      BY <1>1, <3>1, LargestIndex
    <3>. QED BY <1>1, <3>2
  <2>3. FromLastFile(i)' = IF i \in DOMAIN f THEN f[i] ELSE 0
    BY <1>1, <2>1, <2>2 DEF FromLastFile
  <2>4. CASE i \in DOMAIN f
    <3>1. giving' = giving \cup {n + 1}
      <4>1. \A k \in 1 .. n + 1 : k \in giving' <=> k \in giving \cup {n + 1}
        <5>. TAKE k \in 1 .. n + 1
        <5>1. CASE k = n + 1
          BY <1>1, <1>5, <2>4, <5>1
        <5>2. CASE k # n + 1
          <6>1. k \in 1 .. n /\ files'[k] = files[k]
            BY <1>1, <5>2
          <6>. QED BY <1>1, <5>2, <6>1
        <5>. QED BY <5>1, <5>2
      <4>2. giving' \subseteq 1 .. n + 1 /\ giving \cup {n + 1} \subseteq 1 .. n + 1
        BY <1>1
      <4>. QED BY <4>1, <4>2
    <3>. HIDE DEF giving
    <3>0. 1 .. n \subseteq 1 .. n + 1 /\ n + 1 \in 1 .. n + 1
      BY <1>1
    <3>2. giving' \in SUBSET (1 .. n + 1) /\ giving' # {} /\ n + 1 \in giving'
      BY <1>2, <3>0, <3>1, Zenon
    <3>3. Max(giving') \in 1 .. n + 1 /\ n + 1 <= Max(giving')
      BY <1>1, <3>2, LargestIndex
    <3>4. Max(giving') = n + 1
      BY <1>1, <3>3
    <3>. QED BY <1>1, <1>4, <1>5, <2>3, <2>4, <3>2, <3>4
  <2>5. CASE i \notin DOMAIN f
    <3>1. giving' = giving
      <4>1. \A k \in 1 .. n : k \in giving' <=> k \in giving
        BY <1>1
      <4>2. n + 1 \notin giving'
        BY <1>1, <2>5
      <4>3. giving' \subseteq 1 .. n + 1 /\ giving \subseteq 1 .. n
        BY <1>1
      <4>. QED BY <1>1, <4>1, <4>2, <4>3
    <3>. HIDE DEF giving
    <3>. QED BY <1>1, <1>3, <1>4, <1>5, <2>3, <2>5, <3>1
  <2>. QED BY <2>4, <2>5
<1>6. CASE f = NoReader
  <2>1. giving' = giving /\ Readable' = Readable
    BY <1>1, <1>6 DEF Readable
  <2>2. FromLastFile(i)' = FromLastFile(i)
    BY <1>1, <1>3, <2>1 DEF FromLastFile
  <2>. HIDE DEF giving
  <2>. QED BY <1>1, <1>3, <1>4, <1>6, <2>1, <2>2
<1>. QED BY <1>5, <1>6

\* Files that do not change say what they said.
LEMMA SameFiles ==
  ASSUME files' = files
  PROVE  \A i : FromFiles(i)' = FromFiles(i) /\ FromLastFile(i)' = FromLastFile(i)
BY DEF FromFiles, FromLastFile, Readable

\* Nor does what the layers say together change with the options given.
LEMMA SameLayers ==
  ASSUME files' = files, options' = options
  PROVE  \A i : Effective(i)' = Effective(i)
BY SameFiles DEF Effective, Received

-----------------------------------------------------------------------------
(***************************************************************************)
(* The two steps that add layers, while nobody else runs.                  *)
(***************************************************************************)

\* Every thread that runs may read settings.
LEMMA ThreadsRead ==
  Main \in Readers /\ FuseThreads \subseteq Readers /\ DownloadThreads \subseteq Readers
BY StartupAssumption

\* A file pushes the layer that was loaded from it; one that cannot be read
\* at most makes the stack.
LEMMA AddFileStep ==
  ASSUME Inv, AddFile
  PROVE  /\ ConfigTypeOK' /\ singleton' /\ \A r \in Readers : reader'[r] = NoReader
         /\ \E f \in Files \cup {NoReader} :
              /\ files' = Append(files, f)
              /\ f # NoReader => Current' = Append(Current, config_loader_tryread_from_file(f))
              /\ f = NoReader => Current' = Current
<1>. USE DEF Inv
<1>1. ConfigTypeOK /\ \A r \in Readers : reader[r] = NoReader
  BY DEF TypeOK, Alone, AddFile, Main_At, Before
<1>2. CASE \E f \in Files : /\ config_manager_add_from_file(TRUE, f)
                            /\ files' = Append(files, f)
  <2>1. PICK f \in Files : config_manager_add_from_file(TRUE, f) /\ files' = Append(files, f)
    BY <1>2
  <2>2. f # NoReader /\ f \in Layer
    BY StartupAssumption
  <2>. DEFINE l == config_loader_tryread_from_file(f)
  <2>3. l \in Layer
    BY <2>2, MadeLayers
  <2>4. config_manager_add(l)
    BY <2>1 DEF config_manager_add_from_file
  <2>. HIDE DEF l
  <2>5. /\ ConfigTypeOK' /\ singleton' /\ Current' = Append(Current, l)
        /\ \A r \in Readers : reader'[r] = NoReader
    BY <1>1, <2>3, <2>4, AddFacts
  <2>. QED BY <2>1, <2>2, <2>5 DEF l
<1>3. CASE config_manager_add_from_file(FALSE, Defaults) /\ files' = Append(files, NoReader)
  <2>1. singleton' = TRUE /\ stack' = Current /\ reader' = reader
    BY <1>3 DEF config_manager_add_from_file, Current
  <2>2. Current \in Seq(Layer) /\ Current # <<>>
    BY <1>1, CurrentType
  <2>3. Current' = Current
    BY <2>1 DEF Current, config_singleton_get
  <2>4. ConfigTypeOK'
    BY <1>1, <2>1, <2>2 DEF ConfigTypeOK
  <2>. QED BY <1>1, <1>3, <2>1, <2>3, <2>4
<1>. QED BY <1>2, <1>3 DEF AddFile

\* The command line pushes a layer of ones, with what was received in it.
LEMMA CommandLineStep ==
  ASSUME Inv, settings_parse_command_line
  PROVE  /\ ConfigTypeOK' /\ singleton' /\ \A r \in Readers : reader'[r] = NoReader
         /\ \E l \in Layer :
              /\ Current' = Append(Current, l)
              /\ DOMAIN l = Received /\ \A i \in DOMAIN l : l[i] = 1
<1>. USE DEF Inv
<1>1. ConfigTypeOK /\ \A r \in Readers : reader[r] = NoReader
  BY DEF TypeOK, Alone, settings_parse_command_line, Main_At, Before
<1>. DEFINE d == Set("d")
            g == Set("f")
            h == Set("s")
            l == [i \in {x \in Integer : \/ x = "proc_debug" /\ d
                                         \/ x = "proc_singlethread" /\ g
                                         \/ x = "proc_fg" /\ h} |-> 1]
            P == {x \in Integer : \/ x = "proc_debug" /\ d
                                  \/ x = "proc_singlethread" /\ g
                                  \/ x = "proc_fg" /\ h}
<1>2. d \in BOOLEAN /\ g \in BOOLEAN /\ h \in BOOLEAN /\ P = Received
  <2>1. \A x : Set(x) \in BOOLEAN
    BY Zenon DEF Set
  <2>2. /\ d <=> "d" \in options
        /\ g <=> options \cap {"d", "f"} # {}
        /\ h <=> "s" \in options
    BY SMT DEF Set
  <2>3. d \in BOOLEAN /\ g \in BOOLEAN /\ h \in BOOLEAN
    BY <2>1, Zenon
  <2>4. P = Received
    <3>. HIDE DEF d, g, h
    <3>. QED BY <2>2 DEF Received
  <2>. QED BY <2>3, <2>4
<1>3. config_manager_add(l)
  BY DEF settings_parse_command_line, config_manager_add_from_cmdline
<1>. HIDE DEF d, g, h
<1>4. l \in Layer /\ (\A i \in DOMAIN l : l[i] = 1) /\ DOMAIN l = P
  BY <1>2, MadeLayers
<1>. HIDE DEF l, P
<1>5. /\ ConfigTypeOK' /\ singleton' /\ Current' = Append(Current, l)
      /\ \A r \in Readers : reader'[r] = NoReader
  BY <1>1, <1>3, <1>4, AddFacts
<1>. QED BY <1>2, <1>4, <1>5

-----------------------------------------------------------------------------
(***************************************************************************)
(* Each part of the invariant is preserved.                                *)
(***************************************************************************)

\* What a reader at the top of the stack finds is a setting.
LEMMA SettingsRead ==
  ASSUME Inv, my_fuse_main
  PROVE  /\ settings' = [i \in Items |-> Value(Current, i)]
         /\ settings' \in [Items -> {0, 1}]
<1>1. settings' = [i \in Items |-> Value(Current, i)]
  BY DEF my_fuse_main, Current
<1>2. \A i \in Items : Value(Current, i) \in {0, 1}
  BY DEF Inv, Layered, Before, my_fuse_main, Main_At
<1>. QED BY <1>1, <1>2

\* The type invariant.
LEMMA NextType == Inv /\ [Next]_vars => TypeOK'
<1>. SUFFICES ASSUME Inv, [Next]_vars PROVE TypeOK'
  OBVIOUS
<1>. USE DEF Inv
<1>0. TypeOK /\ ConfigTypeOK
  BY DEF TypeOK
<1>1. ASSUME UNCHANGED configVars PROVE ConfigTypeOK'
  BY <1>0, <1>1 DEF ConfigTypeOK, configVars
<1>2. CASE CheckVersion
  BY <1>0, <1>1, <1>2 DEF TypeOK, CheckVersion, inputVars, runVars
<1>3. CASE AddFile
  <2>1. ConfigTypeOK'
    BY <1>3, AddFileStep
  <2>2. files' \in Seq(Files \cup {NoReader}) /\ Len(files') <= Len(Paths)
    <3>1. files \in Seq(Files \cup {NoReader}) /\ Len(files) \in Nat /\ Len(files) < 4
      BY <1>0, <1>3 DEF TypeOK, AddFile, Wanted
    <3>2. PICK f \in Files \cup {NoReader} : files' = Append(files, f)
      BY <1>3, AddFileStep
    <3>3. files' \in Seq(Files \cup {NoReader}) /\ Len(files') = Len(files) + 1
      BY <3>1, <3>2, AppendProperties
    <3>. QED BY <3>1, <3>3 DEF Paths
  <2>. QED BY <1>0, <1>3, <2>1, <2>2 DEF TypeOK, AddFile, runVars
<1>4. CASE settings_parse_command_line
  <2>1. ConfigTypeOK'
    BY <1>4, CommandLineStep
  <2>. QED BY <1>0, <1>4, <2>1 DEF TypeOK, settings_parse_command_line, Asked, runVars
<1>5. CASE UnhandledOption
  BY <1>0, <1>1, <1>5 DEF TypeOK, UnhandledOption, Undefined, inputVars, runVars
<1>6. CASE SwitchAction
  BY <1>0, <1>1, <1>6 DEF TypeOK, SwitchAction, inputVars, runVars
<1>7. CASE InitModule
  BY <1>0, <1>1, <1>7 DEF TypeOK, InitModule, Undefined, inputVars, runVars
<1>8. CASE my_fuse_main
  <2>1. ConfigTypeOK'
    BY <1>0, <1>8, ThreadsRead, GetReaderFacts DEF my_fuse_main
  <2>. QED BY <1>0, <1>8, <2>1, SettingsRead DEF TypeOK, my_fuse_main, inputVars
<1>9. CASE SessionEnds
  BY <1>0, <1>1, <1>9 DEF TypeOK, SessionEnds, inputVars
<1>10. CASE FinaliseModule
  BY <1>0, <1>1, <1>10 DEF TypeOK, FinaliseModule, inputVars
<1>11. CASE Bail
  <2>1. CASE singleton
    <3>1. ConfigTypeOK'
      BY <1>0, <1>11, <2>1, DeleteFacts DEF Bail
    <3>. QED BY <1>0, <1>11, <2>1, <3>1 DEF TypeOK, Bail, inputVars, runVars
  <2>2. CASE ~singleton
    BY <1>0, <1>1, <1>11, <2>2 DEF TypeOK, Bail, Undefined, inputVars, runVars
  <2>. QED BY <2>1, <2>2
<1>12. ASSUME NEW t \in DownloadThreads, StartDownload(t) PROVE TypeOK'
  BY <1>0, <1>1, <1>12 DEF TypeOK, StartDownload, inputVars
<1>13. ASSUME NEW t \in FuseThreads \cup DownloadThreads, GetReader(t) \/ DeleteReader(t)
       PROVE  TypeOK'
  <2>1. ConfigTypeOK'
    BY <1>0, <1>13, ThreadsRead, GetReaderFacts, DeleteFacts DEF GetReader, DeleteReader
  <2>. QED BY <1>0, <1>13, <2>1 DEF TypeOK, GetReader, DeleteReader, inputVars, runVars
<1>14. ASSUME NEW t \in FuseThreads \cup DownloadThreads, ReadSetting(t) PROVE TypeOK'
  BY <1>0, <1>1, <1>14 DEF TypeOK, ReadSetting, Undefined, inputVars, runVars
<1>15. CASE UNCHANGED vars
  BY <1>0, <1>1, <1>15 DEF TypeOK, vars, inputVars, runVars
<1>. QED BY <1>2, <1>3, <1>4, <1>5, <1>6, <1>7, <1>8, <1>9, <1>10, <1>11, <1>12, <1>13,
            <1>14, <1>15 DEF Next

\* Nobody but main runs before the session, and there is a configuration.
LEMMA NextConfigured == Inv /\ [Next]_vars => Alone' /\ Configured'
<1>. SUFFICES ASSUME Inv, [Next]_vars PROVE Alone' /\ Configured'
  OBVIOUS
<1>. USE DEF Inv, Before
<1>0. TypeOK /\ ConfigTypeOK /\ Alone /\ Configured
  BY DEF TypeOK
<1>1. ASSUME UNCHANGED <<singleton, reader, main, files, downloads, settings, mounted>>
      PROVE  Alone' /\ Configured'
  BY <1>0, <1>1 DEF Alone, Configured
<1>2. CASE CheckVersion
  BY <1>0, <1>2 DEF Alone, Configured, CheckVersion, Main_At, configVars, inputVars, runVars
<1>3. CASE AddFile
  <2>1. singleton' /\ \A r \in Readers : reader'[r] = NoReader
    BY <1>3, AddFileStep
  <2>. QED BY <1>0, <1>3, <2>1 DEF Alone, Configured, AddFile, Main_At, runVars
<1>4. CASE settings_parse_command_line
  <2>1. singleton' /\ \A r \in Readers : reader'[r] = NoReader
    BY <1>4, CommandLineStep
  <2>. QED BY <1>0, <1>4, <2>1 DEF Alone, Configured, settings_parse_command_line, Main_At, runVars
<1>5. CASE UnhandledOption
  BY <1>1, <1>5 DEF UnhandledOption, Undefined, configVars, inputVars, runVars
<1>6. CASE SwitchAction
  BY <1>0, <1>6 DEF Alone, Configured, SwitchAction, Main_At, configVars, inputVars, runVars
<1>7. CASE InitModule
  <2>1. /\ UNCHANGED <<singleton, reader, files, downloads, settings, mounted>>
        /\ main = "init" /\ main' \in {main, "bail"}
    BY <1>7 DEF InitModule, Undefined, Main_At, configVars, inputVars, runVars
  <2>. QED BY <1>0, <2>1 DEF Alone, Configured
<1>8. CASE my_fuse_main
  <2>1. singleton'
    BY <1>0, <1>8, ThreadsRead, GetReaderFacts DEF my_fuse_main
  <2>. QED BY <1>0, <1>8, <2>1 DEF Alone, Configured, my_fuse_main, Main_At
<1>9. CASE SessionEnds
  BY <1>0, <1>9 DEF Alone, Configured, SessionEnds, Main_At, configVars
<1>10. CASE FinaliseModule
  BY <1>0, <1>10 DEF Alone, Configured, FinaliseModule, Main_At, configVars
<1>11. CASE Bail
  <2>1. CASE singleton
    BY <1>0, <1>11, <2>1 DEF Alone, Configured, Bail
  <2>2. CASE ~singleton
    BY <1>1, <1>11, <2>2 DEF Bail, Undefined, configVars, inputVars, runVars
  <2>. QED BY <2>1, <2>2
<1>12. ASSUME NEW t \in DownloadThreads, StartDownload(t) PROVE Alone' /\ Configured'
  BY <1>0, <1>12 DEF Alone, Configured, StartDownload, Main_At, configVars
<1>13. ASSUME NEW t \in FuseThreads \cup DownloadThreads, GetReader(t) \/ DeleteReader(t)
       PROVE  Alone' /\ Configured'
  <2>1. main \notin Before
    BY <1>0, <1>13 DEF Alone, GetReader, DeleteReader, Running
  <2>2. singleton => singleton'
    BY <1>0, <1>13, ThreadsRead, GetReaderFacts, DeleteFacts DEF GetReader, DeleteReader
  <2>. QED BY <1>0, <1>13, <2>1, <2>2 DEF Alone, Configured, GetReader, DeleteReader, inputVars, runVars
<1>14. ASSUME NEW t \in FuseThreads \cup DownloadThreads, ReadSetting(t) PROVE Alone' /\ Configured'
  BY <1>1, <1>14 DEF ReadSetting, Undefined, configVars, inputVars, runVars
<1>15. CASE UNCHANGED vars
  BY <1>1, <1>15 DEF vars, configVars, inputVars, runVars
<1>. QED BY <1>2, <1>3, <1>4, <1>5, <1>6, <1>7, <1>8, <1>9, <1>10, <1>11, <1>12, <1>13,
            <1>14, <1>15 DEF Next

\* Readers stay valid until main has deleted the configuration.
LEMMA NextSound == Inv /\ [Next]_vars => Sound'
<1>. SUFFICES ASSUME Inv, [Next]_vars PROVE Sound'
  OBVIOUS
<1>. USE DEF Inv
<1>0. TypeOK /\ ConfigTypeOK /\ Sound
  BY DEF TypeOK
<1>1. ASSUME main # "exit" \/ main' = main,
             \A r \in Readers : reader'[r] \in {reader[r], NoReader},
             undefined' = "assert" => files' = <<>>, undefined' = "config" => main' = "exit"
      PROVE  Sound'
  BY <1>0, <1>1 DEF Sound
<1>2. ASSUME UNCHANGED <<reader, main, undefined, files>>
      PROVE  Sound'
  BY <1>0, <1>2 DEF Sound
<1>3. CASE CheckVersion
  BY <1>0, <1>3 DEF Sound, Alone, Before, CheckVersion, Main_At, configVars, inputVars, runVars
<1>4. CASE AddFile
  <2>1. \A r \in Readers : reader'[r] = NoReader
    BY <1>4, AddFileStep
  <2>. QED BY <1>0, <1>4, <2>1 DEF Sound, Alone, Before, AddFile, Main_At, runVars
<1>5. CASE settings_parse_command_line
  <2>1. \A r \in Readers : reader'[r] = NoReader
    BY <1>5, CommandLineStep
  <2>. QED BY <1>0, <1>5, <2>1 DEF Sound, Alone, Before, settings_parse_command_line, Main_At, runVars
<1>6. CASE UnhandledOption
  BY <1>0, <1>6 DEF Sound, UnhandledOption, Undefined, configVars, inputVars, runVars
<1>7. CASE SwitchAction
  BY <1>0, <1>7 DEF Sound, Alone, Before, SwitchAction, Main_At, configVars, inputVars, runVars
<1>8. CASE InitModule
  <2>1. /\ UNCHANGED <<reader, files>>
        /\ main = "init" /\ main' \in {main, "bail"} /\ undefined' \in {"no", "direntry"}
    BY <1>8 DEF InitModule, Undefined, Main_At, configVars, inputVars, runVars
  <2>. QED BY <1>0, <2>1 DEF Sound, Alone, Before
<1>9. CASE my_fuse_main
  <2>1. main = "init" /\ undefined' = "no"
    BY <1>9 DEF my_fuse_main, Main_At
  <2>2. \A r \in Readers : r # Main => reader'[r] = reader[r]
    BY <1>0, <1>9, ThreadsRead, GetReaderFacts DEF my_fuse_main
  <2>3. ~reader'[Main].stale /\ ~reader'[Main].dead
    BY <1>0, <1>9, ThreadsRead, GetReaderFacts DEF my_fuse_main
  <2>4. \A r \in Readers : reader[r] = NoReader
    BY <2>1 DEF Alone, Before
  <2>. QED BY <2>1, <2>2, <2>3, <2>4 DEF Sound
<1>10. CASE SessionEnds
  BY <1>0, <1>10 DEF Sound, SessionEnds, Main_At, configVars, inputVars
<1>11. CASE FinaliseModule
  BY <1>0, <1>11 DEF Sound, FinaliseModule, Main_At, configVars, inputVars
<1>12. CASE Bail
  <2>1. CASE singleton
    <3>1. main = "bail" /\ main' = "exit" /\ undefined' = "no" /\ config_singleton_delete
      BY <1>12, <2>1 DEF Bail, Main_At
    <3>2. \A r \in Readers :
            reader'[r] # NoReader => reader[r] # NoReader /\ reader'[r].stale = reader[r].stale
      BY <1>0, <3>1, DeleteFacts
    <3>. QED BY <1>0, <3>1, <3>2 DEF Sound
  <2>2. CASE ~singleton
    BY <1>0, <1>12, <2>2 DEF Sound, Configured, Bail, Undefined, Main_At, configVars, inputVars, runVars
  <2>. QED BY <2>1, <2>2
<1>13. ASSUME NEW t \in DownloadThreads, StartDownload(t) PROVE Sound'
  BY <1>2, <1>13 DEF StartDownload, configVars, inputVars
<1>14. ASSUME NEW t \in FuseThreads \cup DownloadThreads, GetReader(t) PROVE Sound'
  <2>1. /\ \A r \in Readers : r # t => reader'[r] = reader[r]
        /\ ~reader'[t].stale /\ ~reader'[t].dead
    BY <1>0, <1>14, ThreadsRead, GetReaderFacts DEF GetReader
  <2>. QED BY <1>0, <1>14, <2>1 DEF Sound, GetReader, inputVars, runVars
<1>15. ASSUME NEW t \in FuseThreads \cup DownloadThreads, DeleteReader(t) PROVE Sound'
  <2>1. \A r \in Readers : reader'[r] \in {reader[r], NoReader}
    BY <1>0, <1>15, ThreadsRead, DeleteFacts DEF DeleteReader
  <2>. QED BY <1>0, <1>15, <2>1 DEF Sound, DeleteReader, inputVars, runVars
<1>16. ASSUME NEW t \in FuseThreads \cup DownloadThreads, ReadSetting(t) PROVE Sound'
  <2>1. t \in Readers /\ reader[t] # NoReader
    BY <1>16, ThreadsRead DEF ReadSetting
  <2>2. reader[t].stale \/ reader[t].dead
    BY <1>16 DEF ReadSetting, ReadsFreed
  <2>3. main = "exit"
    BY <1>0, <2>1, <2>2 DEF Sound
  <2>. QED BY <1>0, <1>16, <2>3 DEF Sound, ReadSetting, Undefined, configVars, inputVars, runVars
<1>17. CASE UNCHANGED vars
  BY <1>2, <1>17 DEF vars, configVars, inputVars, runVars
<1>. QED BY <1>3, <1>4, <1>5, <1>6, <1>7, <1>8, <1>9, <1>10, <1>11, <1>12, <1>13,
            <1>14, <1>15, <1>16, <1>17 DEF Next

\* What the stack says of each item follows the files and the command line.
LEMMA NextLayered == Inv /\ [Next]_vars => Layered'
<1>. SUFFICES ASSUME Inv, [Next]_vars PROVE Layered'
  OBVIOUS
<1>. USE DEF Inv
<1>0. TypeOK /\ ConfigTypeOK /\ Layered /\ Current \in Seq(Layer)
  BY CurrentType DEF TypeOK
<1>1. ASSUME UNCHANGED <<singleton, stack, files, options>>,
             \/ main' = main
             \/ main = "version" /\ main' = "files"
             \/ main = "switch" /\ main' = "init"
      PROVE  Layered'
  <2>1. Current' = Current
    BY <1>1 DEF Current, config_singleton_get
  <2>2. \A i : TopLayer(Current, i)' = TopLayer(Current, i) /\ Value(Current, i)' = Value(Current, i)
    BY <2>1
  <2>. QED BY <1>0, <1>1, <2>2, SameFiles, SameLayers DEF Layered, Before
<1>2. ASSUME main' \notin Before PROVE Layered'
  BY <1>2 DEF Layered, Before
<1>3. CASE CheckVersion
  <2>1. CASE main' = "bail"
    BY <1>2, <2>1 DEF Before
  <2>2. CASE main' = "files"
    BY <1>1, <1>3, <2>2 DEF CheckVersion, Main_At, configVars, inputVars
  <2>. QED BY <1>3, <2>1, <2>2 DEF CheckVersion
<1>4. CASE AddFile
  <2>1. main = "files" /\ main' = "files"
    BY <1>4 DEF AddFile, Main_At
  <2>2. PICK f \in Files \cup {NoReader} :
          /\ files' = Append(files, f)
          /\ f # NoReader => Current' = Append(Current, config_loader_tryread_from_file(f))
          /\ f = NoReader => Current' = Current
    BY <1>4, AddFileStep
  <2>3. files \in Seq(Files \cup {NoReader})
    BY <1>0 DEF TypeOK
  <2>4. \A i \in Items :
          /\ FromFiles(i)' = IF f # NoReader /\ i \in DOMAIN f THEN f[i] ELSE FromFiles(i)
          /\ FromLastFile(i)' = IF f # NoReader THEN (IF i \in DOMAIN f THEN f[i] ELSE 0)
                                ELSE FromLastFile(i)
    BY <2>2, <2>3, NextFile
  <2>5. \A i \in Items : TopLayer(Current, i) # {} /\ Value(Current, i) \in {0, 1}
    BY <1>0, <2>1 DEF Layered, Before
  <2>6. /\ \A i \in Integer \cup String : Value(Current, i) = FromFiles(i)
        /\ \A i \in Collection : Value(Current, i) = FromLastFile(i)
    BY <1>0, <2>1 DEF Layered
  <2>7. /\ \A i \in Items : TopLayer(Current', i) # {} /\ Value(Current', i) \in {0, 1}
        /\ \A i \in Integer \cup String : Value(Current', i) = FromFiles(i)'
        /\ \A i \in Collection : Value(Current', i) = FromLastFile(i)'
    <3>1. CASE f = NoReader
      BY <2>2, <2>4, <2>5, <2>6, <3>1 DEF Items
    <3>2. CASE f # NoReader
      <4>. DEFINE l == config_loader_tryread_from_file(f)
      <4>1. f \in Layer
        BY <3>2, StartupAssumption
      <4>2. /\ l \in Layer /\ DOMAIN l = DOMAIN f \cup Collection
            /\ \A i \in DOMAIN l : l[i] = IF i \in DOMAIN f THEN f[i] ELSE 0
        BY <4>1, MadeLayers
      <4>3. Current' = Append(Current, l)
        BY <2>2, <3>2
      <4>. HIDE DEF l
      <4>4. \A i \in Items :
              /\ i \in DOMAIN l => TopLayer(Current', i) # {} /\ Value(Current', i) = l[i]
              /\ i \notin DOMAIN l =>
                   TopLayer(Current', i) # {} /\ Value(Current', i) = Value(Current, i)
        BY <1>0, <2>5, <4>2, <4>3, PushedValue
      <4>5. \A i \in DOMAIN l : l[i] \in {0, 1}
        BY <4>2, LayerFacts
      <4>6. \A i \in Items : TopLayer(Current', i) # {} /\ Value(Current', i) \in {0, 1}
        BY <2>5, <4>4, <4>5
      <4>7. ASSUME NEW i \in Integer \cup String PROVE Value(Current', i) = FromFiles(i)'
        <5>1. i \in Items /\ i \notin Collection
          BY ItemFacts
        <5>. QED BY <2>4, <2>6, <3>2, <4>2, <4>4, <5>1
      <4>8. ASSUME NEW i \in Collection PROVE Value(Current', i) = FromLastFile(i)'
        <5>1. i \in Items /\ i \in DOMAIN l
          BY <4>2, ItemFacts
        <5>. QED BY <2>4, <3>2, <4>2, <4>4, <5>1
      <4>. QED BY <4>6, <4>7, <4>8
    <3>. QED BY <3>1, <3>2
  <2>. QED BY <2>1, <2>7 DEF Layered
<1>5. CASE settings_parse_command_line
  <2>1. main = "files" /\ main' = "switch" /\ files' = files /\ options' = options
    BY <1>5 DEF settings_parse_command_line, Main_At
  <2>2. PICK l \in Layer :
          /\ Current' = Append(Current, l)
          /\ DOMAIN l = Received /\ \A i \in DOMAIN l : l[i] = 1
    BY <1>5, CommandLineStep
  <2>3. \A i \in Items : TopLayer(Current, i) # {} /\ Value(Current, i) \in {0, 1}
    BY <1>0, <2>1 DEF Layered, Before
  <2>4. /\ \A i \in Integer \cup String : Value(Current, i) = FromFiles(i)
        /\ \A i \in Collection : Value(Current, i) = FromLastFile(i)
    BY <1>0, <2>1 DEF Layered
  <2>5. \A i \in Items :
          /\ i \in DOMAIN l => TopLayer(Current', i) # {} /\ Value(Current', i) = 1
          /\ i \notin DOMAIN l =>
               TopLayer(Current', i) # {} /\ Value(Current', i) = Value(Current, i)
    BY <1>0, <2>2, <2>3, PushedValue
  <2>6. \A i \in Items : TopLayer(Current', i) # {} /\ Value(Current', i) \in {0, 1}
    BY <2>3, <2>5
  <2>7. ASSUME NEW i \in Items PROVE Value(Current', i) = Effective(i)
    <3>1. CASE i \in Received
      BY <2>2, <2>5, <3>1 DEF Effective
    <3>2. CASE i \notin Received
      <4>1. Value(Current', i) = Value(Current, i)
        BY <2>2, <2>5, <3>2
      <4>. QED BY <2>4, <3>2, <4>1, ItemFacts DEF Effective
    <3>. QED BY <3>1, <3>2
  <2>. QED BY <2>1, <2>6, <2>7, SameLayers DEF Layered, Before
<1>6. CASE UnhandledOption
  BY <1>1, <1>6 DEF UnhandledOption, Undefined, configVars, inputVars
<1>7. CASE SwitchAction
  <2>1. CASE main' = "bail"
    BY <1>2, <2>1 DEF Before
  <2>2. CASE main' = "init"
    BY <1>1, <1>7, <2>2 DEF SwitchAction, Main_At, configVars, inputVars
  <2>. QED BY <1>7, <2>1, <2>2 DEF SwitchAction
<1>8. CASE InitModule
  <2>1. UNCHANGED <<singleton, stack, files, options>> /\ main' \in {main, "bail"}
    BY <1>8 DEF InitModule, Undefined, configVars, inputVars
  <2>2. CASE main' = "bail"
    BY <1>2, <2>2 DEF Before
  <2>. QED BY <1>1, <2>1, <2>2
<1>9. CASE my_fuse_main
  BY <1>2, <1>9 DEF my_fuse_main, Before
<1>10. CASE SessionEnds
  BY <1>2, <1>10 DEF SessionEnds, Before
<1>11. CASE FinaliseModule
  BY <1>2, <1>11 DEF FinaliseModule, Main_At, Before
<1>12. CASE Bail
  BY <1>2, <1>12 DEF Bail, Undefined, Main_At, Before
<1>13. ASSUME NEW t \in DownloadThreads, StartDownload(t) PROVE Layered'
  BY <1>2, <1>13 DEF StartDownload, Main_At, Before
<1>14. ASSUME NEW t \in FuseThreads \cup DownloadThreads, GetReader(t) \/ DeleteReader(t)
       PROVE  Layered'
  BY <1>2, <1>14 DEF Alone, Before, GetReader, DeleteReader, Running
<1>15. ASSUME NEW t \in FuseThreads \cup DownloadThreads, ReadSetting(t) PROVE Layered'
  BY <1>1, <1>15 DEF ReadSetting, Undefined, configVars, inputVars
<1>16. CASE UNCHANGED vars
  BY <1>1, <1>16 DEF vars, configVars, inputVars
<1>. QED BY <1>3, <1>4, <1>5, <1>6, <1>7, <1>8, <1>9, <1>10, <1>11, <1>12, <1>13,
            <1>14, <1>15, <1>16 DEF Next

\* my_fuse_main reads what the layers say, and no layer is added after it.
LEMMA NextOverride == Inv /\ [Next]_vars => LayersOverride'
<1>. SUFFICES ASSUME Inv, [Next]_vars PROVE LayersOverride'
  OBVIOUS
<1>1. ASSUME UNCHANGED <<settings, options, files>> PROVE LayersOverride'
  BY <1>1, SameLayers DEF Inv, LayersOverride
<1>2. CASE AddFile
  BY <1>2 DEF Inv, Alone, Before, AddFile, Main_At, runVars, LayersOverride
<1>3. CASE my_fuse_main
  <2>1. settings' = [i \in Items |-> Value(Current, i)]
    BY <1>3, SettingsRead
  <2>2. options' = options /\ files' = files
    BY <1>3 DEF my_fuse_main, inputVars
  <2>3. \A i \in Items : Value(Current, i) = Effective(i)
    BY <1>3 DEF Inv, Layered, my_fuse_main, Main_At
  <2>. QED BY <2>1, <2>2, <2>3, SameLayers DEF LayersOverride
<1>4. CASE CheckVersion \/ SwitchAction \/ FinaliseModule \/ SessionEnds \/ UnhandledOption
  BY <1>1, <1>4 DEF CheckVersion, SwitchAction, FinaliseModule, SessionEnds, UnhandledOption,
     Undefined, inputVars, runVars
<1>5. CASE settings_parse_command_line
  BY <1>1, <1>5 DEF settings_parse_command_line, runVars
<1>6. CASE InitModule
  BY <1>1, <1>6 DEF InitModule, Undefined, inputVars, runVars
<1>7. CASE Bail
  BY <1>1, <1>7 DEF Bail, Undefined, inputVars, runVars
<1>8. ASSUME NEW t \in FuseThreads \cup DownloadThreads,
             StartDownload(t) \/ GetReader(t) \/ ReadSetting(t) \/ DeleteReader(t)
      PROVE  LayersOverride'
  BY <1>1, <1>8 DEF StartDownload, GetReader, ReadSetting, DeleteReader, Undefined, inputVars, runVars
<1>9. CASE UNCHANGED vars
  BY <1>1, <1>9 DEF vars, inputVars, runVars
<1>. QED BY <1>2, <1>3, <1>4, <1>5, <1>6, <1>7, <1>8, <1>9 DEF Next

\* At first the defaults are all there is.
LEMMA InitInv == Init => Inv
<1>. SUFFICES ASSUME Init PROVE Inv
  OBVIOUS
<1>1. TypeOK
  <2>1. ConfigTypeOK
    <3>0. singleton = FALSE /\ stack = <<>>
      BY DEF Init, ConfigInit
    <3>1. singleton \in BOOLEAN /\ stack \in Seq(Layer)
      <4>1. stack \in Seq(Layer)
        BY <3>0
      <4>2. singleton \in BOOLEAN
        BY <3>0, Zenon
      <4>. QED BY <4>1, <4>2
    <3>2. singleton <=> stack # <<>>
      BY Zenon DEF Init, ConfigInit
    <3>3. reader \in [Readers -> {NoReader} \cup Reader]
      BY DEF Init, ConfigInit
    <3>. QED BY <3>1, <3>2, <3>3 DEF ConfigTypeOK, Reader
  <2>2. files \in Seq(Files \cup {NoReader}) /\ Len(files) <= Len(Paths)
    BY DEF Init, Paths
  <2>. QED BY <2>1, <2>2 DEF Init, TypeOK
<1>2. Alone /\ Configured /\ Sound /\ LayersOverride
  BY DEF Init, ConfigInit, Alone, Before, Configured, Sound, LayersOverride
<1>3. Layered
  <2>1. Current = Append(<<>>, Defaults) /\ Defaults \in Layer /\ <<>> \in Seq(Layer)
    <3>1. Current = Append(<<>>, Defaults)
      BY DEF Init, ConfigInit, Current, config_singleton_get, data_push
    <3>2. ConfigTypeOK
      BY <1>1 DEF TypeOK
    <3>. QED BY <3>1, <3>2, CurrentType
  <2>2. DOMAIN Defaults = Items /\ \A i \in Items : Defaults[i] = 0
    BY DEF Defaults
  <2>3. \A i \in Items : TopLayer(Current, i) # {} /\ Value(Current, i) = 0
    BY <2>1, <2>2, PushedValue
  <2>4. \A i : FromFiles(i) = 0 /\ FromLastFile(i) = 0
    <3>1. Readable = {} /\ \A i : {n \in DOMAIN files : files[n] # NoReader /\ i \in DOMAIN files[n]} = {}
      <4>1. files = <<>>
        BY DEF Init
      <4>2. DOMAIN files = 1 .. 0
        BY <4>1
      <4>3. DOMAIN files = {}
        BY <4>2
      <4>. QED BY <4>3 DEF Readable
    <3>. QED BY <3>1 DEF FromFiles, FromLastFile, Readable
  <2>5. main = "version"
    BY DEF Init
  <2>. QED BY <2>3, <2>4, <2>5, ItemFacts DEF Layered
<1>. QED BY <1>1, <1>2, <1>3 DEF Inv

-----------------------------------------------------------------------------
\* Every state the program can reach satisfies the invariant.
THEOREM Invariance == Spec => []Inv
<1>1. Inv /\ [Next]_vars => Inv'
  BY NextType, NextConfigured, NextSound, NextLayered, NextOverride DEF Inv
<1>. QED BY InitInv, <1>1, PTL DEF Spec

\* The configuration is a stack of layers and a reader holds one; main is at
\* one of its steps.
THEOREM TypeCorrect == Spec => []TypeOK
<1>1. Inv => TypeOK
  BY DEF Inv
<1>. QED BY Invariance, <1>1, PTL

\* What my_fuse_main hands to FUSE, for any files and any options: 1 for an
\* item that the command line's layer has (with -f and -s in each other's
\* place), else what the last file that mentions it says, else the default; and
\* for a collection what the last readable file says, be it nothing.
THEOREM LaterLayersWin == Spec => []LayersOverride
<1>1. Inv => LayersOverride
  BY DEF Inv
<1>. QED BY Invariance, <1>1, PTL

\* data_push never moves the array under a reader, and until main has deleted
\* the configuration no thread reads a freed string.
THEOREM NoReaderLeftBehind == Spec => []ReadersStayValid
<1>1. Inv => ReadersStayValid
  BY DEF Inv, Sound, ReadersStayValid
<1>. QED BY Invariance, <1>1, PTL

\* pre_init_bail finds a configuration unless libfuse was too old.
THEOREM DeletesWhatIsThere == Spec => []ConfigThereToDelete
<1>1. Inv => ConfigThereToDelete
  BY DEF Inv, Sound, ConfigThereToDelete
<1>. QED BY Invariance, <1>1, PTL
=============================================================================
