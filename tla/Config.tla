------------------------------- MODULE Config --------------------------------
(***************************************************************************)
(* config_manager.c, config_loader.c and config_reader.c: a stack of       *)
(* layers of settings, made on first use with the defaults at its bottom,  *)
(* and readers that look for a setting from the top of the stack down.     *)
(*                                                                         *)
(* A reader is the stack's array and its length, taken under the lock and  *)
(* used without it: data_push may move the array (`stale'), and            *)
(* config_singleton_delete frees the strings in its layers (`dead').       *)
(***************************************************************************)
EXTENDS Integers, Sequences, SequencesExt

CONSTANTS Readers,        \* threads that read settings
          NoReader

VARIABLES singleton,      \* whether there is one
          stack,          \* its data_stack
          reader          \* the config_reader_t that each thread holds

configVars == <<singleton, stack, reader>>

\* One setting of each type that the code treats differently.
Integer == {"proc_debug", "proc_fg", "proc_singlethread"}
String == {"alias"}
Collection == {"indexnode_hosts"}
Items == Integer \cup String \cup Collection

\* A layer gives the items that are present in it a value.
Layer == UNION {[present -> {0, 1}] : present \in SUBSET Items}

\* config_defaults_get: every item is present.
Defaults == [i \in Items |-> 0]

ConfigInit ==
  /\ singleton = FALSE
  /\ stack = <<>>
  /\ reader = [r \in Readers |-> NoReader]

\* What the others see when the array is reallocated.
Moved == [r \in Readers |-> IF reader[r] = NoReader THEN NoReader ELSE [reader[r] EXCEPT !.stale = TRUE]]

data_push(mgr, data) == Append(mgr, data)

\* What config_singleton_get finds, or makes.
config_singleton_get == IF singleton THEN stack ELSE data_push(<<>>, Defaults)

\* config_loader_tryread_from_file: a file that cannot be parsed has no layer.
\* A collection is present in every layer that comes from a file, empty (0) if
\* the file does not name it.
config_loader_tryread_from_file(file) ==
  [i \in DOMAIN file \cup Collection |-> IF i \in DOMAIN file THEN file[i] ELSE 0]

config_manager_add(data) ==
  /\ singleton' = TRUE
  /\ stack' = data_push(config_singleton_get, data)
  /\ reader' = IF singleton THEN Moved ELSE reader

config_manager_add_from_file(readable, file) ==
  IF readable THEN config_manager_add(config_loader_tryread_from_file(file))
  ELSE /\ singleton' = TRUE
       /\ stack' = config_singleton_get
       /\ UNCHANGED reader

\* The parameters are (debug, singlethread, fg); values that were not set are
\* whatever the caller's variables held, and are not present.
config_manager_add_from_cmdline(debug_set, singlethread_set, fg_set) ==
  config_manager_add([i \in {x \in Integer : \/ x = "proc_debug" /\ debug_set
                                             \/ x = "proc_singlethread" /\ singlethread_set
                                             \/ x = "proc_fg" /\ fg_set} |-> 1])

config_get_reader(r) ==
  /\ reader[r] = NoReader
  /\ singleton' = TRUE
  /\ stack' = config_singleton_get
  /\ reader' = [reader EXCEPT ![r] = [layers |-> config_singleton_get, stale |-> FALSE, dead |-> FALSE]]

config_reader_delete(r) ==
  /\ reader[r] # NoReader
  /\ reader' = [reader EXCEPT ![r] = NoReader]
  /\ UNCHANGED <<singleton, stack>>

\* The search up from the bottom of the stack, which finds the defaults.
Value_Mutant(layers, item) == layers[SelectInSeq(layers, LAMBDA l : item \in DOMAIN l)][item]

\* The generated config_<item>: the topmost layer where it is present.
Value(layers, item) == layers[SelectLastInSeq(layers, LAMBDA l : item \in DOMAIN l)][item]

\* It reads freed memory when the array has moved, and, for a string, when the
\* strings have been freed.
ReadsFreed(r, item) == reader[r].stale \/ (item \in String /\ reader[r].dead)

\* The strings are freed, the array and its layers are not.
config_singleton_delete ==
  /\ singleton' = FALSE
  /\ stack' = <<>>
  /\ reader' = [r \in Readers |-> IF reader[r] = NoReader THEN NoReader
                                  ELSE [reader[r] EXCEPT !.dead = TRUE]]

ConfigTypeOK ==
  /\ singleton \in BOOLEAN
  /\ stack \in Seq(Layer) /\ (singleton <=> stack # <<>>)
  /\ reader \in [Readers -> {NoReader} \cup [layers : Seq(Layer), stale : BOOLEAN, dead : BOOLEAN]]
=============================================================================
