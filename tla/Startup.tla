------------------------------ MODULE Startup --------------------------------
(***************************************************************************)
(* fsfuse.c: what the main thread does, from the layers of configuration   *)
(* through the command line, the initialisations, the mount and the FUSE   *)
(* session to the finalisations; and the threads that read settings        *)
(* meanwhile.  FUSE's threads have ended when the session has; download    *)
(* threads, which nobody joins, end with the process.                      *)
(***************************************************************************)
EXTENDS Config

CONSTANTS Main,                         \* the main thread
          FuseThreads, DownloadThreads,
          Files                         \* settings that config files may hold

ASSUME StartupAssumption ==
  /\ Readers = {Main} \cup FuseThreads \cup DownloadThreads
  /\ Main \notin FuseThreads \cup DownloadThreads
  /\ Files \subseteq Layer /\ NoReader \notin Layer

VARIABLES main,           \* what main does next
          files,          \* the files it found, in order; NoReader if unreadable
          options,        \* the options given
          action,         \* start_action_t
          real            \* whether mountpoint.real is set

VARIABLES done,           \* the modules initialised and not finalised, in order
          mounted, session,   \* the mount; the fuse_session, or why not
          settings,       \* what my_fuse_main read for the session
          downloads,      \* the download threads that run
          undefined       \* "no", "assert", "option", "direntry" or "config"

inputVars == <<files, options, action, real>>
runVars == <<done, mounted, session, settings, downloads>>
vars == <<configVars, main, inputVars, runVars, undefined>>

Paths == <<"/etc/fsfuserc", "~/.fsfuserc", "./fsfuserc", "-c">>
Options == {"c", "d", "f", "s", "p", "v", "h"}

Init ==
  /\ ConfigInit
  /\ main = "version"
  /\ files = <<>>
  /\ options \in SUBSET Options
  /\ action = "MOUNT" /\ real = FALSE
  /\ done = <<>> /\ mounted = FALSE /\ session = "none"
  /\ settings = NoReader
  /\ downloads = {}
  /\ undefined = "no"

Main_At(here) == main = here /\ undefined = "no"

Undefined(why) ==
  /\ undefined' = why
  /\ UNCHANGED <<configVars, main, inputVars, runVars>>

-----------------------------------------------------------------------------
\* main

\* fuse_version() < FUSE_USE_VERSION goes straight to pre_init_bail.
CheckVersion ==
  /\ Main_At("version")
  /\ main' \in {"files", "bail"}
  /\ UNCHANGED <<configVars, inputVars, runVars, undefined>>

\* The first look at the command line, for -c alone.
settings_tryget_config_file == "c" \in options

\* How many files are looked for.
Wanted == IF settings_tryget_config_file THEN 4 ELSE 3

\* The next of the three fixed files (no shell expands the ~), or the one of -c.
AddFile ==
  /\ Main_At("files")
  /\ Len(files) < Wanted
  /\ \/ \E f \in Files : /\ config_manager_add_from_file(TRUE, f)
                         /\ files' = Append(files, f)
     \/ /\ config_manager_add_from_file(FALSE, Defaults)
        /\ files' = Append(files, NoReader)
  /\ UNCHANGED <<main, options, action, real, runVars, undefined>>

\* The flags settings_parse_command_line sets: d goes on to f.
Set(flag) == flag \in options \/ (flag = "f" /\ "d" \in options)

\* What -v and -h ask for: the last of them that was given counts.
Asked ==
  IF options \cap {"v", "h"} = {} THEN {"MOUNT"}
  ELSE {IF x = "v" THEN "VERSION" ELSE "USAGE" : x \in options \cap {"v", "h"}}

\* settings_parse_command_line.  It passes its flags as (debug, fg,
\* singlethread).  Without two more arguments there is no mountpoint, and
\* realpath may not resolve it.
settings_parse_command_line ==
  /\ Main_At("files")
  /\ Len(files) = Wanted
  /\ "p" \notin options
  /\ config_manager_add_from_cmdline(Set("d"), Set("f"), Set("s"))
  /\ action' \in Asked
  /\ real' \in BOOLEAN
  /\ main' = "switch"
  /\ UNCHANGED <<files, options, runVars, undefined>>

\* getopt_long knows -p, the switch on its result does not, and asserts.
UnhandledOption ==
  /\ Main_At("files")
  /\ Len(files) = Wanted
  /\ "p" \in options
  /\ Undefined("option")

SwitchAction ==
  /\ Main_At("switch")
  /\ main' = IF action = "MOUNT" /\ real THEN "init" ELSE "bail"
  /\ UNCHANGED <<configVars, inputVars, runVars, undefined>>

Modules == <<"trace", "utils", "locale", "fetcher", "direntry">>

\* One of the initialisations: the first three can fail.  direntry_init
\* counts references to the root, which has no counter, and adds it to the
\* inode map through a prototype that is not inode_map.c's: anything may come
\* of that, also nothing.
InitModule ==
  /\ Main_At("init")
  /\ Len(done) < Len(Modules)
  /\ LET m == Modules[Len(done) + 1] IN
     \/ /\ done' = Append(done, m)
        /\ UNCHANGED <<configVars, main, inputVars, mounted, session, settings, downloads, undefined>>
     \/ /\ m \in {"trace", "utils", "locale"}
        /\ main' = "bail"
        /\ UNCHANGED <<configVars, inputVars, runVars, undefined>>
     \/ /\ m = "direntry"
        /\ Undefined("direntry")

\* my_fuse_main reads its settings through a reader that it keeps, and mounts.
my_fuse_main ==
  /\ Main_At("init")
  /\ Len(done) = Len(Modules)
  /\ config_get_reader(Main)
  /\ settings' = [i \in Items |-> Value(config_singleton_get, i)]
  /\ \/ /\ mounted' = TRUE
        /\ \/ session' = "loop" /\ main' = "session"
           \/ session' = "failed" /\ main' = "finalise"
     \/ /\ main' = "finalise"
        /\ UNCHANGED <<mounted, session>>
  /\ UNCHANGED <<inputVars, done, downloads, undefined>>

\* The loop ends when every FUSE thread has.
SessionEnds ==
  /\ Main_At("session")
  /\ \A t \in FuseThreads : reader[t] = NoReader
  /\ session' = "ended"
  /\ mounted' = FALSE
  /\ main' = "finalise"
  /\ UNCHANGED <<configVars, inputVars, done, settings, downloads, undefined>>

\* Deleting the configuration with the modules.
FinaliseModule_Mutant ==
  /\ Main_At("finalise")
  /\ IF done = <<>> THEN main' = "bail" /\ UNCHANGED done /\ config_singleton_delete
     ELSE done' = Front(done) /\ UNCHANGED <<main, configVars>>
  /\ UNCHANGED <<inputVars, mounted, session, settings, downloads, undefined>>

\* The finalisations, in reverse.
FinaliseModule ==
  /\ Main_At("finalise")
  /\ IF done = <<>> THEN main' = "bail" /\ UNCHANGED done
     ELSE done' = Front(done) /\ UNCHANGED main
  /\ UNCHANGED <<configVars, inputVars, mounted, session, settings, downloads, undefined>>

\* pre_init_bail, which asserts that there are settings to delete.
Bail ==
  /\ Main_At("bail")
  /\ IF singleton
       THEN /\ config_singleton_delete
            /\ main' = "exit"
            /\ UNCHANGED <<inputVars, runVars, undefined>>
       ELSE Undefined("assert")

-----------------------------------------------------------------------------
\* The other threads

\* fsfuse_open starts a thread.
StartDownload(t) ==
  /\ Main_At("session")
  /\ t \in DownloadThreads \ downloads
  /\ downloads' = downloads \cup {t}
  /\ UNCHANGED <<configVars, main, inputVars, done, mounted, session, settings, undefined>>

\* Threads that run before the command line is parsed.
Running_Mutant(t) == undefined = "no" /\ t \in FuseThreads

\* One FUSE thread in a single-threaded session, which is main's own.
Running(t) ==
  /\ undefined = "no"
  /\ \/ /\ t \in FuseThreads /\ main = "session"
        /\ (settings["proc_singlethread"] = 1 =>
              \A u \in FuseThreads \ {t} : reader[u] = NoReader)
     \/ t \in downloads

GetReader(t) ==
  /\ Running(t)
  /\ config_get_reader(t)
  /\ UNCHANGED <<main, inputVars, runVars, undefined>>

\* Any item, as the many users of settings do.
ReadSetting(t) ==
  /\ Running(t)
  /\ reader[t] # NoReader
  /\ \E i \in Items : ReadsFreed(t, i)
  /\ Undefined("config")

DeleteReader(t) ==
  /\ Running(t)
  /\ config_reader_delete(t)
  /\ UNCHANGED <<main, inputVars, runVars, undefined>>

Next ==
  \/ CheckVersion \/ AddFile \/ settings_parse_command_line \/ UnhandledOption \/ SwitchAction
  \/ InitModule \/ my_fuse_main \/ SessionEnds \/ FinaliseModule \/ Bail
  \/ \E t \in DownloadThreads : StartDownload(t)
  \/ \E t \in FuseThreads \cup DownloadThreads : GetReader(t) \/ ReadSetting(t) \/ DeleteReader(t)

Spec == Init /\ [][Next]_vars

-----------------------------------------------------------------------------
\* Layers and readers as in Config; where main can be.
TypeOK ==
  /\ ConfigTypeOK
  /\ main \in {"version", "files", "switch", "init", "session", "finalise", "bail", "exit"}
  /\ files \in Seq(Files \cup {NoReader}) /\ Len(files) <= Len(Paths)
  /\ action \in {"MOUNT", "VERSION", "USAGE"} /\ real \in BOOLEAN
  /\ mounted \in BOOLEAN /\ session \in {"none", "loop", "failed", "ended"}
  /\ settings \in [Items -> {0, 1}] \cup {NoReader}
  /\ downloads \subseteq DownloadThreads
  /\ undefined \in {"no", "assert", "option", "direntry", "config"}

\* The value that the files found give an item, the last that has it counting;
\* 0 is the default.
FromFiles(i) ==
  LET giving == {n \in DOMAIN files : files[n] # NoReader /\ i \in DOMAIN files[n]}
  IN IF giving = {} THEN 0 ELSE files[Max(giving)][i]

\* What the last file that could be read says of an item.
Readable == {n \in DOMAIN files : files[n] # NoReader}
FromLastFile(i) ==
  IF Readable = {} \/ i \notin DOMAIN files[Max(Readable)] THEN 0 ELSE files[Max(Readable)][i]

\* The items of the command line's layer: -f, which -d sets as well, arrives as
\* proc_singlethread and -s as proc_fg (fsfuse.c:353-357, config_manager.c:118-122).
Received ==
  {i \in Integer : \/ i = "proc_debug" /\ "d" \in options
                   \/ i = "proc_singlethread" /\ options \cap {"d", "f"} # {}
                   \/ i = "proc_fg" /\ "s" \in options}

\* What the layers say of an item together.
Effective(i) ==
  IF i \in Received THEN 1 ELSE IF i \in Collection THEN FromLastFile(i) ELSE FromFiles(i)

\* "These stack; later files over-ride earlier ones" (fsfuse.c:94) and the
\* command line over-rides them all: for every item, what my_fuse_main hands to
\* FUSE is what the command line's layer has, else what the last file that
\* mentions the item says, else the default.  A collection is the exception:
\* the last file that could be read decides it, and empties it by saying
\* nothing.
LayersOverride == settings # NoReader => \A i \in Items : settings[i] = Effective(i)

\* The command line is parsed last, "over-writing any config settings with
\* higher-priority command line values" (fsfuse.c:101-102): a session asked to
\* stay in the foreground does, one asked to be single-threaded is, and one
\* asked for neither is as the files say.
FlagsAsGiven ==
  settings # NoReader =>
    /\ settings["proc_fg"] = IF options \cap {"d", "f"} # {} THEN 1 ELSE FromFiles("proc_fg")
    /\ settings["proc_singlethread"] = IF "s" \in options THEN 1 ELSE FromFiles("proc_singlethread")

\* No reader's array moves under it, and while main has not begun to delete
\* the configuration nobody reads freed settings.  (A download thread may,
\* after that.)
ReadersStayValid ==
  /\ \A r \in Readers : reader[r] # NoReader => ~reader[r].stale
  /\ undefined = "config" => main = "exit"

\* The assert in config_singleton_delete fails only if libfuse is too old:
\* on every other way to pre_init_bail there is a configuration.
ConfigThereToDelete == undefined = "assert" => files = <<>>
=============================================================================
