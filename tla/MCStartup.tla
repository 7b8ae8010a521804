----------------------------- MODULE MCStartup -------------------------------
(* Config files that set nothing, or some things to one value or the other. *)
EXTENDS Startup

MCFiles == {<<>>, [i \in {"indexnode_hosts", "proc_debug", "proc_singlethread"} |-> 1],
            [i \in {"alias", "proc_fg"} |-> 1], [i \in {"proc_debug", "alias"} |-> 0]}
MCReaders == {Main} \cup FuseThreads \cup DownloadThreads
=============================================================================
