----------------------------- MODULE Announcers ------------------------------
(***************************************************************************)
(* Who calls new_indexnode_event, and the life of those threads:           *)
(* indexnodes_new and indexnodes_delete (indexnodes.c) on the main thread, *)
(* the listener thread with its two sockets and its control pipe           *)
(* (indexnodes_listener.c, indexnodes_listener_thread.c), and one alarm    *)
(* thread for each indexnode named in the configuration                    *)
(* (indexnodes_statics_manager.c, alarm_simple.c, proto_indexnode.c).      *)
(*                                                                         *)
(* fsfuse_init and fsfuse_destroy call nothing else; FUSE's own threads    *)
(* have ended when destroy is called.  The list itself is in Indexnodes.   *)
(* What C leaves undefined, and failed asserts, end the behaviour in       *)
(* `undefined'.                                                            *)
(***************************************************************************)
EXTENDS Integers, Sequences, FiniteSets

CONSTANTS HostCount, PortCount,   \* /config/indexnode/host and .../port entries
          Listener                \* the listener thread

ASSUME AnnouncersAssumption ==
  /\ HostCount \in Nat /\ PortCount \in Nat
  /\ Listener \notin Nat

\* load_indexnodes_from_config stops at the shorter of its two arrays.
Alarms == 1 .. (IF HostCount < PortCount THEN HostCount ELSE PortCount)
Threads == Alarms \cup {Listener}
Sockets == {"s4", "s6"}

VARIABLES main,          \* what the main thread does next
          waitsFor,      \* the thread it is stopping, 0 for none
          alarms,        \* mgr->alarms, last added first
          list           \* ins->list and ins->lock: "none", "live" or "freed"

VARIABLES thread,        \* what each thread does
          stop,          \* whether its pipe holds a STOP message
          freed          \* whether what the thread uses has been freed

VARIABLES open,          \* the sockets that could be bound
          inbox,         \* the datagram that waits at each socket, if any
          ready,         \* what select reported, less what is dealt with
          undefined

mainVars == <<main, waitsFor, alarms, list>>
socketVars == <<open, inbox, ready>>
vars == <<mainVars, thread, stop, freed, socketVars, undefined>>

Init ==
  /\ main = "init" /\ waitsFor = 0 /\ alarms = <<>> /\ list = "none"
  /\ thread = [t \in Threads |-> "none"]
  /\ stop = [t \in Threads |-> FALSE]
  /\ freed = [t \in Threads |-> FALSE]
  /\ open = {} /\ ready = {}
  /\ inbox = [s \in Sockets |-> <<>>]
  /\ undefined = FALSE

Main(here) == main = here /\ ~undefined
In(t, here) == thread[t] = here /\ ~undefined
Becomes(t, there) == thread' = [thread EXCEPT ![t] = there]

Undefined ==
  /\ undefined' = TRUE
  /\ UNCHANGED <<mainVars, thread, stop, freed, socketVars>>

-----------------------------------------------------------------------------
\* The main thread

\* rw_lock_new, indexnodes_list_new.
indexnodes_new ==
  /\ Main("init")
  /\ list' = "live"
  /\ main' = "statics"
  /\ UNCHANGED <<waitsFor, alarms, thread, stop, freed, socketVars, undefined>>

\* One turn of load_indexnodes_from_config's loop: proto_indexnode_new,
\* alarm_new, LINKED_LIST_ADD.
load_indexnodes_from_config ==
  /\ Main("statics")
  /\ \/ /\ Len(alarms) < Cardinality(Alarms)
        /\ alarms' = <<Len(alarms) + 1>> \o alarms
        /\ Becomes(Len(alarms) + 1, "select")
        /\ UNCHANGED main
     \/ /\ Len(alarms) = Cardinality(Alarms)
        /\ main' = "listener"
        /\ UNCHANGED <<alarms, thread>>
  /\ UNCHANGED <<waitsFor, list, stop, freed, socketVars, undefined>>

indexnodes_listener_new ==
  /\ Main("listener")
  /\ Becomes(Listener, "starting")
  /\ main' = "running"
  /\ UNCHANGED <<waitsFor, alarms, list, stop, freed, socketVars, undefined>>

\* alarm_delete and indexnodes_listener_delete write STOP to the thread's pipe
\* and join it.
Stop(t) ==
  /\ stop' = [stop EXCEPT ![t] = TRUE]
  /\ waitsFor' = t

fsfuse_destroy ==
  /\ Main("running")
  /\ Stop(Listener)
  /\ main' = "deleting"
  /\ UNCHANGED <<alarms, list, thread, freed, socketVars, undefined>>

\* pthread_join has returned, and the pipe and the structure are freed.
Joined_Mutant(t) == waitsFor = t /\ freed' = [freed EXCEPT ![t] = TRUE]
Joined(t) ==
  /\ waitsFor = t
  /\ thread[t] = "exited"
  /\ freed' = [freed EXCEPT ![t] = TRUE]

\* indexnodes_statics_manager_delete goes on to the next alarm.
StopNextAlarm ==
  /\ Main("deleting")
  /\ alarms # <<>>
  /\ \E t \in Threads : Joined(t)
  /\ Stop(Head(alarms))
  /\ alarms' = Tail(alarms)
  /\ UNCHANGED <<main, list, thread, socketVars, undefined>>

\* With the last thread joined: free the manager, the list, the lock.
FreeIndexnodes ==
  /\ Main("deleting")
  /\ alarms = <<>>
  /\ \E t \in Threads : Joined(t)
  /\ list' = "freed"
  /\ waitsFor' = 0
  /\ main' = "gone"
  /\ UNCHANGED <<alarms, thread, stop, socketVars, undefined>>

-----------------------------------------------------------------------------
\* The listener thread

\* indexnodes_listen_main: either socket may fail to be made or bound.
\* print_network_interfaces walks an uninitialised list when getifaddrs fails.
indexnodes_listen_main ==
  /\ In(Listener, "starting")
  /\ \/ /\ open' \in SUBSET Sockets
        /\ Becomes(Listener, "select")
        /\ UNCHANGED <<mainVars, stop, freed, inbox, ready, undefined>>
     \/ Undefined

Readable == {s \in open : inbox[s] # <<>>} \cup (IF stop[Listener] THEN {"control"} ELSE {})

\* select, which an interrupt may also end with nothing reported.
Select ==
  /\ In(Listener, "select")
  /\ Readable # {}
  /\ ready' = Readable
  /\ Becomes(Listener, "serve")
  /\ UNCHANGED <<mainVars, stop, freed, open, inbox, undefined>>

\* get_next_field steps over the terminator of the last field, so a packet of
\* fewer than three is read beyond its end, unless the second says that its
\* sender only offers to become an indexnode.
parse_advert_packet(p) ==
  IF Len(p) < 2 THEN "overrun"
  ELSE IF p[2] = "autoindexnode" THEN "err"
  ELSE IF Len(p) < 3 THEN "overrun" ELSE "ok"

\* More than receive_advert's buffer holds.
TooLong == <<"...">>

\* The fields of a packet, by what parse_advert_packet tells apart.
Packets == {<<"fs2protocol-0.13", "80", "id">>, <<"fs2protocol-0.13", "autoindexnode", "9">>,
            <<"fs2protocol-0.13", "80">>, TooLong}

\* receive_advert, which asserts that the packet fits; recvfrom may fail, and
\* socklen, which is not initialised, makes it do so as well.
receive_advert(s) ==
  LET p == inbox[s][1] IN
  /\ inbox' = [inbox EXCEPT ![s] = <<>>]
  /\ \/ /\ parse_advert_packet(p) = "ok"
        /\ Becomes(Listener, "event")
        /\ UNCHANGED undefined
     \/ /\ p = TooLong \/ parse_advert_packet(p) = "overrun"
        /\ undefined' = TRUE
        /\ UNCHANGED thread
     \/ /\ UNCHANGED <<thread, undefined>>

\* The turn of socket s: s4 before s6, and both before the pipe.
Turn(s) == s \in ready /\ (s = "s6" => "s4" \notin ready)

\* Serving one socket a turn.
ServeSocket_Mutant(s) ==
  /\ In(Listener, "serve")
  /\ Turn(s)
  /\ receive_advert(s)
  /\ ready' = ready \ Sockets
  /\ UNCHANGED <<mainVars, stop, freed, open>>

ServeSocket(s) ==
  /\ In(Listener, "serve")
  /\ Turn(s)
  /\ receive_advert(s)
  /\ ready' = ready \ {s}
  /\ UNCHANGED <<mainVars, stop, freed, open>>

\* The loop's end: leave if the pipe was readable, else select again.
ServeControl_Mutant ==
  /\ In(Listener, "serve")
  /\ ready \cap Sockets = {}
  /\ IF Readable = {"control"}
       THEN Becomes(Listener, "exited") /\ stop' = [stop EXCEPT ![Listener] = FALSE]
       ELSE Becomes(Listener, "select") /\ UNCHANGED stop
  /\ ready' = {}
  /\ UNCHANGED <<mainVars, freed, open, inbox, undefined>>
ServeControl ==
  /\ In(Listener, "serve")
  /\ ready \cap Sockets = {}
  /\ IF "control" \in ready
       THEN Becomes(Listener, "exited") /\ stop' = [stop EXCEPT ![Listener] = FALSE]
       ELSE Becomes(Listener, "select") /\ UNCHANGED stop
  /\ ready' = {}
  /\ UNCHANGED <<mainVars, freed, open, inbox, undefined>>

\* new_indexnode_event has returned.
EventReturns(t) ==
  /\ In(t, "event")
  /\ Becomes(t, IF t = Listener THEN "serve" ELSE "select")
  /\ UNCHANGED <<mainVars, stop, freed, socketVars, undefined>>

\* Indexnodes broadcast when they like; a full socket drops the packet.
Broadcast(s) ==
  /\ ~undefined
  /\ s \in open
  /\ inbox[s] = <<>>
  /\ \E p \in Packets : inbox' = [inbox EXCEPT ![s] = <<p>>]
  /\ UNCHANGED <<mainVars, thread, stop, freed, open, ready, undefined>>

-----------------------------------------------------------------------------
\* The alarm threads

\* select returns 0 after the interval and calls ping_indexnode, whose HEAD
\* request blocks.
AlarmTimeout(a) ==
  /\ In(a, "select")
  /\ ~stop[a]
  /\ Becomes(a, "ping")
  /\ UNCHANGED <<mainVars, stop, freed, socketVars, undefined>>

\* The headers that matter of an indexnode's answer, and the keys that
\* fs2_constants.c looks for, which hold a colon and a space as well.
Headers == {<<"fs2-version", ": ", "fs2protocol-0.13">>, <<"fs2-indexnode-uid", ": ", "id">>}
HeaderKeys == {<<"fs2-version", ": ">>, <<"fs2-indexnode-uid", ": ">>}

\* The key that header_cb_wrapper cuts from a line ends before its colon.
header_cb_wrapper(line) == SubSeq(line, 1, 1)

\* header_cb fills in protocol and id when their keys come by.
header_cb == HeaderKeys \subseteq {header_cb_wrapper(h) : h \in Headers}

\* The HEAD request failed, or what was left in `info' by its malloc looks
\* empty: nothing is told.
PingFails(a) ==
  /\ In(a, "ping")
  /\ Becomes(a, "select")
  /\ UNCHANGED <<mainVars, stop, freed, socketVars, undefined>>

\* It succeeded: proto_indexnode_get_info reads through the pointers in `info',
\* which header_cb has not set.
PingAnswered(a) ==
  /\ In(a, "ping")
  /\ IF header_cb
       THEN Becomes(a, "event") /\ UNCHANGED <<mainVars, stop, freed, socketVars, undefined>>
       ELSE Undefined

\* select finds the pipe readable.
AlarmStops(a) ==
  /\ In(a, "select")
  /\ stop[a]
  /\ Becomes(a, "exited")
  /\ stop' = [stop EXCEPT ![a] = FALSE]
  /\ UNCHANGED <<mainVars, freed, socketVars, undefined>>

Next ==
  \/ indexnodes_new \/ load_indexnodes_from_config \/ indexnodes_listener_new
  \/ fsfuse_destroy \/ StopNextAlarm \/ FreeIndexnodes
  \/ indexnodes_listen_main \/ Select \/ ServeControl
  \/ \E t \in Threads : EventReturns(t)
  \/ \E s \in Sockets : ServeSocket(s) \/ Broadcast(s)
  \/ \E a \in Alarms : \/ AlarmTimeout(a) \/ PingFails(a) \/ PingAnswered(a) \/ AlarmStops(a)

Spec == Init /\ [][Next]_vars

\* Threads run; an event ends, since RwLock's writers do (no reader is left
\* when it matters).  Nothing says that a ping ends: no timeout is set.
Fairness ==
  /\ WF_vars(indexnodes_new) /\ WF_vars(load_indexnodes_from_config)
  /\ WF_vars(indexnodes_listener_new) /\ WF_vars(StopNextAlarm) /\ WF_vars(FreeIndexnodes)
  /\ WF_vars(indexnodes_listen_main) /\ WF_vars(Select) /\ WF_vars(ServeControl)
  /\ \A t \in Threads : WF_vars(EventReturns(t))
  /\ \A s \in Sockets : WF_vars(ServeSocket(s))
  /\ \A a \in Alarms : WF_vars(AlarmStops(a))

FairSpec == Spec /\ Fairness

-----------------------------------------------------------------------------
\* Where the threads can be, and what may wait in the pipes and sockets.
TypeOK ==
  /\ main \in {"init", "statics", "listener", "running", "deleting", "gone"}
  /\ waitsFor \in Threads \cup {0}
  /\ alarms \in Seq(Alarms)
  /\ list \in {"none", "live", "freed"}
  /\ thread \in [Threads -> {"none", "starting", "select", "serve", "event", "ping", "exited"}]
  /\ stop \in [Threads -> BOOLEAN] /\ freed \in [Threads -> BOOLEAN]
  /\ open \subseteq Sockets /\ ready \subseteq Sockets \cup {"control"}
  /\ inbox \in [Sockets -> {<<>>} \cup {<<p>> : p \in Packets}]
  /\ undefined \in BOOLEAN

\* No thread runs on what is not there: whoever may call new_indexnode_event
\* finds the list and the lock, which indexnodes_new makes before it starts
\* any thread and indexnodes_delete frees after the last, and a thread has
\* taken its STOP and left before alarm_delete or indexnodes_listener_delete
\* frees its pipe and its arguments.
JoinedBeforeFreed ==
  \A t \in Threads :
    /\ thread[t] \notin {"none", "exited"} => list = "live"
    /\ freed[t] => thread[t] = "exited" /\ ~stop[t]

\* fsfuse_destroy returns, however many adverts arrive, unless a ping of a
\* static indexnode never ends.
StopsUnlessPingHangs ==
  \/ main = "deleting" ~> main = "gone"
  \/ \E a \in Alarms : <>[](thread[a] = "ping")
  \/ <>undefined

\* A flood on one socket does not starve the other: every datagram that waits
\* is received, unless the listener is told to stop.
EverySocketServed ==
  \A s \in Sockets :
    inbox[s] # <<>> ~> inbox[s] = <<>> \/ thread[Listener] = "exited" \/ undefined
=============================================================================
