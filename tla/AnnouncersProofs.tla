--------------------------- MODULE AnnouncersProofs ---------------------------
(***************************************************************************)
(* No thread of the indexnodes manager outlives what it uses, for any      *)
(* number of static indexnodes in the configuration.                       *)
(***************************************************************************)
EXTENDS Announcers, FiniteSetTheorems, SequenceTheorems, TLAPS

AlarmCount == IF HostCount < PortCount THEN HostCount ELSE PortCount

\* The alarms still on the manager's list, which is a stack: the i-th from
\* the bottom is alarm i.
Listed == 1 .. Len(alarms)

Stacked ==
  /\ Len(alarms) <= AlarmCount
  /\ \A i \in 1 .. Len(alarms) : alarms[i] = Len(alarms) + 1 - i

\* How far the main thread has come says which threads exist, and whether
\* there is a list for them.
Phases ==
  /\ main = "init" => alarms = <<>> /\ \A t \in Threads : thread[t] = "none"
  /\ main = "statics" => \A t \in Threads : t \notin Listed => thread[t] = "none"
  /\ main = "listener" => Len(alarms) = AlarmCount /\ thread[Listener] = "none"
  /\ main = "running" => Len(alarms) = AlarmCount
  /\ main \in {"statics", "listener", "running", "deleting"} => list = "live"
  /\ main \in {"init", "statics", "listener", "running"} =>
       waitsFor = 0 /\ \A t \in Threads : ~freed[t]

\* A thread is on the list, or is being stopped, or has been joined and freed.
OneByOne ==
  /\ main = "deleting" =>
       /\ waitsFor \in Threads \ Listed
       /\ ~freed[waitsFor]
       /\ \A t \in Threads : t \in Listed \/ t = waitsFor \/ freed[t]
  /\ main = "gone" => \A t \in Threads : freed[t]
  /\ \A t \in Threads : t \in Listed => ~freed[t]

\* Only the thread that main waits for has a STOP, which it takes as it ends.
Stops ==
  /\ \A t \in Threads : stop[t] => t = waitsFor /\ thread[t] # "exited"
  /\ \A t \in Threads : thread[t] = "exited" => t = waitsFor \/ freed[t]
  /\ \A t \in Threads : freed[t] => thread[t] = "exited"
  /\ "control" \in ready => stop[Listener]

Inv == TypeOK /\ Stacked /\ Phases /\ OneByOne /\ Stops

-----------------------------------------------------------------------------
\* load_indexnodes_from_config makes as many alarms as the shorter array has
\* entries.
LEMMA AlarmsCounted ==
  /\ AlarmCount \in Nat /\ Alarms = 1 .. AlarmCount
  /\ Cardinality(Alarms) = AlarmCount
  /\ Listener \notin Alarms /\ 0 \notin Threads /\ Listener \in Threads
<1>1. AlarmCount \in Nat /\ Alarms = 1 .. AlarmCount
  BY AnnouncersAssumption DEF AlarmCount, Alarms
<1>2. Cardinality(Alarms) = AlarmCount
  <2>1. 1 \in Int /\ AlarmCount \in Int
    BY <1>1
  <2>2. Cardinality(1 .. AlarmCount) = IF 1 > AlarmCount THEN 0 ELSE AlarmCount - 1 + 1
    BY <2>1, FS_Interval
  <2>. QED BY <1>1, <2>2
<1>. QED BY <1>1, <1>2, AnnouncersAssumption DEF Threads

\* Pushing the next alarm keeps the list a stack.
LEMMA Push ==
  ASSUME TypeOK, Stacked, Len(alarms) < AlarmCount,
         alarms' = <<Len(alarms) + 1>> \o alarms
  PROVE  /\ alarms' \in Seq(Alarms) /\ Len(alarms') = Len(alarms) + 1
         /\ Len(alarms) + 1 \in Alarms /\ Stacked'
<1>1. Len(alarms) \in Nat /\ Len(alarms) + 1 \in Alarms
  BY AlarmsCounted DEF TypeOK
<1>. DEFINE top == <<Len(alarms) + 1>>
<1>2. top \in Seq(Alarms) /\ Len(top) = 1 /\ top[1] = Len(alarms) + 1
  BY <1>1
<1>. HIDE DEF top
<1>3. alarms \in Seq(Alarms) /\ alarms' = top \o alarms
  BY DEF TypeOK, top
<1>4. /\ top \o alarms \in Seq(Alarms) /\ Len(top \o alarms) = 1 + Len(alarms)
      /\ \A i \in 1 .. 1 + Len(alarms) :
           (top \o alarms)[i] = IF i <= 1 THEN top[i] ELSE alarms[i - 1]
  BY <1>2, <1>3, ConcatProperties
<1>5. ASSUME NEW i \in 1 .. Len(alarms) + 1
      PROVE  alarms'[i] = Len(alarms) + 2 - i
  <2>1. CASE i = 1
    BY <1>1, <1>2, <1>3, <1>4, <2>1
  <2>2. CASE i # 1
    <3>1. i - 1 \in 1 .. Len(alarms) /\ alarms'[i] = alarms[i - 1]
      BY <1>1, <1>3, <1>4, <2>2
    <3>. QED BY <1>1, <3>1 DEF Stacked
  <2>. QED BY <2>1, <2>2
<1>. QED BY <1>1, <1>3, <1>4, <1>5, AlarmsCounted DEF Stacked

\* And popping one, which alarm_delete is then given.
LEMMA Pop ==
  ASSUME TypeOK, Stacked, alarms # <<>>, alarms' = Tail(alarms)
  PROVE  /\ alarms' \in Seq(Alarms) /\ Len(alarms') = Len(alarms) - 1
         /\ Len(alarms) \in Alarms /\ Head(alarms) = Len(alarms) /\ Stacked'
<1>1. alarms \in Seq(Alarms) /\ Len(alarms) \in Nat \ {0}
  BY EmptySeq DEF TypeOK
<1>2. Head(alarms) = alarms[1] /\ alarms[1] = Len(alarms)
  BY <1>1 DEF Stacked
<1>3. /\ alarms' \in Seq(Alarms) /\ Len(alarms') = Len(alarms) - 1
      /\ \A i \in 1 .. Len(alarms') : alarms'[i] = alarms[i + 1]
  BY <1>1, HeadTailProperties
<1>. QED BY <1>1, <1>2, <1>3, AlarmsCounted DEF Stacked

(***************************************************************************)
(* What a step of the listener or of an alarm thread does to the others:   *)
(* nothing.  It goes on, or it ends on a STOP that it takes.               *)
(***************************************************************************)
Ended == {"none", "exited"}

Moves ==
  /\ UNCHANGED <<mainVars, freed>>
  /\ \A t \in Threads :
       \/ thread'[t] = thread[t] /\ stop'[t] = stop[t]
       \/ /\ thread[t] \notin Ended /\ thread'[t] \notin Ended
          /\ stop'[t] = stop[t]
       \/ /\ thread[t] \notin Ended /\ thread'[t] = "exited"
          /\ stop[t] /\ ~stop'[t]
  /\ "control" \in ready' => stop'[Listener]

Workers ==
  \/ indexnodes_listen_main \/ Select \/ ServeControl
  \/ \E t \in Threads : EventReturns(t)
  \/ \E s \in Sockets : ServeSocket(s) \/ Broadcast(s)
  \/ \E a \in Alarms : AlarmTimeout(a) \/ PingFails(a) \/ PingAnswered(a) \/ AlarmStops(a)

\* Every step of theirs is such a move.
LEMMA WorkersMove == TypeOK /\ Stops /\ (Workers \/ UNCHANGED vars) => Moves
<1>. SUFFICES ASSUME TypeOK, Stops, Workers \/ UNCHANGED vars
              PROVE  Moves
  OBVIOUS
<1>0. Listener \in Threads /\ Alarms \subseteq Threads /\ Listener \notin Alarms
  BY AlarmsCounted DEF Threads
<1>. USE DEF Moves, Ended, socketVars, mainVars, TypeOK, In, Becomes, Stops
<1>1. CASE indexnodes_listen_main
  BY <1>0, <1>1 DEF indexnodes_listen_main, Undefined
<1>2. CASE Select
  <2>1. "control" \in ready' => stop[Listener]
    BY <1>2 DEF Select, Readable, Sockets
  <2>. QED BY <1>0, <1>2, <2>1 DEF Select
<1>3. CASE ServeControl
  BY <1>0, <1>3 DEF ServeControl
<1>4. ASSUME NEW t \in Threads, EventReturns(t)
      PROVE  Moves
  BY <1>0, <1>4 DEF EventReturns
<1>5. ASSUME NEW s \in Sockets, ServeSocket(s)
      PROVE  Moves
  <2>1. /\ thread[Listener] = "serve"
        /\ thread' = thread \/ thread' = [thread EXCEPT ![Listener] = "event"]
        /\ UNCHANGED <<stop, freed, main, waitsFor, alarms, list>>
        /\ ready' \subseteq ready
    BY <1>5 DEF ServeSocket, receive_advert
  <2>. QED BY <1>0, <2>1
<1>6. ASSUME NEW s \in Sockets, Broadcast(s)
      PROVE  Moves
  BY <1>6 DEF Broadcast
<1>7. ASSUME NEW a \in Alarms, AlarmTimeout(a) \/ PingFails(a)
      PROVE  Moves
  BY <1>0, <1>7 DEF AlarmTimeout, PingFails
<1>8. ASSUME NEW a \in Alarms, PingAnswered(a)
      PROVE  Moves
  <2>1. /\ thread[a] = "ping"
        /\ thread' = thread \/ thread' = [thread EXCEPT ![a] = "event"]
        /\ UNCHANGED <<stop, freed, main, waitsFor, alarms, list, ready>>
    <3>1. CASE header_cb
      BY <1>8, <3>1 DEF PingAnswered
    <3>2. CASE ~header_cb
      BY <1>8, <3>2 DEF PingAnswered, Undefined
    <3>. QED BY <3>1, <3>2
  <2>. QED BY <1>0, <2>1
<1>9. ASSUME NEW a \in Alarms, AlarmStops(a)
      PROVE  Moves
  BY <1>0, <1>9 DEF AlarmStops
<1>10. CASE UNCHANGED vars
  BY <1>10 DEF vars
<1>. QED BY <1>1, <1>2, <1>3, <1>4, <1>5, <1>6, <1>7, <1>8, <1>9, <1>10 DEF Workers

\* And it keeps the types.
LEMMA WorkersType == TypeOK /\ (Workers \/ UNCHANGED vars) => TypeOK'
<1>. SUFFICES ASSUME TypeOK, Workers \/ UNCHANGED vars
              PROVE  TypeOK'
  OBVIOUS
<1>0. Listener \in Threads /\ Alarms \subseteq Threads
  BY AlarmsCounted DEF Threads
<1>. USE DEF socketVars, mainVars, TypeOK, In, Becomes
<1>1. CASE indexnodes_listen_main
  BY <1>0, <1>1 DEF indexnodes_listen_main, Undefined
<1>2. CASE Select
  BY <1>0, <1>2 DEF Select, Readable
<1>3. CASE ServeControl
  BY <1>0, <1>3 DEF ServeControl
<1>4. ASSUME NEW t \in Threads, EventReturns(t)
      PROVE  TypeOK'
  BY <1>0, <1>4 DEF EventReturns
<1>5. ASSUME NEW s \in Sockets, ServeSocket(s)
      PROVE  TypeOK'
  <2>1. /\ thread' = thread \/ thread' = [thread EXCEPT ![Listener] = "event"]
        /\ UNCHANGED <<stop, freed, main, waitsFor, alarms, list, open>>
        /\ ready' \subseteq ready
        /\ undefined' \in BOOLEAN
        /\ inbox' = [inbox EXCEPT ![s] = <<>>]
    BY <1>5 DEF ServeSocket, receive_advert
  <2>2. inbox' \in [Sockets -> {<<>>} \cup {<<p>> : p \in Packets}]
    BY <2>1
  <2>3. thread' \in [Threads -> {"none", "starting", "select", "serve", "event", "ping", "exited"}]
    BY <1>0, <2>1
  <2>. QED BY <2>1, <2>2, <2>3
<1>6. ASSUME NEW s \in Sockets, Broadcast(s)
      PROVE  TypeOK'
  <2>1. inbox' \in [Sockets -> {<<>>} \cup {<<p>> : p \in Packets}]
    BY <1>6 DEF Broadcast
  <2>. QED BY <1>6, <2>1 DEF Broadcast
<1>7. ASSUME NEW a \in Alarms, AlarmTimeout(a) \/ PingFails(a)
      PROVE  TypeOK'
  BY <1>0, <1>7 DEF AlarmTimeout, PingFails
<1>8. ASSUME NEW a \in Alarms, PingAnswered(a)
      PROVE  TypeOK'
  <2>1. CASE header_cb
    BY <1>0, <1>8, <2>1 DEF PingAnswered
  <2>2. CASE ~header_cb
    BY <1>0, <1>8, <2>2 DEF PingAnswered, Undefined
  <2>. QED BY <2>1, <2>2
<1>9. ASSUME NEW a \in Alarms, AlarmStops(a)
      PROVE  TypeOK'
  BY <1>0, <1>9 DEF AlarmStops
<1>10. CASE UNCHANGED vars
  BY <1>10 DEF vars
<1>. QED BY <1>1, <1>2, <1>3, <1>4, <1>5, <1>6, <1>7, <1>8, <1>9, <1>10 DEF Workers

\* Such a move disturbs nothing that the main thread relies on.
LEMMA MovesKeep ==
  Inv /\ Moves => Stacked' /\ Phases' /\ OneByOne' /\ Stops'
<1>. SUFFICES ASSUME Inv, Moves
              PROVE  Stacked' /\ Phases' /\ OneByOne' /\ Stops'
  OBVIOUS
<1>1. UNCHANGED <<main, waitsFor, alarms, list, freed, Listed>>
  BY DEF Moves, mainVars, Listed
<1>2. \A t \in Threads : thread[t] = "none" <=> thread'[t] = "none"
  BY DEF Moves, Ended
<1>3. Listener \in Threads
  BY AlarmsCounted
<1>4. Stacked' /\ Phases' /\ OneByOne'
  BY <1>1, <1>2, <1>3 DEF Inv, Stacked, Phases, OneByOne
<1>5. Stops'
  BY <1>1, <1>3 DEF Inv, Stops, Moves, Ended
<1>. QED BY <1>4, <1>5

-----------------------------------------------------------------------------
\* The list and the lock are made before any thread.
LEMMA NewKeeps == Inv /\ indexnodes_new => Inv'
<1>. SUFFICES ASSUME Inv, indexnodes_new PROVE Inv'
  OBVIOUS
<1>1. /\ main = "init" /\ main' = "statics" /\ list' = "live"
      /\ UNCHANGED <<waitsFor, alarms, thread, stop, freed, open, inbox, ready, undefined, Listed>>
  BY DEF indexnodes_new, Main, socketVars, Listed
<1>. QED BY <1>1 DEF Inv, TypeOK, Stacked, Phases, OneByOne, Stops

\* One alarm more, or the end of the configuration's entries.
LEMMA LoadKeeps == Inv /\ load_indexnodes_from_config => Inv'
<1>. SUFFICES ASSUME Inv, load_indexnodes_from_config PROVE Inv'
  OBVIOUS
<1>1. /\ main = "statics"
      /\ UNCHANGED <<waitsFor, list, stop, freed, open, inbox, ready, undefined>>
  BY DEF load_indexnodes_from_config, Main, socketVars
<1>2. CASE Len(alarms) < Cardinality(Alarms)
  <2>1. /\ alarms' = <<Len(alarms) + 1>> \o alarms
        /\ thread' = [thread EXCEPT ![Len(alarms) + 1] = "select"]
        /\ main' = main
    BY <1>2, AlarmsCounted DEF load_indexnodes_from_config, Becomes, Inv, TypeOK
  <2>2. /\ alarms' \in Seq(Alarms) /\ Len(alarms') = Len(alarms) + 1
        /\ Len(alarms) + 1 \in Alarms /\ Stacked'
    BY <1>2, <2>1, Push, AlarmsCounted DEF Inv
  <2>3. Len(alarms) \in Nat /\ Listed' = Listed \cup {Len(alarms) + 1}
    BY <2>2 DEF Listed, Inv, TypeOK
  <2>4. Len(alarms) + 1 \in Threads /\ ~freed[Len(alarms) + 1] /\ ~stop[Len(alarms) + 1]
    BY <1>1, <2>2, AlarmsCounted DEF Threads, Inv, Phases, Stops
  <2>5. TypeOK'
    BY <1>1, <2>1, <2>2, <2>4 DEF Inv, TypeOK
  <2>6. Phases' /\ OneByOne' /\ Stops'
    <3>. DEFINE k == Len(alarms) + 1
    <3>1. thread'[k] = "select" /\ \A t \in Threads : t # k => thread'[t] = thread[t]
      BY <2>1, <2>4 DEF Inv, TypeOK
    <3>. HIDE DEF k
    <3>2. Listed' = Listed \cup {k} /\ ~freed[k] /\ ~stop[k] /\ k \in Threads
      BY <2>3, <2>4 DEF k
    <3>3. Phases'
      BY <1>1, <2>1, <3>1, <3>2 DEF Inv, Phases
    <3>4. OneByOne'
      BY <1>1, <2>1, <3>1, <3>2 DEF Inv, OneByOne
    <3>5. Stops'
      BY <1>1, <2>1, <3>1, <3>2 DEF Inv, Stops
    <3>. QED BY <3>3, <3>4, <3>5
  <2>. QED BY <2>2, <2>5, <2>6 DEF Inv
<1>3. CASE ~(Len(alarms) < Cardinality(Alarms))
  <2>1. main' = "listener" /\ Len(alarms) = AlarmCount /\ UNCHANGED <<alarms, thread, Listed>>
    BY <1>3, AlarmsCounted DEF load_indexnodes_from_config, Listed
  <2>2. Listed = Alarms /\ thread[Listener] = "none"
    BY <1>1, <2>1, AlarmsCounted DEF Listed, Inv, Phases
  <2>. QED BY <1>1, <2>1, <2>2 DEF Inv, TypeOK, Stacked, Phases, OneByOne, Stops
<1>. QED BY <1>2, <1>3

\* The listener comes last.
LEMMA ListenerKeeps == Inv /\ indexnodes_listener_new => Inv'
<1>. SUFFICES ASSUME Inv, indexnodes_listener_new PROVE Inv'
  OBVIOUS
<1>1. /\ main = "listener" /\ main' = "running"
      /\ thread' = [thread EXCEPT ![Listener] = "starting"]
      /\ UNCHANGED <<waitsFor, alarms, list, stop, freed, open, inbox, ready, undefined, Listed>>
  BY DEF indexnodes_listener_new, Main, Becomes, socketVars, Listed
<1>2. Listener \in Threads
  BY AlarmsCounted
<1>3. thread'[Listener] = "starting" /\ \A t \in Threads : t # Listener => thread'[t] = thread[t]
  BY <1>1, <1>2 DEF Inv, TypeOK
<1>. QED BY <1>1, <1>2, <1>3 DEF Inv, TypeOK, Stacked, Phases, OneByOne, Stops

\* fsfuse_destroy stops the listener first: nothing has been stopped before.
LEMMA DestroyKeeps == Inv /\ fsfuse_destroy => Inv'
<1>. SUFFICES ASSUME Inv, fsfuse_destroy PROVE Inv'
  OBVIOUS
<1>1. /\ main = "running" /\ main' = "deleting" /\ waitsFor' = Listener
      /\ stop' = [stop EXCEPT ![Listener] = TRUE]
      /\ UNCHANGED <<alarms, list, thread, freed, open, inbox, ready, undefined, Listed>>
  BY DEF fsfuse_destroy, Main, Stop, socketVars, Listed
<1>2. /\ Listener \in Threads /\ Len(alarms) = AlarmCount /\ waitsFor = 0
      /\ \A t \in Threads : ~freed[t]
  BY <1>1, AlarmsCounted DEF Inv, Phases
<1>3. Listed = Alarms /\ Threads = Alarms \cup {Listener} /\ Listener \notin Alarms
      /\ 0 \notin Threads
  BY <1>2, AlarmsCounted DEF Listed, Threads
<1>4. /\ \A t \in Threads : thread[t] # "exited"
      /\ \A t \in Threads : stop'[t] <=> t = Listener
  BY <1>1, <1>2, <1>3 DEF Inv, Stops, TypeOK
<1>5. TypeOK'
  BY <1>1, <1>2 DEF Inv, TypeOK
<1>6. Stacked' /\ Phases'
  BY <1>1 DEF Inv, Stacked, Phases
<1>7. OneByOne'
  BY <1>1, <1>2, <1>3 DEF Inv, OneByOne
<1>8. Stops'
  BY <1>1, <1>2, <1>4 DEF Inv, Stops
<1>. QED BY <1>5, <1>6, <1>7, <1>8 DEF Inv

\* The thread that was stopped has been joined; the next is still running.
LEMMA StopKeeps == Inv /\ StopNextAlarm => Inv'
<1>. SUFFICES ASSUME Inv, StopNextAlarm PROVE Inv'
  OBVIOUS
<1>1. /\ main = "deleting" /\ alarms # <<>> /\ alarms' = Tail(alarms)
      /\ stop' = [stop EXCEPT ![Head(alarms)] = TRUE] /\ waitsFor' = Head(alarms)
      /\ UNCHANGED <<main, list, thread, open, inbox, ready, undefined>>
  BY DEF StopNextAlarm, Main, Stop, socketVars
<1>2. PICK j \in Threads : /\ waitsFor = j /\ thread[j] = "exited"
                           /\ freed' = [freed EXCEPT ![j] = TRUE]
  BY DEF StopNextAlarm, Joined
<1>. DEFINE k == Len(alarms)
<1>3. /\ alarms' \in Seq(Alarms) /\ Len(alarms') = k - 1 /\ k \in Alarms
      /\ Head(alarms) = k /\ Stacked'
  BY <1>1, Pop DEF Inv
<1>4. k \in Threads /\ k \in Nat /\ k \in Listed /\ Listed' = Listed \ {k}
  BY <1>3, AlarmsCounted DEF Threads, Listed
<1>. HIDE DEF k
<1>5. j \notin Listed /\ j # k /\ ~freed[k] /\ thread[k] # "exited"
  BY <1>1, <1>2, <1>4 DEF Inv, OneByOne, Stops
<1>6. /\ \A t \in Threads : freed'[t] <=> freed[t] \/ t = j
      /\ \A t \in Threads : stop'[t] <=> t = k
  BY <1>1, <1>2, <1>3, <1>4 DEF Inv, TypeOK, Stops
<1>7. TypeOK'
  BY <1>1, <1>2, <1>3, <1>4 DEF Inv, TypeOK
<1>8. Phases'
  BY <1>1 DEF Inv, Phases
<1>9. OneByOne'
  BY <1>1, <1>2, <1>3, <1>4, <1>5, <1>6 DEF Inv, OneByOne
<1>10. Stops'
  <2>1. \A t \in Threads : thread[t] = "exited" => freed'[t]
    BY <1>2, <1>6 DEF Inv, Stops
  <2>2. "control" \notin ready'
    BY <1>1, <1>2, AlarmsCounted DEF Inv, Stops
  <2>. QED BY <1>1, <1>2, <1>3, <1>4, <1>5, <1>6, <2>1, <2>2 DEF Inv, Stops
<1>. QED BY <1>3, <1>7, <1>8, <1>9, <1>10 DEF Inv

\* The last thread has been joined when the list goes.
LEMMA FreeKeeps == Inv /\ FreeIndexnodes => Inv'
<1>. SUFFICES ASSUME Inv, FreeIndexnodes PROVE Inv'
  OBVIOUS
<1>1. /\ main = "deleting" /\ alarms = <<>> /\ list' = "freed" /\ waitsFor' = 0
      /\ main' = "gone"
      /\ UNCHANGED <<alarms, thread, stop, open, inbox, ready, undefined, Listed>>
  BY DEF FreeIndexnodes, Main, socketVars, Listed
<1>2. PICK j \in Threads : /\ waitsFor = j /\ thread[j] = "exited"
                           /\ freed' = [freed EXCEPT ![j] = TRUE]
  BY DEF FreeIndexnodes, Joined
<1>3. Listed = {}
  BY <1>1 DEF Listed
<1>4. \A t \in Threads : freed'[t] /\ thread[t] = "exited" /\ ~stop[t]
  BY <1>1, <1>2, <1>3 DEF Inv, TypeOK, OneByOne, Stops
<1>5. TypeOK'
  BY <1>1, <1>2 DEF Inv, TypeOK
<1>6. Stacked' /\ Phases'
  BY <1>1 DEF Inv, Stacked, Phases
<1>7. OneByOne'
  BY <1>1, <1>3, <1>4 DEF OneByOne
<1>8. Stops'
  BY <1>1, <1>4, AlarmsCounted DEF Inv, Stops
<1>. QED BY <1>5, <1>6, <1>7, <1>8 DEF Inv

-----------------------------------------------------------------------------
\* Before fsfuse_init there are no threads and no list.
LEMMA InitInv == Init => Inv
<1>. SUFFICES ASSUME Init PROVE Inv
  OBVIOUS
<1>1. alarms = <<>> /\ alarms \in Seq(Alarms) /\ Len(alarms) = 0
  BY DEF Init
<1>2. TypeOK
  BY <1>1 DEF Init, TypeOK
<1>. QED BY <1>1, <1>2, AlarmsCounted
         DEF Inv, Init, Stacked, Phases, OneByOne, Stops, Listed

\* Every step keeps the invariant.
LEMMA NextInv == Inv /\ [Next]_vars => Inv'
<1>. SUFFICES ASSUME Inv, [Next]_vars PROVE Inv'
  OBVIOUS
<1>1. CASE Workers \/ UNCHANGED vars
  BY <1>1, WorkersMove, WorkersType, MovesKeep DEF Inv
<1>2. CASE ~(Workers \/ UNCHANGED vars)
  <2>1. \/ indexnodes_new \/ load_indexnodes_from_config \/ indexnodes_listener_new
        \/ fsfuse_destroy \/ StopNextAlarm \/ FreeIndexnodes
    BY <1>2 DEF Next, Workers
  <2>. QED BY <2>1, NewKeeps, LoadKeeps, ListenerKeeps, DestroyKeeps, StopKeeps, FreeKeeps
<1>. QED BY <1>1, <1>2

\* So it always holds.
LEMMA Invariance == Spec => []Inv
<1>1. Inv /\ [Next]_vars => Inv'
  BY NextInv
<1>. QED BY <1>1, InitInv, PTL DEF Spec

(***************************************************************************)
(* Type correctness of the manager and its threads.                        *)
(***************************************************************************)
THEOREM TypeCorrect == Spec => []TypeOK
<1>1. Inv => TypeOK
  BY DEF Inv
<1>. QED BY <1>1, Invariance, PTL

(***************************************************************************)
(* indexnodes_new makes the list and the lock before it starts any thread, *)
(* and indexnodes_delete frees them, and what each thread owns, after it   *)
(* has joined that thread: for any number of static indexnodes, whatever   *)
(* packets arrive, and however a ping is slow.                             *)
(***************************************************************************)
THEOREM ThreadsJoinedBeforeFreed == Spec => []JoinedBeforeFreed
<1>1. Inv => JoinedBeforeFreed
  <2>. SUFFICES ASSUME Inv, NEW t \in Threads
                PROVE  /\ thread[t] \notin {"none", "exited"} => list = "live"
                       /\ freed[t] => thread[t] = "exited" /\ ~stop[t]
    BY DEF JoinedBeforeFreed
  <2>1. freed[t] => thread[t] = "exited" /\ ~stop[t]
    BY DEF Inv, Stops
  <2>2. main \in {"init", "statics", "listener", "running", "deleting", "gone"}
    BY DEF Inv, TypeOK
  <2>. QED BY <2>1, <2>2 DEF Inv, Phases, OneByOne, Stops
<1>. QED BY <1>1, Invariance, PTL

\* alarm_delete and indexnodes_listener_delete write to the pipe of a thread
\* that is there to read it.
StopsOnlyTheLiving ==
  [][\A t \in Threads : ~stop[t] /\ stop'[t] => thread[t] # "exited" /\ ~freed[t]]_vars

(***************************************************************************)
(* A thread is told to stop while it runs, and never again: no STOP is     *)
(* written to the pipe of a thread that has left, where nobody would read  *)
(* it, or whose pipe has been freed.                                       *)
(***************************************************************************)
THEOREM StoppedOnce == Spec => StopsOnlyTheLiving
<1>1. Inv /\ Inv' /\ [Next]_vars =>
        [\A t \in Threads : ~stop[t] /\ stop'[t] => thread[t] # "exited" /\ ~freed[t]]_vars
  <2>. SUFFICES ASSUME Inv, Inv', [Next]_vars, NEW t \in Threads, ~stop[t], stop'[t]
                PROVE  thread[t] # "exited" /\ ~freed[t]
    OBVIOUS
  <2>1. ~(Workers \/ UNCHANGED vars)
    BY WorkersMove DEF Inv, Moves
  <2>2. UNCHANGED thread
    <3>1. fsfuse_destroy \/ StopNextAlarm
      BY <2>1 DEF Next, Workers, indexnodes_new, load_indexnodes_from_config,
                  indexnodes_listener_new, FreeIndexnodes
    <3>. QED BY <3>1 DEF fsfuse_destroy, StopNextAlarm
  <2>. QED BY <2>2 DEF Inv, Stops
<1>. QED BY <1>1, Invariance, PTL DEF Spec, StopsOnlyTheLiving
=============================================================================
