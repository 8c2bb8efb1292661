--------------------------- MODULE ServiceLifecycle ---------------------------
(***************************************************************************)
(* The sessions of the Android service (OpenVpnService): start, stop,      *)
(* revocation and destruction, with the threads of a session.  Session k   *)
(* is the k-th start: a management thread that waits for the process on a  *)
(* socket, and a process thread that runs the process and calls            *)
(* processDied when it has ended.  Main thread, binder thread (onRevoke)   *)
(* and the threads of every session share the fields of the service and    *)
(* the list `active' of management threads.                                *)
(*                                                                         *)
(* A method is a sequence of steps, each of which reads or writes one      *)
(* field; what calls it takes the first one with it.  The sleeps of        *)
(* onStartCommand may be overtaken by anything.  What the process does     *)
(* while connected is in ManagementHold.                                   *)
(***************************************************************************)
EXTENDS Integers, Sequences, SequencesExt

CONSTANT MaxSessions   \* bound: intents that start a session

ASSUME ServiceLifecycleAssumption == MaxSessions \in Nat \ {0}

Session == 1 .. MaxSessions
None == 0                   \* a null reference
NoReceiver == -1
Main == 0
Binder == MaxSessions + 1
Thread == 0 .. MaxSessions + 1   \* Session: the process threads

VARIABLES
  mProcessThread, mManagement, mStarting,
  mDeviceStateReceiver,       \* the management it was made with
  exists, started,            \* what Android knows of the service
  prepared,    \* the system lets the application have a tunnel
  crashed,     \* an exception has ended the application
  session,     \* sessions started so far
  todo,        \* todo[t]: the steps thread t is about to take
  management,  \* management[k]: where the management thread of k is
  client,      \* client[k]: the process it has accepted (mSocket)
  active,      \* the list of management threads
  visiting,    \* iterator of thread Main or Binder over it: list and place;
               \* history: `served', the threads that had a process at its start
  path,        \* management thread whose server socket has the path
  process,     \* process[k]: the process of session k
  peer,        \* peer[k]: management thread its socket is connected to
  closed       \* management threads whose mSocket stopVPN has closed

fields == <<mProcessThread, mManagement, mStarting, mDeviceStateReceiver>>
android == <<exists, started, prepared, session>>
threads == <<management, client, active, path>>
processes == <<process, peer>>
vars == <<fields, android, crashed, todo, threads, visiting, processes, closed>>

Code == {"stop", "visit", "check", "interrupt", "started", "open", "launch",
         "register", "clear", "unregister", "checkStarting", "stopSelf",
         "checkReceiver", "dismiss"}

Iterator == [list : Seq(Session), at : Nat, served : SUBSET Session]
NotVisiting == [list |-> << >>, at |-> 0, served |-> {}]

TypeOK ==
  /\ mProcessThread \in 0 .. MaxSessions /\ mManagement \in 0 .. MaxSessions
  /\ mDeviceStateReceiver \in NoReceiver .. MaxSessions /\ mStarting \in BOOLEAN
  /\ exists \in BOOLEAN /\ started \in BOOLEAN /\ prepared \in BOOLEAN
  /\ crashed \in BOOLEAN
  /\ session \in 0 .. MaxSessions
  /\ todo \in [Thread -> Seq(Code)]
  /\ management \in [Session -> {"none", "bound", "listening", "serving", "ended"}]
  /\ client \in [Session -> 0 .. MaxSessions]
  /\ active \in Seq(Session)
  /\ visiting \in [{Main, Binder} -> Iterator]
  /\ \A t \in {Main, Binder} : visiting[t].at <= Len(visiting[t].list)
  /\ path \in 0 .. MaxSessions
  /\ process \in [Session -> {"none", "starting", "connected", "exited", "reported"}]
  /\ peer \in [Session -> 0 .. MaxSessions]
  /\ closed \subseteq Session

(* The activity has bound the service; it may unbind it, and bind it again,
   whenever the main thread is idle. *)
Init ==
  /\ mProcessThread = None /\ mManagement = None /\ mStarting = FALSE
  /\ mDeviceStateReceiver = NoReceiver
  /\ exists = TRUE /\ started = FALSE /\ prepared = FALSE /\ crashed = FALSE
  /\ session = 0
  /\ todo = [t \in Thread |-> << >>]
  /\ management = [k \in Session |-> "none"] /\ client = [k \in Session |-> None]
  /\ active = << >> /\ visiting = [t \in {Main, Binder} |-> NotVisiting] /\ path = None
  /\ process = [k \in Session |-> "none"] /\ peer = [k \in Session |-> None]
  /\ closed = {}

-----------------------------------------------------------------------------
(* Methods as the steps they take. *)

(* Mutation: the receiver is registered before the new management exists. *)
RegisterFirst ==
  <<"check", "started", "register", "open", "launch">>

(* Mutation: the start counts as over only when the process runs. *)
StartedLast ==
  <<"check", "open", "launch", "started", "register">>

onStartCommand == <<"check", "started", "open", "launch", "register">>

endVpnService == <<"clear", "unregister", "checkStarting">>
onDestroy == (IF mProcessThread = None THEN << >> ELSE <<"stop", "interrupt">>)
               \o <<"checkReceiver">>

(* Thread t takes the step c and has more steps to take first. *)
Take(t, c, more) ==
  /\ ~ crashed /\ todo[t] # << >> /\ Head(todo[t]) = c
  /\ todo' = [todo EXCEPT ![t] = more \o Tail(@)]

Idle(t) == todo[t] = << >>
Do(t, method) == ~ crashed /\ Idle(t) /\ todo' = [todo EXCEPT ![t] = method]

Started ==
  /\ Take(Main, "started", << >>)
  /\ mStarting' = FALSE
  /\ UNCHANGED <<mProcessThread, mManagement, mDeviceStateReceiver, android, crashed, threads,
                 visiting, processes, closed>>

(* On the binder thread; a process thread does it first of all. *)
Clear ==
  /\ Take(Binder, "clear", << >>)
  /\ mProcessThread' = None
  /\ UNCHANGED <<mManagement, mStarting, mDeviceStateReceiver, android, crashed, threads,
                 visiting, processes, closed>>

Register(t) ==
  /\ \/ Take(t, "unregister", << >>) /\ mDeviceStateReceiver' = NoReceiver
     \/ Take(t, "register", << >>) /\ mDeviceStateReceiver' = mManagement
  /\ UNCHANGED <<mProcessThread, mManagement, mStarting, android, crashed, threads, visiting,
                 processes, closed>>

(* mProcessThread is read again to be interrupted; the flag this sets cuts
   short no more than the wait for a process that has closed its output.
   onDestroy reads mDeviceStateReceiver again to unregister it, which it does
   not forget, and fails when another thread has done so in between. *)
Read(t) ==
  /\ \/ Take(t, "check", IF mProcessThread = None THEN << >> ELSE <<"interrupt">>)
          /\ UNCHANGED crashed
     \/ Take(t, "interrupt", << >>) /\ crashed' = (mProcessThread = None)
     \/ Take(t, "checkStarting", IF mStarting THEN << >> ELSE <<"stopSelf">>)
          /\ UNCHANGED crashed
     \/ Take(t, "checkReceiver",
             IF mDeviceStateReceiver = NoReceiver THEN << >> ELSE <<"dismiss">>)
          /\ UNCHANGED crashed
     \/ Take(t, "dismiss", << >>) /\ crashed' = (mDeviceStateReceiver = NoReceiver)
  /\ UNCHANGED <<fields, android, threads, visiting, processes, closed>>

stopSelf(t) ==
  /\ Take(t, "stopSelf", << >>)
  /\ started' = FALSE
  /\ UNCHANGED <<fields, exists, prepared, session, crashed, threads, visiting, processes, closed>>

-----------------------------------------------------------------------------
(* stopOpenVPN: every thread of `active' sends SIGINT, if its process is
   connected, and closes its socket.  It is reached through mManagement. *)
Iterate(t) ==
  visiting' = [visiting EXCEPT ![t] =
    [list |-> active, at |-> 0, served |-> {k \in Session : management[k] = "serving"}]]

StopBegins ==
  /\ Take(Main, "stop", <<"visit">>)
  /\ crashed' = (mManagement = None)
  /\ Iterate(Main)
  /\ UNCHANGED <<fields, android, threads, processes, closed>>

(* Mutation: the loop does not notice that the list has changed. *)
StopVisitsOn(t) ==
  LET v == visiting[t]
      over == v.at >= Len(active)
      j == active[v.at + 1]
  IN /\ Take(t, "visit", IF over THEN << >> ELSE <<"visit">>)
     /\ visiting' = [visiting EXCEPT ![t] =
                       IF over THEN NotVisiting ELSE [v EXCEPT !.at = v.at + 1]]
     /\ closed' = IF over \/ client[j] = None THEN closed ELSE closed \cup {j}
     /\ UNCHANGED <<fields, android, crashed, threads, processes>>

(* The iterator ends at the length the list has by now. *)
StopVisits(t) ==
  LET v == visiting[t]
      over == v.at = Len(active)
      j == active[v.at + 1]
  IN /\ over \/ active = v.list
     /\ Take(t, "visit", IF over THEN << >> ELSE <<"visit">>)
     /\ visiting' = [visiting EXCEPT ![t] =
                       IF over THEN NotVisiting ELSE [v EXCEPT !.at = v.at + 1]]
     /\ closed' = IF over \/ client[j] = None THEN closed ELSE closed \cup {j}
     /\ UNCHANGED <<fields, android, crashed, threads, processes>>

(* The iterator fails when the list has changed.  On the main thread that
   ends the application, on a binder thread the call. *)
StopFails(t) ==
  /\ ~ crashed /\ todo[t] # << >> /\ Head(todo[t]) = "visit"
  /\ visiting[t].at # Len(active) /\ active # visiting[t].list
  /\ crashed' = (t = Main)
  /\ todo' = [todo EXCEPT ![t] = << >>]
  /\ visiting' = [visiting EXCEPT ![t] = NotVisiting]
  /\ UNCHANGED <<fields, android, threads, processes, closed>>

-----------------------------------------------------------------------------
(* What Android and the user make the main and the binder thread do. *)

(* mStarting is set; a management of an earlier start is told to stop. *)
Start ==
  /\ session < MaxSessions /\ session' = session + 1
  /\ exists /\ started' = TRUE /\ prepared' = TRUE
  /\ mStarting' = TRUE
  /\ Do(Main, (IF mManagement = None THEN << >> ELSE <<"stop">>) \o onStartCommand)
  /\ UNCHANGED <<mProcessThread, mManagement, mDeviceStateReceiver, exists, crashed, threads,
                 visiting, processes, closed>>

(* stopVpnService of the activity. *)
Stop ==
  /\ exists /\ mManagement # None
  /\ Do(Main, <<"visit">>) /\ Iterate(Main)
  /\ UNCHANGED <<fields, android, crashed, threads, processes, closed>>

(* The system takes the tunnel away from the service that established it, once
   until the activity has asked for it again. *)
onRevoke ==
  /\ prepared /\ prepared' = FALSE
  /\ \E k \in Session : management[k] = "serving"
  /\ Do(Binder, <<"visit">> \o endVpnService) /\ Iterate(Binder)
  /\ UNCHANGED <<fields, exists, started, session, crashed, threads, processes, closed>>

(* The activity is closed, which unbinds the service, and it is not started. *)
Destroy ==
  /\ exists /\ ~ started
  /\ exists' = FALSE
  /\ Do(Main, onDestroy)
  /\ UNCHANGED <<fields, started, prepared, session, crashed, threads, visiting, processes,
                 closed>>

(* The receiver gets the state of the network as soon as it is registered,
   and calls its management, null or not. *)
networkStateChange ==
  /\ ~ crashed /\ Idle(Main) /\ exists /\ mDeviceStateReceiver = None
  /\ crashed' = TRUE
  /\ UNCHANGED <<fields, android, todo, threads, visiting, processes, closed>>

-----------------------------------------------------------------------------
(* The socket gets the path; without a user name nothing is opened. *)
openManagementInterface ==
  /\ Take(Main, "open", << >>)
  /\ \/ /\ management' = [management EXCEPT ![session] = "bound"]
        /\ path' = session
        /\ mManagement' = session
     \/ UNCHANGED <<management, path, mManagement>>
  /\ UNCHANGED <<mProcessThread, mStarting, mDeviceStateReceiver, android, crashed, client,
                 active, closed, visiting, processes>>

(* The process thread starts the process, or ends when it cannot. *)
Launch ==
  /\ Take(Main, "launch", << >>)
  /\ mProcessThread' = session
  /\ \E s \in {"starting", "exited"} : process' = [process EXCEPT ![session] = s]
  /\ UNCHANGED <<mManagement, mStarting, mDeviceStateReceiver, android, crashed, threads,
                 visiting, peer, closed>>

(* Mutation: the thread waits for its process before it is in the list. *)
ListenUnlisted(k) ==
  /\ ~ crashed /\ management[k] = "bound"
  /\ management' = [management EXCEPT ![k] = "listening"]
  /\ UNCHANGED <<fields, android, crashed, todo, client, active, path, closed, visiting,
                 processes>>

(* run, of the management thread: it enters the list and waits. *)
Listen(k) ==
  /\ ~ crashed /\ management[k] = "bound"
  /\ management' = [management EXCEPT ![k] = "listening"]
  /\ active' = Append(active, k)
  /\ UNCHANGED <<fields, android, crashed, todo, client, path, closed, visiting, processes>>

(* One process is accepted, even if it has ended since it connected; the
   server socket is closed. *)
Accept(k, c) ==
  /\ ~ crashed /\ management[k] = "listening"
  /\ peer[c] = k
  /\ management' = [management EXCEPT ![k] = "serving"]
  /\ client' = [client EXCEPT ![k] = c]
  /\ UNCHANGED <<fields, android, crashed, todo, active, path, closed, visiting, processes>>

(* The read returns -1 at the end of the stream, and the thread ends without
   leaving the list; it throws, or returns -1, when the socket was closed. *)
ManagementEnds(k) ==
  /\ ~ crashed /\ management[k] = "serving"
  /\ k \in closed \/ process[client[k]] \in {"exited", "reported"}
  /\ management' = [management EXCEPT ![k] = "ended"]
  /\ \/ UNCHANGED active
     \/ k \in closed /\ \E i \in DOMAIN active : active[i] = k /\ active' = RemoveAt(active, i)
  /\ UNCHANGED <<fields, android, crashed, todo, client, path, closed, visiting, processes>>

-----------------------------------------------------------------------------
(* The process, a client of the management socket. *)
Alive(c) == process[c] \in {"starting", "connected"}

man_connect(c) ==
  /\ ~ crashed /\ process[c] = "starting"
  /\ IF path # None /\ management[path] \in {"bound", "listening"}
       THEN /\ process' = [process EXCEPT ![c] = "connected"]
            /\ peer' = [peer EXCEPT ![c] = path]
       ELSE /\ process' = [process EXCEPT ![c] = "exited"]
            /\ UNCHANGED peer
  /\ UNCHANGED <<fields, android, crashed, todo, threads, visiting, closed>>

(* It has got SIGINT or the end of the stream, which for a client is fatal,
   its authentication has failed, or it cannot reach the server. *)
Exits(c) ==
  /\ ~ crashed /\ process[c] = "connected"
  /\ process' = [process EXCEPT ![c] = "exited"]
  /\ UNCHANGED <<fields, android, crashed, todo, threads, visiting, peer, closed>>

(* Mutation: the end of the process is not recorded. *)
DiedUnrecorded(k) ==
  /\ process[k] = "exited"
  /\ Do(k, Tail(endVpnService))
  /\ process' = [process EXCEPT ![k] = "reported"]
  /\ UNCHANGED <<fields, android, crashed, threads, visiting, peer, closed>>

(* The process thread has read all output, says NOPROCESS and calls processDied. *)
processDied(k) ==
  /\ process[k] = "exited"
  /\ mProcessThread' = None
  /\ Do(k, Tail(endVpnService))
  /\ process' = [process EXCEPT ![k] = "reported"]
  /\ UNCHANGED <<mManagement, mStarting, mDeviceStateReceiver, android, crashed, threads, visiting, peer, closed>>

-----------------------------------------------------------------------------
Next ==
  \/ Started \/ openManagementInterface \/ Launch
  \/ Clear \/ \E t \in Thread : Register(t) \/ Read(t) \/ stopSelf(t)
  \/ StopBegins \/ \E t \in {Main, Binder} : StopVisits(t) \/ StopFails(t)
  \/ Start \/ Stop \/ onRevoke \/ Destroy \/ networkStateChange
  \/ \E k \in Session :
       \/ Listen(k) \/ ManagementEnds(k)
       \/ \E c \in Session : Accept(k, c)
       \/ man_connect(k) \/ Exits(k) \/ processDied(k)

Spec == Init /\ [][Next]_vars

-----------------------------------------------------------------------------
(* Between two calls of the main thread the receiver of network changes, if   *)
(* it is still there, was made with the management that stops and the next    *)
(* start refer to (mManagement): whoever unregisters it meanwhile, and also   *)
(* when openManagementInterface has failed and that is the last session's.    *)
ReceiverFollowsManagement ==
  Idle(Main) => mDeviceStateReceiver \in {NoReceiver, mManagement}

(* Once a session has ended, mProcessThread is not its thread, in whatever   *)
(* order the end of the process, a new start and a revocation write it.      *)
EndedIsForgotten ==
  \A k \in Session : process[k] = "reported" /\ Idle(k) => mProcessThread # k

(* A stop that comes to the end of a list which is again as it was when it    *)
(* began has closed the socket of every management thread that had accepted   *)
(* its process by then, although the threads accept, end and leave the list   *)
(* on their own.  (A stop whose list has changed may miss one: it fails, or   *)
(* ends early when the list has shrunk to its place.  It passes over those    *)
(* that have no process yet.)                                                 *)
StopReaches ==
  [][\A t \in {Main, Binder} :
       LET v == visiting[t] IN
       v # NotVisiting /\ visiting'[t] = NotVisiting /\ active = v.list
         => v.served \subseteq closed']_vars

(* When the last process has ended and nothing is under way, the service is  *)
(* not left started: the process that ends while mStarting is set leaves it  *)
(* to the one that is being started.                                         *)
EndsWithItsSessions ==
  ~ crashed /\ (\A t \in Thread : Idle(t)) /\ (\A k \in Session : process[k] \in {"none", "reported"})
    => ~ started
=============================================================================
