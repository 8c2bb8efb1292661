--------------------------- MODULE ManagementHold ---------------------------
(***************************************************************************)
(* How the Android service holds and releases the openvpn process when the *)
(* network comes and goes.  Three threads of control: the main thread      *)
(* (DeviceStateReceiver and the methods of OpenVPNManagement it calls),    *)
(* the management thread (OpenVpnManagementThread.run and handleHold),     *)
(* which share unsynchronised fields, and the process, which waits in a    *)
(* management hold (management_hold, manage.c:3162), runs, and comes back  *)
(* to the hold at every restart.  Two byte streams connect them.           *)
(*                                                                         *)
(* A method is a sequence of steps, each of which reads or writes one      *)
(* field or sends one command; the sleep of releaseHoldCmd is a step that  *)
(* is long in coming.  The preferences have their defaults, which nothing  *)
(* in the application changes: netchangereconnect is on, and screenoff off *)
(* leaves `screen' at SHOULDBECONNECTED.                                   *)
(***************************************************************************)
EXTENDS Naturals, Sequences, FiniteSets

CONSTANTS
  NetworkType,   \* types of network (NetworkInfo.getType)
  NoNetwork,     \* -1, and a missing NetworkInfo
  MaxEvents,     \* bound: intents the main thread receives
  MaxRestarts    \* bound: restarts of the process by itself

ASSUME ManagementHoldAssumption ==
  NoNetwork \notin NetworkType /\ MaxEvents \in Nat /\ MaxRestarts \in Nat

Thread == {"main", "management"}

VARIABLES
  network, userpause, lastNetwork,      \* DeviceStateReceiver
  redundant,     \* history: a resume of the user that changed nothing came last
  mReleaseHold, mWaitingForRelease,     \* OpenVpnManagementThread
  mSocket,       \* whether the management thread has accepted the process
  todo,          \* todo[t]: the steps thread t is about to take
  toProcess,     \* commands on their way to the process
  toApp,         \* its messages on their way to the management thread
  process,       \* where the process is
  hold_release,  \* man->persist.hold_release
  authorized,    \* auth_user_pass.defined
  events, restarts

device == <<network, userpause, lastNetwork, redundant>>
hold == <<mReleaseHold, mWaitingForRelease>>
engine == <<process, hold_release, authorized, restarts>>
vars == <<device, hold, mSocket, todo, toProcess, toApp, engine, events>>

ConnectState == {"SHOULDBECONNECTED", "DISCONNECTED"}
Code == {"clear", "signal", "SIGHUP", "set", "check", "handleHold", "wait", "unwait",
         "release", "password"}

TypeOK ==
  /\ network \in ConnectState /\ userpause \in ConnectState
  /\ lastNetwork \in NetworkType \cup {NoNetwork} /\ redundant \in BOOLEAN
  /\ mReleaseHold \in BOOLEAN /\ mWaitingForRelease \in BOOLEAN /\ mSocket \in BOOLEAN
  /\ todo \in [Thread -> Seq(Code)]
  /\ toProcess \in Seq({"SIGHUP", "release", "password"})
  /\ toApp \in Seq({"HOLD", "PASSWORD"})
  /\ process \in {"hold", "query", "run", "exited"}
  /\ hold_release \in BOOLEAN /\ authorized \in BOOLEAN
  /\ events \in 0 .. MaxEvents /\ restarts \in 0 .. MaxRestarts

Init ==
  /\ network = "DISCONNECTED" /\ userpause = "SHOULDBECONNECTED"
  /\ lastNetwork = NoNetwork /\ redundant = FALSE
  /\ mReleaseHold = FALSE /\ mWaitingForRelease = FALSE /\ mSocket = FALSE
  /\ todo = [t \in Thread |-> << >>]
  /\ toProcess = << >> /\ toApp = <<"HOLD">>
  /\ process = "hold" /\ hold_release = FALSE /\ authorized = FALSE
  /\ events = 0 /\ restarts = 0

-----------------------------------------------------------------------------
(* The methods of OpenVPNManagement, as the steps they take. *)
signalusr1 == <<"clear", "signal">>
releaseHold == <<"set", "check">>
releaseHoldCmd == <<"unwait", "release">>
pause == signalusr1
resume == releaseHold
reconnect == signalusr1 \o releaseHold

(* Thread t takes the step c, and what follows is `then' and its other steps. *)
Take(t, c, then) ==
  /\ todo[t] # << >> /\ Head(todo[t]) = c
  /\ todo' = [todo EXCEPT ![t] = then \o Tail(@)]

Write(t) ==
  /\ \/ Take(t, "clear", << >>) /\ mReleaseHold' = FALSE /\ UNCHANGED mWaitingForRelease
     \/ Take(t, "set", << >>) /\ mReleaseHold' = TRUE /\ UNCHANGED mWaitingForRelease
     \/ Take(t, "wait", << >>) /\ mWaitingForRelease' = TRUE /\ UNCHANGED mReleaseHold
     \/ Take(t, "unwait", << >>) /\ mWaitingForRelease' = FALSE /\ UNCHANGED mReleaseHold
  /\ UNCHANGED <<device, mSocket, toProcess, toApp, engine, events>>

Read(t) ==
  /\ \/ Take(t, "signal", IF mWaitingForRelease THEN << >> ELSE <<"SIGHUP">>)
     \/ Take(t, "check", IF mWaitingForRelease THEN releaseHoldCmd ELSE << >>)
     \/ Take(t, "handleHold", IF mReleaseHold THEN releaseHoldCmd ELSE <<"wait">>)
  /\ UNCHANGED <<device, hold, mSocket, toProcess, toApp, engine, events>>

(* managmentCommand drops what is sent before the process is connected. *)
managmentCommand(t) ==
  /\ \E c \in {"SIGHUP", "release", "password"} :
       /\ Take(t, c, << >>)
       /\ toProcess' = IF mSocket THEN Append(toProcess, c) ELSE toProcess
  /\ UNCHANGED <<device, hold, mSocket, toApp, engine, events>>

-----------------------------------------------------------------------------
(* The main thread: DeviceStateReceiver. *)
shouldBeConnected(net, user) == net = "SHOULDBECONNECTED" /\ user = "SHOULDBECONNECTED"

Event ==
  /\ todo["main"] = << >> /\ events < MaxEvents /\ events' = events + 1
  /\ UNCHANGED <<hold, mSocket, toProcess, toApp, engine>>
Run(steps) == todo' = [todo EXCEPT !["main"] = steps]

(* A network of type newnet is connected, again or instead of another. *)
NetworkConnected(newnet) ==
  LET changes == lastNetwork # newnet /\ shouldBeConnected(network', userpause) IN
  /\ Event
  /\ network' = "SHOULDBECONNECTED" /\ lastNetwork' = newnet /\ UNCHANGED userpause
  /\ redundant' = (redundant /\ ~ changes)
  /\ Run(IF ~ changes THEN << >>
         ELSE IF lastNetwork = NoNetwork THEN resume ELSE reconnect)

(* Mutation: the network lost is remembered as the last one. *)
NetworkLostKept ==
  /\ Event
  /\ network' = "DISCONNECTED" /\ UNCHANGED <<lastNetwork, userpause>>
  /\ redundant' = FALSE
  /\ Run(pause)

NetworkLost ==
  /\ Event
  /\ network' = "DISCONNECTED" /\ lastNetwork' = NoNetwork /\ UNCHANGED userpause
  /\ redundant' = FALSE
  /\ Run(pause)

ScreenOn ==
  /\ Event /\ UNCHANGED device
  /\ Run(IF shouldBeConnected(network, userpause) THEN << >> ELSE pause)

(* Mutation: the pause of the user is left pending. *)
UserPausePending(pauses) ==
  LET wereConnected == shouldBeConnected(network, userpause) IN
  /\ Event
  /\ userpause' = IF pauses THEN "PENDINGDISCONNECT" ELSE "SHOULDBECONNECTED"
  /\ UNCHANGED <<network, lastNetwork>>
  /\ redundant' = (~ pauses /\ wereConnected)
  /\ Run(IF shouldBeConnected(network, userpause') /\ ~ wereConnected THEN resume ELSE pause)

(* PAUSE_VPN and RESUME_VPN, either at any time: a resume while the process
   should be connected already pauses it. *)
userPause(pauses) ==
  LET wereConnected == shouldBeConnected(network, userpause) IN
  /\ Event
  /\ userpause' = IF pauses THEN "DISCONNECTED" ELSE "SHOULDBECONNECTED"
  /\ UNCHANGED <<network, lastNetwork>>
  /\ redundant' = (~ pauses /\ wereConnected)
  /\ Run(IF shouldBeConnected(network, userpause') /\ ~ wereConnected THEN resume ELSE pause)

-----------------------------------------------------------------------------
(* The management thread: run and processCommand. *)
Accept ==
  /\ ~ mSocket /\ mSocket' = TRUE
  /\ UNCHANGED <<device, hold, todo, toProcess, toApp, engine, events>>

processCommand ==
  /\ mSocket /\ todo["management"] = << >> /\ toApp # << >>
  /\ toApp' = Tail(toApp)
  /\ todo' = [todo EXCEPT !["management"] =
       IF Head(toApp) = "HOLD" THEN <<"handleHold">> ELSE <<"password">>]
  /\ UNCHANGED <<device, hold, mSocket, toProcess, engine, events>>

-----------------------------------------------------------------------------
(* The process: man_read takes some of the commands that have arrived, all
   of them before anything else happens. *)
Commands(n) == {toProcess[i] : i \in 1 .. n}

Taken(n) ==
  /\ n \in 1 .. Len(toProcess)
  /\ toProcess' = SubSeq(toProcess, n + 1, Len(toProcess))
  /\ UNCHANGED <<device, hold, mSocket, todo, events>>

(* A hold ends with the release; a SIGHUP is ignored (MANSIG_IGNORE_USR1_HUP)
   and makes the process repeat its HOLD message (man_signal).  Next it asks
   for the credentials, once. *)
management_hold(n) ==
  LET ignored == {i \in 1 .. n : toProcess[i] = "SIGHUP"}
      holds == [i \in 1 .. Cardinality(ignored) |-> "HOLD"]
      released == "release" \in Commands(n)
      asks == released /\ ~ authorized
  IN /\ process = "hold" /\ Taken(n)
     /\ hold_release' = released
     /\ process' = IF asks THEN "query" ELSE IF released THEN "run" ELSE "hold"
     /\ toApp' = toApp \o holds \o (IF asks THEN <<"PASSWORD">> ELSE << >>)
     /\ UNCHANGED <<authorized, restarts>>

(* A signal while credentials are asked for is fatal (get_user_pass_cr). *)
management_query_user_pass(n) ==
  /\ process = "query" /\ Taken(n)
  /\ authorized' = ("password" \in Commands(n))
  /\ process' = IF "SIGHUP" \in Commands(n) THEN "exited"
                ELSE IF authorized' THEN "run" ELSE "query"
  /\ UNCHANGED <<toApp, hold_release, restarts>>

(* Mutation: only the first hold is announced. *)
RestartsSilently ==
  /\ process' = "hold" /\ hold_release' = FALSE
  /\ UNCHANGED toApp

(* A restart forgets the release (management_clear_callback) and holds. *)
Restarts ==
  /\ process' = "hold" /\ hold_release' = FALSE
  /\ toApp' = Append(toApp, "HOLD")

(* While it still initialises, the process restarts without forgetting the
   release, and does not hold (tunnel_point_to_point returns early). *)
RunCommands(n) ==
  /\ process = "run" /\ Taken(n)
  /\ \/ "SIGHUP" \in Commands(n) /\ Restarts
     \/ /\ hold_release' = (hold_release \/ "release" \in Commands(n))
        /\ UNCHANGED <<process, toApp>>
  /\ UNCHANGED <<authorized, restarts>>

(* SIGUSR1 by a ping timeout or a TLS error, once it is initialised. *)
RestartByItself ==
  /\ process = "run"
  /\ restarts < MaxRestarts /\ restarts' = restarts + 1
  /\ Restarts
  /\ UNCHANGED <<device, hold, mSocket, todo, toProcess, authorized, events>>

-----------------------------------------------------------------------------
Next ==
  \/ \E t \in Thread : Write(t) \/ Read(t) \/ managmentCommand(t)
  \/ \E newnet \in NetworkType : NetworkConnected(newnet)
  \/ NetworkLost \/ ScreenOn
  \/ \E pauses \in BOOLEAN : userPause(pauses)
  \/ Accept \/ processCommand
  \/ \E n \in 1 .. Len(toProcess) :
       management_hold(n) \/ management_query_user_pass(n) \/ RunCommands(n)
  \/ RestartByItself

Spec == Init /\ [][Next]_vars

-----------------------------------------------------------------------------
(* Nothing is under way: no thread is inside a method and no command or
   message is in flight. *)
Quiet == /\ mSocket /\ toProcess = << >> /\ toApp = << >>
         /\ \A t \in Thread : todo[t] = << >>

(* What the main thread has decided is what it wants: it lets the process run
   exactly while there is a network and the user has not paused, whatever the
   order of intents (lastNetwork remembers no network, or one of another type,
   although the receiver was paused when it came).  The one exception is a
   resume of the user that came when nothing was paused and since which the
   network has not changed: userPause pauses the process then, although it only
   means to "Update the reason why we currently paused"
   (DeviceStateReceiver.java:85). *)
DecisionFollowsDevice ==
  todo["main"] = << >> =>
    (mReleaseHold <=> shouldBeConnected(network, userpause) /\ ~ redundant)

(* Once all is quiet the application knows that a process is held, so that the
   next resume releases it: no interleaving of the two threads, and no HOLD
   message that crosses a command, makes it forget (mWaitingForRelease). *)
HoldIsKnown == Quiet /\ process = "hold" => mWaitingForRelease

(* "Turning this option on will force a reconnect if the network state is
   changed" (netchange_summary, res/values/strings.xml:185). *)
ReleasedIsNotHeld == Quiet /\ mReleaseHold => process # "hold"
=============================================================================
