------------------------ MODULE ManagementHold_proofs ------------------------
(***************************************************************************)
(* Between the service and the process, for any types of network and any   *)
(* number of intents and restarts: what the main thread has decided is     *)
(* what the state of the device wants, and a held process is known to be.  *)
(*                                                                         *)
(* Between two intents the decision is mReleaseHold.  While a method runs  *)
(* it is what the steps the method has left will make of mReleaseHold, so  *)
(* that the invariant relates these to the state of the device.  The hold  *)
(* is known, announced, being decided upon or released: the second         *)
(* invariant names the place where each of these is under way.             *)
(***************************************************************************)
EXTENDS ManagementHold, SequenceTheorems, FiniteSetTheorems, TLAPS

(* What the device wants, but for a resume of the user that was redundant.   *)
wanted == shouldBeConnected(network, userpause) /\ ~ redundant

(* Steps after which mReleaseHold will be set, or cleared, and steps that no  *)
(* longer change it.                                                         *)
Setting == {<<"clear", "signal", "set", "check">>, <<"signal", "set", "check">>,
            <<"SIGHUP", "set", "check">>, <<"set", "check">>}
Clearing == {<<"clear", "signal">>}
WhileSet == {<<"check">>, <<"unwait", "release">>, <<"release">>}
WhileClear == {<<"signal">>, <<"SIGHUP">>}

MainInv ==
  \/ todo["main"] \in Setting /\ wanted
  \/ todo["main"] \in Clearing /\ ~ wanted
  \/ todo["main"] \in WhileSet /\ wanted /\ mReleaseHold = TRUE
  \/ todo["main"] \in WhileClear /\ ~ wanted /\ mReleaseHold = FALSE
  \/ todo["main"] = << >> /\ (mReleaseHold = TRUE <=> wanted)

(* The management thread never decides. *)
ManagementInv ==
  todo["management"] \in {<< >>, <<"handleHold">>, <<"unwait", "release">>, <<"release">>,
                          <<"wait">>, <<"password">>}

(* The receiver knows of a last network exactly while there is one. *)
DeviceInv ==
  /\ network \in ConnectState /\ userpause \in ConnectState
  /\ lastNetwork \in NetworkType \cup {NoNetwork}
  /\ lastNetwork = NoNetwork <=> network = "DISCONNECTED"
  /\ redundant \in BOOLEAN
  /\ mReleaseHold \in BOOLEAN

DecisionInv ==
  /\ todo = [t \in Thread |-> todo[t]]
  /\ DeviceInv /\ MainInv /\ ManagementInv

-----------------------------------------------------------------------------
(* The sequences of steps that Take puts together.                           *)
LEMMA ConcatTwoTwo ==
  ASSUME NEW a, NEW b, NEW c, NEW d
  PROVE  <<a, b>> \o <<c, d>> = <<a, b, c, d>>
<1> DEFINE s == <<a, b>> \o <<c, d>>
           S == {a, b, c, d}
<1>1. s \in Seq(S) /\ Len(s) = 4
  OBVIOUS
<1>2. s[1] = a /\ s[2] = b /\ s[3] = c /\ s[4] = d
  OBVIOUS
<1>3. <<a, b, c, d>> \in Seq(S) /\ Len(<<a, b, c, d>>) = 4
  OBVIOUS
<1>4. \A i \in 1 .. 4 : s[i] = <<a, b, c, d>>[i]
  BY <1>2
<1> QED
  BY <1>1, <1>2, <1>3, <1>4, SeqEqual

LEMMA ConcatOneTwo ==
  ASSUME NEW a, NEW c, NEW d
  PROVE  <<a>> \o <<c, d>> = <<a, c, d>>
<1> DEFINE s == <<a>> \o <<c, d>>
           S == {a, c, d}
<1>1. s \in Seq(S) /\ Len(s) = 3
  OBVIOUS
<1>2. s[1] = a /\ s[2] = c /\ s[3] = d
  OBVIOUS
<1>3. <<a, c, d>> \in Seq(S) /\ Len(<<a, c, d>>) = 3
  OBVIOUS
<1>4. \A i \in 1 .. 3 : s[i] = <<a, c, d>>[i]
  BY <1>2
<1> QED
  BY <1>1, <1>2, <1>3, <1>4, SeqEqual

LEMMA ConcatNone ==
  ASSUME NEW a, NEW b
  PROVE  /\ <<a>> \o << >> = <<a>> /\ <<a, b>> \o << >> = <<a, b>>
         /\ << >> \o << >> = << >> /\ << >> \o <<a>> = <<a>> /\ << >> \o <<a, b>> = <<a, b>>
  OBVIOUS

LEMMA NoneBefore ==
  ASSUME NEW a, NEW b, NEW c, NEW d
  PROVE  /\ << >> \o Tail(<<a, b, c, d>>) = <<b, c, d>>
         /\ << >> \o Tail(<<a, b, c>>) = <<b, c>>
         /\ << >> \o Tail(<<a, b>>) = <<b>>
         /\ << >> \o Tail(<<a>>) = << >>
  OBVIOUS

LEMMA OneBefore ==
  ASSUME NEW a, NEW c, NEW d, NEW e
  PROVE  <<a>> \o Tail(<<e, c, d>>) = <<a, c, d>> /\ <<a>> \o Tail(<<e>>) = <<a>>
<1>1. Tail(<<e, c, d>>) = <<c, d>> /\ Tail(<<e>>) = << >>
  OBVIOUS
<1> QED
  BY <1>1, ConcatOneTwo, ConcatNone

LEMMA TwoBefore ==
  ASSUME NEW a, NEW b, NEW e
  PROVE  <<a, b>> \o Tail(<<e>>) = <<a, b>>
<1>1. Tail(<<e>>) = << >>
  OBVIOUS
<1> QED
  BY <1>1, ConcatNone

(* A thread takes a step, and the other one none.                            *)
LEMMA Takes ==
  ASSUME todo = [t \in Thread |-> todo[t]],
         NEW t \in Thread, NEW c, NEW then, Take(t, c, then)
  PROVE  /\ Head(todo[t]) = c /\ todo[t] # << >>
         /\ todo'[t] = then \o Tail(todo[t])
         /\ \A u \in Thread \ {t} : todo'[u] = todo[u]
         /\ todo' = [u \in Thread |-> todo'[u]]
<1> DEFINE more == then \o Tail(todo[t])
<1>1. todo' = [todo EXCEPT ![t] = more]
  BY DEF Take
<1> HIDE DEF more
<1>2. /\ todo'[t] = more
      /\ \A u \in Thread \ {t} : todo'[u] = todo[u]
      /\ todo' = [u \in Thread |-> todo'[u]]
  BY <1>1
<1> QED
  BY <1>2 DEF Take, more

(* What the first step that is left says of the steps of the main thread.    *)
LEMMA MainAt ==
  ASSUME MainInv, todo["main"] # << >>
  PROVE  LET c == Head(todo["main"]) IN
         \/ c = "clear" /\ todo["main"] = <<"clear", "signal", "set", "check">> /\ wanted
         \/ c = "clear" /\ todo["main"] = <<"clear", "signal">> /\ ~ wanted
         \/ c = "signal" /\ todo["main"] = <<"signal", "set", "check">> /\ wanted
         \/ c = "signal" /\ todo["main"] = <<"signal">> /\ ~ wanted /\ mReleaseHold = FALSE
         \/ c = "SIGHUP" /\ todo["main"] = <<"SIGHUP", "set", "check">> /\ wanted
         \/ c = "SIGHUP" /\ todo["main"] = <<"SIGHUP">> /\ ~ wanted /\ mReleaseHold = FALSE
         \/ c = "set" /\ todo["main"] = <<"set", "check">> /\ wanted
         \/ c = "check" /\ todo["main"] = <<"check">> /\ wanted /\ mReleaseHold = TRUE
         \/ c = "unwait" /\ todo["main"] = <<"unwait", "release">> /\ wanted
                        /\ mReleaseHold = TRUE
         \/ c = "release" /\ todo["main"] = <<"release">> /\ wanted /\ mReleaseHold = TRUE
<1>1. CASE todo["main"] \in Setting /\ wanted
  BY <1>1 DEF Setting
<1>2. CASE todo["main"] \in Clearing /\ ~ wanted
  BY <1>2 DEF Clearing
<1>3. CASE todo["main"] \in WhileSet /\ wanted /\ mReleaseHold = TRUE
  BY <1>3 DEF WhileSet
<1>4. CASE todo["main"] \in WhileClear /\ ~ wanted /\ mReleaseHold = FALSE
  BY <1>4 DEF WhileClear
<1> QED
  BY <1>1, <1>2, <1>3, <1>4 DEF MainInv

(* With no steps left it has decided.                                        *)
LEMMA MainRests ==
  ASSUME MainInv, todo["main"] = << >>
  PROVE  mReleaseHold = TRUE <=> wanted
<1>1. todo["main"] \notin Setting
  BY DEF Setting
<1>2. todo["main"] \notin Clearing \cup WhileSet \cup WhileClear
  BY DEF Clearing, WhileSet, WhileClear
<1> QED
  BY <1>1, <1>2 DEF MainInv

-----------------------------------------------------------------------------
LEMMA InitDecision == Init => DecisionInv
  BY DEF Init, DecisionInv, DeviceInv, MainInv, ManagementInv, ConnectState, wanted,
         shouldBeConnected, Thread

(* A step of the main thread leads from one part of MainInv to the next.     *)
LEMMA MainWrites ==
  ASSUME DecisionInv, Write("main")
  PROVE  DecisionInv'
<1> DEFINE main == todo["main"]
<1>1. UNCHANGED <<network, userpause, lastNetwork, redundant>> /\ wanted' = wanted
  BY DEF Write, device, wanted, shouldBeConnected
<1>2. PICK c \in {"clear", "set", "wait", "unwait"} :
        /\ Take("main", c, << >>)
        /\ mReleaseHold' = IF c = "clear" THEN FALSE ELSE IF c = "set" THEN TRUE ELSE mReleaseHold
  BY DEF Write
<1>3. /\ Head(main) = c /\ main # << >> /\ main' = << >> \o Tail(main)
      /\ todo'["management"] = todo["management"]
      /\ todo' = [t \in Thread |-> todo'[t]]
  BY <1>2, Takes DEF DecisionInv, Thread
<1>4. \/ c = "clear" /\ wanted /\ main = <<"clear", "signal", "set", "check">>
      \/ c = "clear" /\ ~ wanted /\ main = <<"clear", "signal">>
      \/ c = "set" /\ wanted /\ main = <<"set", "check">>
      \/ c = "unwait" /\ wanted /\ mReleaseHold = TRUE /\ main = <<"unwait", "release">>
  BY <1>2, <1>3, MainAt DEF DecisionInv
<1>5. ASSUME c = "clear", wanted, main = <<"clear", "signal", "set", "check">>
      PROVE  MainInv'
  <2>1. main' = <<"signal", "set", "check">>
    BY <1>3, <1>5, NoneBefore
  <2> QED
    BY <1>1, <1>5, <2>1 DEF MainInv, Setting
<1>6. ASSUME c = "clear", ~ wanted, main = <<"clear", "signal">>
      PROVE  MainInv'
  <2>1. main' = <<"signal">>
    BY <1>3, <1>6, NoneBefore
  <2> QED
    BY <1>1, <1>2, <1>6, <2>1 DEF MainInv, WhileClear
<1>7. ASSUME c = "set", wanted, main = <<"set", "check">>
      PROVE  MainInv'
  <2>1. main' = <<"check">>
    BY <1>3, <1>7, NoneBefore
  <2> QED
    BY <1>1, <1>2, <1>7, <2>1 DEF MainInv, WhileSet
<1>8. ASSUME c = "unwait", wanted, mReleaseHold = TRUE, main = <<"unwait", "release">>
      PROVE  MainInv'
  <2>1. main' = <<"release">>
    BY <1>3, <1>8, NoneBefore
  <2> QED
    BY <1>1, <1>2, <1>8, <2>1 DEF MainInv, WhileSet
<1> QED
  BY <1>1, <1>2, <1>3, <1>4, <1>5, <1>6, <1>7, <1>8 DEF DecisionInv, DeviceInv, ManagementInv

LEMMA MainReads ==
  ASSUME DecisionInv, Read("main")
  PROVE  DecisionInv'
<1> DEFINE main == todo["main"]
<1>1. UNCHANGED <<network, userpause, lastNetwork, redundant, mReleaseHold>> /\ wanted' = wanted
  BY DEF Read, device, hold, wanted, shouldBeConnected
<1>2. PICK c \in {"signal", "check", "handleHold"}, then \in {<< >>, <<"SIGHUP">>, <<"unwait", "release">>, <<"wait">>} :
        /\ Take("main", c, then)
        /\ c = "signal" => then \in {<< >>, <<"SIGHUP">>}
        /\ c = "check" => then \in {<< >>, <<"unwait", "release">>}
  BY DEF Read, releaseHoldCmd
<1>3. /\ Head(main) = c /\ main # << >> /\ main' = then \o Tail(main)
      /\ todo'["management"] = todo["management"]
      /\ todo' = [t \in Thread |-> todo'[t]]
  BY <1>2, Takes DEF DecisionInv, Thread
<1>4. \/ /\ c = "signal" /\ main = <<"signal", "set", "check">> /\ wanted
      \/ /\ c = "signal" /\ main = <<"signal">> /\ ~ wanted /\ mReleaseHold = FALSE
      \/ /\ c = "check" /\ main = <<"check">> /\ wanted /\ mReleaseHold = TRUE
  BY <1>2, <1>3, MainAt DEF DecisionInv
<1>5. ASSUME c = "signal", main = <<"signal", "set", "check">>, wanted
      PROVE  MainInv'
  <2>1. main' \in {<<"set", "check">>, <<"SIGHUP", "set", "check">>}
    <3>1. CASE then = << >>
      BY <1>3, <1>5, <3>1, NoneBefore
    <3>2. CASE then = <<"SIGHUP">>
      BY <1>3, <1>5, <3>2, OneBefore
    <3> QED
      BY <1>2, <1>5, <3>1, <3>2
  <2> QED
    BY <1>1, <1>5, <2>1 DEF MainInv, Setting
<1>6. ASSUME c = "signal", main = <<"signal">>, ~ wanted, mReleaseHold = FALSE
      PROVE  MainInv'
  <2>1. main' \in {<< >>, <<"SIGHUP">>}
    <3>1. CASE then = << >>
      BY <1>3, <1>6, <3>1, NoneBefore
    <3>2. CASE then = <<"SIGHUP">>
      BY <1>3, <1>6, <3>2, OneBefore
    <3> QED
      BY <1>2, <1>6, <3>1, <3>2
  <2> QED
    BY <1>1, <1>6, <2>1 DEF MainInv, WhileClear
<1>7. ASSUME c = "check", main = <<"check">>, wanted, mReleaseHold = TRUE
      PROVE  MainInv'
  <2>1. main' \in {<< >>, <<"unwait", "release">>}
    <3>1. CASE then = << >>
      BY <1>3, <1>7, <3>1, NoneBefore
    <3>2. CASE then = <<"unwait", "release">>
      BY <1>3, <1>7, <3>2, TwoBefore
    <3> QED
      BY <1>2, <1>7, <3>1, <3>2
  <2> QED
    BY <1>1, <1>7, <2>1 DEF MainInv, WhileSet
<1> QED
  BY <1>1, <1>3, <1>4, <1>5, <1>6, <1>7 DEF DecisionInv, DeviceInv, ManagementInv

LEMMA MainCommands ==
  ASSUME DecisionInv, managmentCommand("main")
  PROVE  DecisionInv'
<1> DEFINE main == todo["main"]
<1>1. UNCHANGED <<network, userpause, lastNetwork, redundant, mReleaseHold>> /\ wanted' = wanted
  BY DEF managmentCommand, device, hold, wanted, shouldBeConnected
<1>2. PICK c \in {"SIGHUP", "release", "password"} : Take("main", c, << >>)
  BY DEF managmentCommand
<1>3. /\ Head(main) = c /\ main # << >> /\ main' = << >> \o Tail(main)
      /\ todo'["management"] = todo["management"]
      /\ todo' = [t \in Thread |-> todo'[t]]
  BY <1>2, Takes DEF DecisionInv, Thread
<1>4. \/ wanted /\ main = <<"SIGHUP", "set", "check">>
      \/ ~ wanted /\ mReleaseHold = FALSE /\ main = <<"SIGHUP">>
      \/ wanted /\ mReleaseHold = TRUE /\ main = <<"release">>
  BY <1>2, <1>3, MainAt DEF DecisionInv
<1>5. ASSUME wanted, main = <<"SIGHUP", "set", "check">>
      PROVE  MainInv'
  <2>1. main' = <<"set", "check">>
    BY <1>3, <1>5, NoneBefore
  <2> QED
    BY <1>1, <1>5, <2>1 DEF MainInv, Setting
<1>6. ASSUME mReleaseHold = TRUE <=> wanted, main \in {<<"SIGHUP">>, <<"release">>}
      PROVE  MainInv'
  <2>1. main' = << >>
    BY <1>3, <1>6, NoneBefore
  <2> QED
    BY <1>1, <1>6, <2>1 DEF MainInv
<1> QED
  BY <1>1, <1>3, <1>4, <1>5, <1>6 DEF DecisionInv, DeviceInv, ManagementInv

(* The management thread takes steps that leave the decision alone.          *)
LEMMA ManagementSteps ==
  ASSUME DecisionInv,
         Write("management") \/ Read("management") \/ managmentCommand("management")
  PROVE  DecisionInv'
<1> DEFINE steps == todo["management"]
<1>1. UNCHANGED <<network, userpause, lastNetwork, redundant>> /\ wanted' = wanted
  BY DEF Write, Read, managmentCommand, device, wanted, shouldBeConnected
<1>2. PICK c \in Code, then \in {<< >>, <<"SIGHUP">>, <<"unwait", "release">>, <<"wait">>} :
        /\ Take("management", c, then)
        /\ c = "handleHold" => then \in {<<"unwait", "release">>, <<"wait">>}
        /\ c \in {"unwait", "release", "wait", "password"} => then = << >>
        /\ c \notin {"clear", "set"} => mReleaseHold' = mReleaseHold
  BY DEF Write, Read, managmentCommand, hold, releaseHoldCmd, Code
<1>3. /\ Head(steps) = c /\ steps # << >> /\ steps' = then \o Tail(steps)
      /\ todo'["main"] = todo["main"]
      /\ todo' = [t \in Thread |-> todo'[t]]
  BY <1>2, Takes DEF DecisionInv, Thread
<1>4. \/ c = "handleHold" /\ steps = <<"handleHold">>
      \/ c = "unwait" /\ steps = <<"unwait", "release">>
      \/ c \in {"release", "wait", "password"} /\ steps = <<c>>
  BY <1>3 DEF DecisionInv, ManagementInv
<1>5. steps' \in {<< >>, <<"unwait", "release">>, <<"release">>, <<"wait">>}
  <2>1. CASE c = "handleHold" /\ steps = <<"handleHold">>
    <3>1. CASE then = <<"unwait", "release">>
      BY <1>3, <2>1, <3>1, TwoBefore
    <3>2. CASE then = <<"wait">>
      BY <1>3, <2>1, <3>2, OneBefore
    <3> QED
      BY <1>2, <2>1, <3>1, <3>2
  <2>2. CASE c = "unwait" /\ steps = <<"unwait", "release">>
    BY <1>2, <1>3, <2>2, NoneBefore
  <2>3. CASE c \in {"release", "wait", "password"} /\ steps = <<c>>
    <3>1. steps' = << >> \o Tail(<<c>>)
      BY <1>2, <1>3, <2>3
    <3> QED
      BY <3>1, NoneBefore
  <2> QED
    BY <1>4, <2>1, <2>2, <2>3
<1> QED
  BY <1>1, <1>2, <1>3, <1>4, <1>5 DEF DecisionInv, DeviceInv, ManagementInv, MainInv

(* Each intent begins the method that makes of mReleaseHold what the new      *)
(* state of the device wants, unless it is a resume that was redundant.       *)
LEMMA Intents ==
  ASSUME DecisionInv,
         \/ \E newnet \in NetworkType : NetworkConnected(newnet)
         \/ NetworkLost \/ ScreenOn
         \/ \E pauses \in BOOLEAN : userPause(pauses)
  PROVE  DecisionInv'
<1> USE ManagementHoldAssumption DEF DecisionInv, DeviceInv, Thread
<1>1. /\ todo["main"] = << >> /\ (mReleaseHold = TRUE <=> wanted) /\ UNCHANGED mReleaseHold
      /\ \E steps \in {<< >>, resume, reconnect, pause} :
           todo' = [todo EXCEPT !["main"] = steps]
  <2>1. /\ todo["main"] = << >> /\ UNCHANGED mReleaseHold
        /\ \E steps \in {<< >>, resume, reconnect, pause} :
             todo' = [todo EXCEPT !["main"] = steps]
    BY DEF NetworkConnected, NetworkLost, ScreenOn, userPause, Event, Run, hold
  <2>2. mReleaseHold = TRUE <=> wanted
    BY <2>1, MainRests
  <2> QED
    BY <2>1, <2>2
<1>2. todo'["management"] = todo["management"]
      /\ todo' = [t \in Thread |-> todo'[t]] /\ ManagementInv'
  BY <1>1 DEF ManagementInv
<1>3. /\ resume = <<"set", "check">> /\ pause = <<"clear", "signal">>
      /\ reconnect = <<"clear", "signal", "set", "check">>
  BY ConcatTwoTwo DEF resume, pause, reconnect, releaseHold, signalusr1
<1>4. ASSUME NEW newnet \in NetworkType, NetworkConnected(newnet)
      PROVE  DeviceInv' /\ MainInv'
  <2> DEFINE changes == lastNetwork # newnet /\ shouldBeConnected(network', userpause)
  <2>1. /\ DeviceInv' /\ network' = "SHOULDBECONNECTED" /\ userpause' = userpause
        /\ redundant' = (redundant /\ ~ changes)
    BY <1>1, <1>4 DEF NetworkConnected, ConnectState
  <2>2. CASE ~ changes
    <3>1. todo' = [todo EXCEPT !["main"] = << >>]
      BY <1>4, <2>2 DEF NetworkConnected, Run
    <3>2. todo'["main"] = << >>
      BY <3>1
    <3>3. wanted' <=> wanted
      BY <2>1, <2>2 DEF wanted, shouldBeConnected, ConnectState
    <3> QED
      BY <1>1, <2>1, <3>2, <3>3 DEF MainInv
  <2>3. CASE changes
    <3>1. todo'["main"] \in {resume, reconnect}
      BY <1>4, <1>1, <2>3 DEF NetworkConnected, Run
    <3>2. wanted'
      BY <2>1, <2>3 DEF wanted, shouldBeConnected
    <3> QED
      BY <1>3, <2>1, <3>1, <3>2 DEF MainInv, Setting
  <2> QED
    BY <2>2, <2>3
<1>5. CASE NetworkLost
  <2>1. DeviceInv' /\ ~ wanted' /\ todo'["main"] = pause
    BY <1>1, <1>5 DEF NetworkLost, Run, wanted, shouldBeConnected, ConnectState
  <2> QED
    BY <1>2, <1>3, <2>1 DEF MainInv, Clearing
<1>6. CASE ScreenOn
  <2>1. DeviceInv' /\ wanted' = wanted
    BY <1>1, <1>6 DEF ScreenOn, device, wanted, shouldBeConnected, ConnectState
  <2>2. CASE shouldBeConnected(network, userpause)
    <3>1. todo'["main"] = << >>
      BY <1>1, <1>6, <2>2 DEF ScreenOn, Run
    <3> QED
      BY <1>1, <1>2, <2>1, <3>1 DEF MainInv
  <2>3. CASE ~ shouldBeConnected(network, userpause)
    <3>1. todo'["main"] = pause /\ ~ wanted
      BY <1>1, <1>6, <2>3 DEF ScreenOn, Run, wanted
    <3> QED
      BY <1>2, <1>3, <2>1, <3>1 DEF MainInv, Clearing
  <2> QED
    BY <2>2, <2>3
<1>7. ASSUME NEW pauses \in BOOLEAN, userPause(pauses)
      PROVE  DeviceInv' /\ MainInv'
  <2> DEFINE resumes == /\ shouldBeConnected(network, userpause')
                         /\ ~ shouldBeConnected(network, userpause)
  <2>1. /\ DeviceInv' /\ network' = network
        /\ redundant' = (~ pauses /\ shouldBeConnected(network, userpause))
        /\ (pauses => userpause' # "SHOULDBECONNECTED")
    BY <1>1, <1>7 DEF userPause, ConnectState
  <2>2. wanted' <=> resumes
    BY <2>1 DEF wanted, shouldBeConnected
  <2>3. todo'["main"] = IF resumes THEN resume ELSE pause
    BY <1>1, <1>7 DEF userPause, Run
  <2> HIDE DEF resumes
  <2> QED
    BY <1>3, <2>1, <2>2, <2>3 DEF MainInv, Setting, Clearing
<1> QED
  BY <1>2, <1>4, <1>5, <1>6, <1>7

LEMMA OtherSteps ==
  ASSUME DecisionInv,
         \/ Accept \/ processCommand \/ RestartByItself \/ UNCHANGED vars
         \/ \E n \in 1 .. Len(toProcess) :
              management_hold(n) \/ management_query_user_pass(n) \/ RunCommands(n)
  PROVE  DecisionInv'
<1> USE DEF DecisionInv, DeviceInv, Thread
<1>1. UNCHANGED <<network, userpause, lastNetwork, redundant, mReleaseHold>> /\ todo'["main"] = todo["main"]
  BY DEF Accept, processCommand, RestartByItself, vars, management_hold,
         management_query_user_pass, RunCommands, Taken, device, hold
<1>2. todo' = [t \in Thread |-> todo'[t]] /\ ManagementInv'
  BY DEF Accept, processCommand, RestartByItself, vars, management_hold,
         management_query_user_pass, RunCommands, Taken, ManagementInv
<1> QED
  BY <1>1, <1>2 DEF MainInv, wanted

-----------------------------------------------------------------------------
LEMMA StepDecision == DecisionInv /\ [Next]_vars => DecisionInv'
<1> SUFFICES ASSUME DecisionInv, [Next]_vars
             PROVE  DecisionInv'
  OBVIOUS
<1>1. ASSUME NEW t \in Thread, Write(t) \/ Read(t) \/ managmentCommand(t)
      PROVE  DecisionInv'
  <2>1. CASE t = "main"
    BY <1>1, <2>1, MainWrites, MainReads, MainCommands
  <2>2. CASE t = "management"
    BY <1>1, <2>2, ManagementSteps
  <2> QED
    BY <2>1, <2>2 DEF Thread
<1> QED
  BY <1>1, Intents, OtherSteps DEF Next

(* Between two intents mReleaseHold is set exactly while there is a network   *)
(* and the user has not paused, whatever the two threads and the process have *)
(* done in which order; but for a resume of the user that came when nothing   *)
(* was paused, which pauses until the network changes.                       *)
THEOREM DecisionIsTheDevices == Spec => []DecisionFollowsDevice
<1>1. DecisionInv => DecisionFollowsDevice
  BY MainRests DEF DecisionInv, DeviceInv, DecisionFollowsDevice, wanted
<1> QED
  BY <1>1, InitDecision, StepDecision, PTL DEF Spec

-----------------------------------------------------------------------------
(* That the application knows of the hold.  It does, or is about to be told,  *)
(* or is about to decide, or has released the process already.               *)
Has(s, x) == \E i \in 1 .. Len(s) : s[i] = x

Releasing == {<<"unwait", "release">>, <<"release">>}

KnownInv ==
  process = "hold" =>
    \/ mWaitingForRelease = TRUE
    \/ Has(toApp, "HOLD")
    \/ todo["management"] \in Releasing \cup {<<"handleHold">>, <<"wait">>}
    \/ todo["main"] \in Releasing
    \/ Has(toProcess, "release")

(* No release is dropped: a thread that releases has been told of the hold    *)
(* over the socket.                                                          *)
SocketInv ==
  ~ mSocket => /\ mWaitingForRelease = FALSE /\ todo["management"] = << >>
               /\ todo["main"] \notin Releasing

(* The type invariant but for what DecisionInv says.                         *)
OtherTypes ==
  /\ mWaitingForRelease \in BOOLEAN /\ mSocket \in BOOLEAN
  /\ toProcess \in Seq({"SIGHUP", "release", "password"})
  /\ toApp \in Seq({"HOLD", "PASSWORD"})
  /\ process \in {"hold", "query", "run", "exited"}
  /\ hold_release \in BOOLEAN /\ authorized \in BOOLEAN
  /\ events \in 0 .. MaxEvents /\ restarts \in 0 .. MaxRestarts

HoldInv == DecisionInv /\ OtherTypes /\ SocketInv /\ KnownInv

-----------------------------------------------------------------------------
LEMMA NotReleasing ==
  ASSUME NEW s, s # << >>, Head(s) \notin {"unwait", "release"}
  PROVE  s \notin Releasing
  BY DEF Releasing

LEMMA Shapes ==
  \A s \in Setting \cup Clearing \cup WhileClear \cup {<<"check">>, << >>} : s \notin Releasing
<1> TAKE s \in Setting \cup Clearing \cup WhileClear \cup {<<"check">>, << >>}
<1>1. CASE s = << >>
  BY <1>1 DEF Releasing
<1>2. CASE s # << >>
  <2>1. Head(s) \in {"clear", "signal", "SIGHUP", "set", "check"}
    <3>1. CASE s \in Setting
      BY <3>1 DEF Setting
    <3>2. CASE s \in Clearing \cup WhileClear \cup {<<"check">>}
      BY <3>2 DEF Clearing, WhileClear
    <3> QED
      BY <1>2, <3>1, <3>2
  <2> QED
    BY <1>2, <2>1, NotReleasing
<1> QED
  BY <1>1, <1>2

(* What the queues still have.                                               *)
LEMMA HasAfterAppend ==
  ASSUME NEW S, NEW s \in Seq(S), NEW y \in S
  PROVE  /\ Append(s, y) \in Seq(S) /\ Has(Append(s, y), y)
         /\ \A x : Has(s, x) => Has(Append(s, y), x)
<1>1. /\ Append(s, y) \in Seq(S) /\ Len(s) \in Nat /\ Len(Append(s, y)) = Len(s) + 1
      /\ Append(s, y)[Len(s) + 1] = y
      /\ \A i \in 1 .. Len(s) : Append(s, y)[i] = s[i]
  OBVIOUS
<1> QED
  BY <1>1 DEF Has

LEMMA HasAfterTail ==
  ASSUME NEW S, NEW s \in Seq(S), s # << >>, NEW x, Has(s, x), Head(s) # x
  PROVE  Tail(s) \in Seq(S) /\ Has(Tail(s), x)
<1>1. /\ Tail(s) \in Seq(S) /\ Len(s) \in Nat \ {0} /\ Len(Tail(s)) = Len(s) - 1
      /\ Head(s) = s[1] /\ \A i \in 1 .. Len(s) - 1 : Tail(s)[i] = s[i + 1]
  OBVIOUS
<1>2. PICK i \in 1 .. Len(s) : s[i] = x
  BY DEF Has
<1>3. i - 1 \in 1 .. Len(s) - 1 /\ s[(i - 1) + 1] = x
  BY <1>1, <1>2
<1> QED
  BY <1>1, <1>3 DEF Has

LEMMA HasAfterSubSeq ==
  ASSUME NEW S, NEW s \in Seq(S), NEW n \in 1 .. Len(s)
  PROVE  LET r == SubSeq(s, n + 1, Len(s)) IN
         /\ r \in Seq(S)
         /\ \A x : Has(s, x) /\ (\A i \in 1 .. n : s[i] # x) => Has(r, x)
<1> DEFINE r == SubSeq(s, n + 1, Len(s))
<1>1. /\ Len(s) \in Nat /\ r \in Seq(S) /\ Len(r) = Len(s) - n
      /\ \A j \in 1 .. Len(s) - n : r[j] = s[n + j]
  OBVIOUS
<1> HIDE DEF r
<1>2. ASSUME NEW x, Has(s, x), \A i \in 1 .. n : s[i] # x
      PROVE  Has(r, x)
  <2>1. PICK i \in 1 .. Len(s) : s[i] = x
    BY <1>2 DEF Has
  <2>2. i > n
    BY <1>2, <2>1
  <2>3. i - n \in 1 .. Len(s) - n /\ n + (i - n) = i
    BY <1>1, <2>2
  <2> QED
    BY <1>1, <2>1, <2>3 DEF Has
<1> QED
  BY <1>1, <1>2 DEF r

LEMMA HasAfterConcat ==
  ASSUME NEW S, NEW s \in Seq(S), NEW t \in Seq(S)
  PROVE  /\ s \o t \in Seq(S)
         /\ \A x : Has(s, x) => Has(s \o t, x)
<1>1. /\ s \o t \in Seq(S) /\ Len(s) \in Nat /\ Len(t) \in Nat /\ Len(s \o t) = Len(s) + Len(t)
      /\ \A i \in 1 .. Len(s) : (s \o t)[i] = s[i]
  OBVIOUS
<1> QED
  BY <1>1 DEF Has

-----------------------------------------------------------------------------
(* What the steps of the main thread mean for the hold.                      *)
LEMMA MainMoves ==
  ASSUME DecisionInv, Write("main") \/ Read("main") \/ managmentCommand("main")
  PROVE  /\ todo'["management"] = todo["management"]
         /\ UNCHANGED <<mSocket, toApp, process, hold_release, authorized, restarts, events>>
         /\ \/ /\ todo["main"] \notin Releasing /\ todo'["main"] \notin Releasing
               /\ UNCHANGED mWaitingForRelease
               /\ toProcess' \in {toProcess, Append(toProcess, "SIGHUP")}
            \/ /\ todo'["main"] = <<"unwait", "release">> /\ mWaitingForRelease
               /\ UNCHANGED <<mWaitingForRelease, toProcess>>
            \/ /\ todo["main"] = <<"unwait", "release">> /\ todo'["main"] = <<"release">>
               /\ mWaitingForRelease' = FALSE /\ UNCHANGED toProcess
            \/ /\ todo["main"] = <<"release">> /\ todo'["main"] = << >>
               /\ toProcess' = IF mSocket THEN Append(toProcess, "release") ELSE toProcess
               /\ UNCHANGED mWaitingForRelease
<1> DEFINE main == todo["main"]
<1>1. UNCHANGED <<mSocket, toApp, process, hold_release, authorized, restarts, events>>
  BY DEF Write, Read, managmentCommand, engine
<1>2. PICK c \in Code, then \in {<< >>, <<"SIGHUP">>, <<"unwait", "release">>, <<"wait">>} :
        /\ Take("main", c, then)
        /\ c = "signal" => then \in {<< >>, <<"SIGHUP">>}
        /\ c = "check" => then = << >> \/ (then = <<"unwait", "release">> /\ mWaitingForRelease)
        /\ c \notin {"signal", "check", "handleHold"} => then = << >>
        /\ c = "unwait" => mWaitingForRelease' = FALSE
        /\ c \notin {"wait", "unwait"} => mWaitingForRelease' = mWaitingForRelease
        /\ c = "SIGHUP" => toProcess' \in {toProcess, Append(toProcess, "SIGHUP")}
        /\ c = "release" =>
             toProcess' = IF mSocket THEN Append(toProcess, "release") ELSE toProcess
        /\ c \notin {"SIGHUP", "release", "password"} => toProcess' = toProcess
  <2>1. CASE Write("main")
    BY <2>1 DEF Write, Code
  <2>2. CASE Read("main")
    BY <2>2 DEF Read, Code, hold, releaseHoldCmd
  <2>3. CASE managmentCommand("main")
    BY <2>3 DEF managmentCommand, Code, hold
  <2> QED
    BY <2>1, <2>2, <2>3
<1>3. /\ Head(main) = c /\ main # << >> /\ main' = then \o Tail(main)
      /\ todo'["management"] = todo["management"]
  BY <1>2, Takes DEF DecisionInv, Thread
<1>4. \/ c = "clear" /\ main = <<"clear", "signal", "set", "check">>
      \/ c = "clear" /\ main = <<"clear", "signal">>
      \/ c = "signal" /\ main = <<"signal", "set", "check">>
      \/ c = "signal" /\ main = <<"signal">>
      \/ c = "SIGHUP" /\ main = <<"SIGHUP", "set", "check">>
      \/ c = "SIGHUP" /\ main = <<"SIGHUP">>
      \/ c = "set" /\ main = <<"set", "check">>
      \/ c = "check" /\ main = <<"check">>
      \/ c = "unwait" /\ main = <<"unwait", "release">>
      \/ c = "release" /\ main = <<"release">>
  BY <1>3, MainAt DEF DecisionInv
<1>5. ASSUME main \notin Releasing, main' \notin Releasing,
             c \in {"clear", "set", "signal", "SIGHUP", "check"}
      PROVE  /\ UNCHANGED mWaitingForRelease
             /\ toProcess' \in {toProcess, Append(toProcess, "SIGHUP")}
  BY <1>2, <1>5
<1>6. ASSUME c = "clear"
      PROVE  main \notin Releasing /\ main' \notin Releasing
  <2>1. CASE main = <<"clear", "signal", "set", "check">>
    <3>1. main' = <<"signal", "set", "check">>
      BY <1>2, <1>3, <1>6, <2>1, NoneBefore
    <3> QED
      BY <1>3, <1>6, <3>1, Shapes, NotReleasing DEF Setting
  <2>2. CASE main = <<"clear", "signal">>
    <3>1. main' = <<"signal">>
      BY <1>2, <1>3, <1>6, <2>2, NoneBefore
    <3> QED
      BY <1>3, <1>6, <3>1, Shapes, NotReleasing DEF WhileClear
  <2> QED
    BY <1>4, <1>6, <2>1, <2>2
<1>7. ASSUME c = "set"
      PROVE  main \notin Releasing /\ main' \notin Releasing
  <2>0. main = <<"set", "check">> /\ then = << >>
    BY <1>2, <1>4, <1>7
  <2>1. main' = <<"check">>
    BY <1>3, <2>0, NoneBefore
  <2> QED
    BY <1>3, <1>7, <2>1, Shapes, NotReleasing
<1>8. ASSUME c = "signal"
      PROVE  main \notin Releasing /\ main' \notin Releasing
  <2>1. CASE main = <<"signal", "set", "check">> /\ then = << >>
    <3>1. main' = <<"set", "check">>
      BY <1>3, <2>1, NoneBefore
    <3> QED
      BY <1>3, <1>8, <3>1, Shapes, NotReleasing DEF Setting
  <2>2. CASE main = <<"signal", "set", "check">> /\ then = <<"SIGHUP">>
    <3>1. main' = <<"SIGHUP", "set", "check">>
      BY <1>3, <2>2, OneBefore
    <3> QED
      BY <1>3, <1>8, <3>1, Shapes, NotReleasing DEF Setting
  <2>3. CASE main = <<"signal">> /\ then = << >>
    <3>1. main' = << >>
      BY <1>3, <2>3, NoneBefore
    <3> QED
      BY <1>3, <1>8, <3>1, Shapes, NotReleasing
  <2>4. CASE main = <<"signal">> /\ then = <<"SIGHUP">>
    <3>1. main' = <<"SIGHUP">>
      BY <1>3, <2>4, OneBefore
    <3> QED
      BY <1>3, <1>8, <3>1, Shapes, NotReleasing DEF WhileClear
  <2> QED
    BY <1>2, <1>4, <1>8, <2>1, <2>2, <2>3, <2>4
<1>9. ASSUME c = "SIGHUP"
      PROVE  main \notin Releasing /\ main' \notin Releasing
  <2>0. then = << >>
    BY <1>2, <1>9
  <2>1. CASE main = <<"SIGHUP", "set", "check">>
    <3>1. main' = <<"set", "check">>
      BY <1>3, <2>0, <2>1, NoneBefore
    <3> QED
      BY <1>3, <1>9, <3>1, Shapes, NotReleasing DEF Setting
  <2>2. CASE main = <<"SIGHUP">>
    <3>1. main' = << >>
      BY <1>3, <2>0, <2>2, NoneBefore
    <3> QED
      BY <1>3, <1>9, <3>1, Shapes, NotReleasing
  <2> QED
    BY <1>4, <1>9, <2>1, <2>2
<1>10. ASSUME c = "check", then = << >>
      PROVE  main \notin Releasing /\ main' \notin Releasing
  <2>1. main' = << >>
    BY <1>3, <1>4, <1>10, NoneBefore
  <2> QED
    BY <1>3, <1>10, <2>1, Shapes, NotReleasing
<1>11. ASSUME c = "check", then = <<"unwait", "release">>
       PROVE  main' = <<"unwait", "release">>
  BY <1>3, <1>4, <1>11, TwoBefore
<1>12. ASSUME c = "unwait"
       PROVE  main = <<"unwait", "release">> /\ main' = <<"release">>
  <2>1. main = <<"unwait", "release">> /\ then = << >>
    BY <1>2, <1>4, <1>12
  <2> QED
    BY <1>3, <2>1, NoneBefore
<1>13. ASSUME c = "release"
       PROVE  main = <<"release">> /\ main' = << >>
  <2>1. main = <<"release">> /\ then = << >>
    BY <1>2, <1>4, <1>13
  <2> QED
    BY <1>3, <2>1, NoneBefore
<1> HIDE DEF main
<1>14. c \in {"clear", "set", "signal", "SIGHUP", "check", "unwait", "release"}
  BY <1>4
<1>15. CASE c \in {"clear", "set", "signal", "SIGHUP"} \/ (c = "check" /\ then = << >>)
  <2>1. main \notin Releasing /\ main' \notin Releasing
    BY <1>6, <1>7, <1>8, <1>9, <1>10, <1>15
  <2> QED
    BY <1>1, <1>3, <1>5, <1>15, <2>1 DEF main
<1>16. CASE c = "check" /\ then # << >>
  <2>1. then = <<"unwait", "release">> /\ mWaitingForRelease
    BY <1>2, <1>16
  <2> QED
    BY <1>1, <1>2, <1>3, <1>11, <1>16, <2>1 DEF main
<1>17. CASE c = "unwait"
  BY <1>1, <1>2, <1>3, <1>12, <1>17 DEF main
<1>18. CASE c = "release"
  BY <1>1, <1>2, <1>3, <1>13, <1>18 DEF main
<1> QED
  BY <1>14, <1>15, <1>16, <1>17, <1>18

(* What the steps of the management thread mean for it.                      *)
LEMMA ManagementMoves ==
  ASSUME DecisionInv, Write("management") \/ Read("management") \/ managmentCommand("management")
  PROVE  /\ todo'["main"] = todo["main"] /\ todo["management"] # << >>
         /\ UNCHANGED <<mSocket, toApp, process, hold_release, authorized, restarts, events>>
         /\ \/ /\ todo'["management"] \in {<<"unwait", "release">>, <<"wait">>}
               /\ UNCHANGED <<mWaitingForRelease, toProcess>>
            \/ /\ todo'["management"] = <<"release">>
               /\ mWaitingForRelease' = FALSE /\ UNCHANGED toProcess
            \/ mWaitingForRelease' = TRUE /\ UNCHANGED toProcess
            \/ /\ toProcess' = IF mSocket THEN Append(toProcess, "release") ELSE toProcess
               /\ UNCHANGED mWaitingForRelease
            \/ /\ todo["management"] = <<"password">>
               /\ toProcess' \in {toProcess, Append(toProcess, "password")}
               /\ UNCHANGED mWaitingForRelease
<1> DEFINE steps == todo["management"]
<1>1. UNCHANGED <<mSocket, toApp, process, hold_release, authorized, restarts, events>>
  BY DEF Write, Read, managmentCommand, engine
<1>2. PICK c \in Code, then \in {<< >>, <<"SIGHUP">>, <<"unwait", "release">>, <<"wait">>} :
        /\ Take("management", c, then)
        /\ c = "handleHold" => then \in {<<"unwait", "release">>, <<"wait">>}
        /\ c \in {"unwait", "release", "wait", "password"} => then = << >>
        /\ c = "wait" => mWaitingForRelease' = TRUE
        /\ c = "unwait" => mWaitingForRelease' = FALSE
        /\ c \notin {"wait", "unwait"} => mWaitingForRelease' = mWaitingForRelease
        /\ c = "password" => toProcess' \in {toProcess, Append(toProcess, "password")}
        /\ c = "release" =>
             toProcess' = IF mSocket THEN Append(toProcess, "release") ELSE toProcess
        /\ c \notin {"SIGHUP", "release", "password"} => toProcess' = toProcess
  <2>1. CASE Write("management")
    BY <2>1 DEF Write, Code
  <2>2. CASE Read("management")
    BY <2>2 DEF Read, Code, hold, releaseHoldCmd
  <2>3. CASE managmentCommand("management")
    BY <2>3 DEF managmentCommand, Code, hold
  <2> QED
    BY <2>1, <2>2, <2>3
<1>3. /\ Head(steps) = c /\ steps # << >> /\ steps' = then \o Tail(steps)
      /\ todo'["main"] = todo["main"]
  BY <1>2, Takes DEF DecisionInv, Thread
<1>4. \/ c = "handleHold" /\ steps = <<"handleHold">>
      \/ c = "unwait" /\ steps = <<"unwait", "release">>
      \/ c = "release" /\ steps = <<"release">>
      \/ c = "wait" /\ steps = <<"wait">>
      \/ c = "password" /\ steps = <<"password">>
  BY <1>3 DEF DecisionInv, ManagementInv
<1>5. c = "handleHold" => steps' \in {<<"unwait", "release">>, <<"wait">>}
  <2> SUFFICES ASSUME c = "handleHold"
               PROVE  steps' \in {<<"unwait", "release">>, <<"wait">>}
    OBVIOUS
  <2>1. steps = <<"handleHold">>
    BY <1>4
  <2>2. CASE then = <<"unwait", "release">>
    BY <1>3, <2>1, <2>2, TwoBefore
  <2>3. CASE then = <<"wait">>
    BY <1>3, <2>1, <2>3, OneBefore
  <2> QED
    BY <1>2, <2>2, <2>3
<1>6. c = "unwait" => steps' = <<"release">>
  <2> SUFFICES ASSUME c = "unwait" PROVE steps' = <<"release">>
    OBVIOUS
  <2>1. steps = <<"unwait", "release">> /\ then = << >>
    BY <1>2, <1>4
  <2> QED
    BY <1>3, <2>1, NoneBefore
<1>7. c = "password" => steps = <<"password">>
  BY <1>4
<1>8. c \in {"handleHold", "unwait", "release", "wait", "password"}
  BY <1>4
<1> HIDE DEF steps
<1> QED
  BY <1>1, <1>2, <1>3, <1>5, <1>6, <1>7, <1>8 DEF steps

-----------------------------------------------------------------------------
LEMMA InitHold == Init => HoldInv
<1> SUFFICES ASSUME Init PROVE HoldInv
  OBVIOUS
<1>1. OtherTypes
  <2>1. /\ << >> \in Seq({"SIGHUP", "release", "password"})
        /\ <<"HOLD">> \in Seq({"HOLD", "PASSWORD"})
    OBVIOUS
  <2>2. events \in 0 .. MaxEvents /\ restarts \in 0 .. MaxRestarts
    BY ManagementHoldAssumption DEF Init
  <2> QED
    BY <2>1, <2>2 DEF Init, OtherTypes
<1>3. SocketInv
  <2>1. << >> \notin Releasing
    BY Shapes
  <2> QED
    BY <2>1 DEF Init, SocketInv, Thread
<1>2. Has(toApp, "HOLD")
  BY DEF Init, Has
<1> QED
  BY <1>1, <1>2, <1>3, InitDecision DEF HoldInv, KnownInv

LEMMA ThreadsKnow ==
  ASSUME HoldInv, NEW t \in Thread, Write(t) \/ Read(t) \/ managmentCommand(t)
  PROVE  OtherTypes' /\ SocketInv' /\ KnownInv'
<1> USE DEF HoldInv
<1> DEFINE S == {"SIGHUP", "release", "password"}
<1>1. toProcess \in Seq(S)
  BY DEF OtherTypes
<1>2. \A y \in S : /\ Append(toProcess, y) \in Seq(S)
                   /\ Has(Append(toProcess, y), y)
                   /\ \A x : Has(toProcess, x) => Has(Append(toProcess, y), x)
  BY <1>1, HasAfterAppend
<1>3. CASE t = "main"
  <2> DEFINE M == todo["main"]
  <2>1. /\ todo'["management"] = todo["management"]
        /\ UNCHANGED <<mSocket, toApp, process, hold_release, authorized, restarts, events>>
        /\ \/ /\ M \notin Releasing /\ M' \notin Releasing
              /\ UNCHANGED mWaitingForRelease
              /\ toProcess' \in {toProcess, Append(toProcess, "SIGHUP")}
           \/ /\ M' = <<"unwait", "release">> /\ mWaitingForRelease
              /\ UNCHANGED <<mWaitingForRelease, toProcess>>
           \/ /\ M = <<"unwait", "release">> /\ M' = <<"release">>
              /\ mWaitingForRelease' = FALSE /\ UNCHANGED toProcess
           \/ /\ M = <<"release">> /\ M' = << >>
              /\ toProcess' = IF mSocket THEN Append(toProcess, "release") ELSE toProcess
              /\ UNCHANGED mWaitingForRelease
    BY <1>3, MainMoves
  <2>2. OtherTypes'
    BY <1>1, <1>2, <2>1 DEF OtherTypes
  <2>3. SocketInv'
    <3>1. <<"unwait", "release">> \in Releasing /\ << >> \notin Releasing
      BY Shapes DEF Releasing
    <3> QED
      BY <2>1, <3>1 DEF SocketInv, OtherTypes
  <2>4. KnownInv'
    <3>1. <<"unwait", "release">> \in Releasing /\ <<"release">> \in Releasing
      BY DEF Releasing
    <3>2. M \in Releasing => mSocket
      BY DEF SocketInv
    <3>3. Has(toProcess, "release") => Has(toProcess', "release")
      BY <1>2, <2>1
    <3>4. M \in Releasing => M' \in Releasing \/ Has(toProcess', "release")
      BY <1>2, <2>1, <3>1, <3>2
    <3>5. mWaitingForRelease = TRUE =>
            mWaitingForRelease' = TRUE \/ M' \in Releasing
      BY <2>1, <3>1
    <3> HIDE DEF M
    <3> QED
      BY <2>1, <3>3, <3>4, <3>5 DEF KnownInv, M
  <2> QED
    BY <2>2, <2>3, <2>4
<1>4. CASE t = "management"
  <2> DEFINE M == todo["management"]
  <2>1. /\ todo'["main"] = todo["main"] /\ M # << >>
        /\ UNCHANGED <<mSocket, toApp, process, hold_release, authorized, restarts, events>>
        /\ \/ /\ M' \in {<<"unwait", "release">>, <<"wait">>}
              /\ UNCHANGED <<mWaitingForRelease, toProcess>>
           \/ M' = <<"release">> /\ mWaitingForRelease' = FALSE /\ UNCHANGED toProcess
           \/ mWaitingForRelease' = TRUE /\ UNCHANGED toProcess
           \/ /\ toProcess' = IF mSocket THEN Append(toProcess, "release") ELSE toProcess
              /\ UNCHANGED mWaitingForRelease
           \/ /\ M = <<"password">>
              /\ toProcess' \in {toProcess, Append(toProcess, "password")}
              /\ UNCHANGED mWaitingForRelease
    BY <1>4, ManagementMoves
  <2>2. OtherTypes'
    BY <1>1, <1>2, <2>1 DEF OtherTypes
  <2>3. mSocket /\ mSocket'
    BY <2>1 DEF SocketInv
  <2>4. KnownInv'
    <3>1. /\ <<"unwait", "release">> \in Releasing \cup {<<"handleHold">>, <<"wait">>}
          /\ <<"release">> \in Releasing \cup {<<"handleHold">>, <<"wait">>}
          /\ <<"wait">> \in Releasing \cup {<<"handleHold">>, <<"wait">>}
          /\ <<"password">> \notin Releasing \cup {<<"handleHold">>, <<"wait">>}
      BY NotReleasing DEF Releasing
    <3>2. Has(toProcess, "release") => Has(toProcess', "release")
      BY <1>2, <2>1
    <3>3. \/ M' \in Releasing \cup {<<"handleHold">>, <<"wait">>}
          \/ mWaitingForRelease' = TRUE
          \/ Has(toProcess', "release")
          \/ M = <<"password">> /\ UNCHANGED mWaitingForRelease
      BY <1>2, <2>1, <2>3, <3>1
    <3> HIDE DEF M
    <3> QED
      BY <2>1, <3>1, <3>2, <3>3 DEF KnownInv, M
  <2> QED
    BY <2>2, <2>3, <2>4 DEF SocketInv
<1> QED
  BY <1>3, <1>4 DEF Thread

LEMMA IntentsKnow ==
  ASSUME HoldInv,
         \/ \E newnet \in NetworkType : NetworkConnected(newnet)
         \/ NetworkLost \/ ScreenOn
         \/ \E pauses \in BOOLEAN : userPause(pauses)
  PROVE  OtherTypes' /\ SocketInv' /\ KnownInv'
<1> USE ManagementHoldAssumption DEF HoldInv
<1>1. /\ todo["main"] = << >>
      /\ UNCHANGED <<mWaitingForRelease, mSocket, toProcess, toApp, process, hold_release,
                     authorized, restarts>>
      /\ events' \in 0 .. MaxEvents
      /\ \E steps \in {<< >>, resume, reconnect, pause} :
           todo' = [todo EXCEPT !["main"] = steps]
  BY DEF NetworkConnected, NetworkLost, ScreenOn, userPause, Event, Run, hold, engine, OtherTypes
<1>2. /\ resume = <<"set", "check">> /\ pause = <<"clear", "signal">>
      /\ reconnect = <<"clear", "signal", "set", "check">>
  BY ConcatTwoTwo DEF resume, pause, reconnect, releaseHold, signalusr1
<1>3. << >> \notin Releasing /\ resume \notin Releasing /\ pause \notin Releasing
      /\ reconnect \notin Releasing
  BY <1>2, Shapes DEF Setting, Clearing
<1>4. todo'["main"] \notin Releasing /\ todo'["management"] = todo["management"]
  BY <1>1, <1>3 DEF DecisionInv, Thread
<1>5. OtherTypes'
  BY <1>1 DEF OtherTypes
<1>6. SocketInv'
  BY <1>1, <1>4 DEF SocketInv
<1>7. KnownInv'
  BY <1>1, <1>3, <1>4 DEF KnownInv
<1> QED
  BY <1>5, <1>6, <1>7

LEMMA MessagesKnow ==
  ASSUME HoldInv, Accept \/ processCommand \/ UNCHANGED vars
  PROVE  OtherTypes' /\ SocketInv' /\ KnownInv'
<1> USE DEF HoldInv
<1>1. CASE Accept
  BY <1>1 DEF Accept, OtherTypes, SocketInv, KnownInv, hold, engine
<1>2. CASE UNCHANGED vars
  BY <1>2 DEF vars, OtherTypes, SocketInv, KnownInv, hold, engine
<1>3. CASE processCommand
  <2>1. /\ mSocket /\ todo["management"] = << >> /\ toApp # << >> /\ toApp' = Tail(toApp)
        /\ UNCHANGED <<mWaitingForRelease, mSocket, toProcess, process, hold_release, authorized,
                       restarts, events>>
        /\ todo'["main"] = todo["main"]
        /\ Head(toApp) = "HOLD" => todo'["management"] = <<"handleHold">>
    BY <1>3 DEF processCommand, hold, engine, DecisionInv, Thread
  <2>2. toApp \in Seq({"HOLD", "PASSWORD"}) /\ toApp' \in Seq({"HOLD", "PASSWORD"})
    BY <2>1 DEF OtherTypes
  <2>3. OtherTypes'
    BY <2>1, <2>2 DEF OtherTypes
  <2>4. SocketInv'
    BY <2>1 DEF SocketInv
  <2>5. << >> \notin Releasing \cup {<<"handleHold">>, <<"wait">>}
    BY Shapes
  <2>6. Has(toApp, "HOLD") /\ Head(toApp) # "HOLD" => Has(toApp', "HOLD")
    BY <2>1, <2>2, HasAfterTail
  <2>7. KnownInv'
    BY <2>1, <2>5, <2>6 DEF KnownInv
  <2> QED
    BY <2>3, <2>4, <2>7
<1> QED
  BY <1>1, <1>2, <1>3

(* The process takes commands: a release it does not take it still has, and   *)
(* a hold that goes on or begins is announced.                               *)
LEMMA ProcessKnows ==
  ASSUME HoldInv,
         \/ RestartByItself
         \/ \E n \in 1 .. Len(toProcess) :
              management_hold(n) \/ management_query_user_pass(n) \/ RunCommands(n)
  PROVE  OtherTypes' /\ SocketInv' /\ KnownInv'
<1> USE DEF HoldInv
<1> DEFINE S == {"SIGHUP", "release", "password"}
           A == {"HOLD", "PASSWORD"}
<1>1. toProcess \in Seq(S) /\ toApp \in Seq(A)
  BY DEF OtherTypes
<1>2. /\ Append(toApp, "HOLD") \in Seq(A) /\ Has(Append(toApp, "HOLD"), "HOLD")
  BY <1>1, HasAfterAppend
<1>3. UNCHANGED <<mWaitingForRelease, mSocket, todo, events>>
  BY DEF RestartByItself, management_hold, management_query_user_pass, RunCommands, Taken, hold
<1>4. SocketInv'
  BY <1>3 DEF SocketInv
<1>5. CASE RestartByItself
  <2>1. /\ process' = "hold" /\ toApp' = Append(toApp, "HOLD") /\ hold_release' = FALSE
        /\ UNCHANGED <<toProcess, authorized>> /\ restarts' \in 0 .. MaxRestarts
    BY <1>5, ManagementHoldAssumption DEF RestartByItself, Restarts, OtherTypes
  <2> QED
    BY <1>2, <1>3, <1>4, <2>1 DEF OtherTypes, KnownInv
<1>6. ASSUME NEW n \in 1 .. Len(toProcess), management_hold(n)
      PROVE  OtherTypes' /\ KnownInv'
  <2> DEFINE ignored == {i \in 1 .. n : toProcess[i] = "SIGHUP"}
             holds == [i \in 1 .. Cardinality(ignored) |-> "HOLD"]
             released == "release" \in Commands(n)
             asks == released /\ ~ authorized
             said == holds \o (IF asks THEN <<"PASSWORD">> ELSE << >>)
  <2>1. /\ process = "hold" /\ toProcess' = SubSeq(toProcess, n + 1, Len(toProcess))
        /\ hold_release' = released
        /\ process' = IF asks THEN "query" ELSE IF released THEN "run" ELSE "hold"
        /\ toApp' = toApp \o holds \o (IF asks THEN <<"PASSWORD">> ELSE << >>)
        /\ UNCHANGED <<authorized, restarts>>
    BY <1>6 DEF management_hold, Taken
  <2>2. holds \in Seq(A)
    <3>1. n \in Int /\ IsFiniteSet(1 .. n)
      BY <1>1, FS_Interval
    <3>2. Cardinality(ignored) \in Nat
      BY <3>1, FS_Subset, FS_CardinalityType
    <3> HIDE DEF ignored
    <3> QED
      BY <3>2
  <2> HIDE DEF holds
  <2>3. /\ toApp \o holds \in Seq(A) /\ \A x : Has(toApp, x) => Has(toApp \o holds, x)
    BY <1>1, <2>2, HasAfterConcat
  <2>4. /\ toApp' \in Seq(A) /\ \A x : Has(toApp, x) => Has(toApp', x)
    <3> HIDE DEF asks
    <3>0. << >> \in Seq(A) /\ <<"PASSWORD">> \in Seq(A)
      OBVIOUS
    <3>1. (IF asks THEN <<"PASSWORD">> ELSE << >>) \in Seq(A)
      BY <3>0
    <3> QED
      BY <2>1, <2>3, <3>1, HasAfterConcat
  <2>5. /\ toProcess' \in Seq(S)
        /\ \A x : Has(toProcess, x) /\ (\A i \in 1 .. n : toProcess[i] # x) => Has(toProcess', x)
    BY <1>1, <2>1, HasAfterSubSeq
  <2>6. OtherTypes'
    BY <1>3, <2>1, <2>4, <2>5 DEF OtherTypes
  <2>7. process' = "hold" => \A i \in 1 .. n : toProcess[i] # "release"
    BY <2>1 DEF Commands
  <2>8. KnownInv'
    BY <1>3, <2>1, <2>4, <2>5, <2>7 DEF KnownInv
  <2> QED
    BY <2>6, <2>8
<1>7. ASSUME NEW n \in 1 .. Len(toProcess), management_query_user_pass(n)
      PROVE  OtherTypes' /\ KnownInv'
  <2>1. /\ toProcess' = SubSeq(toProcess, n + 1, Len(toProcess))
        /\ process' \in {"exited", "run", "query"} /\ authorized' \in BOOLEAN
        /\ UNCHANGED <<toApp, hold_release, restarts>>
    BY <1>7 DEF management_query_user_pass, Taken
  <2>2. toProcess' \in Seq(S)
    BY <1>1, <2>1, HasAfterSubSeq
  <2> QED
    BY <1>3, <2>1, <2>2 DEF OtherTypes, KnownInv
<1>8. ASSUME NEW n \in 1 .. Len(toProcess), RunCommands(n)
      PROVE  OtherTypes' /\ KnownInv'
  <2>1. /\ process = "run" /\ toProcess' = SubSeq(toProcess, n + 1, Len(toProcess))
        /\ \/ process' = "hold" /\ toApp' = Append(toApp, "HOLD")
           \/ UNCHANGED <<process, toApp>>
        /\ hold_release' \in BOOLEAN
        /\ UNCHANGED <<authorized, restarts>>
    BY <1>8 DEF RunCommands, Restarts, Taken, OtherTypes
  <2>2. toProcess' \in Seq(S)
    BY <1>1, <2>1, HasAfterSubSeq
  <2> QED
    BY <1>2, <1>3, <2>1, <2>2 DEF OtherTypes, KnownInv
<1> QED
  BY <1>4, <1>5, <1>6, <1>7, <1>8

LEMMA StepHold == HoldInv /\ [Next]_vars => HoldInv'
<1> SUFFICES ASSUME HoldInv, [Next]_vars PROVE HoldInv'
  OBVIOUS
<1>1. DecisionInv'
  BY StepDecision DEF HoldInv
<1>2. OtherTypes' /\ SocketInv' /\ KnownInv'
  BY ThreadsKnow, IntentsKnow, MessagesKnow, ProcessKnows DEF Next
<1> QED
  BY <1>1, <1>2 DEF HoldInv

LEMMA HoldInvariance == Spec => []HoldInv
  BY InitHold, StepHold, PTL DEF Spec

(* The steps a method has left are steps.                                    *)
LEMMA StepsAreCode ==
  /\ Setting \cup Clearing \cup WhileSet \cup WhileClear \cup {<< >>} \subseteq Seq(Code)
  /\ {<<"handleHold">>, <<"unwait", "release">>, <<"wait">>, <<"release">>, <<"password">>}
       \subseteq Seq(Code)
<1>1. \A a \in Code : <<a>> \in Seq(Code)
  OBVIOUS
<1>2. \A a, b \in Code : <<a, b>> \in Seq(Code)
  OBVIOUS
<1>3. \A a, b, c \in Code : <<a, b, c>> \in Seq(Code)
  OBVIOUS
<1>4. \A a, b, c, d \in Code : <<a, b, c, d>> \in Seq(Code)
  OBVIOUS
<1>5. /\ "clear" \in Code /\ "signal" \in Code /\ "SIGHUP" \in Code /\ "set" \in Code
      /\ "check" \in Code /\ "handleHold" \in Code /\ "wait" \in Code
      /\ "unwait" \in Code /\ "release" \in Code /\ "password" \in Code
  BY DEF Code
<1> HIDE DEF Code
<1>6. << >> \in Seq(Code)
  OBVIOUS
<1>7. Setting \subseteq Seq(Code)
  BY <1>2, <1>3, <1>4, <1>5 DEF Setting
<1>8. Clearing \cup WhileClear \subseteq Seq(Code)
  BY <1>1, <1>2, <1>5 DEF Clearing, WhileClear
<1>9. WhileSet \cup {<<"handleHold">>, <<"unwait", "release">>, <<"wait">>, <<"release">>, <<"password">>}
        \subseteq Seq(Code)
  BY <1>1, <1>2, <1>5 DEF WhileSet
<1> QED
  BY <1>6, <1>7, <1>8, <1>9

(* The type invariant of the two threads, the streams and the process.       *)
THEOREM HoldTypes == Spec => []TypeOK
<1>1. HoldInv => TypeOK
  <2> SUFFICES ASSUME HoldInv PROVE TypeOK
    OBVIOUS
  <2>1. todo["main"] \in Seq(Code)
    <3>1. todo["main"] \in Setting \cup Clearing \cup WhileSet \cup WhileClear \cup {<< >>}
      BY DEF HoldInv, DecisionInv, MainInv
    <3> QED
      BY <3>1, StepsAreCode
  <2>2. todo["management"] \in Seq(Code)
    BY StepsAreCode DEF HoldInv, DecisionInv, ManagementInv
  <2>3. todo \in [Thread -> Seq(Code)]
    BY <2>1, <2>2 DEF HoldInv, DecisionInv, Thread
  <2> QED
    BY <2>3 DEF HoldInv, DecisionInv, DeviceInv, OtherTypes, TypeOK
<1> QED
  BY <1>1, HoldInvariance, PTL

(* Once nothing is under way a process that is held is known to be, so that   *)
(* the next resume releases it, whatever crossed what.                       *)
THEOREM TheHoldIsKnown == Spec => []HoldIsKnown
<1>1. HoldInv => HoldIsKnown
  <2> SUFFICES ASSUME HoldInv, Quiet, process = "hold"
               PROVE  mWaitingForRelease = TRUE
    BY DEF HoldIsKnown
  <2>1. ~ Has(toApp, "HOLD") /\ ~ Has(toProcess, "release")
    BY DEF Quiet, Has
  <2>2. todo["main"] = << >> /\ todo["management"] = << >>
    BY DEF Quiet, Thread
  <2>3. << >> \notin Releasing \cup {<<"handleHold">>, <<"wait">>}
    BY Shapes
  <2> QED
    BY <2>1, <2>2, <2>3 DEF HoldInv, KnownInv
<1> QED
  BY <1>1, HoldInvariance, PTL
=============================================================================
