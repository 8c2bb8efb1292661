----------------------- MODULE ServiceLifecycle_proofs -----------------------
(***************************************************************************)
(* Any number of sessions, started, stopped, revoked and destroyed in any  *)
(* order: the invariants of ServiceLifecycle.                              *)
(***************************************************************************)
EXTENDS ServiceLifecycle, SequenceTheorems, TLAPS

(* Steps the main thread may have left: from the start of a session until it  *)
(* no longer counts as starting; until the process is launched; the last one  *)
(* of onStartCommand; and those of the other methods.                         *)
Starting ==
  {<<"stop", "check", "started", "open", "launch", "register">>,
   <<"visit", "check", "started", "open", "launch", "register">>,
   <<"check", "started", "open", "launch", "register">>,
   <<"interrupt", "started", "open", "launch", "register">>,
   <<"started", "open", "launch", "register">>}
Launching == {<<"open", "launch", "register">>, <<"launch", "register">>}
Registering == {<<"register">>}
Stopping ==
  {<< >>, <<"visit">>, <<"stop", "interrupt", "checkReceiver">>,
   <<"visit", "interrupt", "checkReceiver">>, <<"interrupt", "checkReceiver">>,
   <<"checkReceiver">>, <<"dismiss">>}

(* Those a process thread has left once the process has ended.                *)
Ending == {<<"unregister", "checkStarting">>, <<"checkStarting">>, <<"stopSelf">>}

MainInv == todo[Main] \in Starting \cup Launching \cup Registering \cup Stopping

StartingInv == ~ crashed /\ mStarting = TRUE => todo[Main] \in Starting

(* The receiver lags behind from the opening of the management to the end.    *)
ReceiverInv ==
  \/ mDeviceStateReceiver \in {NoReceiver, mManagement}
  \/ todo[Main] \in {<<"launch", "register">>, <<"register">>}

(* A started service has a process, or will have one, or one that has ended   *)
(* and whose thread will stop the service.                                    *)
Supported ==
  \/ todo[Main] \in Starting \cup Launching
  \/ process[session] \in {"starting", "connected", "exited"}
  \/ process[session] = "reported" /\ todo[session] \in Ending
StartedInv == ~ crashed /\ started = TRUE => session \in Session /\ Supported

ListInv ==
  \A k \in Session : management[k] \in {"listening", "serving"} => Contains(active, k)

ReportedInv == \A k \in Session : process[k] = "reported" => mProcessThread # k

(* What an iterator still has to visit: the threads that served when its stop  *)
(* began and whose socket is still open.                                      *)
VisitInv ==
  /\ \A k \in Session : management[k] = "serving" => client[k] # None
  /\ \A t \in {Main, Binder} : \A k \in visiting[t].served :
       /\ client[k] # None
       /\ \/ k \in closed
          \/ \E i \in visiting[t].at + 1 .. Len(visiting[t].list) : visiting[t].list[i] = k

ServiceInv ==
  /\ TypeOK /\ MainInv /\ StartingInv /\ ReceiverInv /\ StartedInv
  /\ ListInv /\ ReportedInv /\ VisitInv

-----------------------------------------------------------------------------
(* Sequences of steps.                                                        *)
LEMMA NoneBefore ==
  ASSUME NEW a, NEW b, NEW c, NEW d, NEW e, NEW f
  PROVE  /\ << >> \o Tail(<<a, b, c, d, e, f>>) = <<b, c, d, e, f>>
         /\ << >> \o Tail(<<a, b, c, d, e>>) = <<b, c, d, e>>
         /\ << >> \o Tail(<<a, b, c, d>>) = <<b, c, d>>
         /\ << >> \o Tail(<<a, b, c>>) = <<b, c>>
         /\ << >> \o Tail(<<a, b>>) = <<b>>
         /\ << >> \o Tail(<<a>>) = << >>
  OBVIOUS

LEMMA OneAndTwo ==
  ASSUME NEW a, NEW b, NEW c
  PROVE  <<a>> \o <<b, c>> = <<a, b, c>>
<1> DEFINE S == {a, b, c}
           s == <<a>> \o <<b, c>>
<1>1. s \in Seq(S) /\ Len(s) = 3
  OBVIOUS
<1>2. s[1] = a /\ s[2] = b /\ s[3] = c
  OBVIOUS
<1>3. <<a, b, c>> \in Seq(S) /\ Len(<<a, b, c>>) = 3
  OBVIOUS
<1>4. \A i \in 1 .. 3 : s[i] = <<a, b, c>>[i]
  BY <1>2
<1> QED
  BY <1>1, <1>3, <1>4, SeqEqual

LEMMA OneAndFour ==
  ASSUME NEW a, NEW b, NEW c, NEW d, NEW e
  PROVE  <<a>> \o <<b, c, d, e>> = <<a, b, c, d, e>>
<1> DEFINE S == {a, b, c, d, e}
           s == <<a>> \o <<b, c, d, e>>
<1>1. s \in Seq(S) /\ Len(s) = 5
  OBVIOUS
<1>2. s[1] = a /\ s[2] = b /\ s[3] = c /\ s[4] = d /\ s[5] = e
  OBVIOUS
<1>3. <<a, b, c, d, e>> \in Seq(S) /\ Len(<<a, b, c, d, e>>) = 5
  OBVIOUS
<1>4. \A i \in 1 .. 5 : s[i] = <<a, b, c, d, e>>[i]
  BY <1>2
<1> QED
  BY <1>1, <1>3, <1>4, SeqEqual

LEMMA OneAndFive ==
  ASSUME NEW a, NEW b, NEW c, NEW d, NEW e, NEW f
  PROVE  <<a>> \o <<b, c, d, e, f>> = <<a, b, c, d, e, f>>
<1> DEFINE S == {a, b, c, d, e, f}
           s == <<a>> \o <<b, c, d, e, f>>
<1>1. s \in Seq(S) /\ Len(s) = 6
  OBVIOUS
<1>2. s[1] = a /\ s[2] = b /\ s[3] = c /\ s[4] = d /\ s[5] = e /\ s[6] = f
  OBVIOUS
<1>3. <<a, b, c, d, e, f>> \in Seq(S) /\ Len(<<a, b, c, d, e, f>>) = 6
  OBVIOUS
<1>4. \A i \in 1 .. 6 : s[i] = <<a, b, c, d, e, f>>[i]
  BY <1>2
<1> QED
  BY <1>1, <1>3, <1>4, SeqEqual

(* Those Take puts together.                                                  *)
LEMMA VisitFirst ==
  /\ <<"visit">> \o Tail(<<"stop", "check", "started", "open", "launch", "register">>)
       = <<"visit", "check", "started", "open", "launch", "register">>
  /\ <<"visit">> \o Tail(<<"visit", "check", "started", "open", "launch", "register">>)
       = <<"visit", "check", "started", "open", "launch", "register">>
  /\ <<"visit">> \o Tail(<<"stop", "interrupt", "checkReceiver">>)
       = <<"visit", "interrupt", "checkReceiver">>
  /\ <<"visit">> \o Tail(<<"visit", "interrupt", "checkReceiver">>)
       = <<"visit", "interrupt", "checkReceiver">>
  /\ <<"visit">> \o Tail(<<"visit">>) = <<"visit">>
<1>1. /\ Tail(<<"stop", "check", "started", "open", "launch", "register">>)
           = <<"check", "started", "open", "launch", "register">>
      /\ Tail(<<"visit", "check", "started", "open", "launch", "register">>)
           = <<"check", "started", "open", "launch", "register">>
  OBVIOUS
<1>2. /\ Tail(<<"stop", "interrupt", "checkReceiver">>) = <<"interrupt", "checkReceiver">>
      /\ Tail(<<"visit", "interrupt", "checkReceiver">>) = <<"interrupt", "checkReceiver">>
  OBVIOUS
<1>3. <<"visit">> \o <<"check", "started", "open", "launch", "register">>
        = <<"visit", "check", "started", "open", "launch", "register">>
  BY OneAndFive
<1>4. <<"visit">> \o <<"interrupt", "checkReceiver">> = <<"visit", "interrupt", "checkReceiver">>
  BY OneAndTwo
<1>5. <<"visit">> \o Tail(<<"visit">>) = <<"visit">>
  OBVIOUS
<1> QED
  BY <1>1, <1>2, <1>3, <1>4, <1>5

LEMMA InterruptFirst ==
  <<"interrupt">> \o Tail(<<"check", "started", "open", "launch", "register">>)
    = <<"interrupt", "started", "open", "launch", "register">>
<1>1. Tail(<<"check", "started", "open", "launch", "register">>)
        = <<"started", "open", "launch", "register">>
  OBVIOUS
<1> QED
  BY <1>1, OneAndFour

LEMMA DismissFirst == <<"dismiss">> \o Tail(<<"checkReceiver">>) = <<"dismiss">>
  OBVIOUS

LEMMA NothingFirst ==
  /\ << >> \o Tail(<<"visit", "check", "started", "open", "launch", "register">>)
       = <<"check", "started", "open", "launch", "register">>
  /\ << >> \o Tail(<<"check", "started", "open", "launch", "register">>)
       = <<"started", "open", "launch", "register">>
  /\ << >> \o Tail(<<"interrupt", "started", "open", "launch", "register">>)
       = <<"started", "open", "launch", "register">>
  /\ << >> \o Tail(<<"visit", "interrupt", "checkReceiver">>) = <<"interrupt", "checkReceiver">>
  OBVIOUS

(* The methods.                                                               *)
LEMMA Methods ==
  /\ <<"stop">> \o onStartCommand \in Starting /\ << >> \o onStartCommand \in Starting
  /\ onDestroy \in Stopping
  /\ Tail(endVpnService) = <<"unregister", "checkStarting">>
<1>1. <<"stop">> \o onStartCommand \in Starting
  <2>1. <<"stop">> \o onStartCommand = <<"stop", "check", "started", "open", "launch", "register">>
    BY OneAndFive DEF onStartCommand
  <2> QED
    BY <2>1 DEF Starting
<1>2. << >> \o onStartCommand = onStartCommand
  BY DEF onStartCommand
<1>3. onStartCommand \in Starting
  BY DEF onStartCommand, Starting
<1>4. onDestroy \in Stopping
  <2>1. << >> \o <<"checkReceiver">> = <<"checkReceiver">>
    OBVIOUS
  <2>2. <<"stop", "interrupt">> \o <<"checkReceiver">> = <<"stop", "interrupt", "checkReceiver">>
    <3> DEFINE s == <<"stop", "interrupt">> \o <<"checkReceiver">>
               S == {"stop", "interrupt", "checkReceiver"}
    <3>1. s \in Seq(S) /\ Len(s) = 3 /\ s[1] = "stop" /\ s[2] = "interrupt" /\ s[3] = "checkReceiver"
      OBVIOUS
    <3>2. /\ <<"stop", "interrupt", "checkReceiver">> \in Seq(S)
          /\ Len(<<"stop", "interrupt", "checkReceiver">>) = 3
      OBVIOUS
    <3>3. \A i \in 1 .. 3 : s[i] = <<"stop", "interrupt", "checkReceiver">>[i]
      BY <3>1
    <3> QED
      BY <3>1, <3>2, <3>3, SeqEqual
  <2> QED
    BY <2>1, <2>2 DEF onDestroy, Stopping
<1>5. Tail(endVpnService) = <<"unregister", "checkStarting">>
  BY DEF endVpnService
<1> QED
  BY <1>1, <1>2, <1>3, <1>4, <1>5

(* Their steps are steps.                                                     *)
LEMMA StepsAreCode ==
  /\ Starting \cup Launching \cup Registering \cup Stopping \subseteq Seq(Code)
  /\ Ending \subseteq Seq(Code)
  /\ << >> \in Seq(Code) /\ \A c \in Code : <<c>> \in Seq(Code)
  /\ <<"visit">> \o endVpnService \in Seq(Code)
<1>1. << >> \in Seq(Code) /\ \A a \in Code : <<a>> \in Seq(Code)
  OBVIOUS
<1>2. \A a, b \in Code : <<a, b>> \in Seq(Code)
  OBVIOUS
<1>3. \A a, b, c \in Code : <<a, b, c>> \in Seq(Code)
  OBVIOUS
<1>4. \A a, b, c, d \in Code : <<a, b, c, d>> \in Seq(Code)
  OBVIOUS
<1>5. \A a, b, c, d, e \in Code : <<a, b, c, d, e>> \in Seq(Code)
  OBVIOUS
<1>6. \A a, b, c, d, e, f \in Code : <<a, b, c, d, e, f>> \in Seq(Code)
  OBVIOUS
<1>7. /\ "stop" \in Code /\ "visit" \in Code /\ "check" \in Code /\ "interrupt" \in Code
      /\ "started" \in Code /\ "open" \in Code /\ "launch" \in Code /\ "register" \in Code
      /\ "clear" \in Code /\ "unregister" \in Code /\ "checkStarting" \in Code
      /\ "stopSelf" \in Code /\ "checkReceiver" \in Code /\ "dismiss" \in Code
  BY DEF Code
<1> HIDE DEF Code
<1>8. Starting \subseteq Seq(Code)
  BY <1>4, <1>5, <1>6, <1>7 DEF Starting
<1>9. Launching \cup Registering \subseteq Seq(Code)
  BY <1>1, <1>2, <1>3, <1>7 DEF Launching, Registering
<1>10. Stopping \subseteq Seq(Code)
  BY <1>1, <1>2, <1>3, <1>7 DEF Stopping
<1>11. Ending \subseteq Seq(Code)
  BY <1>1, <1>2, <1>7 DEF Ending
<1>12. <<"visit">> \in Seq(Code) /\ endVpnService \in Seq(Code)
  BY <1>1, <1>3, <1>7 DEF endVpnService
<1>13. <<"visit">> \o endVpnService \in Seq(Code)
  BY <1>12
<1> QED
  BY <1>1, <1>8, <1>9, <1>10, <1>11, <1>13

-----------------------------------------------------------------------------
(* A thread takes a step, and no other one does.                              *)
LEMMA Takes ==
  ASSUME todo \in [Thread -> Seq(Code)], NEW t \in Thread, NEW c,
         NEW more \in {<< >>, <<"visit">>, <<"interrupt">>, <<"stopSelf">>, <<"dismiss">>},
         Take(t, c, more)
  PROVE  /\ ~ crashed /\ Head(todo[t]) = c /\ todo[t] # << >>
         /\ todo'[t] = more \o Tail(todo[t])
         /\ \A u \in Thread \ {t} : todo'[u] = todo[u]
         /\ todo' \in [Thread -> Seq(Code)]
<1> DEFINE then == more \o Tail(todo[t])
<1>1. todo' = [todo EXCEPT ![t] = then] /\ ~ crashed /\ Head(todo[t]) = c /\ todo[t] # << >>
  BY DEF Take
<1>2. more \in Seq(Code)
  BY StepsAreCode DEF Code
<1>3. Tail(todo[t]) \in Seq(Code)
  BY <1>1
<1>4. then \in Seq(Code)
  BY <1>2, <1>3
<1> HIDE DEF then
<1>5. /\ todo'[t] = then
      /\ \A u \in Thread \ {t} : todo'[u] = todo[u]
      /\ todo' \in [Thread -> Seq(Code)]
  BY <1>1, <1>4
<1> QED
  BY <1>1, <1>5 DEF then

LEMMA Doing ==
  ASSUME todo \in [Thread -> Seq(Code)], NEW t \in Thread, NEW method \in Seq(Code),
         Do(t, method)
  PROVE  /\ ~ crashed /\ todo[t] = << >> /\ todo'[t] = method
         /\ \A u \in Thread \ {t} : todo'[u] = todo[u]
         /\ todo' \in [Thread -> Seq(Code)]
  BY DEF Do, Idle

LEMMA Threads ==
  /\ Main \in Thread /\ Binder \in Thread /\ Session \subseteq Thread
  /\ Main # Binder /\ Main \notin Session /\ Binder \notin Session
  /\ Thread = {Main, Binder} \cup Session
  BY ServiceLifecycleAssumption DEF Main, Binder, Thread, Session

(* How the main thread goes through its methods.                              *)
LEMMA MainMoves ==
  ASSUME MainInv, todo \in [Thread -> Seq(Code)], NEW c,
         NEW more \in {<< >>, <<"visit">>, <<"interrupt">>, <<"stopSelf">>, <<"dismiss">>},
         Take(Main, c, more),
         c = "stop" => more = <<"visit">>,
         c = "visit" => more \in {<< >>, <<"visit">>},
         c = "check" => more \in {<< >>, <<"interrupt">>},
         c = "checkReceiver" => more \in {<< >>, <<"dismiss">>},
         c \notin {"stop", "visit", "check", "checkStarting", "checkReceiver"} => more = << >>
  PROVE  \/ /\ c = "started" /\ todo[Main] \in Starting
            /\ todo'[Main] = <<"open", "launch", "register">>
         \/ /\ c = "open" /\ todo[Main] = <<"open", "launch", "register">>
            /\ todo'[Main] = <<"launch", "register">>
         \/ /\ c = "launch" /\ todo[Main] = <<"launch", "register">>
            /\ todo'[Main] = <<"register">>
         \/ c = "register" /\ todo[Main] = <<"register">> /\ todo'[Main] = << >>
         \/ /\ c \in {"stop", "visit", "check", "interrupt"}
            /\ todo[Main] \in Starting /\ todo'[Main] \in Starting
         \/ /\ c \in {"stop", "visit", "interrupt", "checkReceiver", "dismiss"}
            /\ todo[Main] \in Stopping /\ todo'[Main] \in Stopping
<1> DEFINE main == todo[Main]
           next == todo'[Main]
<1>0. Main \in Thread
  BY Threads
<1>1. Head(main) = c /\ main # << >> /\ next = more \o Tail(main)
  BY <1>0, Takes
<1>2. ASSUME main = <<"stop", "check", "started", "open", "launch", "register">>
      PROVE  c = "stop" /\ next \in Starting
  <2>1. c = "stop" /\ more = <<"visit">>
    BY <1>1, <1>2
  <2>2. next = <<"visit", "check", "started", "open", "launch", "register">>
    BY <1>1, <1>2, <2>1, VisitFirst
  <2> QED
    BY <2>1, <2>2 DEF Starting
<1>3. ASSUME main = <<"visit", "check", "started", "open", "launch", "register">>
      PROVE  c = "visit" /\ next \in Starting
  <2>1. c = "visit" /\ more \in {<< >>, <<"visit">>}
    BY <1>1, <1>3
  <2>2. \/ next = <<"visit", "check", "started", "open", "launch", "register">>
        \/ next = <<"check", "started", "open", "launch", "register">>
    BY <1>1, <1>3, <2>1, VisitFirst, NothingFirst
  <2> QED
    BY <2>1, <2>2 DEF Starting
<1>4. ASSUME main = <<"check", "started", "open", "launch", "register">>
      PROVE  c = "check" /\ next \in Starting
  <2>1. c = "check" /\ more \in {<< >>, <<"interrupt">>}
    BY <1>1, <1>4
  <2>2. \/ next = <<"interrupt", "started", "open", "launch", "register">>
        \/ next = <<"started", "open", "launch", "register">>
    BY <1>1, <1>4, <2>1, InterruptFirst, NothingFirst, NoneBefore
  <2> QED
    BY <2>1, <2>2 DEF Starting
<1>5. ASSUME main = <<"interrupt", "started", "open", "launch", "register">>
      PROVE  c = "interrupt" /\ next \in Starting
  <2>1. c = "interrupt" /\ more = << >>
    BY <1>1, <1>5
  <2>2. next = <<"started", "open", "launch", "register">>
    BY <1>1, <1>5, <2>1, NoneBefore
  <2> QED
    BY <2>1, <2>2 DEF Starting
<1>6. ASSUME main = <<"started", "open", "launch", "register">>
      PROVE  c = "started" /\ next = <<"open", "launch", "register">>
  <2>1. c = "started" /\ more = << >>
    BY <1>1, <1>6
  <2> QED
    BY <1>1, <1>6, <2>1, NoneBefore
<1>7. ASSUME main = <<"open", "launch", "register">>
      PROVE  c = "open" /\ next = <<"launch", "register">>
  <2>1. c = "open" /\ more = << >>
    BY <1>1, <1>7
  <2> QED
    BY <1>1, <1>7, <2>1, NoneBefore
<1>8. ASSUME main = <<"launch", "register">>
      PROVE  c = "launch" /\ next = <<"register">>
  <2>1. c = "launch" /\ more = << >>
    BY <1>1, <1>8
  <2> QED
    BY <1>1, <1>8, <2>1, NoneBefore
<1>9. ASSUME main = <<"register">>
      PROVE  c = "register" /\ next = << >>
  <2>1. c = "register" /\ more = << >>
    BY <1>1, <1>9
  <2> QED
    BY <1>1, <1>9, <2>1, NoneBefore
<1>10. ASSUME main = <<"visit">>
       PROVE  c = "visit" /\ next \in Stopping
  <2>1. c = "visit" /\ more \in {<< >>, <<"visit">>}
    BY <1>1, <1>10
  <2>2. next = <<"visit">> \/ next = << >>
    BY <1>1, <1>10, <2>1, VisitFirst, NoneBefore
  <2> QED
    BY <2>1, <2>2 DEF Stopping
<1>11. ASSUME main = <<"stop", "interrupt", "checkReceiver">>
       PROVE  c = "stop" /\ next \in Stopping
  <2>1. c = "stop" /\ more = <<"visit">>
    BY <1>1, <1>11
  <2>2. next = <<"visit", "interrupt", "checkReceiver">>
    BY <1>1, <1>11, <2>1, VisitFirst
  <2> QED
    BY <2>1, <2>2 DEF Stopping
<1>12. ASSUME main = <<"visit", "interrupt", "checkReceiver">>
       PROVE  c = "visit" /\ next \in Stopping
  <2>1. c = "visit" /\ more \in {<< >>, <<"visit">>}
    BY <1>1, <1>12
  <2>2. \/ next = <<"visit", "interrupt", "checkReceiver">>
        \/ next = <<"interrupt", "checkReceiver">>
    BY <1>1, <1>12, <2>1, VisitFirst, NothingFirst
  <2> QED
    BY <2>1, <2>2 DEF Stopping
<1>13. ASSUME main = <<"interrupt", "checkReceiver">>
       PROVE  c = "interrupt" /\ next \in Stopping
  <2>1. c = "interrupt" /\ more = << >>
    BY <1>1, <1>13
  <2>2. next = <<"checkReceiver">>
    BY <1>1, <1>13, <2>1, NoneBefore
  <2> QED
    BY <2>1, <2>2 DEF Stopping
<1>14. ASSUME main = <<"checkReceiver">>
       PROVE  c = "checkReceiver" /\ next \in Stopping
  <2>1. c = "checkReceiver" /\ more \in {<< >>, <<"dismiss">>}
    BY <1>1, <1>14
  <2>2. next = <<"dismiss">> \/ next = << >>
    BY <1>1, <1>14, <2>1, DismissFirst, NoneBefore
  <2> QED
    BY <2>1, <2>2 DEF Stopping
<1>19. ASSUME main = <<"dismiss">>
       PROVE  c = "dismiss" /\ next \in Stopping
  <2>1. c = "dismiss" /\ more = << >>
    BY <1>1, <1>19
  <2>2. next = << >>
    BY <1>1, <1>19, <2>1, NoneBefore
  <2> QED
    BY <2>1, <2>2 DEF Stopping
<1> HIDE DEF next
<1>15. CASE main \in Starting
  <2> HIDE DEF main
  <2>1. \/ c \in {"stop", "visit", "check", "interrupt"} /\ next \in Starting
        \/ c = "started" /\ next = <<"open", "launch", "register">>
    BY <1>2, <1>3, <1>4, <1>5, <1>6, <1>15 DEF Starting
  <2> QED
    BY <1>15, <2>1 DEF main, next
<1>16. CASE main \in Launching
  BY <1>7, <1>8, <1>16 DEF Launching, next
<1>17. CASE main \in Registering
  BY <1>9, <1>17 DEF Registering, next
<1>18. CASE main \in Stopping
  <2> HIDE DEF main
  <2>1. /\ c \in {"stop", "visit", "interrupt", "checkReceiver", "dismiss"}
        /\ next \in Stopping
    BY <1>1, <1>10, <1>11, <1>12, <1>13, <1>14, <1>18, <1>19 DEF Stopping
  <2> QED
    BY <1>18, <2>1 DEF main, next
<1> QED
  BY <1>15, <1>16, <1>17, <1>18 DEF MainInv

(* And a process thread through the end of its session.                       *)
LEMMA EndingMoves ==
  ASSUME todo \in [Thread -> Seq(Code)], NEW k \in Session, todo[k] \in Ending, NEW c,
         NEW more \in {<< >>, <<"visit">>, <<"interrupt">>, <<"stopSelf">>, <<"dismiss">>},
         Take(k, c, more),
         c # "checkStarting" => more = << >>
  PROVE  \/ c = "unregister" /\ todo'[k] = <<"checkStarting">>
         \/ c = "checkStarting" /\ todo'[k] = more
         \/ c = "stopSelf"
<1>1. k \in Thread
  BY Threads
<1>2. Head(todo[k]) = c /\ todo[k] # << >> /\ todo'[k] = more \o Tail(todo[k])
  BY <1>1, Takes
<1>3. CASE todo[k] = <<"unregister", "checkStarting">>
  <2>1. c = "unregister" /\ more = << >>
    BY <1>2, <1>3
  <2> QED
    BY <1>2, <1>3, <2>1, NoneBefore
<1>4. CASE todo[k] = <<"checkStarting">>
  <2>1. c = "checkStarting" /\ Tail(todo[k]) = << >>
    BY <1>2, <1>4
  <2>2. more \in Seq(Code)
    BY StepsAreCode DEF Code
  <2>3. more \o << >> = more
    BY <2>2
  <2> QED
    BY <1>2, <2>1, <2>3
<1>5. CASE todo[k] = <<"stopSelf">>
  BY <1>2, <1>5
<1> QED
  BY <1>3, <1>4, <1>5 DEF Ending

-----------------------------------------------------------------------------
LEMMA InitService == Init => ServiceInv
<1> SUFFICES ASSUME Init PROVE ServiceInv
  OBVIOUS
<1>1. TypeOK
  <2>1. << >> \in Seq(Code) /\ << >> \in Seq(Session)
    OBVIOUS
  <2>2. todo \in [Thread -> Seq(Code)]
    BY <2>1 DEF Init
  <2>3. /\ mProcessThread \in 0 .. MaxSessions /\ mManagement \in 0 .. MaxSessions
        /\ mDeviceStateReceiver \in NoReceiver .. MaxSessions /\ session \in 0 .. MaxSessions
        /\ path \in 0 .. MaxSessions
        /\ client \in [Session -> 0 .. MaxSessions] /\ peer \in [Session -> 0 .. MaxSessions]
    BY ServiceLifecycleAssumption DEF Init, None, NoReceiver
  <2>4. /\ visiting \in [{Main, Binder} -> Iterator]
        /\ \A t \in {Main, Binder} : visiting[t].at <= Len(visiting[t].list)
    BY <2>1 DEF Init, NotVisiting, Iterator
  <2> QED
    BY <2>1, <2>2, <2>3, <2>4 DEF Init, TypeOK
<1>2. todo[Main] = << >>
  BY Threads DEF Init
<1>3. MainInv
  BY <1>2 DEF MainInv, Stopping
<1> QED
  BY <1>1, <1>2, <1>3
     DEF Init, ServiceInv, StartingInv, ReceiverInv, StartedInv, ListInv, ReportedInv, VisitInv,
         NotVisiting

(* The list: a management thread is in it from before it listens until its    *)
(* end, whoever else leaves it.                                               *)
LEMMA HasAfterAppend ==
  ASSUME NEW S, NEW s \in Seq(S), NEW y \in S
  PROVE  /\ Append(s, y) \in Seq(S) /\ Contains(Append(s, y), y)
         /\ \A x : Contains(s, x) => Contains(Append(s, y), x)
<1>1. /\ Len(s) \in Nat /\ Append(s, y) \in Seq(S) /\ Len(Append(s, y)) = Len(s) + 1
      /\ Append(s, y)[Len(s) + 1] = y
      /\ \A i \in 1 .. Len(s) : Append(s, y)[i] = s[i]
  OBVIOUS
<1> QED
  BY <1>1 DEF Contains

LEMMA HasAfterRemoveAt ==
  ASSUME NEW S, NEW s \in Seq(S), NEW n \in 1 .. Len(s)
  PROVE  /\ RemoveAt(s, n) \in Seq(S)
         /\ \A x : Contains(s, x) /\ s[n] # x => Contains(RemoveAt(s, n), x)
<1> DEFINE u == SubSeq(s, 1, n - 1)
           v == SubSeq(s, n + 1, Len(s))
<1>1. /\ Len(s) \in Nat /\ u \in Seq(S) /\ Len(u) = n - 1
      /\ \A i \in 1 .. n - 1 : u[i] = s[i]
  OBVIOUS
<1>2. /\ v \in Seq(S) /\ Len(v) = Len(s) - n
      /\ \A i \in 1 .. Len(s) - n : v[i] = s[n + i]
  OBVIOUS
<1>3. RemoveAt(s, n) = u \o v
  BY DEF RemoveAt
<1> HIDE DEF u, v
<1>4. /\ u \o v \in Seq(S) /\ Len(u \o v) = Len(s) - 1
      /\ \A i \in 1 .. n - 1 : (u \o v)[i] = s[i]
      /\ \A i \in n .. Len(s) - 1 : (u \o v)[i] = s[i + 1]
  <2>1. /\ u \o v \in Seq(S) /\ Len(u \o v) = Len(u) + Len(v)
        /\ \A i \in 1 .. Len(u) : (u \o v)[i] = u[i]
        /\ \A i \in Len(u) + 1 .. Len(u) + Len(v) : (u \o v)[i] = v[i - Len(u)]
    <3>1. u \in Seq(S) /\ v \in Seq(S)
      BY <1>1, <1>2
    <3> QED
      BY <3>1
  <2>2. ASSUME NEW i \in n .. Len(s) - 1
        PROVE  (u \o v)[i] = s[i + 1]
    <3>1. i - (n - 1) \in 1 .. Len(s) - n /\ n + (i - (n - 1)) = i + 1
      BY <1>1
    <3>2. i \in Len(u) + 1 .. Len(u) + Len(v) /\ i - Len(u) = i - (n - 1)
      BY <1>1, <1>2
    <3> QED
      BY <1>2, <2>1, <3>1, <3>2
  <2> QED
    BY <1>1, <1>2, <2>1, <2>2
<1>5. ASSUME NEW x, Contains(s, x), s[n] # x
      PROVE  Contains(u \o v, x)
  <2>1. PICK i \in 1 .. Len(s) : s[i] = x
    BY <1>5 DEF Contains
  <2>2. CASE i < n
    <3>1. i \in 1 .. n - 1 /\ i \in 1 .. Len(s) - 1
      BY <1>1, <2>2
    <3> QED
      BY <1>4, <2>1, <3>1 DEF Contains
  <2>3. CASE i > n
    <3>1. i - 1 \in n .. Len(s) - 1 /\ i - 1 \in 1 .. Len(s) - 1 /\ (i - 1) + 1 = i
      BY <1>1, <2>3
    <3> QED
      BY <1>4, <2>1, <3>1 DEF Contains
  <2> QED
    BY <1>1, <1>5, <2>1, <2>2, <2>3
<1> QED
  BY <1>3, <1>4, <1>5

LEMMA StepList == ServiceInv /\ [Next]_vars => ListInv'
<1> SUFFICES ASSUME ServiceInv, [Next]_vars PROVE ListInv'
  OBVIOUS
<1> USE DEF ServiceInv
<1>0. active \in Seq(Session) /\ management = [k \in Session |-> management[k]]
  BY DEF TypeOK
<1>1. CASE UNCHANGED <<management, active>>
  BY <1>1 DEF ListInv
<1>2. ASSUME openManagementInterface
      PROVE  ListInv'
  <2>1. /\ UNCHANGED active
        /\ \A k \in Session : management'[k] \in {management[k], "bound"}
    BY <1>0, <1>2 DEF openManagementInterface
  <2> QED
    BY <2>1 DEF ListInv
<1>3. ASSUME NEW k \in Session, Listen(k)
      PROVE  ListInv'
  <2>1. /\ active' = Append(active, k)
        /\ \A j \in Session \ {k} : management'[j] = management[j]
    BY <1>0, <1>3 DEF Listen
  <2> QED
    BY <1>0, <2>1, HasAfterAppend DEF ListInv
<1>4. ASSUME NEW k \in Session, NEW c \in Session, Accept(k, c)
      PROVE  ListInv'
  <2>1. /\ UNCHANGED active /\ management[k] = "listening"
        /\ \A j \in Session \ {k} : management'[j] = management[j]
    BY <1>0, <1>4 DEF Accept
  <2> QED
    BY <2>1 DEF ListInv
<1>5. ASSUME NEW k \in Session, ManagementEnds(k)
      PROVE  ListInv'
  <2>1. /\ management'[k] = "ended"
        /\ \A j \in Session \ {k} : management'[j] = management[j]
    BY <1>0, <1>5 DEF ManagementEnds
  <2>2. \/ UNCHANGED active
        \/ \E i \in 1 .. Len(active) : active[i] = k /\ active' = RemoveAt(active, i)
    BY <1>0, <1>5 DEF ManagementEnds
  <2>3. \A j \in Session \ {k} : Contains(active, j) => Contains(active', j)
    BY <1>0, <2>2, HasAfterRemoveAt
  <2> QED
    BY <2>1, <2>3 DEF ListInv
<1> QED
  <2>1. CASE \/ Started \/ Launch \/ Clear \/ \E t \in Thread : Register(t) \/ Read(t) \/ stopSelf(t)
    BY <1>1, <2>1 DEF Started, Launch, Clear, Register, Read, stopSelf, threads
  <2>2. CASE StopBegins \/ \E t \in {Main, Binder} : StopVisits(t) \/ StopFails(t)
    BY <1>1, <2>2 DEF StopBegins, StopVisits, StopFails, threads
  <2>3. CASE Start \/ Stop \/ onRevoke \/ Destroy \/ networkStateChange
    BY <1>1, <2>3 DEF Start, Stop, onRevoke, Destroy, networkStateChange, threads
  <2>4. CASE \E k \in Session : man_connect(k) \/ Exits(k) \/ processDied(k)
    BY <1>1, <2>4 DEF man_connect, Exits, processDied, threads
  <2>5. CASE UNCHANGED vars
    BY <1>1, <2>5 DEF vars, threads
  <2> QED
    BY <1>2, <1>3, <1>4, <1>5, <2>1, <2>2, <2>3, <2>4, <2>5 DEF Next

-----------------------------------------------------------------------------
(* A process that has ended is not that of mProcessThread.                    *)
LEMMA StepReported == ServiceInv /\ [Next]_vars => ReportedInv'
<1> SUFFICES ASSUME ServiceInv, [Next]_vars PROVE ReportedInv'
  OBVIOUS
<1> USE DEF ServiceInv
<1>0. process = [k \in Session |-> process[k]]
  BY DEF TypeOK
<1>1. CASE UNCHANGED <<process, mProcessThread>>
  BY <1>1 DEF ReportedInv
<1>2. CASE Launch
  <2>1. /\ mProcessThread' = session
        /\ \A k \in Session : \/ k # session /\ process'[k] = process[k]
                              \/ process'[k] \in {"starting", "exited"}
    BY <1>0, <1>2 DEF Launch
  <2> QED
    BY <2>1 DEF ReportedInv
<1>3. CASE Clear
  BY <1>3 DEF Clear, processes, ReportedInv, None, Session
<1>4. ASSUME NEW c \in Session, processDied(c)
      PROVE  ReportedInv'
  BY <1>4 DEF processDied, ReportedInv, None, Session
<1>5. ASSUME NEW c \in Session, man_connect(c) \/ Exits(c)
      PROVE  ReportedInv'
  <2>1. /\ UNCHANGED mProcessThread
        /\ \A k \in Session : process'[k] \in {process[k], "connected", "exited"}
    BY <1>0, <1>5 DEF man_connect, Exits, fields
  <2> QED
    BY <2>1 DEF ReportedInv
<1> QED
  <2>1. CASE \/ Started \/ openManagementInterface
             \/ \E t \in Thread : Register(t) \/ Read(t) \/ stopSelf(t)
    BY <1>1, <2>1 DEF Started, openManagementInterface, Register, Read, stopSelf, processes, fields
  <2>2. CASE StopBegins \/ \E t \in {Main, Binder} : StopVisits(t) \/ StopFails(t)
    BY <1>1, <2>2 DEF StopBegins, StopVisits, StopFails, processes, fields
  <2>3. CASE Start \/ Stop \/ onRevoke \/ Destroy \/ networkStateChange
    BY <1>1, <2>3 DEF Start, Stop, onRevoke, Destroy, networkStateChange, processes, fields
  <2>4. CASE \E k \in Session : \/ Listen(k) \/ ManagementEnds(k)
                                \/ \E c \in Session : Accept(k, c)
    BY <1>1, <2>4 DEF Listen, ManagementEnds, Accept, processes, fields
  <2>5. CASE UNCHANGED vars
    BY <1>1, <2>5 DEF vars, processes, fields
  <2> QED
    BY <1>2, <1>3, <1>4, <1>5, <2>1, <2>2, <2>3, <2>4, <2>5 DEF Next

-----------------------------------------------------------------------------
(* The type invariant: a step of a thread, a method that begins, and the      *)
(* threads of the sessions.                                                   *)
LEMMA ThreadsTyped ==
  ASSUME TypeOK,
         \/ Started \/ Clear \/ \E t \in Thread : Register(t) \/ Read(t) \/ stopSelf(t)
         \/ openManagementInterface \/ Launch
  PROVE  TypeOK'
<1> USE DEF TypeOK
<1>1. CASE Started
  <2>1. todo' \in [Thread -> Seq(Code)]
    BY <1>1, Threads, Takes DEF Started
  <2> QED
    BY <1>1, <2>1 DEF Started, android, threads, processes
<1>2. CASE Clear
  <2>1. todo' \in [Thread -> Seq(Code)]
    BY <1>2, Threads, Takes DEF Clear
  <2>2. None \in 0 .. MaxSessions
    BY ServiceLifecycleAssumption DEF None
  <2> QED
    BY <1>2, <2>1, <2>2 DEF Clear, android, threads, processes
<1>3. ASSUME NEW t \in Thread, Register(t)
      PROVE  TypeOK'
  <2>1. todo' \in [Thread -> Seq(Code)]
    BY <1>3, Takes DEF Register
  <2>2. mDeviceStateReceiver' \in NoReceiver .. MaxSessions
    BY <1>3, ServiceLifecycleAssumption DEF Register, NoReceiver
  <2> QED
    BY <1>3, <2>1, <2>2 DEF Register, android, threads, processes
<1>4. ASSUME NEW t \in Thread, Read(t)
      PROVE  TypeOK'
  <2>1. todo' \in [Thread -> Seq(Code)]
    BY <1>4, Takes DEF Read
  <2>2. crashed' \in BOOLEAN
    BY <1>4 DEF Read
  <2> QED
    BY <1>4, <2>1, <2>2 DEF Read, fields, android, threads, processes
<1>5. ASSUME NEW t \in Thread, stopSelf(t)
      PROVE  TypeOK'
  <2>1. todo' \in [Thread -> Seq(Code)]
    BY <1>5, Takes DEF stopSelf
  <2> QED
    BY <1>5, <2>1 DEF stopSelf, fields, threads, processes
<1>6. CASE openManagementInterface
  <2>1. todo' \in [Thread -> Seq(Code)]
    BY <1>6, Threads, Takes DEF openManagementInterface
  <2>2. /\ management' \in [Session -> {"none", "bound", "listening", "serving", "ended"}]
        /\ path' \in 0 .. MaxSessions /\ mManagement' \in 0 .. MaxSessions
    BY <1>6 DEF openManagementInterface
  <2> QED
    BY <1>6, <2>1, <2>2 DEF openManagementInterface, android, processes
<1>7. CASE Launch
  <2>1. todo' \in [Thread -> Seq(Code)]
    BY <1>7, Threads, Takes DEF Launch
  <2>2. /\ process' \in [Session -> {"none", "starting", "connected", "exited", "reported"}]
        /\ mProcessThread' \in 0 .. MaxSessions
    BY <1>7 DEF Launch
  <2> QED
    BY <1>7, <2>1, <2>2 DEF Launch, android, threads
<1> QED
  BY <1>1, <1>2, <1>3, <1>4, <1>5, <1>6, <1>7

LEMMA IteratesTyped ==
  ASSUME TypeOK, NEW t \in {Main, Binder}, Iterate(t)
  PROVE  /\ visiting' \in [{Main, Binder} -> Iterator]
         /\ \A u \in {Main, Binder} : visiting'[u].at <= Len(visiting'[u].list)
<1> DEFINE v == [list |-> active, at |-> 0,
                 served |-> {k \in Session : management[k] = "serving"}]
<1>1. v \in Iterator /\ v.at <= Len(v.list)
  BY DEF TypeOK, Iterator
<1>2. visiting' = [visiting EXCEPT ![t] = v]
  BY DEF Iterate
<1> HIDE DEF v
<1> QED
  BY <1>1, <1>2 DEF TypeOK

LEMMA NotVisitingTyped ==
  NotVisiting \in Iterator /\ NotVisiting.at <= Len(NotVisiting.list)
<1>1. << >> \in Seq(Session) /\ Len(<< >>) = 0
  OBVIOUS
<1> QED
  BY <1>1 DEF NotVisiting, Iterator

LEMMA StopsTyped ==
  ASSUME TypeOK, StopBegins \/ \E t \in {Main, Binder} : StopVisits(t) \/ StopFails(t)
  PROVE  TypeOK'
<1>1. CASE StopBegins
  <2>1. todo' \in [Thread -> Seq(Code)]
    BY <1>1, Threads, Takes DEF StopBegins, TypeOK
  <2>2. /\ visiting' \in [{Main, Binder} -> Iterator]
        /\ \A u \in {Main, Binder} : visiting'[u].at <= Len(visiting'[u].list)
    BY <1>1, IteratesTyped DEF StopBegins
  <2> QED
    BY <1>1, <2>1, <2>2 DEF StopBegins, TypeOK, fields, android, threads, processes
<1>2. ASSUME NEW t \in {Main, Binder}, StopVisits(t)
      PROVE  TypeOK'
  <2> DEFINE v == visiting[t]
             over == v.at = Len(active)
             j == active[v.at + 1]
             w == IF over THEN NotVisiting ELSE [v EXCEPT !.at = v.at + 1]
  <2>1. todo' \in [Thread -> Seq(Code)]
    <3>1. t \in Thread
      BY Threads
    <3>2. CASE Take(t, "visit", << >>)
      BY <3>1, <3>2, Takes DEF TypeOK
    <3>3. CASE Take(t, "visit", <<"visit">>)
      BY <3>1, <3>3, Takes DEF TypeOK
    <3>4. \/ over /\ Take(t, "visit", << >>)
          \/ ~ over /\ Take(t, "visit", <<"visit">>)
      BY <1>2 DEF StopVisits
    <3> QED
      BY <3>2, <3>3, <3>4
  <2>2. /\ v \in Iterator /\ v.at <= Len(v.list)
        /\ active \in Seq(Session)
    BY DEF TypeOK
  <2>3. over \/ (active = v.list /\ v.at + 1 \in 1 .. Len(active))
    BY <1>2, <2>2 DEF StopVisits, Iterator
  <2>4. w \in Iterator /\ w.at <= Len(w.list)
    <3>1. CASE over
      BY <3>1, NotVisitingTyped
    <3>2. CASE ~ over
      BY <2>2, <2>3, <3>2 DEF Iterator
    <3> QED
      BY <3>1, <3>2
  <2>5. visiting' = [visiting EXCEPT ![t] = w]
    <3>1. CASE over
      BY <1>2, <3>1 DEF StopVisits
    <3>2. CASE ~ over
      BY <1>2, <3>2 DEF StopVisits
    <3> QED
      BY <3>1, <3>2
  <2>6. closed' \subseteq Session
    <3>1. over \/ j \in Session
      BY <2>2, <2>3
    <3>2. closed' = closed \/ (~ over /\ closed' = closed \cup {j})
      BY <1>2 DEF StopVisits
    <3> QED
      BY <3>1, <3>2 DEF TypeOK
  <2> HIDE DEF w
  <2>7. /\ visiting' \in [{Main, Binder} -> Iterator]
        /\ \A u \in {Main, Binder} : visiting'[u].at <= Len(visiting'[u].list)
    BY <2>4, <2>5 DEF TypeOK
  <2> QED
    BY <1>2, <2>1, <2>6, <2>7 DEF StopVisits, TypeOK, fields, android, threads, processes
<1>3. ASSUME NEW t \in {Main, Binder}, StopFails(t)
      PROVE  TypeOK'
  <2>1. todo' \in [Thread -> Seq(Code)]
    BY <1>3, StepsAreCode, Threads DEF StopFails, TypeOK
  <2>2. visiting' = [visiting EXCEPT ![t] = NotVisiting] /\ crashed' \in BOOLEAN
    BY <1>3 DEF StopFails
  <2>3. /\ visiting' \in [{Main, Binder} -> Iterator]
        /\ \A u \in {Main, Binder} : visiting'[u].at <= Len(visiting'[u].list)
    BY <2>2, NotVisitingTyped DEF TypeOK
  <2> QED
    BY <1>3, <2>1, <2>2, <2>3 DEF StopFails, TypeOK, fields, android, threads, processes
<1> QED
  BY <1>1, <1>2, <1>3

LEMMA MethodsTyped ==
  ASSUME TypeOK, Start \/ Stop \/ onRevoke \/ Destroy \/ networkStateChange
  PROVE  TypeOK'
<1>0. Main \in Thread /\ Binder \in Thread
  BY Threads
<1>1. CASE Start
  <2>1. PICK method \in Starting : Do(Main, method)
    BY <1>1, Methods DEF Start
  <2>2. method \in Seq(Code)
    BY StepsAreCode
  <2>3. todo' \in [Thread -> Seq(Code)]
    BY <1>0, <2>1, <2>2, Doing DEF TypeOK
  <2>4. session' \in 0 .. MaxSessions
    BY <1>1, ServiceLifecycleAssumption DEF Start, TypeOK
  <2> QED
    BY <1>1, <2>3, <2>4 DEF Start, TypeOK, threads, processes
<1>2. CASE Stop
  <2>1. <<"visit">> \in Seq(Code)
    BY StepsAreCode DEF Code
  <2>2. todo' \in [Thread -> Seq(Code)]
    BY <1>0, <1>2, <2>1, Doing DEF Stop, TypeOK
  <2>3. /\ visiting' \in [{Main, Binder} -> Iterator]
        /\ \A u \in {Main, Binder} : visiting'[u].at <= Len(visiting'[u].list)
    BY <1>2, IteratesTyped DEF Stop
  <2> QED
    BY <1>2, <2>2, <2>3 DEF Stop, TypeOK, fields, android, threads, processes
<1>3. CASE onRevoke
  <2>1. <<"visit">> \o endVpnService \in Seq(Code)
    BY StepsAreCode
  <2>2. todo' \in [Thread -> Seq(Code)]
    BY <1>0, <1>3, <2>1, Doing DEF onRevoke, TypeOK
  <2>3. /\ visiting' \in [{Main, Binder} -> Iterator]
        /\ \A u \in {Main, Binder} : visiting'[u].at <= Len(visiting'[u].list)
    BY <1>3, IteratesTyped DEF onRevoke
  <2> QED
    BY <1>3, <2>2, <2>3 DEF onRevoke, TypeOK, fields, threads, processes
<1>4. CASE Destroy
  <2>1. onDestroy \in Seq(Code)
    BY Methods, StepsAreCode
  <2>2. todo' \in [Thread -> Seq(Code)]
    BY <1>0, <1>4, <2>1, Doing DEF Destroy, TypeOK
  <2> QED
    BY <1>4, <2>2 DEF Destroy, TypeOK, fields, threads, processes
<1>5. CASE networkStateChange
  BY <1>5 DEF networkStateChange, TypeOK, fields, android, threads, processes
<1> QED
  BY <1>1, <1>2, <1>3, <1>4, <1>5

LEMMA SessionsTyped ==
  ASSUME TypeOK, NEW k \in Session,
         \/ Listen(k) \/ ManagementEnds(k) \/ \E c \in Session : Accept(k, c)
         \/ man_connect(k) \/ Exits(k) \/ processDied(k)
  PROVE  TypeOK'
<1> USE DEF TypeOK
<1>1. CASE Listen(k)
  BY <1>1, HasAfterAppend DEF Listen, fields, android, processes
<1>2. CASE ManagementEnds(k)
  <2>1. active' \in Seq(Session)
    <3>1. \/ UNCHANGED active
          \/ \E i \in 1 .. Len(active) : active[i] = k /\ active' = RemoveAt(active, i)
      BY <1>2 DEF ManagementEnds
    <3> QED
      BY <3>1, HasAfterRemoveAt
  <2> QED
    BY <1>2, <2>1 DEF ManagementEnds, fields, android, processes
<1>3. ASSUME NEW c \in Session, Accept(k, c)
      PROVE  TypeOK'
  <2>1. c \in 0 .. MaxSessions
    BY ServiceLifecycleAssumption DEF Session
  <2> QED
    BY <1>3, <2>1 DEF Accept, fields, android, processes
<1>4. CASE man_connect(k)
  <2>1. /\ process' \in [Session -> {"none", "starting", "connected", "exited", "reported"}]
        /\ peer' \in [Session -> 0 .. MaxSessions]
    BY <1>4 DEF man_connect
  <2> QED
    BY <1>4, <2>1 DEF man_connect, fields, android, threads
<1>5. CASE Exits(k)
  BY <1>5 DEF Exits, fields, android, threads
<1>6. CASE processDied(k)
  <2>1. k \in Thread /\ Tail(endVpnService) \in Seq(Code)
    BY Threads, Methods, StepsAreCode DEF Ending
  <2>2. todo' \in [Thread -> Seq(Code)]
    BY <1>6, <2>1, Doing DEF processDied
  <2>3. None \in 0 .. MaxSessions
    BY ServiceLifecycleAssumption DEF None
  <2> QED
    BY <1>6, <2>2, <2>3 DEF processDied, android, threads
<1> QED
  BY <1>1, <1>2, <1>3, <1>4, <1>5, <1>6

LEMMA StepTypes == TypeOK /\ [Next]_vars => TypeOK'
<1>1. TypeOK /\ UNCHANGED vars => TypeOK'
  BY DEF TypeOK, vars, fields, android, threads, processes
<1> QED
  BY <1>1, ThreadsTyped, StopsTyped, MethodsTyped, SessionsTyped DEF Next

-----------------------------------------------------------------------------
(* The main thread, the receiver and what is started.                         *)
MethodInv == MainInv /\ StartingInv /\ ReceiverInv /\ StartedInv

(* A step that leaves the main thread where it is, whoever takes it.          *)
LEMMA OthersMove ==
  ASSUME MethodInv, todo'[Main] = todo[Main],
         UNCHANGED <<mManagement, mStarting, session>>,
         mDeviceStateReceiver' \in {mDeviceStateReceiver, NoReceiver, mManagement},
         crashed => crashed',
         ~ crashed' /\ started' = TRUE =>
           started = TRUE /\ (session \in Session /\ Supported => Supported')
  PROVE  MethodInv'
<1>1. MainInv' /\ StartingInv' /\ ReceiverInv'
  BY DEF MethodInv, MainInv, StartingInv, ReceiverInv
<1>2. StartedInv'
  BY DEF MethodInv, StartedInv
<1> QED
  BY <1>1, <1>2 DEF MethodInv

LEMMA Shapes ==
  /\ Starting \cap {<<"launch", "register">>, <<"register">>, << >>} = {}
  /\ Stopping \cap {<<"launch", "register">>, <<"register">>} = {}
  /\ Stopping \cap (Starting \cup Launching) = {}
  /\ Starting \cap Launching = {}
  /\ <<"register">> \notin Starting \cup Launching
  /\ << >> \in Stopping /\ <<"visit">> \in Stopping /\ << >> \notin Ending
  /\ \A s \in {<<"launch", "register">>, <<"register">>} : Head(s) # "visit"
<1>1. \A s \in Starting : Head(s) \in {"stop", "visit", "check", "interrupt", "started"} /\ s # << >>
  BY DEF Starting
<1>2. \A s \in Launching \cup {<<"register">>} :
        Head(s) \in {"open", "launch", "register"} /\ s # << >>
  BY DEF Launching
<1>3. \A s \in Stopping : s # << >> =>
        Head(s) \in {"stop", "visit", "interrupt", "checkReceiver", "dismiss"}
  BY DEF Stopping
<1>4. <<"launch", "register">> \in Launching
  BY DEF Launching
<1>5. Starting \cap Stopping = {}
  <2>1. \A s \in Starting : Len(s) \in {4, 5, 6}
    BY DEF Starting
  <2>2. \A s \in Stopping : Len(s) \in {0, 1, 2, 3}
    <3>1. /\ Len(<< >>) = 0 /\ Len(<<"visit">>) = 1 /\ Len(<<"checkReceiver">>) = 1
          /\ Len(<<"dismiss">>) = 1
          /\ Len(<<"interrupt", "checkReceiver">>) = 2
          /\ Len(<<"stop", "interrupt", "checkReceiver">>) = 3
          /\ Len(<<"visit", "interrupt", "checkReceiver">>) = 3
      OBVIOUS
    <3> QED
      BY <3>1, Zenon DEF Stopping
  <2>3. {0, 1, 2, 3} \cap {4, 5, 6} = {}
    OBVIOUS
  <2> QED
    BY <2>1, <2>2, <2>3, Zenon
<1>6. /\ << >> \in Stopping /\ <<"visit">> \in Stopping /\ << >> \notin Ending
  BY DEF Stopping, Ending
<1>7. Launching \cap Starting = {} /\ <<"register">> \notin Starting
  BY <1>1, <1>2
<1>8. Stopping \cap (Launching \cup {<<"register">>}) = {}
  BY <1>2, <1>3
<1>9. <<"register">> \notin Launching
  BY DEF Launching
<1>10. << >> \notin Starting
  BY <1>1
<1>11. Head(<<"launch", "register">>) = "launch" /\ Head(<<"register">>) = "register"
  OBVIOUS
<1> QED
  BY <1>4, <1>5, <1>6, <1>7, <1>8, <1>9, <1>10, <1>11

(* A step of the main thread within the beginning of a start, or of another   *)
(* method.                                                                    *)
LEMMA MainStays ==
  ASSUME MethodInv, ~ crashed,
         \/ todo[Main] \in Starting /\ todo'[Main] \in Starting
         \/ todo[Main] \in Stopping /\ todo'[Main] \in Stopping,
         \A k \in Session : todo'[k] = todo[k],
         UNCHANGED <<mManagement, mStarting, session, started, process>>,
         mDeviceStateReceiver' \in {mDeviceStateReceiver, NoReceiver}
  PROVE  MethodInv'
<1>1. todo[Main] \notin {<<"launch", "register">>, <<"register">>}
  BY Shapes
<1>2. MainInv' /\ StartingInv' /\ ReceiverInv'
  BY <1>1, Shapes DEF MethodInv, MainInv, StartingInv, ReceiverInv
<1>3. StartedInv'
  BY Shapes DEF MethodInv, StartedInv, Supported
<1> QED
  BY <1>2, <1>3 DEF MethodInv

LEMMA Reads ==
  ASSUME TypeOK, NEW t, Read(t)
  PROVE  \E c \in Code,
            more \in {<< >>, <<"visit">>, <<"interrupt">>, <<"stopSelf">>, <<"dismiss">>} :
           /\ Take(t, c, more)
           /\ c \in {"check", "interrupt", "checkStarting", "checkReceiver", "dismiss"}
           /\ c = "check" => more \in {<< >>, <<"interrupt">>}
           /\ c = "checkReceiver" => more \in {<< >>, <<"dismiss">>}
           /\ c \in {"interrupt", "dismiss"} => more = << >>
           /\ c = "checkStarting" /\ mStarting # TRUE => more = <<"stopSelf">>
  BY DEF Read, TypeOK, Code

LEMMA MainSteps ==
  ASSUME TypeOK, MethodInv,
         \/ Started \/ Register(Main) \/ Read(Main) \/ stopSelf(Main)
         \/ StopBegins \/ StopVisits(Main) \/ StopFails(Main)
         \/ openManagementInterface \/ Launch
  PROVE  MethodInv'
<1>0. /\ Main \in Thread /\ \A k \in Session : k \in Thread \ {Main}
      /\ todo \in [Thread -> Seq(Code)] /\ MainInv
  BY Threads DEF TypeOK, MethodInv
<1> USE DEF MethodInv
<1>1. CASE Started
  <2>1. /\ todo[Main] \in Starting /\ todo'[Main] = <<"open", "launch", "register">>
        /\ ~ crashed /\ \A k \in Session : todo'[k] = todo[k]
    <3>0. "started" \notin {"stop", "visit", "check", "checkStarting", "interrupt",
                            "checkReceiver", "dismiss", "open", "launch", "register"}
      OBVIOUS
    <3>1. Take(Main, "started", << >>)
      BY <1>1 DEF Started
    <3>2. ~ crashed /\ \A k \in Session : todo'[k] = todo[k]
      BY <1>0, <3>1, Takes
    <3> QED
      BY <1>0, <3>0, <3>1, <3>2, MainMoves, ZenonT(30)
  <2>2. todo'[Main] \in Launching
    BY <2>1 DEF Launching
  <2>3. /\ UNCHANGED <<mManagement, mDeviceStateReceiver, session, started, process, crashed>>
        /\ mStarting' = FALSE
    BY <1>1 DEF Started, android, processes
  <2>4. MainInv' /\ StartingInv' /\ ReceiverInv'
    BY <2>1, <2>2, <2>3, Shapes DEF MainInv, StartingInv, ReceiverInv
  <2>5. StartedInv'
    BY <2>1, <2>2, <2>3 DEF StartedInv, Supported
  <2> QED
    BY <2>4, <2>5
<1>2. CASE Register(Main)
  <2>1. UNCHANGED <<mManagement, mStarting, session, started, process, crashed>>
    BY <1>2 DEF Register, android, processes
  <2>2. CASE Take(Main, "unregister", << >>) /\ mDeviceStateReceiver' = NoReceiver
    <3>0. "unregister" \notin {"stop", "visit", "check", "checkStarting", "interrupt",
                               "checkReceiver", "dismiss", "started", "open", "launch", "register"}
      OBVIOUS
    <3> QED
      BY <1>0, <2>2, <3>0, MainMoves, ZenonT(30)
  <2>3. CASE Take(Main, "register", << >>) /\ mDeviceStateReceiver' = mManagement
    <3>1. /\ todo[Main] = <<"register">> /\ todo'[Main] = << >>
          /\ ~ crashed /\ \A k \in Session : todo'[k] = todo[k]
      BY <1>0, <2>3, MainMoves, Takes
    <3>2. MainInv' /\ ReceiverInv'
      BY <2>1, <2>3, <3>1, Shapes DEF MainInv, ReceiverInv
    <3>3. StartingInv' /\ StartedInv'
      BY <2>1, <3>1, Shapes DEF StartingInv, StartedInv, Supported
    <3> QED
      BY <3>2, <3>3
  <2> QED
    BY <1>2, <2>2, <2>3 DEF Register
<1>3. CASE Read(Main)
  <2>1. PICK c \in Code,
               more \in {<< >>, <<"visit">>, <<"interrupt">>, <<"stopSelf">>, <<"dismiss">>} :
           /\ Take(Main, c, more)
           /\ c \in {"check", "interrupt", "checkStarting", "checkReceiver", "dismiss"}
           /\ c = "check" => more \in {<< >>, <<"interrupt">>}
           /\ c = "checkReceiver" => more \in {<< >>, <<"dismiss">>}
           /\ c \in {"interrupt", "dismiss"} => more = << >>
    BY <1>3, Reads
  <2>2. /\ \/ todo[Main] \in Starting /\ todo'[Main] \in Starting
           \/ todo[Main] \in Stopping /\ todo'[Main] \in Stopping
        /\ ~ crashed /\ \A k \in Session : todo'[k] = todo[k]
    BY <1>0, <2>1, MainMoves, Takes
  <2>3. UNCHANGED <<mManagement, mDeviceStateReceiver, mStarting, session, started, process>>
    BY <1>3 DEF Read, fields, android, processes
  <2> QED
    BY <2>2, <2>3, MainStays
<1>4. CASE stopSelf(Main)
  <2>1. Take(Main, "stopSelf", << >>)
    BY <1>4 DEF stopSelf
  <2> QED
    BY <1>0, <2>1, MainMoves
<1>5. CASE StopBegins
  <2>1. /\ \/ todo[Main] \in Starting /\ todo'[Main] \in Starting
           \/ todo[Main] \in Stopping /\ todo'[Main] \in Stopping
        /\ ~ crashed /\ \A k \in Session : todo'[k] = todo[k]
    BY <1>0, <1>5, MainMoves, Takes DEF StopBegins
  <2>2. UNCHANGED <<mManagement, mDeviceStateReceiver, mStarting, session, started, process>>
    BY <1>5 DEF StopBegins, fields, android, processes
  <2> QED
    BY <2>1, <2>2, MainStays
<1>6. CASE StopVisits(Main)
  <2>1. PICK more \in {<< >>, <<"visit">>} : Take(Main, "visit", more)
    <3>1. Take(Main, "visit", << >>) \/ Take(Main, "visit", <<"visit">>)
      <4>1. CASE visiting[Main].at = Len(active)
        BY <1>6, <4>1 DEF StopVisits
      <4>2. CASE visiting[Main].at # Len(active)
        BY <1>6, <4>2 DEF StopVisits
      <4> QED
        BY <4>1, <4>2
    <3> QED
      BY <3>1
  <2>2. /\ \/ todo[Main] \in Starting /\ todo'[Main] \in Starting
           \/ todo[Main] \in Stopping /\ todo'[Main] \in Stopping
        /\ ~ crashed /\ \A k \in Session : todo'[k] = todo[k]
    BY <1>0, <2>1, MainMoves, Takes
  <2>3. UNCHANGED <<mManagement, mDeviceStateReceiver, mStarting, session, started, process>>
    BY <1>6 DEF StopVisits, fields, android, processes
  <2> QED
    BY <2>2, <2>3, MainStays
<1>7. CASE StopFails(Main)
  <2>1. /\ Head(todo[Main]) = "visit" /\ todo'[Main] = << >> /\ crashed'
        /\ UNCHANGED <<mManagement, mDeviceStateReceiver>>
    BY <1>0, <1>7 DEF StopFails, fields
  <2>2. todo[Main] \notin {<<"launch", "register">>, <<"register">>}
    BY <2>1, Shapes
  <2>3. MainInv' /\ ReceiverInv'
    BY <2>1, <2>2, Shapes DEF MainInv, ReceiverInv
  <2> QED
    BY <2>1, <2>3 DEF StartingInv, StartedInv
<1>8. CASE openManagementInterface
  <2>1. /\ todo[Main] = <<"open", "launch", "register">>
        /\ todo'[Main] = <<"launch", "register">> /\ ~ crashed
    <3>0. "open" \notin {"stop", "visit", "check", "checkStarting", "interrupt",
                         "checkReceiver", "dismiss"}
      OBVIOUS
    <3>1. Take(Main, "open", << >>)
      BY <1>8 DEF openManagementInterface
    <3>2. ~ crashed
      BY <1>0, <3>1, Takes
    <3> QED
      BY <1>0, <3>0, <3>1, <3>2, MainMoves, ZenonT(30)
  <2>2. todo[Main] \in Launching /\ todo'[Main] \in Launching
    BY <2>1 DEF Launching
  <2>3. UNCHANGED <<mStarting, session, started, crashed>>
    BY <1>8 DEF openManagementInterface, android
  <2>4. MainInv' /\ ReceiverInv'
    BY <2>1, <2>2 DEF MainInv, ReceiverInv
  <2>5. StartingInv' /\ StartedInv'
    BY <2>2, <2>3, Shapes DEF StartingInv, StartedInv, Supported
  <2> QED
    BY <2>4, <2>5
<1>9. CASE Launch
  <2>1. /\ todo[Main] = <<"launch", "register">>
        /\ todo'[Main] = <<"register">> /\ ~ crashed
    <3>0. "launch" \notin {"stop", "visit", "check", "checkStarting", "interrupt",
                           "checkReceiver", "dismiss"}
      OBVIOUS
    <3>1. Take(Main, "launch", << >>)
      BY <1>9 DEF Launch
    <3>2. ~ crashed
      BY <1>0, <3>1, Takes
    <3> QED
      BY <1>0, <3>0, <3>1, <3>2, MainMoves, ZenonT(30)
  <2>2. todo[Main] \in Launching
    BY <2>1 DEF Launching
  <2>3. UNCHANGED <<mManagement, mDeviceStateReceiver, mStarting, session, started, crashed>>
    BY <1>9 DEF Launch, android
  <2>4. session \in Session => process'[session] \in {"starting", "exited"}
    BY <1>9 DEF Launch, TypeOK
  <2>5. MainInv' /\ ReceiverInv'
    BY <2>1 DEF MainInv, ReceiverInv, Registering
  <2>6. StartingInv' /\ StartedInv'
    BY <2>2, <2>3, <2>4, Shapes DEF StartingInv, StartedInv, Supported
  <2> QED
    BY <2>5, <2>6
<1> QED
  BY <1>1, <1>2, <1>3, <1>4, <1>5, <1>6, <1>7, <1>8, <1>9

(* The steps of the other threads: that of the session started last takes     *)
(* what it has left to the stop of the service, unless the next one starts.   *)
LEMMA OtherSteps ==
  ASSUME TypeOK, MethodInv,
         \/ Clear \/ StopVisits(Binder) \/ StopFails(Binder)
         \/ \E t \in Thread \ {Main} : Register(t) \/ Read(t) \/ stopSelf(t)
  PROVE  MethodInv'
<1>0. /\ Main \in Thread /\ Binder \in Thread /\ Binder # Main
      /\ \A k \in Session : k \in Thread \ {Main, Binder}
      /\ todo \in [Thread -> Seq(Code)]
  BY Threads DEF TypeOK
<1>1. CASE Clear
  <2>1. \A t \in Thread \ {Binder} : todo'[t] = todo[t]
    BY <1>0, <1>1, Takes DEF Clear
  <2>2. UNCHANGED <<mManagement, mDeviceStateReceiver, mStarting, session, started, process, crashed>>
    BY <1>1 DEF Clear, android, processes
  <2> QED
    BY <1>0, <2>1, <2>2, OthersMove DEF Supported
<1>2. CASE StopVisits(Binder)
  <2>1. Take(Binder, "visit", << >>) \/ Take(Binder, "visit", <<"visit">>)
    <3>1. CASE visiting[Binder].at = Len(active)
      BY <1>2, <3>1 DEF StopVisits
    <3>2. CASE visiting[Binder].at # Len(active)
      BY <1>2, <3>2 DEF StopVisits
    <3> QED
      BY <3>1, <3>2
  <2>2. \A t \in Thread \ {Binder} : todo'[t] = todo[t]
    BY <1>0, <2>1, Takes
  <2>3. UNCHANGED <<mManagement, mDeviceStateReceiver, mStarting, session, started, process, crashed>>
    BY <1>2 DEF StopVisits, fields, android, processes
  <2> QED
    BY <1>0, <2>2, <2>3, OthersMove DEF Supported
<1>3. CASE StopFails(Binder)
  <2>1. \A t \in Thread \ {Binder} : todo'[t] = todo[t]
    BY <1>0, <1>3 DEF StopFails
  <2>2. /\ UNCHANGED <<mManagement, mDeviceStateReceiver, mStarting, session, started, process>>
        /\ ~ crashed
    BY <1>3 DEF StopFails, fields, android, processes
  <2> QED
    BY <1>0, <2>1, <2>2, OthersMove DEF Supported
<1>4. ASSUME NEW t \in Thread \ {Main}, Register(t)
      PROVE  MethodInv'
  <2>1. PICK c \in {"register", "unregister"} : Take(t, c, << >>)
    BY <1>4 DEF Register
  <2>2. \A u \in Thread \ {t} : todo'[u] = todo[u]
    BY <1>0, <2>1, Takes
  <2>3. /\ UNCHANGED <<mManagement, mStarting, session, started, process, crashed>>
        /\ mDeviceStateReceiver' \in {NoReceiver, mManagement}
    BY <1>4 DEF Register, android, processes
  <2>4. ASSUME session \in Session, todo[session] \in Ending
        PROVE  todo'[session] \in Ending
    <3>1. CASE t = session
      <4>1. todo'[session] = <<"checkStarting">>
        BY <2>1, <2>4, <3>1, <1>0, EndingMoves
      <4> QED
        BY <4>1 DEF Ending
    <3>2. CASE t # session
      BY <1>0, <2>2, <2>4, <3>2
    <3> QED
      BY <3>1, <3>2
  <2> QED
    BY <1>0, <2>2, <2>3, <2>4, OthersMove DEF Supported
<1>5. ASSUME NEW t \in Thread \ {Main}, Read(t)
      PROVE  MethodInv'
  <2>1. PICK c \in Code,
               more \in {<< >>, <<"visit">>, <<"interrupt">>, <<"stopSelf">>, <<"dismiss">>} :
           /\ Take(t, c, more)
           /\ c \in {"check", "interrupt", "checkStarting", "checkReceiver", "dismiss"}
           /\ c = "checkStarting" /\ mStarting # TRUE => more = <<"stopSelf">>
    BY <1>5, Reads
  <2>2. /\ \A u \in Thread \ {t} : todo'[u] = todo[u]
        /\ ~ crashed /\ Head(todo[t]) = c
    <3>1. t \in Thread /\ todo \in [Thread -> Seq(Code)] /\ Take(t, c, more)
      BY <1>0, <2>1
    <3> QED
      BY <3>1, Takes
  <2>3. UNCHANGED <<mManagement, mDeviceStateReceiver, mStarting, session, started, process>>
    BY <1>5 DEF Read, fields, android, processes
  <2>4. ASSUME session \in Session, todo[session] \in Ending, mStarting # TRUE
        PROVE  todo'[session] \in Ending
    <3>1. CASE t = session
      <4>1. c = "checkStarting"
        <5>1. \A s \in Ending : Head(s) \in {"unregister", "checkStarting", "stopSelf"}
          BY DEF Ending
        <5> QED
          BY <2>1, <2>2, <2>4, <3>1, <5>1
      <4>2. c # "checkStarting" => more = << >>
        BY <4>1
      <4>3. todo'[session] = <<"stopSelf">>
        BY <2>1, <2>4, <3>1, <4>1, <4>2, <1>0, EndingMoves
      <4> QED
        BY <4>3 DEF Ending
    <3>2. CASE t # session
      BY <1>0, <2>2, <2>4, <3>2
    <3> QED
      BY <3>1, <3>2
  <2>5. todo'[Main] = todo[Main]
    BY <1>0, <2>2
  <2>6. CASE mStarting = TRUE
    BY <2>2, <2>3, <2>5, <2>6, OthersMove DEF MethodInv, StartingInv, Supported
  <2>7. CASE mStarting # TRUE
    BY <2>2, <2>3, <2>4, <2>5, <2>7, OthersMove DEF Supported
  <2> QED
    BY <2>6, <2>7
<1>6. ASSUME NEW t \in Thread \ {Main}, stopSelf(t)
      PROVE  MethodInv'
  <2>1. todo'[Main] = todo[Main]
    BY <1>0, <1>6, Takes DEF stopSelf
  <2>2. /\ UNCHANGED <<mManagement, mDeviceStateReceiver, mStarting, session, crashed>>
        /\ started' = FALSE
    BY <1>6 DEF stopSelf, fields
  <2> QED
    BY <2>1, <2>2, OthersMove
<1> QED
  BY <1>1, <1>2, <1>3, <1>4, <1>5, <1>6

(* The methods that begin.                                                    *)
LEMMA Beginnings ==
  ASSUME TypeOK, MethodInv,
         \/ Start \/ Stop \/ onRevoke \/ Destroy \/ networkStateChange
  PROVE  MethodInv'
<1>0. /\ Main \in Thread /\ Binder \in Thread /\ Binder # Main
      /\ \A k \in Session : k \in Thread \ {Main, Binder}
      /\ todo \in [Thread -> Seq(Code)]
  BY Threads DEF TypeOK
<1>1. CASE Start
  <2>1. PICK method \in Starting : Do(Main, method)
    BY <1>1, Methods DEF Start
  <2>2. method \in Seq(Code)
    BY StepsAreCode
  <2>3. todo[Main] = << >> /\ todo'[Main] \in Starting
    BY <1>0, <2>1, <2>2, Doing
  <2>4. /\ UNCHANGED <<mManagement, mDeviceStateReceiver, crashed>>
        /\ session' \in Session
    BY <1>1, ServiceLifecycleAssumption DEF Start, TypeOK, Session
  <2>5. MainInv' /\ StartingInv' /\ ReceiverInv'
    BY <2>3, <2>4, Shapes DEF MethodInv, MainInv, StartingInv, ReceiverInv
  <2>6. StartedInv'
    BY <2>3, <2>4 DEF StartedInv, Supported
  <2> QED
    BY <2>5, <2>6 DEF MethodInv
<1>2. CASE Stop
  <2>1. <<"visit">> \in Seq(Code) /\ Do(Main, <<"visit">>)
    BY <1>2, StepsAreCode DEF Stop, Code
  <2>2. /\ todo[Main] = << >> /\ todo'[Main] = <<"visit">> /\ ~ crashed
        /\ \A k \in Session : todo'[k] = todo[k]
    BY <1>0, <2>1, Doing
  <2>3. UNCHANGED <<mManagement, mDeviceStateReceiver, mStarting, session, started, process>>
    BY <1>2 DEF Stop, fields, android, processes
  <2> QED
    BY <2>2, <2>3, MainStays, Shapes
<1>3. CASE onRevoke
  <2>1. PICK method \in Seq(Code) : Do(Binder, method)
    BY <1>3, StepsAreCode DEF onRevoke
  <2>2. /\ ~ crashed /\ todo'[Main] = todo[Main]
        /\ \A k \in Session : todo'[k] = todo[k]
    BY <1>0, <2>1, Doing
  <2>3. UNCHANGED <<mManagement, mDeviceStateReceiver, mStarting, session, started, process, crashed>>
    BY <1>3 DEF onRevoke, fields, processes
  <2> QED
    BY <2>2, <2>3, OthersMove DEF Supported
<1>4. CASE Destroy
  <2>1. onDestroy \in Seq(Code) /\ Do(Main, onDestroy)
    BY <1>4, Methods, StepsAreCode DEF Destroy
  <2>2. /\ todo[Main] = << >> /\ todo'[Main] \in Stopping /\ ~ crashed
        /\ \A k \in Session : todo'[k] = todo[k]
    BY <1>0, <2>1, Doing, Methods
  <2>3. UNCHANGED <<mManagement, mDeviceStateReceiver, mStarting, session, started, process>>
    BY <1>4 DEF Destroy, fields, processes
  <2> QED
    BY <2>2, <2>3, MainStays, Shapes
<1>5. CASE networkStateChange
  <2>1. UNCHANGED <<mManagement, mDeviceStateReceiver, mStarting, session, started, process, todo>>
        /\ crashed'
    BY <1>5 DEF networkStateChange, fields, android, processes
  <2> QED
    BY <2>1, OthersMove
<1> QED
  BY <1>1, <1>2, <1>3, <1>4, <1>5

(* The threads of a session.                                                  *)
LEMMA SessionSteps ==
  ASSUME TypeOK, MethodInv, NEW k \in Session,
         \/ Listen(k) \/ ManagementEnds(k) \/ \E c \in Session : Accept(k, c)
         \/ man_connect(k) \/ Exits(k) \/ processDied(k)
  PROVE  MethodInv'
<1>1. CASE Listen(k) \/ ManagementEnds(k) \/ \E c \in Session : Accept(k, c)
  <2>1. UNCHANGED <<mManagement, mDeviceStateReceiver, mStarting, session, started, process, todo,
                    crashed>>
    BY <1>1 DEF Listen, ManagementEnds, Accept, fields, android, processes
  <2> QED
    BY <2>1, OthersMove DEF Supported
<1>2. CASE man_connect(k) \/ Exits(k)
  <2>1. UNCHANGED <<mManagement, mDeviceStateReceiver, mStarting, session, started, todo, crashed>>
    BY <1>2 DEF man_connect, Exits, fields, android
  <2>2. \A j \in Session :
          \/ process'[j] = process[j]
          \/ process'[j] \in {"connected", "exited"}
    BY <1>2 DEF man_connect, Exits, TypeOK
  <2> QED
    BY <2>1, <2>2, OthersMove DEF Supported
<1>3. CASE processDied(k)
  <2>1. /\ k \in Thread \ {Main} /\ Main \in Thread /\ Tail(endVpnService) \in Seq(Code)
        /\ \A j \in Session : j \in Thread
    BY Threads, Methods, StepsAreCode DEF Ending
  <2>2. /\ ~ crashed /\ todo'[k] = Tail(endVpnService) /\ todo'[Main] = todo[Main]
        /\ \A j \in Session \ {k} : todo'[j] = todo[j]
    BY <1>3, <2>1, Doing DEF processDied, TypeOK
  <2>3. UNCHANGED <<mManagement, mDeviceStateReceiver, mStarting, session, started, crashed>>
    BY <1>3 DEF processDied, android
  <2>4. /\ process'[k] = "reported"
        /\ \A j \in Session \ {k} : process'[j] = process[j]
    BY <1>3 DEF processDied, TypeOK
  <2>5. todo'[k] \in Ending
    BY <2>2, Methods DEF Ending
  <2> QED
    BY <2>2, <2>3, <2>4, <2>5, OthersMove DEF Supported
<1> QED
  BY <1>1, <1>2, <1>3

LEMMA StepMethods == ServiceInv /\ [Next]_vars => MethodInv'
<1> SUFFICES ASSUME ServiceInv, [Next]_vars PROVE MethodInv'
  OBVIOUS
<1>1. TypeOK /\ MethodInv
  BY DEF ServiceInv, MethodInv
<1>2. CASE UNCHANGED vars
  <2>1. UNCHANGED <<mManagement, mDeviceStateReceiver, mStarting, session, started, process, todo,
                    crashed>>
    BY <1>2 DEF vars, fields, android, processes
  <2> QED
    BY <1>1, <2>1, OthersMove DEF Supported
<1>3. CASE \/ Started \/ openManagementInterface \/ Launch \/ Clear
           \/ \E t \in Thread : Register(t) \/ Read(t) \/ stopSelf(t)
           \/ StopBegins \/ \E t \in {Main, Binder} : StopVisits(t) \/ StopFails(t)
  BY <1>1, <1>3, MainSteps, OtherSteps
<1>4. CASE Start \/ Stop \/ onRevoke \/ Destroy \/ networkStateChange
  BY <1>1, <1>4, Beginnings
<1>5. CASE \E k \in Session : \/ Listen(k) \/ ManagementEnds(k)
                             \/ \E c \in Session : Accept(k, c)
                             \/ man_connect(k) \/ Exits(k) \/ processDied(k)
  BY <1>1, <1>5, SessionSteps
<1> QED
  BY <1>2, <1>3, <1>4, <1>5 DEF Next

-----------------------------------------------------------------------------
(* What the iterators have left to visit.                                     *)
LEMMA VisitKept ==
  ASSUME VisitInv, UNCHANGED visiting, closed \subseteq closed',
         \A k \in Session : client[k] # None => client'[k] # None,
         \A k \in Session : management'[k] = "serving" => client'[k] # None,
         \A t \in {Main, Binder} : visiting[t].served \subseteq Session
  PROVE  VisitInv'
  BY DEF VisitInv

LEMMA VisitBegins ==
  ASSUME TypeOK, ListInv, VisitInv, NEW t \in {Main, Binder}, Iterate(t),
         UNCHANGED <<management, client, closed>>
  PROVE  VisitInv'
<1> DEFINE v == [list |-> active, at |-> 0,
                 served |-> {k \in Session : management[k] = "serving"}]
<1>1. /\ visiting'[t] = v
      /\ \A u \in {Main, Binder} \ {t} : visiting'[u] = visiting[u]
  BY DEF TypeOK, Iterate
<1>2. /\ v.list = active /\ v.at = 0
      /\ v.served = {k \in Session : management[k] = "serving"}
  OBVIOUS
<1> HIDE DEF v
<1>3. ASSUME NEW k \in v.served
      PROVE  client[k] # None /\ \E i \in v.at + 1 .. Len(v.list) : v.list[i] = k
  <2>1. k \in Session /\ management[k] = "serving"
    BY <1>2, <1>3
  <2>2. client[k] # None /\ Contains(active, k)
    BY <2>1 DEF VisitInv, ListInv
  <2>3. 0 + 1 = 1
    OBVIOUS
  <2> QED
    BY <1>2, <2>2, <2>3 DEF Contains
<1> QED
  BY <1>1, <1>3 DEF VisitInv

LEMMA VisitGoesOn ==
  ASSUME TypeOK, VisitInv, NEW t \in {Main, Binder}, StopVisits(t)
  PROVE  VisitInv'
<1> DEFINE v == visiting[t]
           j == active[v.at + 1]
<1>1. UNCHANGED <<management, client>> /\ closed \subseteq closed'
  BY DEF StopVisits, threads
<1>2. v \in Iterator /\ visiting = [u \in {Main, Binder} |-> visiting[u]]
  BY DEF TypeOK
<1>3. CASE v.at = Len(active)
  <2>1. visiting' = [visiting EXCEPT ![t] = NotVisiting]
    BY <1>3 DEF StopVisits
  <2>2. /\ visiting'[t].served = {}
        /\ \A u \in {Main, Binder} \ {t} : visiting'[u] = visiting[u]
    BY <1>2, <2>1 DEF NotVisiting
  <2> QED
    BY <1>1, <2>2 DEF VisitInv
<1>4. CASE v.at # Len(active)
  <2> DEFINE w == [v EXCEPT !.at = v.at + 1]
  <2>1. /\ visiting' = [visiting EXCEPT ![t] = w] /\ active = v.list
        /\ closed' = IF client[j] = None THEN closed ELSE closed \cup {j}
    BY <1>4 DEF StopVisits
  <2>2. w.at = v.at + 1 /\ w.list = v.list /\ w.served = v.served
    BY <1>2 DEF Iterator
  <2> HIDE DEF w
  <2>3. /\ visiting'[t] = w
        /\ \A u \in {Main, Binder} \ {t} : visiting'[u] = visiting[u]
    BY <1>2, <2>1
  <2>4. ASSUME NEW k \in w.served
        PROVE  /\ client[k] # None
               /\ \/ k \in closed'
                  \/ \E i \in w.at + 1 .. Len(w.list) : w.list[i] = k
    <3>1. /\ client[k] # None
          /\ k \in closed \/ \E i \in v.at + 1 .. Len(v.list) : v.list[i] = k
      BY <2>2, <2>4 DEF VisitInv
    <3>2. ASSUME NEW i \in v.at + 1 .. Len(v.list), v.list[i] = k, i # v.at + 1
          PROVE  i \in w.at + 1 .. Len(w.list)
      BY <1>2, <2>2, <3>2 DEF Iterator
    <3>3. ASSUME v.list[v.at + 1] = k
          PROVE  k \in closed'
      BY <2>1, <3>1, <3>3
    <3> QED
      BY <1>1, <2>2, <3>1, <3>2, <3>3
  <2> QED
    BY <1>1, <2>3, <2>4 DEF VisitInv
<1> QED
  BY <1>3, <1>4

LEMMA StepVisit == ServiceInv /\ [Next]_vars => VisitInv'
<1> SUFFICES ASSUME ServiceInv, [Next]_vars PROVE VisitInv'
  OBVIOUS
<1> USE DEF ServiceInv
<1>0. /\ management = [k \in Session |-> management[k]]
      /\ client = [k \in Session |-> client[k]]
      /\ visiting = [t \in {Main, Binder} |-> visiting[t]]
      /\ \A t \in {Main, Binder} : visiting[t].served \subseteq Session
  BY DEF TypeOK, Iterator
<1>1. CASE UNCHANGED <<management, client, visiting, closed>>
  BY <1>1 DEF VisitInv
<1>2. ASSUME \/ openManagementInterface
             \/ \E k \in Session : Listen(k) \/ ManagementEnds(k)
      PROVE  VisitInv'
  <2>1. /\ UNCHANGED <<client, visiting, closed>>
        /\ \A k \in Session : management'[k] \in {management[k], "bound", "listening", "ended"}
    BY <1>0, <1>2 DEF openManagementInterface, Listen, ManagementEnds
  <2>2. \A k \in Session : management'[k] = "serving" => client'[k] # None
    BY <2>1 DEF VisitInv
  <2> QED
    BY <1>0, <2>1, <2>2, VisitKept
<1>3. ASSUME NEW k \in Session, NEW c \in Session, Accept(k, c)
      PROVE  VisitInv'
  <2>1. /\ UNCHANGED <<visiting, closed>> /\ client'[k] = c
        /\ \A j \in Session \ {k} : management'[j] = management[j] /\ client'[j] = client[j]
    BY <1>0, <1>3 DEF Accept
  <2>2. c # None
    BY DEF Session, None
  <2>3. \A j \in Session : management'[j] = "serving" => client'[j] # None
    BY <2>1, <2>2 DEF VisitInv
  <2> QED
    BY <1>0, <2>1, <2>2, <2>3, VisitKept
<1>4. ASSUME NEW t \in {Main, Binder}, StopFails(t)
      PROVE  VisitInv'
  <2>1. /\ visiting' = [visiting EXCEPT ![t] = NotVisiting]
        /\ UNCHANGED <<management, client, closed>>
    BY <1>4 DEF StopFails, threads
  <2>2. /\ visiting'[t].served = {}
        /\ \A u \in {Main, Binder} \ {t} : visiting'[u] = visiting[u]
    BY <1>0, <2>1 DEF NotVisiting
  <2> QED
    BY <2>1, <2>2 DEF VisitInv
<1> QED
  <2>1. CASE \/ Started \/ Launch \/ Clear \/ \E t \in Thread : Register(t) \/ Read(t) \/ stopSelf(t)
    BY <1>1, <2>1 DEF Started, Launch, Clear, Register, Read, stopSelf, threads
  <2>2. CASE StopBegins \/ Stop \/ onRevoke
    BY <2>2, VisitBegins DEF StopBegins, Stop, onRevoke, threads
  <2>3. CASE Start \/ Destroy \/ networkStateChange
    BY <1>1, <2>3 DEF Start, Destroy, networkStateChange, threads
  <2>4. CASE \E k \in Session : man_connect(k) \/ Exits(k) \/ processDied(k)
    BY <1>1, <2>4 DEF man_connect, Exits, processDied, threads
  <2>5. CASE UNCHANGED vars
    BY <1>1, <2>5 DEF vars, threads
  <2> QED
    BY <1>2, <1>3, <1>4, <2>1, <2>2, <2>3, <2>4, <2>5, VisitGoesOn DEF Next

LEMMA ServiceInvariance == Spec => []ServiceInv
<1>1. ServiceInv /\ [Next]_vars => ServiceInv'
  BY StepTypes, StepList, StepReported, StepMethods, StepVisit DEF ServiceInv, MethodInv
<1> QED
  BY InitService, <1>1, PTL DEF Spec

(* The type invariant, the places of the iterators in their lists included.   *)
THEOREM ServiceTypes == Spec => []TypeOK
<1>1. ServiceInv => TypeOK
  BY DEF ServiceInv
<1> QED
  BY <1>1, ServiceInvariance, PTL

(* Between two calls of the main thread the receiver of network changes is    *)
(* that of the current management, whatever the other threads unregister.     *)
THEOREM ReceiverIsCurrent == Spec => []ReceiverFollowsManagement
<1>1. ServiceInv => ReceiverFollowsManagement
  <2> SUFFICES ASSUME ServiceInv, todo[Main] = << >>
               PROVE  mDeviceStateReceiver \in {NoReceiver, mManagement}
    BY DEF ReceiverFollowsManagement, Idle
  <2>1. << >> \notin {<<"launch", "register">>, <<"register">>}
    OBVIOUS
  <2> QED
    BY <2>1 DEF ServiceInv, ReceiverInv
<1> QED
  BY <1>1, ServiceInvariance, PTL

(* A session that has ended is not the one of mProcessThread, in whatever     *)
(* order its end, a new start and a revocation write the field.               *)
THEOREM TheEndedIsForgotten == Spec => []EndedIsForgotten
<1>1. ServiceInv => EndedIsForgotten
  BY DEF ServiceInv, ReportedInv, EndedIsForgotten
<1> QED
  BY <1>1, ServiceInvariance, PTL

(* A stop whose list is as it was has, at its end, closed the socket of every  *)
(* thread that served a process when it began.                                *)
THEOREM StopReachesAll == Spec => StopReaches
<1> DEFINE Reaches(t) ==
      visiting[t] # NotVisiting /\ visiting'[t] = NotVisiting /\ active = visiting[t].list
        => visiting[t].served \subseteq closed'
<1>1. ASSUME ServiceInv, [Next]_vars, NEW t \in {Main, Binder}
      PROVE  Reaches(t)
  <2> DEFINE v == visiting[t]
  <2> SUFFICES ASSUME v # NotVisiting, visiting'[t] = NotVisiting, active = v.list
               PROVE  v.served \subseteq closed'
    OBVIOUS
  <2>1. /\ v \in Iterator /\ v.at <= Len(v.list)
        /\ visiting = [u \in {Main, Binder} |-> visiting[u]]
    BY <1>1 DEF ServiceInv, TypeOK
  <2>2. \/ \E u \in {Main, Binder} :
             \/ Iterate(u) /\ UNCHANGED closed
             \/ StopVisits(u) \/ StopFails(u)
        \/ UNCHANGED visiting
    BY <1>1 DEF Next, vars, threads, fields, processes, Started, openManagementInterface, Launch,
       Clear, Register, Read, stopSelf, StopBegins, Start, Stop, onRevoke, Destroy,
       networkStateChange, Listen, ManagementEnds, Accept, man_connect, Exits, processDied
  <2>3. PICK u \in {Main, Binder} :
          \/ Iterate(u) /\ UNCHANGED closed
          \/ StopVisits(u) \/ StopFails(u)
    BY <2>2
  <2>4. u = t
    BY <2>1, <2>3 DEF Iterate, StopVisits, StopFails
  <2>5. ASSUME v.at >= Len(v.list), closed' = closed
        PROVE  v.served \subseteq closed'
    <3>1. v.at + 1 .. Len(v.list) = {}
      BY <2>1, <2>5 DEF Iterator
    <3> QED
      BY <1>1, <2>5, <3>1 DEF ServiceInv, VisitInv
  <2>6. CASE Iterate(t) /\ UNCHANGED closed
    <3>1. visiting'[t].list = active
      BY <2>1, <2>6 DEF Iterate
    <3>2. Len(v.list) = 0
      BY <3>1 DEF NotVisiting
    <3> QED
      BY <2>1, <2>5, <2>6, <3>2 DEF Iterator
  <2>7. CASE StopVisits(t)
    <3>1. v.at = Len(active)
      <4>1. SUFFICES ASSUME v.at # Len(active) PROVE FALSE
        OBVIOUS
      <4>2. visiting'[t] = [v EXCEPT !.at = v.at + 1]
        BY <2>1, <2>7, <4>1 DEF StopVisits
      <4>3. visiting'[t].at = v.at + 1 /\ v.at \in Nat
        BY <2>1, <4>2 DEF Iterator
      <4> QED
        BY <4>3 DEF NotVisiting
    <3>2. closed' = closed
      BY <2>7, <3>1 DEF StopVisits
    <3> QED
      BY <2>1, <2>5, <3>1, <3>2 DEF Iterator
  <2>8. CASE StopFails(t)
    BY <2>8 DEF StopFails
  <2> QED
    BY <2>3, <2>4, <2>6, <2>7, <2>8
<1>2. ServiceInv /\ [Next]_vars => [\A t \in {Main, Binder} : Reaches(t)]_vars
  BY <1>1
<1> QED
  BY <1>2, ServiceInvariance, PTL DEF Spec, StopReaches

(* With the last process the service ends, however starts and ends overlap.   *)
THEOREM ServiceEnds == Spec => []EndsWithItsSessions
<1>1. ServiceInv => EndsWithItsSessions
  <2> SUFFICES ASSUME ServiceInv, ~ crashed, \A t \in Thread : todo[t] = << >>,
                      \A k \in Session : process[k] \in {"none", "reported"}, started = TRUE
               PROVE  FALSE
    BY DEF EndsWithItsSessions, Idle, ServiceInv, TypeOK
  <2>1. todo[Main] = << >> /\ \A k \in Session : todo[k] = << >>
    BY Threads
  <2>2. << >> \notin Starting \cup Launching /\ << >> \notin Ending
    BY Shapes
  <2> QED
    BY <2>1, <2>2 DEF ServiceInv, StartedInv, Supported
<1> QED
  BY <1>1, ServiceInvariance, PTL
=============================================================================
