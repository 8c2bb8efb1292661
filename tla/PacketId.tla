------------------------------ MODULE PacketId ------------------------------
(***************************************************************************)
(* Replay protection (packet_id.c): the ids one peer gives the packets of  *)
(* a key, and the sliding window that keeps the other peer from accepting  *)
(* an id twice, in the order openvpn_decrypt (crypto.c:361) calls it; with *)
(* the --replay-persist file over restarts and crashes of the receiver.    *)
(*                                                                         *)
(* Time is in seconds.  A packet is its id: a packet sent may arrive at    *)
(* any later time, any number of times or never.                           *)
(***************************************************************************)
EXTENDS Integers, Sequences, FiniteSets

CONSTANTS
  SeqBacktrack,    \* n of --replay-window
  TimeBacktrack,   \* t of --replay-window
  ReapInterval,    \* SEQ_REAP_INTERVAL (packet_id.h:118)
  IdMax,           \* largest packet_id_type
  Start,           \* the time at which everything begins
  MaxNow,          \* bound: the time at which it ends
  MaxSent,         \* bound: ids given to packets
  MaxRestarts      \* bound: restarts and crashes of either side

UNSEEN == 0
EXPIRED == 1

ASSUME PacketIdAssumption ==
  /\ SeqBacktrack \in Nat \ {0} /\ TimeBacktrack \in Nat
  /\ ReapInterval \in Nat \ {0} /\ IdMax \in Nat \ {0}
  /\ Start \in Nat /\ Start > EXPIRED /\ MaxNow \in Nat /\ Start <= MaxNow
  /\ MaxSent \in Nat /\ MaxRestarts \in Nat

VARIABLES
  now,
  long_form,      \* the id has a time stamp (CO_PACKET_ID_LONG_FORM)
  seq_backtrack,  \* rec.seq_backtrack: 0 in TCP mode
  send,           \* struct packet_id_send of the one peer
  rec,            \* struct packet_id_rec of the other one
  persist,        \* its packet_id_persist
  file,           \* the --replay-persist file
  sent,           \* ids given to packets
  got,            \* ids accepted since the receiver started, and when
  prior,          \* ids it accepted before it was last restarted
  restarts        \* restarts and crashes so far

vars == <<now, long_form, seq_backtrack, send, rec, persist, file, sent, got, prior,
          restarts>>

Id == 0 .. IdMax
Time == {0} \cup Start .. MaxNow
Pin == [id : Id, time : Time]
Rec == [id : Id, time : Time, seq_list : Seq({UNSEEN, EXPIRED} \cup Time), last_reap : Time]

NoPin == [id |-> 0, time |-> 0]
Accepted == {a.pin : a \in got}

TypeOK ==
  /\ now \in Start .. MaxNow
  /\ long_form \in BOOLEAN
  /\ seq_backtrack \in {0, SeqBacktrack}
  /\ send \in Pin /\ rec \in Rec /\ persist \in Pin /\ file \in Pin
  /\ Len(rec.seq_list) <= seq_backtrack
  /\ sent \subseteq Pin /\ prior \subseteq sent
  /\ got \subseteq [pin : sent, at : Start .. now]
  /\ restarts \in 0 .. MaxRestarts

(* Mutation: the file is not read. *)
InitEmpty(saved) == [id |-> 0, time |-> 0, seq_list |-> << >>, last_reap |-> 0]

(* packet_id_init and packet_id_persist_load_obj. *)
packet_id_init(saved) ==
  [id |-> saved.id, time |-> saved.time, seq_list |-> << >>, last_reap |-> 0]

Init ==
  /\ now = Start
  /\ long_form \in BOOLEAN
  /\ seq_backtrack \in {0, SeqBacktrack}
  /\ send = NoPin /\ persist = NoPin /\ file = NoPin
  /\ rec = packet_id_init(NoPin)
  /\ sent = {} /\ got = {} /\ prior = {} /\ restarts = 0

-----------------------------------------------------------------------------
(* An entry of the window so old makes every older id too late. *)
TooOld(t) == t \notin {UNSEEN, EXPIRED} /\ t + TimeBacktrack < now

(* Mutation: nothing expires. *)
ReapNothing(r) == [r EXCEPT !.last_reap = now]

packet_id_reap(r) ==
  [r EXCEPT
    !.last_reap = now,
    !.seq_list = IF seq_backtrack = 0 \/ TimeBacktrack = 0 THEN @ ELSE
      [i \in 1 .. Len(@) |->
         IF /\ \A j \in 1 .. i : r.seq_list[j] # EXPIRED
            /\ \E j \in 1 .. i : TooOld(r.seq_list[j])
           THEN EXPIRED ELSE r.seq_list[i]]]

packet_id_reap_test(r) ==
  IF r.last_reap + ReapInterval <= now THEN packet_id_reap(r) ELSE r

(* Mutation: the oldest id of the window is refused. *)
TestShort(r, pin) ==
  /\ pin.id # 0
  /\ pin.time >= r.time
  /\ IF seq_backtrack > 0
       THEN \/ pin.time > r.time
            \/ pin.id > r.id
            \/ /\ r.id - pin.id + 1 < Len(r.seq_list)
               /\ r.seq_list[r.id - pin.id + 1] = UNSEEN
       ELSE \/ pin.time > r.time /\ pin.id = 1
            \/ pin.time = r.time /\ (r.id = 0 \/ pin.id = r.id + 1)

(* UDP: a later id, or one of the window not seen yet.  TCP: the next one. *)
packet_id_test(r, pin) ==
  /\ pin.id # 0
  /\ pin.time >= r.time
  /\ IF seq_backtrack > 0
       THEN \/ pin.time > r.time
            \/ pin.id > r.id
            \/ /\ r.id - pin.id < Len(r.seq_list)
               /\ r.seq_list[r.id - pin.id + 1] = UNSEEN
       ELSE \/ pin.time > r.time /\ pin.id = 1
            \/ pin.time = r.time /\ (r.id = 0 \/ pin.id = r.id + 1)

(* The window starts again behind an id that is new or too far ahead. *)
StartsAgain(r, pin) ==
  r.seq_list = << >> \/ pin.time > r.time \/ pin.id - seq_backtrack > r.id

(* Mutation: a list without a capacity. *)
PushAll(list, n) ==
  [i \in 1 .. Len(list) + n |-> IF i <= n THEN UNSEEN ELSE list[i - n]]

(* CIRC_LIST_PUSH of UNSEEN, n times: the list forgets beyond its capacity. *)
PushUnseen(list, n) ==
  [i \in 1 .. (IF Len(list) + n < seq_backtrack THEN Len(list) + n ELSE seq_backtrack) |->
     IF i <= n THEN UNSEEN ELSE list[i - n]]

(* Mutation: an id that comes late is not marked as seen. *)
AddLateUnmarked(r, pin) ==
  IF seq_backtrack = 0 THEN [r EXCEPT !.time = pin.time, !.id = pin.id]
  ELSE
    LET again == StartsAgain(r, pin)
        first == IF ~ again THEN r.id
                 ELSE IF pin.id > seq_backtrack THEN pin.id - seq_backtrack ELSE 0
        ahead == IF first < pin.id THEN pin.id - first ELSE 0
        list == PushUnseen(IF again THEN << >> ELSE r.seq_list, ahead)
    IN [r EXCEPT !.time = IF again THEN pin.time ELSE @,
                 !.id = first + ahead,
                 !.seq_list = IF ahead > 0 THEN [list EXCEPT ![1] = now] ELSE list]

packet_id_add(r, pin) ==
  IF seq_backtrack = 0 THEN [r EXCEPT !.time = pin.time, !.id = pin.id]
  ELSE
    LET again == StartsAgain(r, pin)
        first == IF ~ again THEN r.id
                 ELSE IF pin.id > seq_backtrack THEN pin.id - seq_backtrack ELSE 0
        ahead == IF first < pin.id THEN pin.id - first ELSE 0
        list == PushUnseen(IF again THEN << >> ELSE r.seq_list, ahead)
        diff == first + ahead - pin.id
    IN [r EXCEPT !.time = IF again THEN pin.time ELSE @,
                 !.id = first + ahead,
                 !.seq_list = IF diff < Len(list) THEN [list EXCEPT ![diff + 1] = now]
                              ELSE list]

CountRestart == restarts < MaxRestarts /\ restarts' = restarts + 1

Accepts(pin) == packet_id_test(packet_id_reap_test(rec), pin)

-----------------------------------------------------------------------------
(* The sender gives the next packet its id.  The short form never wraps (an
   ASSERT; the key is renegotiated long before); the long form takes a new
   time stamp when it does, which is later: a second has fewer than 2^32
   packets. *)
packet_id_alloc_outgoing ==
  LET time == IF send.time = 0 THEN now ELSE send.time
      wraps == send.id = IdMax
      new == IF wraps THEN [id |-> 1, time |-> now]
             ELSE [id |-> send.id + 1, time |-> time]
  IN /\ Cardinality(sent) < MaxSent
     /\ wraps => long_form /\ now > send.time
     /\ send' = new
     /\ sent' = sent \cup {[new EXCEPT !.time = IF long_form THEN @ ELSE 0]}
     /\ UNCHANGED <<now, long_form, seq_backtrack, rec, persist, file, got, prior, restarts>>

(* A sender that starts again counts from 1, with a new time stamp; in the
   short form it also has a new key. *)
SenderRestart ==
  /\ long_form
  /\ CountRestart
  /\ send' = NoPin
  /\ UNCHANGED <<now, long_form, seq_backtrack, rec, persist, file, sent, got, prior>>

(* An authentic packet arrives: openvpn_decrypt from have_pin on. *)
openvpn_decrypt(pin) ==
  LET reaped == packet_id_reap_test(rec) IN
  /\ IF packet_id_test(reaped, pin)
       THEN /\ rec' = packet_id_add(reaped, pin)
            /\ got' = got \cup {[pin |-> pin, at |-> now]}
            /\ persist' = IF long_form /\ rec'.time # 0
                            THEN [id |-> rec'.id, time |-> rec'.time] ELSE persist
       ELSE rec' = reaped /\ UNCHANGED <<got, persist>>
  /\ UNCHANGED <<now, long_form, seq_backtrack, send, file, sent, prior, restarts>>

Saved == IF persist.time # 0 THEN persist ELSE file

(* check_packet_id_persist_flush, every 60 seconds. *)
packet_id_persist_save ==
  /\ file' = Saved
  /\ UNCHANGED <<now, long_form, seq_backtrack, send, rec, persist, sent, got, prior, restarts>>

(* do_close_packet_id saves; the next session reads the file, or has kept
   its copy when the signal was SIGUSR1: they are the same. *)
Restart ==
  /\ long_form
  /\ CountRestart
  /\ file' = Saved
  /\ persist' = Saved
  /\ rec' = packet_id_init(Saved)
  /\ prior' = prior \cup Accepted
  /\ got' = {}
  /\ UNCHANGED <<now, long_form, seq_backtrack, send, sent>>

(* A session that ends without do_close_packet_id leaves the last flush. *)
Crash ==
  /\ long_form
  /\ CountRestart
  /\ persist' = file
  /\ rec' = packet_id_init(file)
  /\ got' = {} /\ prior' = {}
  /\ UNCHANGED <<now, long_form, seq_backtrack, send, file, sent>>

Tick ==
  /\ now < MaxNow
  /\ now' = now + 1
  /\ UNCHANGED <<long_form, seq_backtrack, send, rec, persist, file, sent, got, prior, restarts>>

Next ==
  \/ packet_id_alloc_outgoing \/ SenderRestart
  \/ \E pin \in sent : openvpn_decrypt(pin)
  \/ packet_id_persist_save \/ Restart \/ Crash
  \/ Tick

Spec == Init /\ [][Next]_vars

-----------------------------------------------------------------------------
(* "to check that no packet-id (i.e. sequence number + optional timestamp) is
   accepted more than once" (packet_id.h:122): however late it comes again,
   the window has slid, been reset or been reaped without forgetting it. *)
NoReplay == \A pin \in Accepted : ~ Accepts(pin)

(* A packet some later id of which came too long ago.  The code reaps at
   most every ReapInterval seconds, so an id may stay acceptable that much
   longer than TimeBacktrack. *)
Late(pin, limit) ==
  \E a \in got : a.pin.time = pin.time /\ a.pin.id > pin.id /\ a.at + limit < now

LateIsRejected ==
  TimeBacktrack > 0 /\ seq_backtrack > 0 =>
    \A pin \in sent : Late(pin, TimeBacktrack + ReapInterval - 1) => ~ Accepts(pin)

(* The window costs no packet it need not: one that was never accepted, is
   within SeqBacktrack ids of the latest and not late is accepted. *)
FreshIsAccepted ==
  \A pin \in sent \ (Accepted \cup prior) :
    /\ seq_backtrack > 0 /\ rec.seq_list # << >>
    /\ pin.time = rec.time /\ rec.id - pin.id < seq_backtrack
    /\ TimeBacktrack > 0 => ~ Late(pin, TimeBacktrack)
    => Accepts(pin)

(* How far it is true that, as the manual says of --replay-persist, a session
   that is restarted will "reject any replays of packets which were already
   received by the prior session" (openvpn.8:4004): until the first packet
   after the restart, and for every time stamp but the one that was persisted;
   in TCP mode always. *)
PersistHolds ==
  \A pin \in prior :
    Accepts(pin) => seq_backtrack > 0 /\ got # {} /\ pin.time = rec.time
=============================================================================
