---------------------------- MODULE PacketId_proofs ----------------------------
(***************************************************************************)
(* The window of packet ids for every size, number of packets, wrap of the *)
(* ids, restart and crash: no id is accepted twice, late ones are refused, *)
(* no other is, and the file keeps what it can keep.                       *)
(*                                                                         *)
(* The invariant reads the list of the window both ways: what each entry   *)
(* says of the ids accepted, and what each id accepted says of its entry.  *)
(***************************************************************************)
EXTENDS PacketId, TLAPS

(* What has been accepted, g, is not beyond the latest id of the record r.   *)
Below(r, pins) ==
  \A pin \in pins : pin.time <= r.time /\ (pin.time = r.time => pin.id <= r.id)

(* The list is as long as the ids of its time stamp and its capacity allow,  *)
(* once anything has been accepted.                                          *)
Sized(r, g) ==
  /\ Len(r.seq_list) <= r.id
  /\ r.seq_list = << >> <=> g = {} \/ seq_backtrack = 0
  /\ r.seq_list # << >> => Len(r.seq_list) \in {seq_backtrack, r.id}

(* The entry of an id accepted is the time it came, or has expired.          *)
Marked(r, g) ==
  \A a \in g :
    a.pin.time = r.time /\ r.id - a.pin.id < Len(r.seq_list)
      => r.seq_list[r.id - a.pin.id + 1] \in {EXPIRED, a.at}

(* An entry with a time is that of an id accepted then.                      *)
Known(r, g) ==
  \A i \in 1 .. Len(r.seq_list) :
    r.seq_list[i] \notin {UNSEEN, EXPIRED} =>
      \E a \in g : /\ a.pin.time = r.time /\ a.pin.id = r.id - i + 1
                   /\ a.at = r.seq_list[i]

(* An entry expires because of one not older, accepted too long ago.         *)
Aged(r, g) ==
  \A i \in 1 .. Len(r.seq_list) :
    r.seq_list[i] = EXPIRED =>
      /\ TimeBacktrack > 0
      /\ \E a \in g : /\ a.pin.time = r.time /\ a.pin.id >= r.id - i + 1
                      /\ a.at + TimeBacktrack < now

(* Nothing older than an expired entry has not expired.                      *)
ExpiredStay(r) ==
  \A i, j \in 1 .. Len(r.seq_list) :
    i < j /\ r.seq_list[i] = EXPIRED => r.seq_list[j] = EXPIRED

(* What was too old at the last reaping has expired.                         *)
ReapedBy(r) ==
  /\ r.last_reap <= now
  /\ TimeBacktrack > 0 =>
       \A i \in 1 .. Len(r.seq_list) :
         r.seq_list[i] \notin {UNSEEN, EXPIRED} => r.seq_list[i] + TimeBacktrack >= r.last_reap

Window(r, g) ==
  /\ Below(r, {a.pin : a \in g}) /\ Sized(r, g) /\ Marked(r, g) /\ Known(r, g) /\ Aged(r, g)
  /\ ExpiredStay(r) /\ ReapedBy(r)

(* Ids sent are not zero, and carry a time in the long form.                 *)
SentInv == \A pin \in sent : pin.id # 0 /\ (long_form => pin.time # 0)

(* What would be saved is the record, in the long form, and no id from before *)
(* a restart is beyond it.                                                   *)
PersistInv ==
  /\ long_form => rec.id = Saved.id /\ rec.time = Saved.time
  /\ prior # {} => long_form
  /\ Below(rec, prior)

PacketInv == TypeOK /\ SentInv /\ Window(rec, got) /\ PersistInv

-----------------------------------------------------------------------------
Entry == {UNSEEN, EXPIRED} \cup Time

LEMMA Types ==
  /\ Id \subseteq Nat /\ Time \subseteq Nat /\ Entry \subseteq Nat
  /\ \A pin \in Pin : pin.id \in Id /\ pin.time \in Time
  /\ \A r \in Rec : /\ r.id \in Id /\ r.time \in Time /\ r.last_reap \in Time
                    /\ r.seq_list \in Seq(Entry)
  BY PacketIdAssumption DEF Id, Time, Pin, Rec, Entry, UNSEEN, EXPIRED

(* What packet_id_reap_test does to the list: some entries expire, the older *)
(* ones with them.                                                           *)
LEMMA Reaping ==
  ASSUME NEW r \in Rec, now \in Start .. MaxNow, seq_backtrack \in {0, SeqBacktrack}
  PROVE  LET n == packet_id_reap_test(r) IN
         /\ n \in Rec /\ n.id = r.id /\ n.time = r.time
         /\ Len(n.seq_list) = Len(r.seq_list)
         /\ \/ n = r /\ now < r.last_reap + ReapInterval
            \/ /\ n.last_reap = now
               /\ seq_backtrack = 0 \/ TimeBacktrack = 0
               /\ n.seq_list = r.seq_list
            \/ /\ n.last_reap = now
               /\ seq_backtrack # 0 /\ TimeBacktrack # 0
               /\ \A i \in 1 .. Len(r.seq_list) :
                    n.seq_list[i] =
                      IF /\ \A j \in 1 .. i : r.seq_list[j] # EXPIRED
                         /\ \E j \in 1 .. i : TooOld(r.seq_list[j])
                        THEN EXPIRED ELSE r.seq_list[i]
<1> USE PacketIdAssumption
<1> DEFINE n == packet_id_reap_test(r)
           list == [i \in 1 .. Len(r.seq_list) |->
                      IF /\ \A j \in 1 .. i : r.seq_list[j] # EXPIRED
                         /\ \E j \in 1 .. i : TooOld(r.seq_list[j])
                        THEN EXPIRED ELSE r.seq_list[i]]
<1>1. r.last_reap \in Nat /\ now \in Nat /\ now \in Time /\ Len(r.seq_list) \in Nat
      /\ r.seq_list \in Seq(Entry)
  BY Types DEF Time
<1>2. CASE now < r.last_reap + ReapInterval
  BY <1>1, <1>2 DEF packet_id_reap_test
<1>3. CASE ~ (now < r.last_reap + ReapInterval)
  <2>1. n = [r EXCEPT !.last_reap = now,
                      !.seq_list = IF seq_backtrack = 0 \/ TimeBacktrack = 0
                                     THEN r.seq_list ELSE list]
    BY <1>1, <1>3 DEF packet_id_reap_test, packet_id_reap
  <2>2. CASE seq_backtrack = 0 \/ TimeBacktrack = 0
    <3>1. n = [r EXCEPT !.last_reap = now, !.seq_list = r.seq_list]
      BY <2>1, <2>2
    <3> QED
      BY <1>1, <2>2, <3>1 DEF Rec
  <2>3. CASE ~ (seq_backtrack = 0 \/ TimeBacktrack = 0)
    <3>1. /\ list \in Seq(Entry) /\ Len(list) = Len(r.seq_list)
          /\ \A i \in 1 .. Len(r.seq_list) : r.seq_list[i] \in Entry
      BY <1>1 DEF Entry
    <3> HIDE DEF list
    <3>2. n = [r EXCEPT !.last_reap = now, !.seq_list = list]
      BY <2>1, <2>3
    <3>3. n \in Rec /\ n.id = r.id /\ n.time = r.time /\ n.last_reap = now /\ n.seq_list = list
      BY <1>1, <3>1, <3>2 DEF Rec, Entry
    <3> QED
      BY <2>3, <3>1, <3>3 DEF list
  <2> QED
    BY <2>2, <2>3
<1> QED
  BY <1>2, <1>3

(* Reaping keeps the window what it is.                                      *)
LEMMA ReapingKeeps ==
  ASSUME NEW r \in Rec, now \in Start .. MaxNow, seq_backtrack \in {0, SeqBacktrack},
         got \subseteq [pin : Pin, at : Start .. now], Window(r, got)
  PROVE  Window(packet_id_reap_test(r), got)
<1> USE PacketIdAssumption
<1> DEFINE n == packet_id_reap_test(r)
           len == Len(r.seq_list)
           Reaps(i) == /\ \A j \in 1 .. i : r.seq_list[j] # EXPIRED
                       /\ \E j \in 1 .. i : TooOld(r.seq_list[j])
<1>1. /\ n \in Rec /\ n.id = r.id /\ n.time = r.time /\ Len(n.seq_list) = len
      /\ \/ n = r
         \/ /\ n.last_reap = now /\ n.seq_list = r.seq_list
            /\ seq_backtrack = 0 \/ TimeBacktrack = 0
         \/ /\ n.last_reap = now /\ seq_backtrack # 0 /\ TimeBacktrack # 0
            /\ \A i \in 1 .. len :
                 n.seq_list[i] = IF Reaps(i) THEN EXPIRED ELSE r.seq_list[i]
  BY Reaping
<1>2. /\ r.id \in Nat /\ len \in Nat /\ now \in Nat /\ r.seq_list \in Seq(Entry) /\ Entry \subseteq Nat
      /\ \A i \in 1 .. len : r.seq_list[i] \in Nat
  <2>1. /\ r.id \in Nat /\ r.seq_list \in Seq(Entry) /\ Entry \subseteq Nat
    BY Types
  <2>2. now \in Nat
    OBVIOUS
  <2>3. len \in Nat /\ \A i \in 1 .. len : r.seq_list[i] \in Entry
    BY <2>1
  <2> QED
    BY <2>1, <2>2, <2>3
<1> HIDE DEF n
<1>3. ASSUME n = r
      PROVE  Window(n, got)
  BY <1>3
<1>4. ASSUME n.last_reap = now, n.seq_list = r.seq_list,
             seq_backtrack = 0 \/ TimeBacktrack = 0
      PROVE  Window(n, got)
  <2>1. ReapedBy(n)
    <3>1. CASE TimeBacktrack = 0
      BY <1>2, <1>4, <3>1 DEF ReapedBy
    <3>2. CASE seq_backtrack = 0
      <4>1. n.seq_list = << >>
        BY <1>4, <3>2 DEF Window, Sized
      <4> QED
        BY <1>2, <1>4, <4>1 DEF ReapedBy
    <3> QED
      BY <1>4, <3>1, <3>2
  <2> QED
    <3>1. Below(n, {a.pin : a \in got}) /\ Sized(n, got)
      BY <1>1, <1>4 DEF Window, Below, Sized
    <3>2. Marked(n, got) /\ Known(n, got)
      BY <1>1, <1>4 DEF Window, Marked, Known
    <3>3. Aged(n, got) /\ ExpiredStay(n)
      BY <1>1, <1>4 DEF Window, Aged, ExpiredStay
    <3> QED
      BY <2>1, <3>1, <3>2, <3>3 DEF Window
<1>5. ASSUME n.last_reap = now, seq_backtrack # 0, TimeBacktrack # 0,
             \A i \in 1 .. len :
               n.seq_list[i] = IF Reaps(i) THEN EXPIRED ELSE r.seq_list[i]
      PROVE  Window(n, got)
  <2>1. /\ Below(r, {a.pin : a \in got}) /\ Sized(r, got) /\ Marked(r, got) /\ Known(r, got)
        /\ Aged(r, got) /\ ExpiredStay(r) /\ ReapedBy(r)
    BY DEF Window
  <2>2. Below(n, {a.pin : a \in got})
    BY <1>1, <2>1 DEF Below
  <2>3. Sized(n, got)
    <3>1. n.seq_list = << >> <=> r.seq_list = << >>
      BY <1>1, <1>2, Types
    <3> QED
      BY <1>1, <2>1, <3>1 DEF Sized
  <2>4. Marked(n, got)
    <3> SUFFICES ASSUME NEW a \in got, a.pin.time = n.time, n.id - a.pin.id < Len(n.seq_list)
                 PROVE  n.seq_list[n.id - a.pin.id + 1] \in {EXPIRED, a.at}
      BY DEF Marked
    <3>1. a.pin.id \in Nat /\ a.pin.time \in Nat /\ a.pin.id <= r.id
      BY <1>1, <2>1, Types DEF Below
    <3>2. r.id - a.pin.id + 1 \in 1 .. len
      BY <1>1, <1>2, <3>1
    <3> QED
      BY <1>1, <1>5, <2>1, <3>2 DEF Marked
  <2>5. Known(n, got)
    BY <1>1, <1>5, <2>1 DEF Known
  <2>6. Aged(n, got)
    <3> SUFFICES ASSUME NEW i \in 1 .. len, n.seq_list[i] = EXPIRED
                 PROVE  \E a \in got : /\ a.pin.time = r.time /\ a.pin.id >= r.id - i + 1
                                       /\ a.at + TimeBacktrack < now
      BY <1>1, <1>5 DEF Aged
    <3>1. CASE r.seq_list[i] = EXPIRED
      BY <2>1, <3>1 DEF Aged
    <3>2. CASE r.seq_list[i] # EXPIRED
      <4>1. PICK j \in 1 .. i : TooOld(r.seq_list[j])
        BY <1>5, <3>2
      <4>2. j \in 1 .. len /\ j <= i
        BY <1>2
      <4>3. PICK a \in got : a.pin.time = r.time /\ a.pin.id = r.id - j + 1 /\ a.at = r.seq_list[j]
        BY <2>1, <4>1, <4>2 DEF Known, TooOld
      <4>4. a.pin.id >= r.id - i + 1 /\ a.at + TimeBacktrack < now
        BY <1>2, <4>1, <4>2, <4>3 DEF TooOld
      <4> QED
        BY <4>3, <4>4
    <3> QED
      BY <3>1, <3>2
  <2>7. ExpiredStay(n)
    <3> SUFFICES ASSUME NEW i \in 1 .. len, NEW j \in 1 .. len, i < j, n.seq_list[i] = EXPIRED
                 PROVE  n.seq_list[j] = EXPIRED
      BY <1>1 DEF ExpiredStay
    <3>1. CASE r.seq_list[i] = EXPIRED
      BY <1>5, <2>1, <3>1 DEF ExpiredStay
    <3>2. CASE r.seq_list[i] # EXPIRED /\ \A k \in 1 .. j : r.seq_list[k] # EXPIRED
      <4>1. Reaps(i)
        BY <1>5, <3>2
      <4>2. Reaps(j)
        BY <1>2, <3>2, <4>1
      <4> QED
        BY <1>5, <4>2
    <3>3. CASE r.seq_list[i] # EXPIRED /\ \E k \in 1 .. j : r.seq_list[k] = EXPIRED
      <4>1. PICK k \in 1 .. j : r.seq_list[k] = EXPIRED
        BY <3>3
      <4>2. r.seq_list[j] = EXPIRED
        BY <1>2, <2>1, <4>1 DEF ExpiredStay
      <4> QED
        BY <1>5, <4>2
    <3> QED
      BY <3>1, <3>2, <3>3
  <2>8. ReapedBy(n)
    <3> SUFFICES ASSUME NEW i \in 1 .. len, n.seq_list[i] \notin {UNSEEN, EXPIRED}
                 PROVE  n.seq_list[i] + TimeBacktrack >= now
      BY <1>1, <1>2, <1>5 DEF ReapedBy
    <3>1. n.seq_list[i] = r.seq_list[i] /\ ~ Reaps(i)
      BY <1>5
    <3>2. \A j \in 1 .. i : r.seq_list[j] # EXPIRED
      BY <1>2, <2>1, <3>1 DEF ExpiredStay
    <3>3. ~ TooOld(r.seq_list[i])
      BY <1>2, <3>1, <3>2
    <3> QED
      BY <1>2, <3>1, <3>3 DEF TooOld
  <2> QED
    BY <2>2, <2>3, <2>4, <2>5, <2>6, <2>7, <2>8 DEF Window
<1> QED
  BY <1>1, <1>3, <1>4, <1>5 DEF n

-----------------------------------------------------------------------------
(* What packet_id_add makes of an id that passes the test.                   *)
Lesser(a, b) == IF a < b THEN a ELSE b

(* TCP: the record is the last id.                                           *)
AddsNext(r, pin, n) ==
  /\ seq_backtrack = 0
  /\ n.id = pin.id /\ n.time = pin.time /\ n.seq_list = r.seq_list
  /\ pin.time > r.time \/ (pin.time = r.time /\ pin.id > r.id)

(* The window starts again behind it.                                        *)
AddsAgain(r, pin, n) ==
  /\ seq_backtrack # 0
  /\ n.id = pin.id /\ n.time = pin.time
  /\ Len(n.seq_list) = Lesser(pin.id, seq_backtrack)
  /\ \A i \in 1 .. Len(n.seq_list) : n.seq_list[i] = IF i = 1 THEN now ELSE UNSEEN
  /\ \/ pin.time > r.time
     \/ pin.time = r.time /\ r.seq_list = << >> /\ pin.id > r.id
     \/ pin.time = r.time /\ pin.id - seq_backtrack > r.id

(* The window slides.                                                        *)
AddsAhead(r, pin, n) ==
  /\ seq_backtrack # 0
  /\ pin.id > r.id /\ pin.time = r.time /\ r.seq_list # << >>
  /\ n.id = pin.id /\ n.time = r.time
  /\ Len(n.seq_list) = Lesser(Len(r.seq_list) + (pin.id - r.id), seq_backtrack)
  /\ \A i \in 1 .. Len(n.seq_list) :
       n.seq_list[i] = IF i = 1 THEN now
                       ELSE IF i <= pin.id - r.id THEN UNSEEN ELSE r.seq_list[i - (pin.id - r.id)]

(* The id comes late: its entry is marked.                                   *)
AddsLate(r, pin, n) ==
  /\ seq_backtrack # 0
  /\ pin.id <= r.id /\ pin.time = r.time
  /\ r.id - pin.id < Len(r.seq_list) /\ r.seq_list[r.id - pin.id + 1] = UNSEEN
  /\ n.id = r.id /\ n.time = r.time /\ Len(n.seq_list) = Len(r.seq_list)
  /\ \A i \in 1 .. Len(n.seq_list) :
       n.seq_list[i] = IF i = r.id - pin.id + 1 THEN now ELSE r.seq_list[i]

Adds(r, pin, n) ==
  AddsNext(r, pin, n) \/ AddsAgain(r, pin, n) \/ AddsAhead(r, pin, n) \/ AddsLate(r, pin, n)

LEMMA Pushing ==
  ASSUME NEW list \in Seq(Entry), NEW k \in Nat, seq_backtrack \in Nat
  PROVE  LET n == PushUnseen(list, k) IN
         /\ n \in Seq(Entry) /\ Len(n) = Lesser(Len(list) + k, seq_backtrack)
         /\ \A i \in 1 .. Len(n) : n[i] = IF i <= k THEN UNSEEN ELSE list[i - k]
<1> DEFINE len == Lesser(Len(list) + k, seq_backtrack)
           e(i) == IF i <= k THEN UNSEEN ELSE list[i - k]
<1>1. len \in Nat /\ Len(list) \in Nat /\ len <= Len(list) + k
  BY DEF Lesser
<1>2. PushUnseen(list, k) = [i \in 1 .. len |-> e(i)]
  BY DEF PushUnseen, Lesser
<1>3. \A i \in 1 .. len : e(i) \in Entry
  <2> TAKE i \in 1 .. len
  <2>1. CASE i <= k
    BY <2>1 DEF Entry
  <2>2. CASE ~ (i <= k)
    <3>1. i - k \in 1 .. Len(list)
      BY <1>1, <2>2
    <3> QED
      BY <2>2, <3>1
  <2> QED
    BY <2>1, <2>2
<1> HIDE DEF len, e
<1>4. [i \in 1 .. len |-> e(i)] \in Seq(Entry) /\ Len([i \in 1 .. len |-> e(i)]) = len
  BY <1>1, <1>3
<1> QED
  BY <1>1, <1>2, <1>4 DEF e, len

(* One entry of a list is marked.                                            *)
LEMMA Marking ==
  ASSUME NEW list \in Seq(Entry), NEW k \in 1 .. Len(list), NEW t \in Entry
  PROVE  LET n == [list EXCEPT ![k] = t] IN
         /\ n \in Seq(Entry) /\ Len(n) = Len(list)
         /\ \A i \in 1 .. Len(list) : n[i] = IF i = k THEN t ELSE list[i]
  OBVIOUS

LEMMA Adding ==
  ASSUME NEW r \in Rec, NEW pin \in Pin, pin.id # 0, packet_id_test(r, pin),
         now \in Start .. MaxNow, seq_backtrack \in {0, SeqBacktrack},
         seq_backtrack = 0 => r.seq_list = << >>,
         Len(r.seq_list) <= seq_backtrack
  PROVE  LET n == packet_id_add(r, pin) IN
         n \in Rec /\ n.last_reap = r.last_reap /\ Adds(r, pin, n)
<1> USE PacketIdAssumption
<1> DEFINE n == packet_id_add(r, pin)
           again == StartsAgain(r, pin)
           first == IF ~ again THEN r.id
                    ELSE IF pin.id > seq_backtrack THEN pin.id - seq_backtrack ELSE 0
           ahead == IF first < pin.id THEN pin.id - first ELSE 0
           base == IF again THEN << >> ELSE r.seq_list
           list == PushUnseen(base, ahead)
           diff == first + ahead - pin.id
           time == IF again THEN pin.time ELSE r.time
           marked == IF diff < Len(list) THEN [list EXCEPT ![diff + 1] = now] ELSE list
           Result == n \in Rec /\ n.last_reap = r.last_reap /\ Adds(r, pin, n)
<1>1. /\ r.id \in Id /\ pin.id \in Id /\ r.time \in Time /\ pin.time \in Time
      /\ r.id \in Nat /\ pin.id \in Nat /\ r.time \in Nat /\ pin.time \in Nat
      /\ r.seq_list \in Seq(Entry) /\ Len(r.seq_list) \in Nat
      /\ r.last_reap \in Time
  <2>1. /\ r.id \in Id /\ pin.id \in Id /\ r.time \in Time /\ pin.time \in Time
        /\ Id \subseteq Nat /\ Time \subseteq Nat
    BY Types
  <2>2. r.seq_list \in Seq(Entry) /\ r.last_reap \in Time
    BY Types
  <2>3. Len(r.seq_list) \in Nat
    BY <2>2
  <2>4. r.id \in Nat /\ pin.id \in Nat /\ r.time \in Nat /\ pin.time \in Nat
    BY <2>1
  <2> QED
    BY <2>1, <2>2, <2>3, <2>4
<1>2. seq_backtrack \in Nat /\ now \in Nat /\ now \in Entry /\ now \in Time
  BY DEF Entry, Time
<1>3. CASE seq_backtrack = 0
  <2>1. n = [r EXCEPT !.time = pin.time, !.id = pin.id]
    BY <1>3 DEF packet_id_add
  <2>2. pin.time > r.time \/ (pin.time = r.time /\ pin.id > r.id)
    BY <1>1, <1>3 DEF packet_id_test
  <2> QED
    BY <1>1, <1>3, <2>1, <2>2 DEF Rec, Adds, AddsNext
<1>4. ASSUME seq_backtrack # 0
      PROVE  Result
  <2>1. n = [r EXCEPT !.time = time, !.id = first + ahead, !.seq_list = marked]
    BY <1>4 DEF packet_id_add
  <2>2. /\ pin.time >= r.time
        /\ \/ pin.time > r.time
           \/ pin.id > r.id
           \/ r.id - pin.id < Len(r.seq_list) /\ r.seq_list[r.id - pin.id + 1] = UNSEEN
    BY <1>2, <1>4 DEF packet_id_test
  <2>4. again <=> r.seq_list = << >> \/ pin.time > r.time \/ pin.id - seq_backtrack > r.id
    BY DEF StartsAgain
  <2> HIDE DEF again
  <2>11. again => /\ first + ahead = pin.id /\ diff = 0
                  /\ ahead \in Nat /\ ahead = Lesser(pin.id, seq_backtrack) /\ ahead > 0
    <3> SUFFICES ASSUME again
                 PROVE  /\ first + ahead = pin.id /\ diff = 0
                        /\ ahead \in Nat /\ ahead = Lesser(pin.id, seq_backtrack) /\ ahead > 0
      OBVIOUS
    <3>1. first = IF pin.id > seq_backtrack THEN pin.id - seq_backtrack ELSE 0
      OBVIOUS
    <3>2. first < pin.id /\ first \in Nat
      BY <1>1, <1>2, <1>4, <3>1
    <3>3. ahead = pin.id - first
      BY <3>2
    <3> HIDE DEF first, ahead
    <3>4. ahead \in Nat /\ ahead > 0 /\ first + ahead = pin.id
      BY <1>1, <3>2, <3>3
    <3>5. ahead = Lesser(pin.id, seq_backtrack)
      BY <1>1, <1>2, <3>1, <3>3 DEF Lesser
    <3>6. diff = 0
      BY <1>1, <3>2, <3>4
    <3> HIDE DEF diff
    <3> QED
      BY <3>4, <3>5, <3>6
  <2>12. ~ again /\ pin.id > r.id =>
           first + ahead = pin.id /\ ahead \in Nat /\ ahead = pin.id - r.id /\ diff = 0
    BY <1>1
  <2>13. ~ again /\ pin.id <= r.id =>
           first + ahead = r.id /\ ahead \in Nat /\ ahead = 0 /\ diff = r.id - pin.id
    BY <1>1
  <2> HIDE DEF first, ahead, diff
  <2>3. /\ ahead \in Nat /\ diff \in Nat /\ time \in Time
        /\ first + ahead \in {r.id, pin.id}
        /\ base \in Seq(Entry)
    <3>1. base \in Seq(Entry) /\ time \in Time
      BY <1>1
    <3> QED
      BY <1>1, <2>11, <2>12, <2>13, <3>1
  <2> HIDE DEF base, time
  <2>5. /\ list \in Seq(Entry) /\ Len(list) = Lesser(Len(base) + ahead, seq_backtrack)
        /\ \A i \in 1 .. Len(list) : list[i] = IF i <= ahead THEN UNSEEN ELSE base[i - ahead]
    BY <1>2, <2>3, Pushing
  <2> HIDE DEF list
  <2>6. diff < Len(list) =>
          /\ marked \in Seq(Entry) /\ Len(marked) = Len(list)
          /\ \A i \in 1 .. Len(list) : marked[i] = IF i = diff + 1 THEN now ELSE list[i]
    <3> SUFFICES ASSUME diff < Len(list)
                 PROVE  LET m == [list EXCEPT ![diff + 1] = now] IN
                        /\ m \in Seq(Entry) /\ Len(m) = Len(list)
                        /\ \A i \in 1 .. Len(list) : m[i] = IF i = diff + 1 THEN now ELSE list[i]
      OBVIOUS
    <3>1. diff + 1 \in 1 .. Len(list)
      BY <2>3, <2>5
    <3> QED
      BY <1>2, <2>5, <3>1, Marking
  <2>7. diff < Len(list) =>
          /\ n \in Rec /\ n.last_reap = r.last_reap
          /\ n.time = time /\ n.id = first + ahead /\ n.seq_list = marked
    <3> HIDE DEF marked
    <3>1. diff < Len(list) => marked \in Seq(Entry)
      BY <2>6
    <3>2. first + ahead \in Id
      BY <1>1, <2>3
    <3> QED
      BY <1>1, <2>1, <2>3, <3>1, <3>2 DEF Rec, Entry
  <2> HIDE DEF n, marked
  <2>8. ASSUME again PROVE Result
    <3>1. base = << >> /\ Len(base) = 0 /\ time = pin.time
      BY <2>8 DEF base, time
    <3>2. Len(list) = Lesser(pin.id, seq_backtrack) /\ Len(list) = ahead /\ diff < Len(list)
      BY <1>1, <1>2, <2>5, <2>8, <2>11, <3>1 DEF Lesser
    <3>4. \A i \in 1 .. Len(list) : marked[i] = IF i = 1 THEN now ELSE UNSEEN
      BY <2>5, <2>6, <2>8, <2>11, <3>2
    <3>5. \/ pin.time > r.time
          \/ pin.time = r.time /\ r.seq_list = << >> /\ pin.id > r.id
          \/ pin.time = r.time /\ pin.id - seq_backtrack > r.id
      <4>1. r.seq_list = << >> => Len(r.seq_list) = 0
        OBVIOUS
      <4> QED
        BY <1>1, <2>2, <2>4, <2>8, <4>1
    <3>6. AddsAgain(r, pin, n)
      BY <1>4, <2>6, <2>7, <2>8, <2>11, <3>1, <3>2, <3>4, <3>5 DEF AddsAgain
    <3> QED
      BY <2>7, <3>2, <3>6 DEF Adds
  <2>9. ASSUME ~ again, pin.id > r.id PROVE Result
    <3>1. base = r.seq_list /\ time = r.time /\ pin.time = r.time /\ r.seq_list # << >>
      BY <1>1, <2>2, <2>4, <2>9 DEF base, time
    <3>2. Len(list) = Lesser(Len(r.seq_list) + (pin.id - r.id), seq_backtrack) /\ diff < Len(list)
      BY <1>1, <1>2, <1>4, <2>5, <2>9, <2>12, <3>1 DEF Lesser
    <3>3. \A i \in 1 .. Len(list) :
            marked[i] = IF i = 1 THEN now
                        ELSE IF i <= pin.id - r.id THEN UNSEEN
                        ELSE r.seq_list[i - (pin.id - r.id)]
      BY <2>5, <2>6, <2>9, <2>12, <3>1, <3>2
    <3>4. AddsAhead(r, pin, n)
      BY <1>4, <2>6, <2>7, <2>9, <2>12, <3>1, <3>2, <3>3 DEF AddsAhead
    <3> QED
      BY <2>7, <3>2, <3>4 DEF Adds
  <2>10. ASSUME ~ again, pin.id <= r.id PROVE Result
    <3>1. base = r.seq_list /\ time = r.time /\ pin.time = r.time /\ r.seq_list # << >>
      BY <1>1, <2>2, <2>4, <2>10 DEF base, time
    <3>2. r.id - pin.id < Len(r.seq_list) /\ r.seq_list[r.id - pin.id + 1] = UNSEEN
      BY <1>1, <2>2, <2>10, <3>1
    <3>4. /\ Len(list) = Len(r.seq_list) /\ diff < Len(list)
          /\ \A i \in 1 .. Len(list) : list[i] = r.seq_list[i]
      BY <1>1, <1>2, <2>5, <2>10, <2>13, <3>1, <3>2 DEF Lesser
    <3>5. AddsLate(r, pin, n)
      BY <1>4, <2>6, <2>7, <2>10, <2>13, <3>1, <3>2, <3>4 DEF AddsLate
    <3> QED
      BY <2>7, <3>4, <3>5 DEF Adds
  <2> QED
    BY <1>1, <2>8, <2>9, <2>10
<1> QED
  BY <1>2, <1>3, <1>4

-----------------------------------------------------------------------------
(* Adding an id keeps the window what it is, whichever way it is added.      *)
Added(pin) == got \cup {[pin |-> pin, at |-> now]}

AddAssumptions(r, pin, n) ==
  /\ r \in Rec /\ n \in Rec /\ n.last_reap = r.last_reap
  /\ pin \in Pin /\ pin.id # 0
  /\ now \in Start .. MaxNow /\ seq_backtrack \in {0, SeqBacktrack}
  /\ got \subseteq [pin : Pin, at : Start .. now]
  /\ Window(r, got)

AddFacts(r, pin, n) ==
  /\ r.id \in Nat /\ r.time \in Nat /\ r.last_reap \in Nat /\ n.last_reap = r.last_reap
  /\ pin.id \in Nat \ {0} /\ pin.time \in Nat
  /\ now \in Nat /\ now \notin {UNSEEN, EXPIRED} /\ seq_backtrack \in Nat
  /\ Len(r.seq_list) \in Nat /\ Len(n.seq_list) \in Nat
  /\ \A i \in 1 .. Len(r.seq_list) : r.seq_list[i] \in Nat
  /\ \A i \in 1 .. Len(n.seq_list) : n.seq_list[i] \in Nat
  /\ n.seq_list = << >> <=> Len(n.seq_list) = 0
  /\ \A a \in got : /\ a.pin.id \in Nat /\ a.pin.time \in Nat
                    /\ a.at \in Nat /\ a.at \notin {UNSEEN, EXPIRED}
  /\ Below(r, {a.pin : a \in got}) /\ Sized(r, got) /\ Marked(r, got) /\ Known(r, got)
  /\ Aged(r, got) /\ ExpiredStay(r) /\ ReapedBy(r)

LEMMA AddTypes ==
  ASSUME NEW r, NEW pin, NEW n, AddAssumptions(r, pin, n)
  PROVE  AddFacts(r, pin, n)
<1> USE PacketIdAssumption DEF AddAssumptions
<1>1. /\ r.id \in Nat /\ r.time \in Nat /\ r.last_reap \in Nat /\ n.last_reap = r.last_reap
      /\ pin.id \in Nat \ {0} /\ pin.time \in Nat
  <2>1. /\ r.id \in Id /\ r.time \in Time /\ r.last_reap \in Time /\ pin.id \in Id
        /\ pin.time \in Time /\ Id \subseteq Nat /\ Time \subseteq Nat
    BY Types
  <2> QED
    BY <2>1
<1>2. now \in Nat /\ now \notin {UNSEEN, EXPIRED} /\ seq_backtrack \in Nat
  BY DEF UNSEEN, EXPIRED
<1>3. r.seq_list \in Seq(Entry) /\ n.seq_list \in Seq(Entry) /\ Entry \subseteq Nat
  BY Types
<1>4. /\ Len(r.seq_list) \in Nat /\ Len(n.seq_list) \in Nat
      /\ \A i \in 1 .. Len(r.seq_list) : r.seq_list[i] \in Entry
      /\ \A i \in 1 .. Len(n.seq_list) : n.seq_list[i] \in Entry
      /\ n.seq_list = << >> <=> Len(n.seq_list) = 0
  BY <1>3
<1>5. \A a \in got : /\ a.pin.id \in Nat /\ a.pin.time \in Nat
                     /\ a.at \in Nat /\ a.at \notin {UNSEEN, EXPIRED}
  <2> TAKE a \in got
  <2>1. a.pin \in Pin /\ a.at \in Start .. now
    OBVIOUS
  <2>2. a.pin.id \in Id /\ a.pin.time \in Time /\ Id \subseteq Nat /\ Time \subseteq Nat
    BY <2>1, Types
  <2>3. a.at >= Start /\ a.at \in Nat
    BY <1>2, <2>1
  <2>4. a.at \notin {UNSEEN, EXPIRED}
    BY <2>3 DEF UNSEEN, EXPIRED
  <2>5. a.pin.id \in Nat /\ a.pin.time \in Nat
    BY <2>2
  <2> QED
    BY <2>3, <2>4, <2>5
<1> QED
  BY <1>1, <1>2, <1>3, <1>4, <1>5 DEF Window, AddFacts

LEMMA NextKeeps ==
  ASSUME NEW r, NEW pin, NEW n, AddAssumptions(r, pin, n), AddsNext(r, pin, n)
  PROVE  Window(n, Added(pin))
<1>0. AddFacts(r, pin, n)
  BY AddTypes
<1> USE <1>0 DEF AddFacts
<1>1. n.seq_list = << >> /\ Len(n.seq_list) = 0
  BY DEF AddsNext, Sized
<1>2. Below(n, {a.pin : a \in Added(pin)})
  BY DEF AddsNext, Below, Added
<1>3. Sized(n, Added(pin))
  BY <1>1 DEF Sized, AddsNext
<1>4. ReapedBy(n)
  BY <1>1 DEF ReapedBy
<1>5. Marked(n, Added(pin))
  <2> SUFFICES ASSUME NEW a \in Added(pin), a.pin.time = n.time, n.id - a.pin.id < 0
               PROVE  FALSE
    BY <1>1 DEF Marked
  <2>1. a.pin.id <= n.id
    BY <1>2 DEF Below
  <2>2. a.pin.id \in Nat /\ n.id \in Nat
    BY DEF AddsNext, Added
  <2> QED
    BY <2>1, <2>2
<1> QED
  BY <1>1, <1>2, <1>3, <1>4, <1>5 DEF Window, Known, Aged, ExpiredStay

LEMMA AgainKeeps ==
  ASSUME NEW r, NEW pin, NEW n, AddAssumptions(r, pin, n), AddsAgain(r, pin, n)
  PROVE  Window(n, Added(pin))
<1> DEFINE b == [pin |-> pin, at |-> now]
           len == Len(n.seq_list)
<1>0. AddFacts(r, pin, n)
  BY AddTypes
<1> USE <1>0 DEF AddFacts
<1>1. /\ n.id = pin.id /\ n.time = pin.time /\ seq_backtrack # 0
      /\ len = Lesser(pin.id, seq_backtrack)
      /\ \A i \in 1 .. len : n.seq_list[i] = IF i = 1 THEN now ELSE UNSEEN
      /\ \/ pin.time > r.time
         \/ pin.time = r.time /\ r.seq_list = << >> /\ pin.id > r.id
         \/ pin.time = r.time /\ pin.id - seq_backtrack > r.id
  BY DEF AddsAgain
<1>2. /\ len \in 1 .. pin.id /\ len <= seq_backtrack /\ len \in {pin.id, seq_backtrack}
      /\ n.seq_list[1] = now
      /\ \A i \in 1 .. len : n.seq_list[i] # EXPIRED
      /\ \A i \in 1 .. len : n.seq_list[i] \notin {UNSEEN, EXPIRED} => i = 1
  <2>1. len \in 1 .. pin.id /\ len <= seq_backtrack /\ len \in {pin.id, seq_backtrack}
    BY <1>1 DEF Lesser
  <2> QED
    BY <1>1, <2>1 DEF UNSEEN, EXPIRED
<1>3. b \in Added(pin) /\ b.pin = pin /\ b.at = now
  BY DEF Added
<1>4. \A a \in got : a.pin.time <= n.time /\
                     (a.pin.time = n.time => a.pin.id < n.id /\ n.id - a.pin.id >= len)
  <2> TAKE a \in got
  <2>1. /\ a.pin.time <= r.time /\ (a.pin.time = r.time => a.pin.id <= r.id)
        /\ r.seq_list # << >>
        /\ a.pin.id \in Nat /\ a.pin.time \in Nat /\ r.id \in Nat /\ r.time \in Nat
        /\ pin.id \in Nat /\ pin.time \in Nat /\ seq_backtrack \in Nat
    BY <1>1 DEF Below, Sized
  <2>2. CASE pin.time > r.time
    BY <1>1, <2>1, <2>2
  <2>3. CASE pin.time = r.time /\ pin.id - seq_backtrack > r.id
    BY <1>1, <1>2, <2>1, <2>3
  <2> QED
    BY <1>1, <2>1, <2>2, <2>3
<1>5. Below(n, {a.pin : a \in Added(pin)})
  <2> SUFFICES ASSUME NEW a \in Added(pin)
               PROVE  a.pin.time <= n.time /\ (a.pin.time = n.time => a.pin.id <= n.id)
    BY DEF Below
  <2>1. CASE a \in got
    BY <1>1, <1>4, <2>1
  <2>2. CASE a = b
    BY <1>1, <1>3, <2>2
  <2> QED
    BY <2>1, <2>2 DEF Added
<1>6. Sized(n, Added(pin))
  BY <1>1, <1>2, <1>3 DEF Sized
<1>7. Marked(n, Added(pin))
  <2> SUFFICES ASSUME NEW a \in Added(pin), a.pin.time = n.time, n.id - a.pin.id < len
               PROVE  n.seq_list[n.id - a.pin.id + 1] \in {EXPIRED, a.at}
    BY DEF Marked
  <2>1. CASE a \in got
    BY <1>1, <1>2, <1>4, <2>1
  <2>2. CASE a = b
    BY <1>1, <1>2, <1>3, <2>2
  <2> QED
    BY <2>1, <2>2 DEF Added
<1>8. Known(n, Added(pin))
  <2> SUFFICES ASSUME NEW i \in 1 .. len, n.seq_list[i] \notin {UNSEEN, EXPIRED}
               PROVE  b.pin.time = n.time /\ b.pin.id = n.id - i + 1 /\ b.at = n.seq_list[i]
    BY <1>3 DEF Known
  <2> QED
    BY <1>1, <1>2, <1>3
<1>9. Aged(n, Added(pin)) /\ ExpiredStay(n)
  BY <1>2 DEF Aged, ExpiredStay
<1>10. ReapedBy(n)
  <2>1. now + TimeBacktrack >= n.last_reap /\ n.last_reap <= now
    BY PacketIdAssumption DEF ReapedBy
  <2> QED
    BY <1>2, <2>1 DEF ReapedBy
<1> QED
  BY <1>5, <1>6, <1>7, <1>8, <1>9, <1>10 DEF Window

(* The length of a window that has slid d ids.                               *)
LEMMA Sliding ==
  ASSUME NEW l \in Nat, NEW id \in Nat, NEW d \in Nat \ {0}, NEW c \in Nat \ {0},
         l <= id, l \in {c, id}
  PROVE  LET m == Lesser(l + d, c) IN m \in 1 .. (id + d) /\ m \in {c, id + d} /\ m <= l + d
<1>1. CASE l + d < c
  BY <1>1 DEF Lesser
<1>2. CASE ~ (l + d < c)
  BY <1>2 DEF Lesser
<1> QED
  BY <1>1, <1>2

LEMMA AheadKeeps ==
  ASSUME NEW r, NEW pin, NEW n, AddAssumptions(r, pin, n), AddsAhead(r, pin, n)
  PROVE  Window(n, Added(pin))
<1>0. AddFacts(r, pin, n)
  BY AddTypes
<1> USE <1>0 DEF AddFacts
<1> DEFINE b == [pin |-> pin, at |-> now]
           len == Len(n.seq_list)
           d == pin.id - r.id
<1>1. /\ n.id = pin.id /\ n.time = r.time /\ pin.time = r.time /\ seq_backtrack # 0
      /\ pin.id > r.id /\ r.seq_list # << >>
      /\ len = Lesser(Len(r.seq_list) + d, seq_backtrack)
      /\ \A i \in 1 .. len :
           n.seq_list[i] = IF i = 1 THEN now ELSE IF i <= d THEN UNSEEN ELSE r.seq_list[i - d]
  BY DEF AddsAhead
<1>2. d \in Nat \ {0} /\ n.id = r.id + d
  BY <1>1
<1>3. b \in Added(pin) /\ b.pin = pin /\ b.at = now /\ got \subseteq Added(pin)
  BY DEF Added
<1>4. \A a \in got : a.pin.time <= r.time /\ (a.pin.time = r.time => a.pin.id <= r.id)
  BY DEF Below
<1>5. /\ len \in 1 .. n.id /\ len \in {seq_backtrack, n.id} /\ len <= Len(r.seq_list) + d
  <2>1. Len(r.seq_list) <= r.id /\ Len(r.seq_list) \in {seq_backtrack, r.id}
    BY <1>1 DEF Sized
  <2> HIDE DEF d
  <2>2. LET m == Lesser(Len(r.seq_list) + d, seq_backtrack) IN
        /\ m \in 1 .. (r.id + d) /\ m \in {seq_backtrack, r.id + d}
        /\ m <= Len(r.seq_list) + d
    <3>1. seq_backtrack \in Nat \ {0}
      BY <1>1
    <3> QED
      BY <1>2, <2>1, <3>1, Sliding
  <2> QED
    BY <1>1, <1>2, <2>2
<1> HIDE DEF d
(* An entry with a time or an expired one, other than the first, is one of r. *)
<1>6. \A i \in 1 .. len :
        n.seq_list[i] # UNSEEN /\ i # 1 =>
          i > d /\ i - d \in 1 .. Len(r.seq_list) /\ n.seq_list[i] = r.seq_list[i - d]
  BY <1>1, <1>2, <1>5
<1>7. n.seq_list[1] = now
  BY <1>1, <1>5
<1>8. Below(n, {a.pin : a \in Added(pin)})
  <2> SUFFICES ASSUME NEW a \in Added(pin)
               PROVE  a.pin.time <= n.time /\ (a.pin.time = n.time => a.pin.id <= n.id)
    BY DEF Below
  <2>1. CASE a \in got
    BY <1>1, <1>2, <1>4, <2>1
  <2>2. CASE a = b
    BY <1>1, <1>3, <2>2
  <2> QED
    BY <2>1, <2>2 DEF Added
<1>9. Sized(n, Added(pin))
  BY <1>1, <1>3, <1>5 DEF Sized
<1>10. Marked(n, Added(pin))
  <2> SUFFICES ASSUME NEW a \in Added(pin), a.pin.time = n.time, n.id - a.pin.id < len
               PROVE  n.seq_list[n.id - a.pin.id + 1] \in {EXPIRED, a.at}
    BY DEF Marked
  <2>1. CASE a \in got
    <3>1. a.pin.id <= r.id /\ a.pin.id \in Nat /\ a.pin.time = r.time
      BY <1>1, <1>4, <2>1
    <3>2. /\ n.id - a.pin.id + 1 \in 1 .. len /\ n.id - a.pin.id + 1 > d
          /\ (n.id - a.pin.id + 1) - d = r.id - a.pin.id + 1
          /\ r.id - a.pin.id < Len(r.seq_list)
          /\ n.id - a.pin.id + 1 # 1
      <4>1. n.id - a.pin.id + 1 > d /\ (n.id - a.pin.id + 1) - d = r.id - a.pin.id + 1
        BY <1>2, <3>1
      <4>2. n.id - a.pin.id >= d /\ n.id - a.pin.id + 1 # 1
        BY <1>2, <3>1
      <4>3. n.id - a.pin.id + 1 \in 1 .. len
        BY <1>2, <3>1
      <4>4. n.id - a.pin.id < Len(r.seq_list) + d
        <5>1. n.id - a.pin.id \in Int /\ Len(r.seq_list) + d \in Int
          BY <1>2, <3>1
        <5>2. len <= Len(r.seq_list) + d
          BY <1>5
        <5> QED
          BY <5>1, <5>2
      <4>5. r.id - a.pin.id < Len(r.seq_list)
        BY <1>2, <3>1, <4>4
      <4> QED
        BY <4>1, <4>2, <4>3, <4>5
    <3>3. n.seq_list[n.id - a.pin.id + 1] = r.seq_list[r.id - a.pin.id + 1]
      BY <1>1, <1>2, <3>2
    <3> QED
      BY <2>1, <3>1, <3>2, <3>3 DEF Marked
  <2>2. CASE a = b
    BY <1>1, <1>3, <1>7, <2>2
  <2> QED
    BY <2>1, <2>2 DEF Added
<1>11. Known(n, Added(pin))
  <2> SUFFICES ASSUME NEW i \in 1 .. len, n.seq_list[i] \notin {UNSEEN, EXPIRED}
               PROVE  \E a \in Added(pin) : /\ a.pin.time = n.time /\ a.pin.id = n.id - i + 1
                                            /\ a.at = n.seq_list[i]
    BY DEF Known
  <2>1. CASE i = 1
    <3>1. b.pin.time = n.time /\ b.pin.id = n.id - i + 1 /\ b.at = n.seq_list[i]
      BY <1>1, <1>3, <1>7, <2>1
    <3> QED
      BY <1>3, <3>1
  <2>2. CASE i # 1
    <3>1. i - d \in 1 .. Len(r.seq_list) /\ n.seq_list[i] = r.seq_list[i - d]
      BY <1>6, <2>2
    <3>2. PICK a \in got : /\ a.pin.time = r.time /\ a.pin.id = r.id - (i - d) + 1
                           /\ a.at = r.seq_list[i - d]
      BY <3>1 DEF Known
    <3>3. a.pin.id = n.id - i + 1
      BY <1>2, <3>2
    <3> QED
      BY <1>1, <1>3, <3>1, <3>2, <3>3
  <2> QED
    BY <2>1, <2>2
<1>12. Aged(n, Added(pin))
  <2> SUFFICES ASSUME NEW i \in 1 .. len, n.seq_list[i] = EXPIRED
               PROVE  /\ TimeBacktrack > 0
                      /\ \E a \in Added(pin) : /\ a.pin.time = n.time /\ a.pin.id >= n.id - i + 1
                                               /\ a.at + TimeBacktrack < now
    BY DEF Aged
  <2>1. i # 1 /\ n.seq_list[i] # UNSEEN
    BY <1>7 DEF UNSEEN, EXPIRED
  <2>2. i - d \in 1 .. Len(r.seq_list) /\ r.seq_list[i - d] = EXPIRED
    BY <1>6, <2>1
  <2>3. PICK a \in got : /\ TimeBacktrack > 0
                         /\ a.pin.time = r.time /\ a.pin.id >= r.id - (i - d) + 1
                         /\ a.at + TimeBacktrack < now
    BY <2>2 DEF Aged
  <2>4. a.pin.id >= n.id - i + 1
    BY <1>2, <2>3
  <2> QED
    BY <1>1, <1>3, <2>3, <2>4
<1>13. ExpiredStay(n)
  <2> SUFFICES ASSUME NEW i \in 1 .. len, NEW j \in 1 .. len, i < j, n.seq_list[i] = EXPIRED
               PROVE  n.seq_list[j] = EXPIRED
    BY DEF ExpiredStay
  <2>1. i # 1 /\ n.seq_list[i] # UNSEEN
    BY <1>7 DEF UNSEEN, EXPIRED
  <2>2. i > d /\ i - d \in 1 .. Len(r.seq_list) /\ r.seq_list[i - d] = EXPIRED
    BY <1>6, <2>1
  <2>3. j # 1 /\ ~ (j <= d) /\ j - d \in 1 .. Len(r.seq_list) /\ i - d < j - d
    BY <1>2, <1>5, <2>2
  <2>4. n.seq_list[j] = r.seq_list[j - d]
    BY <1>1, <2>3
  <2> QED
    BY <2>2, <2>3, <2>4 DEF ExpiredStay
<1>14. ReapedBy(n)
  <2>1. now + TimeBacktrack >= n.last_reap /\ n.last_reap <= now
    BY PacketIdAssumption DEF ReapedBy
  <2> SUFFICES ASSUME TimeBacktrack > 0, NEW i \in 1 .. len,
                      n.seq_list[i] \notin {UNSEEN, EXPIRED}
               PROVE  n.seq_list[i] + TimeBacktrack >= n.last_reap
    BY <2>1 DEF ReapedBy
  <2>2. CASE i = 1
    BY <1>7, <2>1, <2>2
  <2>3. CASE i # 1
    BY <1>6, <2>3 DEF ReapedBy
  <2> QED
    BY <2>2, <2>3
<1> QED
  BY <1>8, <1>9, <1>10, <1>11, <1>12, <1>13, <1>14 DEF Window

LEMMA LateKeeps ==
  ASSUME NEW r, NEW pin, NEW n, AddAssumptions(r, pin, n), AddsLate(r, pin, n)
  PROVE  Window(n, Added(pin))
<1>0. AddFacts(r, pin, n)
  BY AddTypes
<1> USE <1>0 DEF AddFacts
<1> DEFINE b == [pin |-> pin, at |-> now]
           len == Len(r.seq_list)
           k == r.id - pin.id + 1
<1>1. /\ n.id = r.id /\ n.time = r.time /\ pin.time = r.time /\ seq_backtrack # 0
      /\ pin.id <= r.id /\ k \in 1 .. len /\ r.seq_list[k] = UNSEEN
      /\ Len(n.seq_list) = len
      /\ \A i \in 1 .. len : n.seq_list[i] = IF i = k THEN now ELSE r.seq_list[i]
  BY DEF AddsLate
<1>2. /\ b \in Added(pin) /\ b.pin = pin /\ b.at = now /\ got \subseteq Added(pin)
      /\ \A a \in Added(pin) : a \in got \/ a = b
  BY DEF Added
<1>3. pin.id = r.id - k + 1
  OBVIOUS
<1> HIDE DEF k
<1>4. Below(n, {a.pin : a \in Added(pin)})
  <2> SUFFICES ASSUME NEW a \in Added(pin)
               PROVE  a.pin.time <= n.time /\ (a.pin.time = n.time => a.pin.id <= n.id)
    BY DEF Below
  <2>1. CASE a \in got
    BY <1>1, <2>1 DEF Below
  <2>2. CASE a = b
    BY <1>1, <1>2, <2>2
  <2> QED
    BY <1>2, <2>1, <2>2
<1>5. Sized(n, Added(pin))
  BY <1>1, <1>2 DEF Sized
<1>6. Marked(n, Added(pin))
  <2> SUFFICES ASSUME NEW a \in Added(pin), a.pin.time = n.time, n.id - a.pin.id < len
               PROVE  n.seq_list[n.id - a.pin.id + 1] \in {EXPIRED, a.at}
    BY <1>1 DEF Marked
  <2>1. CASE a \in got
    <3>0. a.pin.id <= r.id /\ a.pin.id \in Nat
      BY <1>1, <2>1 DEF Below
    <3>1. r.id - a.pin.id + 1 \in 1 .. len
      BY <1>1, <3>0
    <3>2. r.seq_list[r.id - a.pin.id + 1] \in {EXPIRED, a.at}
      BY <1>1, <2>1 DEF Marked
    <3>3. r.id - a.pin.id + 1 # k
      BY <1>1, <2>1, <3>2 DEF UNSEEN, EXPIRED
    <3> QED
      BY <1>1, <3>1, <3>2, <3>3
  <2>2. CASE a = b
    BY <1>1, <1>2, <2>2 DEF k
  <2> QED
    BY <1>2, <2>1, <2>2
<1>7. Known(n, Added(pin))
  <2> SUFFICES ASSUME NEW i \in 1 .. len, n.seq_list[i] \notin {UNSEEN, EXPIRED}
               PROVE  \E a \in Added(pin) : /\ a.pin.time = n.time /\ a.pin.id = n.id - i + 1
                                            /\ a.at = n.seq_list[i]
    BY <1>1 DEF Known
  <2>1. CASE i = k
    BY <1>1, <1>2, <1>3, <2>1
  <2>2. CASE i # k
    BY <1>1, <1>2, <2>2 DEF Known
  <2> QED
    BY <2>1, <2>2
<1>8. Aged(n, Added(pin))
  <2> SUFFICES ASSUME NEW i \in 1 .. len, n.seq_list[i] = EXPIRED
               PROVE  /\ TimeBacktrack > 0
                      /\ \E a \in Added(pin) : /\ a.pin.time = n.time /\ a.pin.id >= n.id - i + 1
                                               /\ a.at + TimeBacktrack < now
    BY <1>1 DEF Aged
  <2>1. r.seq_list[i] = EXPIRED
    BY <1>1
  <2> QED
    BY <1>1, <1>2, <2>1 DEF Aged
<1>9. ExpiredStay(n)
  <2> SUFFICES ASSUME NEW i \in 1 .. len, NEW j \in 1 .. len, i < j, n.seq_list[i] = EXPIRED
               PROVE  n.seq_list[j] = EXPIRED
    BY <1>1 DEF ExpiredStay
  <2>1. r.seq_list[i] = EXPIRED
    BY <1>1
  <2>2. r.seq_list[j] = EXPIRED
    BY <2>1 DEF ExpiredStay
  <2>3. j # k
    BY <1>1, <2>2 DEF UNSEEN, EXPIRED
  <2> QED
    BY <1>1, <2>2, <2>3
<1>10. ReapedBy(n)
  <2>1. now + TimeBacktrack >= n.last_reap /\ n.last_reap <= now
    BY PacketIdAssumption DEF ReapedBy
  <2> QED
    BY <1>1, <2>1 DEF ReapedBy
<1> QED
  BY <1>4, <1>5, <1>6, <1>7, <1>8, <1>9, <1>10 DEF Window

-----------------------------------------------------------------------------
(* A window with the record r and what it has accepted, g, is that of the    *)
(* next state.                                                               *)
LEMMA WindowNext ==
  ASSUME NEW r, NEW g, Window(r, g), rec' = r, got' = g, UNCHANGED <<now, seq_backtrack>>
  PROVE  Window(rec, got)'
<1>1. Below(rec, {a.pin : a \in got})' /\ Sized(rec, got)' /\ Marked(rec, got)'
  BY DEF Window, Below, Sized, Marked
<1>2. Known(rec, got)' /\ ExpiredStay(rec)'
  BY DEF Window, Known, ExpiredStay
<1>3. Aged(rec, got)' /\ ReapedBy(rec)'
  BY DEF Window, Aged, ReapedBy
<1> QED
  BY <1>1, <1>2, <1>3 DEF Window

(* A record that starts from an id of the file has accepted nothing yet.     *)
LEMMA NewWindow ==
  ASSUME NEW saved \in Pin, rec' = packet_id_init(saved), got' = {},
         now' \in Nat
  PROVE  Window(rec, got)' /\ rec' \in Rec
         /\ rec'.id = saved.id /\ rec'.time = saved.time /\ Len(rec'.seq_list) = 0
<1>1. saved.id \in Id /\ saved.time \in Time /\ saved.id \in Nat
  <2>1. saved.id \in Id /\ saved.time \in Time /\ Id \subseteq Nat
    BY Types
  <2> QED
    BY <2>1
<1>2. /\ rec'.id = saved.id /\ rec'.time = saved.time
      /\ rec'.seq_list = << >> /\ rec'.last_reap = 0
  BY DEF packet_id_init
<1>3. rec' \in Rec
  BY <1>1 DEF packet_id_init, Rec, Time
<1>4. Below(rec, {a.pin : a \in got})' /\ Sized(rec, got)' /\ Marked(rec, got)'
  BY <1>1, <1>2 DEF Below, Sized, Marked
<1>5. Known(rec, got)' /\ ExpiredStay(rec)' /\ Aged(rec, got)' /\ ReapedBy(rec)'
  BY <1>2 DEF Known, ExpiredStay, Aged, ReapedBy
<1> QED
  BY <1>2, <1>3, <1>4, <1>5 DEF Window

LEMMA NoPinIsPin == NoPin \in Pin
  BY PacketIdAssumption DEF NoPin, Pin, Id, Time

LEMMA InitPacket == Init => PacketInv
<1> SUFFICES ASSUME Init PROVE PacketInv
  OBVIOUS
<1> USE PacketIdAssumption
<1>1. rec = packet_id_init(NoPin) /\ got = {} /\ now = Start /\ NoPin \in Pin
      /\ sent = {} /\ prior = {} /\ send = NoPin /\ persist = NoPin /\ file = NoPin
      /\ long_form \in BOOLEAN /\ seq_backtrack \in {0, SeqBacktrack} /\ restarts = 0
  BY NoPinIsPin DEF Init
<1>2. /\ rec.id = 0 /\ rec.time = 0 /\ rec.seq_list = << >> /\ rec.last_reap = 0
      /\ rec \in Rec /\ Len(rec.seq_list) = 0
  BY <1>1 DEF packet_id_init, NoPin, Rec, Id, Time
<1>3. TypeOK
  BY <1>1, <1>2 DEF TypeOK
<1>4. Window(rec, got)
  BY <1>1, <1>2 DEF Window, Below, Sized, Marked, Known, Aged, ExpiredStay, ReapedBy
<1>5. SentInv /\ PersistInv
  BY <1>1, <1>2 DEF SentInv, PersistInv, Saved, NoPin, Below
<1> QED
  BY <1>3, <1>4, <1>5 DEF PacketInv

-----------------------------------------------------------------------------
(* The sender and the file.                                                  *)
LEMMA Allocates == PacketInv /\ packet_id_alloc_outgoing => PacketInv'
<1> SUFFICES ASSUME PacketInv, packet_id_alloc_outgoing PROVE PacketInv'
  OBVIOUS
<1> USE PacketIdAssumption DEF PacketInv
<1> DEFINE time == IF send.time = 0 THEN now ELSE send.time
           new == IF send.id = IdMax THEN [id |-> 1, time |-> now]
                  ELSE [id |-> send.id + 1, time |-> time]
           pin == [new EXCEPT !.time = IF long_form THEN new.time ELSE 0]
<1>1. /\ send' = new /\ sent' = sent \cup {pin}
      /\ UNCHANGED <<now, long_form, seq_backtrack, rec, persist, file, got, prior, restarts>>
  BY DEF packet_id_alloc_outgoing
<1>2. send.id \in Id /\ send.time \in Time /\ now \in Start .. MaxNow
  BY Types DEF TypeOK
<1>3. new \in Pin /\ new.id # 0 /\ new.time # 0
  <2>1. time \in Time /\ time # 0 /\ now \in Time /\ now # 0
    BY <1>2 DEF Time, EXPIRED
  <2>2. send.id # IdMax => send.id + 1 \in Id /\ send.id + 1 # 0
    BY <1>2 DEF Id
  <2>3. 1 \in Id
    BY DEF Id
  <2> QED
    BY <2>1, <2>2, <2>3 DEF Pin
<1> HIDE DEF new
<1>4. pin \in Pin /\ pin.id # 0 /\ (long_form => pin.time # 0)
  BY <1>3 DEF Pin, Time
<1> HIDE DEF pin
<1>5. TypeOK'
  BY <1>1, <1>3, <1>4 DEF TypeOK
<1>6. SentInv'
  BY <1>1, <1>4 DEF SentInv
<1>7. Window(rec, got)'
  BY <1>1, WindowNext
<1>8. PersistInv'
  BY <1>1 DEF PersistInv, Saved, Below
<1> QED
  BY <1>5, <1>6, <1>7, <1>8

LEMMA SavedIsPin == TypeOK => Saved \in Pin /\ file \in Pin
  BY DEF TypeOK, Saved

LEMMA SavesAndRestarts ==
  ASSUME PacketInv, SenderRestart \/ packet_id_persist_save \/ Restart \/ Crash
  PROVE  PacketInv'
<1> USE PacketIdAssumption DEF PacketInv
<1>0. now \in Nat /\ Saved \in Pin /\ file \in Pin /\ NoPin \in Pin
  BY SavedIsPin, NoPinIsPin DEF TypeOK
<1>1. CASE SenderRestart
  <2>1. /\ send' = NoPin /\ restarts' \in 0 .. MaxRestarts
        /\ UNCHANGED <<now, long_form, seq_backtrack, rec, persist, file, sent, got, prior>>
    BY <1>1 DEF SenderRestart, CountRestart, TypeOK
  <2>2. TypeOK'
    BY <1>0, <2>1 DEF TypeOK
  <2>3. Window(rec, got)'
    BY <2>1, WindowNext
  <2> QED
    BY <2>1, <2>2, <2>3 DEF SentInv, PersistInv, Saved, Below
<1>2. CASE packet_id_persist_save
  <2>1. /\ file' = Saved
        /\ UNCHANGED <<now, long_form, seq_backtrack, send, rec, persist, sent, got, prior, restarts>>
    BY <1>2 DEF packet_id_persist_save
  <2>2. TypeOK'
    BY <1>0, <2>1 DEF TypeOK
  <2>3. Window(rec, got)'
    BY <2>1, WindowNext
  <2>4. Saved' = Saved
    BY <2>1 DEF Saved
  <2> QED
    BY <2>1, <2>2, <2>3, <2>4 DEF SentInv, PersistInv, Below
<1>3. CASE Restart
  <2>1. /\ long_form /\ restarts' \in 0 .. MaxRestarts
        /\ file' = Saved /\ persist' = Saved /\ rec' = packet_id_init(Saved)
        /\ prior' = prior \cup Accepted /\ got' = {}
        /\ UNCHANGED <<now, long_form, seq_backtrack, send, sent>>
    BY <1>3 DEF Restart, CountRestart, TypeOK
  <2>2. /\ Window(rec, got)' /\ rec' \in Rec /\ Len(rec'.seq_list) = 0
        /\ rec'.id = rec.id /\ rec'.time = rec.time /\ Saved' = Saved
        /\ rec'.id = Saved.id /\ rec'.time = Saved.time
    <3>1. /\ Window(rec, got)' /\ rec' \in Rec /\ Len(rec'.seq_list) = 0
          /\ rec'.id = Saved.id /\ rec'.time = Saved.time
      BY <1>0, <2>1, NewWindow
    <3>2. Saved' = Saved
      BY <2>1 DEF Saved
    <3> QED
      BY <2>1, <3>1, <3>2 DEF PersistInv
  <2>3. Accepted \subseteq sent
    BY DEF Accepted, TypeOK
  <2>4. TypeOK'
    BY <1>0, <2>1, <2>2, <2>3 DEF TypeOK
  <2>5. Below(rec, prior)'
    BY <2>1, <2>2 DEF Window, PersistInv, Below, Accepted
  <2> QED
    BY <2>1, <2>2, <2>4, <2>5 DEF SentInv, PersistInv
<1>4. CASE Crash
  <2>1. /\ long_form /\ restarts' \in 0 .. MaxRestarts
        /\ persist' = file /\ rec' = packet_id_init(file) /\ got' = {} /\ prior' = {}
        /\ UNCHANGED <<now, long_form, seq_backtrack, send, file, sent>>
    BY <1>4 DEF Crash, CountRestart, TypeOK
  <2>2. /\ Window(rec, got)' /\ rec' \in Rec /\ Len(rec'.seq_list) = 0
        /\ rec'.id = file.id /\ rec'.time = file.time /\ Saved' = file
    <3>1. /\ Window(rec, got)' /\ rec' \in Rec /\ Len(rec'.seq_list) = 0
          /\ rec'.id = file.id /\ rec'.time = file.time
      BY <1>0, <2>1, NewWindow
    <3>2. Saved' = file
      BY <2>1 DEF Saved
    <3> QED
      BY <3>1, <3>2
  <2>4. TypeOK'
    BY <1>0, <2>1, <2>2 DEF TypeOK
  <2> QED
    BY <2>1, <2>2, <2>4 DEF SentInv, PersistInv, Below
<1> QED
  BY <1>1, <1>2, <1>3, <1>4

-----------------------------------------------------------------------------
(* The record after reaping, and what the test of a packet says of it.       *)
LEMMA Reaped ==
  ASSUME PacketInv
  PROVE  LET r == packet_id_reap_test(rec) IN
         /\ r \in Rec /\ Window(r, got) /\ r.id = rec.id /\ r.time = rec.time
         /\ Len(r.seq_list) = Len(rec.seq_list) /\ Len(r.seq_list) <= seq_backtrack
         /\ now < r.last_reap + ReapInterval
<1> USE PacketIdAssumption DEF PacketInv
<1> DEFINE r == packet_id_reap_test(rec)
<1>1. /\ rec \in Rec /\ now \in Start .. MaxNow /\ seq_backtrack \in {0, SeqBacktrack}
      /\ got \subseteq [pin : Pin, at : Start .. now] /\ Len(rec.seq_list) <= seq_backtrack
  BY DEF TypeOK
<1>2. /\ r \in Rec /\ r.id = rec.id /\ r.time = rec.time /\ Len(r.seq_list) = Len(rec.seq_list)
      /\ r.last_reap = now \/ now < r.last_reap + ReapInterval
  BY <1>1, Reaping
<1>3. Window(r, got)
  BY <1>1, ReapingKeeps
<1>4. now < now + ReapInterval
  BY <1>1
<1> QED
  BY <1>1, <1>2, <1>3, <1>4

LEMMA Receives ==
  ASSUME PacketInv, NEW pin \in sent, openvpn_decrypt(pin)
  PROVE  PacketInv'
<1> USE PacketIdAssumption DEF PacketInv
<1> DEFINE r == packet_id_reap_test(rec)
           n == packet_id_add(r, pin)
<1>1. /\ r \in Rec /\ Window(r, got) /\ r.id = rec.id /\ r.time = rec.time
      /\ Len(r.seq_list) = Len(rec.seq_list) /\ Len(r.seq_list) <= seq_backtrack
  BY Reaped
<1>2. UNCHANGED <<now, long_form, seq_backtrack, send, file, sent, prior, restarts>>
  BY DEF openvpn_decrypt
<1>3. SentInv'
  BY <1>2 DEF SentInv
<1>4. CASE ~ packet_id_test(r, pin)
  <2>1. rec' = r /\ UNCHANGED <<got, persist>>
    BY <1>4 DEF openvpn_decrypt
  <2> HIDE DEF r
  <2>2. TypeOK'
    BY <1>1, <1>2, <2>1 DEF TypeOK
  <2>3. Window(rec, got)'
    BY <1>1, <1>2, <2>1, WindowNext
  <2>4. PersistInv'
    BY <1>1, <1>2, <2>1 DEF PersistInv, Saved, Below
  <2> QED
    BY <1>3, <2>2, <2>3, <2>4
<1>5. CASE packet_id_test(r, pin)
  <2>1. /\ rec' = n /\ got' = Added(pin)
        /\ persist' = IF long_form /\ rec'.time # 0
                        THEN [id |-> rec'.id, time |-> rec'.time] ELSE persist
    BY <1>5 DEF openvpn_decrypt, Added
  <2>2. /\ pin \in Pin /\ pin.id # 0 /\ (long_form => pin.time # 0)
        /\ now \in Start .. MaxNow /\ seq_backtrack \in {0, SeqBacktrack}
        /\ got \subseteq [pin : Pin, at : Start .. now]
    BY DEF TypeOK, SentInv
  <2>3. seq_backtrack = 0 => r.seq_list = << >>
    BY <1>1 DEF Window, Sized
  <2> HIDE DEF r
  <2>4. n \in Rec /\ n.last_reap = r.last_reap /\ Adds(r, pin, n)
    BY <1>1, <1>5, <2>2, <2>3, Adding
  <2> HIDE DEF n
  <2>5. AddAssumptions(r, pin, n)
    BY <1>1, <2>2, <2>4 DEF AddAssumptions
  <2>6. Window(n, Added(pin))
    BY <2>4, <2>5, NextKeeps, AgainKeeps, AheadKeeps, LateKeeps DEF Adds
  <2>7. Window(rec, got)'
    BY <1>2, <2>1, <2>6, WindowNext
  <2>8. /\ n.time = pin.time /\ n.time >= r.time /\ (n.time = r.time => n.id >= r.id)
        /\ Len(n.seq_list) <= seq_backtrack
        /\ r.time \in Nat /\ r.id \in Nat /\ n.time \in Nat /\ n.id \in Nat
    <3>0. AddFacts(r, pin, n)
      BY <2>5, AddTypes
    <3>1. /\ r.time \in Nat /\ r.id \in Nat /\ pin.time \in Nat /\ pin.id \in Nat
          /\ seq_backtrack \in Nat
      BY <3>0 DEF AddFacts
    <3>2. CASE AddsNext(r, pin, n)
      BY <1>1, <3>1, <3>2 DEF AddsNext
    <3>3. CASE AddsAgain(r, pin, n)
      BY <1>1, <3>1, <3>3 DEF AddsAgain, Lesser
    <3>4. CASE AddsAhead(r, pin, n)
      <4>1. Len(n.seq_list) <= seq_backtrack
        <5>1. Len(r.seq_list) + (pin.id - r.id) \in Int
          BY <3>0 DEF AddFacts
        <5> QED
          BY <3>1, <3>4, <5>1 DEF AddsAhead, Lesser
      <4> QED
        BY <3>1, <3>4, <4>1 DEF AddsAhead
    <3>5. CASE AddsLate(r, pin, n)
      BY <1>1, <3>1, <3>5 DEF AddsLate
    <3> QED
      BY <2>4, <3>2, <3>3, <3>4, <3>5 DEF Adds
  <2>9. TypeOK'
    <3>1. persist' \in Pin
      <4>1. n.id \in Id /\ n.time \in Time
        BY <2>4, Types
      <4> QED
        BY <2>1, <4>1 DEF TypeOK, Pin
    <3>2. got' \subseteq [pin : sent, at : Start .. now]
      BY <2>1, <2>2 DEF TypeOK, Added
    <3> QED
      BY <1>2, <2>1, <2>4, <2>8, <3>1, <3>2 DEF TypeOK
  <2>10. PersistInv'
    <3>1. long_form => Saved'.id = rec'.id /\ Saved'.time = rec'.time
      BY <2>1, <2>2, <2>8 DEF Saved
    <3>2. \A old \in prior : /\ old.time \in Nat /\ old.id \in Nat /\ old.time <= r.time
                             /\ (old.time = r.time => old.id <= r.id)
      <4> TAKE old \in prior
      <4>1. old \in Pin
        BY DEF TypeOK
      <4>2. old.id \in Id /\ old.time \in Time /\ Id \subseteq Nat /\ Time \subseteq Nat
        BY <4>1, Types
      <4> QED
        BY <1>1, <4>2 DEF PersistInv, Below
    <3>3. Below(rec', prior)
      BY <2>1, <2>8, <3>2 DEF Below
    <3> QED
      BY <1>2, <3>1, <3>3 DEF PersistInv, Below
  <2> QED
    BY <1>3, <2>7, <2>9, <2>10
<1> QED
  BY <1>4, <1>5

LEMMA Ticks == PacketInv /\ Tick => PacketInv'
<1> SUFFICES ASSUME PacketInv, Tick PROVE PacketInv'
  OBVIOUS
<1> USE PacketIdAssumption DEF PacketInv
<1>1. /\ now' = now + 1 /\ now < MaxNow
      /\ UNCHANGED <<long_form, seq_backtrack, send, rec, persist, file, sent, got, prior, restarts>>
  BY DEF Tick
<1>2. now \in Nat /\ rec.last_reap \in Nat /\ \A a \in got : a.at \in Nat
  <2>1. now \in Nat /\ rec \in Rec /\ \A a \in got : a.at \in Start .. now
    BY DEF TypeOK
  <2>2. rec.last_reap \in Time /\ Time \subseteq Nat
    BY <2>1, Types
  <2>3. \A a \in got : a.at \in Nat
    BY <2>1
  <2> QED
    BY <2>1, <2>2, <2>3
<1>3. TypeOK'
  <2>1. now' \in Start .. MaxNow /\ Start .. now \subseteq Start .. now'
    BY <1>1, <1>2 DEF TypeOK
  <2> QED
    BY <1>1, <2>1 DEF TypeOK
<1>4. Below(rec, {a.pin : a \in got})' /\ Sized(rec, got)' /\ Marked(rec, got)'
  BY <1>1 DEF Window, Below, Sized, Marked
<1>5. Known(rec, got)' /\ ExpiredStay(rec)'
  BY <1>1 DEF Window, Known, ExpiredStay
<1>6. Aged(rec, got)'
  <2> SUFFICES ASSUME NEW i \in 1 .. Len(rec.seq_list), rec.seq_list[i] = EXPIRED
               PROVE  /\ TimeBacktrack > 0
                      /\ \E a \in got : /\ a.pin.time = rec.time /\ a.pin.id >= rec.id - i + 1
                                        /\ a.at + TimeBacktrack < now + 1
    BY <1>1 DEF Aged
  <2>1. PICK a \in got : /\ TimeBacktrack > 0
                         /\ a.pin.time = rec.time /\ a.pin.id >= rec.id - i + 1
                         /\ a.at + TimeBacktrack < now
    BY DEF Window, Aged
  <2> QED
    BY <1>2, <2>1
<1>7. ReapedBy(rec)'
  BY <1>1, <1>2 DEF Window, ReapedBy
<1>8. SentInv' /\ PersistInv'
  BY <1>1 DEF SentInv, PersistInv, Saved, Below
<1> QED
  BY <1>3, <1>4, <1>5, <1>6, <1>7, <1>8 DEF Window

LEMMA StepPacket == PacketInv /\ [Next]_vars => PacketInv'
<1> SUFFICES ASSUME PacketInv, [Next]_vars PROVE PacketInv'
  OBVIOUS
<1>1. CASE UNCHANGED vars
  <2>1. UNCHANGED <<now, long_form, seq_backtrack, send, rec, persist, file, sent, got, prior,
                    restarts>>
    BY <1>1 DEF vars
  <2>2. Window(rec, got)'
    BY <2>1, WindowNext DEF PacketInv
  <2> QED
    BY <2>1, <2>2 DEF PacketInv, TypeOK, SentInv, PersistInv, Saved, Below
<1> QED
  BY <1>1, Allocates, SavesAndRestarts, Receives, Ticks DEF Next

(* The invariant, for every window, link, clock and number of restarts.      *)
THEOREM PacketInvariance == Spec => []PacketInv
  BY InitPacket, StepPacket, PTL DEF Spec

(* The type invariant of the ids, the window and the file.                   *)
THEOREM PacketTypes == Spec => []TypeOK
<1>1. PacketInv => TypeOK
  BY DEF PacketInv
<1> QED
  BY <1>1, PacketInvariance, PTL

-----------------------------------------------------------------------------
(* What the test of an id looks at.                                          *)
LEMMA Tested ==
  ASSUME PacketInv, NEW pin \in sent
  PROVE  LET r == packet_id_reap_test(rec) IN
         /\ pin.id \in Nat \ {0} /\ pin.time \in Nat
         /\ r.id \in Nat /\ r.time \in Nat /\ Len(r.seq_list) \in Nat
         /\ now \in Nat /\ seq_backtrack \in Nat /\ r.last_reap \in Nat
         /\ Accepts(pin) <=>
              /\ pin.time >= r.time
              /\ IF seq_backtrack > 0
                   THEN \/ pin.time > r.time
                        \/ pin.id > r.id
                        \/ /\ r.id - pin.id < Len(r.seq_list)
                           /\ r.seq_list[r.id - pin.id + 1] = UNSEEN
                   ELSE \/ pin.time > r.time /\ pin.id = 1
                        \/ pin.time = r.time /\ (r.id = 0 \/ pin.id = r.id + 1)
<1> USE PacketIdAssumption
<1> DEFINE r == packet_id_reap_test(rec)
<1>1. r \in Rec /\ pin \in Pin /\ pin.id # 0
  BY Reaped DEF PacketInv, TypeOK, SentInv
<1> HIDE DEF r
<1>2. /\ r.id \in Id /\ r.time \in Time /\ r.last_reap \in Time /\ r.seq_list \in Seq(Entry)
      /\ pin.id \in Id /\ pin.time \in Time /\ Id \subseteq Nat /\ Time \subseteq Nat
  BY <1>1, Types
<1>3. /\ r.id \in Nat /\ r.time \in Nat /\ r.last_reap \in Nat /\ Len(r.seq_list) \in Nat
      /\ pin.id \in Nat \ {0} /\ pin.time \in Nat
  <2>1. Len(r.seq_list) \in Nat
    BY <1>2
  <2> QED
    BY <1>1, <1>2, <2>1
<1>4. now \in Nat /\ seq_backtrack \in Nat
  BY DEF PacketInv, TypeOK
<1>5. Accepts(pin) <=> packet_id_test(r, pin)
  BY DEF Accepts, r
<1>6. packet_id_test(r, pin) <=>
        /\ pin.time >= r.time
        /\ IF seq_backtrack > 0
             THEN \/ pin.time > r.time
                  \/ pin.id > r.id
                  \/ /\ r.id - pin.id < Len(r.seq_list)
                     /\ r.seq_list[r.id - pin.id + 1] = UNSEEN
             ELSE \/ pin.time > r.time /\ pin.id = 1
                  \/ pin.time = r.time /\ (r.id = 0 \/ pin.id = r.id + 1)
  BY <1>1 DEF packet_id_test
<1> QED
  BY <1>3, <1>4, <1>5, <1>6 DEF r

(* What has been accepted.                                                   *)
LEMMA AcceptedTypes ==
  ASSUME PacketInv, NEW a \in got
  PROVE  /\ a.pin \in sent /\ a.pin.id \in Nat \ {0} /\ a.pin.time \in Nat
         /\ a.at \in Nat /\ a.at \notin {UNSEEN, EXPIRED}
<1> USE PacketIdAssumption
<1>1. a.pin \in sent /\ a.at \in Start .. now /\ now \in Nat
  BY DEF PacketInv, TypeOK
<1>2. a.pin.id \in Nat \ {0} /\ a.pin.time \in Nat
  BY <1>1, Tested
<1>3. a.at \in Nat /\ a.at >= Start
  BY <1>1
<1>4. a.at \notin {UNSEEN, EXPIRED}
  BY <1>3 DEF UNSEEN, EXPIRED
<1> QED
  BY <1>1, <1>2, <1>3, <1>4

(* No packet id is accepted twice: however often and late a packet comes, the *)
(* window has not forgotten it by sliding, by starting again or by expiring.  *)
THEOREM NothingIsReplayed == Spec => []NoReplay
<1>1. ASSUME PacketInv PROVE NoReplay
  <2> SUFFICES ASSUME NEW a \in got, Accepts(a.pin)
               PROVE  FALSE
    BY DEF NoReplay, Accepted
  <2> DEFINE r == packet_id_reap_test(rec)
             pin == a.pin
  <2>1. /\ pin \in sent /\ a.at \notin {UNSEEN, EXPIRED}
    BY <1>1, AcceptedTypes
  <2>2. /\ pin.id \in Nat \ {0} /\ pin.time \in Nat /\ r.id \in Nat /\ r.time \in Nat
        /\ seq_backtrack \in Nat
        /\ pin.time >= r.time
        /\ IF seq_backtrack > 0
             THEN \/ pin.time > r.time
                  \/ pin.id > r.id
                  \/ /\ r.id - pin.id < Len(r.seq_list)
                     /\ r.seq_list[r.id - pin.id + 1] = UNSEEN
             ELSE \/ pin.time > r.time /\ pin.id = 1
                  \/ pin.time = r.time /\ (r.id = 0 \/ pin.id = r.id + 1)
    BY <1>1, <2>1, Tested
  <2>3. Window(r, got)
    BY <1>1, Reaped
  <2> HIDE DEF r
  <2>4. pin.time <= r.time /\ (pin.time = r.time => pin.id <= r.id)
    BY <2>3 DEF Window, Below
  <2>5. r.id - pin.id < Len(r.seq_list) /\ r.seq_list[r.id - pin.id + 1] = UNSEEN
        /\ pin.time = r.time
    BY <2>2, <2>4
  <2>6. r.seq_list[r.id - pin.id + 1] \in {EXPIRED, a.at}
    BY <2>3, <2>5 DEF Window, Marked
  <2> QED
    BY <2>1, <2>5, <2>6 DEF UNSEEN, EXPIRED
<1> QED
  BY <1>1, PacketInvariance, PTL

LEMMA EntriesInOrder ==
  ASSUME NEW id \in Nat, NEW p \in Nat, NEW q \in Nat, p < q, q <= id
  PROVE  id - q + 1 \in Int /\ id - q + 1 >= 1 /\ id - q + 1 < id - p + 1
  OBVIOUS

LEMMA ReapedInTime ==
  ASSUME NEW at \in Nat, NEW last \in Nat, NEW t \in Nat, NEW w \in Nat, NEW n \in Nat,
         at + (t + w - 1) < n, n < last + w
  PROVE  at + t < last
  OBVIOUS

(* A packet is refused once one with a later id came too long ago.           *)
THEOREM LateOnesAreRejected == Spec => []LateIsRejected
<1>1. ASSUME PacketInv PROVE LateIsRejected
  <2> SUFFICES ASSUME TimeBacktrack > 0, seq_backtrack > 0, NEW pin \in sent,
                      NEW a \in got, a.pin.time = pin.time, a.pin.id > pin.id,
                      a.at + (TimeBacktrack + ReapInterval - 1) < now, Accepts(pin)
               PROVE  FALSE
    BY DEF LateIsRejected, Late
  <2> USE PacketIdAssumption
  <2> DEFINE r == packet_id_reap_test(rec)
             i == r.id - pin.id + 1
             j == r.id - a.pin.id + 1
  <2>1. a.pin.id \in Nat /\ a.at \in Nat /\ a.at \notin {UNSEEN, EXPIRED}
    BY <1>1, AcceptedTypes
  <2>2. /\ pin.id \in Nat /\ pin.time \in Nat /\ r.id \in Nat /\ r.time \in Nat
        /\ Len(r.seq_list) \in Nat /\ now \in Nat /\ r.last_reap \in Nat
        /\ pin.time >= r.time
        /\ \/ pin.time > r.time
           \/ pin.id > r.id
           \/ r.id - pin.id < Len(r.seq_list) /\ r.seq_list[i] = UNSEEN
    BY <1>1, Tested
  <2>3. Window(r, got) /\ now < r.last_reap + ReapInterval
    BY <1>1, Reaped
  <2> HIDE DEF r
  <2>4. a.pin.time <= r.time /\ (a.pin.time = r.time => a.pin.id <= r.id)
    BY <2>3 DEF Window, Below
  <2>5. /\ a.pin.time = r.time /\ i \in 1 .. Len(r.seq_list) /\ r.seq_list[i] = UNSEEN
        /\ j \in 1 .. Len(r.seq_list) /\ j < i /\ r.id - a.pin.id < Len(r.seq_list)
    <3>1. pin.time = r.time /\ a.pin.id <= r.id
      BY <2>2, <2>4
    <3>2. pin.id <= r.id
      BY <2>1, <2>2, <3>1
    <3>3. r.id - pin.id < Len(r.seq_list) /\ r.seq_list[i] = UNSEEN
      BY <2>2, <3>1, <3>2
    <3>4. i \in 1 .. Len(r.seq_list)
      BY <2>2, <3>2, <3>3
    <3>5. j \in Int /\ j >= 1 /\ j < i
      BY <2>1, <2>2, <3>1, EntriesInOrder
    <3>6. r.id - a.pin.id < Len(r.seq_list)
      BY <2>1, <2>2, <3>3
    <3>7. j \in 1 .. Len(r.seq_list)
      BY <2>2, <3>4, <3>5
    <3> QED
      BY <3>1, <3>3, <3>4, <3>5, <3>6, <3>7
  <2>6. r.seq_list[j] \in {EXPIRED, a.at}
    BY <2>3, <2>5 DEF Window, Marked
  <2>7. r.seq_list[j] = EXPIRED
    <3>1. a.at + TimeBacktrack < r.last_reap
      BY <2>1, <2>2, <2>3, ReapedInTime
    <3>2. r.seq_list[j] \notin {UNSEEN, EXPIRED} =>
            r.seq_list[j] + TimeBacktrack >= r.last_reap
      BY <2>3, <2>5 DEF Window, ReapedBy
    <3> QED
      BY <2>1, <2>2, <2>6, <3>1, <3>2
  <2>8. r.seq_list[i] = EXPIRED
    BY <2>3, <2>5, <2>7 DEF Window, ExpiredStay
  <2> QED
    BY <2>5, <2>8 DEF UNSEEN, EXPIRED
<1> QED
  BY <1>1, PacketInvariance, PTL

(* A packet that never came, within the window and not late, is accepted.    *)
THEOREM FreshOnesAreAccepted == Spec => []FreshIsAccepted
<1>1. ASSUME PacketInv PROVE FreshIsAccepted
  <2> SUFFICES ASSUME NEW pin \in sent, pin \notin Accepted,
                      seq_backtrack > 0, rec.seq_list # << >>,
                      pin.time = rec.time, rec.id - pin.id < seq_backtrack,
                      TimeBacktrack > 0 => ~ Late(pin, TimeBacktrack)
               PROVE  Accepts(pin)
    BY DEF FreshIsAccepted
  <2> USE PacketIdAssumption
  <2> DEFINE r == packet_id_reap_test(rec)
             i == r.id - pin.id + 1
  <2>1. /\ pin.id \in Nat \ {0} /\ pin.time \in Nat /\ r.id \in Nat /\ r.time \in Nat
        /\ Len(r.seq_list) \in Nat /\ now \in Nat /\ seq_backtrack \in Nat
        /\ Accepts(pin) <=>
             /\ pin.time >= r.time
             /\ \/ pin.time > r.time
                \/ pin.id > r.id
                \/ r.id - pin.id < Len(r.seq_list) /\ r.seq_list[i] = UNSEEN
    BY <1>1, Tested
  <2>2. /\ Window(r, got) /\ r.id = rec.id /\ r.time = rec.time
        /\ Len(r.seq_list) = Len(rec.seq_list) /\ r \in Rec
    BY <1>1, Reaped
  <2>3. r.seq_list # << >>
    <3>1. rec.seq_list \in Seq(Entry) /\ rec \in Rec
      BY <1>1, Types DEF PacketInv, TypeOK
    <3>2. Len(rec.seq_list) # 0
      BY <3>1
    <3> QED
      BY <2>2, <3>2
  <2> HIDE DEF r
  <2> SUFFICES ASSUME pin.id <= r.id
               PROVE  r.id - pin.id < Len(r.seq_list) /\ r.seq_list[i] = UNSEEN
    BY <2>1, <2>2
  <2>4. r.id - pin.id < Len(r.seq_list) /\ i \in 1 .. Len(r.seq_list)
    <3>1. Len(r.seq_list) \in {seq_backtrack, r.id}
      BY <2>2, <2>3 DEF Window, Sized
    <3> QED
      BY <2>1, <2>2, <3>1
  <2>5. pin.id = r.id - i + 1
    BY <2>1
  <2>6. \A a \in got : ~ (a.pin.time = pin.time /\ a.pin.id = pin.id)
    <3> TAKE a \in got
    <3>1. a.pin \in Pin /\ pin \in Pin /\ a.pin # pin
      BY <1>1 DEF Accepted, PacketInv, TypeOK
    <3> QED
      BY <3>1 DEF Pin
  <2> HIDE DEF i
  <2>7. r.seq_list[i] \in {UNSEEN, EXPIRED}
    BY <2>2, <2>4, <2>5, <2>6 DEF Window, Known
  <2>8. r.seq_list[i] # EXPIRED
    <3> SUFFICES ASSUME r.seq_list[i] = EXPIRED
                 PROVE  FALSE
      OBVIOUS
    <3>1. PICK a \in got : /\ TimeBacktrack > 0
                           /\ a.pin.time = r.time /\ a.pin.id >= r.id - i + 1
                           /\ a.at + TimeBacktrack < now
      BY <2>2, <2>4 DEF Window, Aged
    <3>2. a.pin.id \in Nat
      BY <1>1, AcceptedTypes
    <3>3. a.pin.id > pin.id /\ a.pin.time = pin.time
      BY <2>1, <2>2, <2>5, <2>6, <3>1, <3>2
    <3> QED
      BY <3>1, <3>3 DEF Late
  <2> QED
    BY <2>4, <2>7, <2>8
<1> QED
  BY <1>1, PacketInvariance, PTL

(* What the file keeps over a restart: an id accepted before it is accepted   *)
(* again in UDP mode at most, of the time stamp saved at most, and not before *)
(* another packet has been.                                                  *)
THEOREM FileKeeps == Spec => []PersistHolds
<1>1. ASSUME PacketInv PROVE PersistHolds
  <2> SUFFICES ASSUME NEW pin \in prior, Accepts(pin)
               PROVE  seq_backtrack > 0 /\ got # {} /\ pin.time = rec.time
    BY DEF PersistHolds
  <2> DEFINE r == packet_id_reap_test(rec)
  <2>1. pin \in sent
    BY <1>1 DEF PacketInv, TypeOK
  <2>2. /\ pin.id \in Nat \ {0} /\ pin.time \in Nat /\ r.id \in Nat /\ r.time \in Nat
        /\ Len(r.seq_list) \in Nat /\ seq_backtrack \in Nat
        /\ pin.time >= r.time
        /\ IF seq_backtrack > 0
             THEN \/ pin.time > r.time
                  \/ pin.id > r.id
                  \/ r.id - pin.id < Len(r.seq_list) /\ r.seq_list[r.id - pin.id + 1] = UNSEEN
             ELSE \/ pin.time > r.time /\ pin.id = 1
                  \/ pin.time = r.time /\ (r.id = 0 \/ pin.id = r.id + 1)
    BY <1>1, <2>1, Tested
  <2>3. Window(r, got) /\ r.id = rec.id /\ r.time = rec.time
    BY <1>1, Reaped
  <2> HIDE DEF r
  <2>4. pin.time <= r.time /\ (pin.time = r.time => pin.id <= r.id)
    BY <1>1, <2>3 DEF PacketInv, PersistInv, Below
  <2>5. /\ pin.time = r.time /\ seq_backtrack > 0 /\ r.id - pin.id < Len(r.seq_list)
        /\ pin.id <= r.id
    BY <2>2, <2>4
  <2>6. Len(r.seq_list) # 0
    BY <2>2, <2>5
  <2>7. got # {}
    BY <2>3, <2>6 DEF Window, Sized
  <2> QED
    BY <2>3, <2>5, <2>7
<1> QED
  BY <1>1, PacketInvariance, PTL
=============================================================================
