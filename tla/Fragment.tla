------------------------------- MODULE Fragment -------------------------------
(***************************************************************************)
(* Fragments of packets too large for the link, and their reassembly       *)
(* (fragment.c).  The sender numbers the packets it splits; the number,    *)
(* modulo N_SEQ_ID, is the sequence id of their fragments.  The receiver   *)
(* reassembles in a ring of N_FRAG_BUF slots behind the highest sequence   *)
(* id.  Whole packets pass both sides untouched and are left out.          *)
(*                                                                         *)
(* Fragments arrive in any order, again, or never, but of packets no more   *)
(* than MaxLate behind the newest one that came and MaxAhead before it.    *)
(***************************************************************************)
EXTENDS Integers, FiniteSets

CONSTANTS
  N_SEQ_ID, N_FRAG_BUF, MAX_FRAGS,
  MaxFragSize,    \* PAYLOAD_SIZE_DYNAMIC of the sender's frame
  Length,         \* Length[p]: length of the p-th packet that is split
  MaxPackets,     \* bound: packets
  MaxLate, MaxAhead,  \* assumed of the link
  MaxSize, MaxLength  \* bounds of OptimalKeepsCount

Packet == 0 .. MaxPackets - 1

ASSUME FragmentAssumption ==
  /\ N_FRAG_BUF \in Nat \ {0} /\ N_SEQ_ID \in Nat /\ 2 * N_FRAG_BUF <= N_SEQ_ID
  /\ MAX_FRAGS \in Nat \ {0} /\ MaxPackets \in Nat \ {0} /\ MaxLate \in Nat /\ MaxAhead \in Nat
  /\ MaxFragSize \in Nat /\ MaxFragSize >= 4 /\ MaxSize \in Nat /\ MaxLength \in Nat
  /\ Length \in [Packet -> Nat]
  /\ \A p \in Packet : \* longer ones are dropped before they get a sequence id
       Length[p] \in MaxFragSize + 1 .. (MaxFragSize - (MaxFragSize % 4)) * MAX_FRAGS

Slot == 0 .. N_FRAG_BUF - 1
Bit == 0 .. MAX_FRAGS - 1
NoPacket == -1

VARIABLES
  first,      \* outgoing_seq_id of packet 0, random
  seq_id,     \* list->seq_id, the highest one
  index,      \* its slot
  fragments,  \* list->fragments
  out,        \* contents of the packet it completed, by fragment
  watched,    \* some packet, and
  came,       \*   its fragments that have come
  newest,     \*   the newest packet of which any has come
  disturbed,  \*   whether it may be given up
  complete    \*   whether it has come out

list == <<seq_id, index, fragments>>
observed == <<watched, came, newest, disturbed, complete>>
vars == <<first, list, out, observed>>

(* buf[n]: packet the n-th part of the buffer is from. *)
Fragment == [defined : BOOLEAN, max_frag_size : Nat, map : SUBSET Bit,
             buf : [Bit -> Packet \cup {NoPacket}]]
Empty == [n \in Bit |-> NoPacket]
Undefined == [defined |-> FALSE, max_frag_size |-> 0, map |-> {}, buf |-> Empty]

TypeOK ==
  /\ first \in 0 .. N_SEQ_ID - 1 /\ seq_id \in 0 .. N_SEQ_ID - 1
  /\ index \in Slot
  /\ fragments \in [Slot -> Fragment]
  /\ \A i \in Slot : fragments[i].map # Bit
  /\ out \in [Bit -> Packet \cup {NoPacket}]
  /\ watched \in Packet /\ came \subseteq Bit /\ newest \in Packet \cup {NoPacket}
  /\ disturbed \in BOOLEAN /\ complete \in BOOLEAN

Init ==
  /\ first \in 0 .. N_SEQ_ID - 1
  /\ seq_id = 0 /\ index = 0
  /\ fragments = [i \in Slot |-> Undefined]
  /\ out = Empty
  /\ watched \in Packet /\ came = {} /\ newest = NoPacket
  /\ disturbed = FALSE /\ complete = FALSE

-----------------------------------------------------------------------------
(* The sender. *)
Round == 4                        \* 1 << FRAG_SIZE_ROUND_SHIFT
RoundDown(x) == x - (x % Round)

(* Mutation: rounding up may pass what the link takes. *)
optimal_unbounded(len, max) ==
  LET aligned == RoundDown(max)
      div == len \div aligned
      mod == len % aligned
  IN IF div > 0 /\ mod > 0 /\ mod < (aligned * 3) \div 4
     THEN RoundDown(max - ((max - mod) \div (div + 1)) + Round - 1) ELSE aligned

(* Fragments of similar size, not more of them. *)
optimal_fragment_size(len, max) ==
  LET aligned == RoundDown(max)
      div == len \div aligned
      mod == len % aligned
      size == RoundDown(max - ((max - mod) \div (div + 1)) + Round - 1)
  IN IF div > 0 /\ mod > 0 /\ mod < (aligned * 3) \div 4
     THEN IF size < aligned THEN size ELSE aligned
     ELSE aligned

Ceil(x, y) == (x + y - 1) \div y

(* fragment_outgoing and fragment_ready_to_send: the fragments of packet p. *)
Fragments(p) ==
  LET size == optimal_fragment_size(Length[p], MaxFragSize)
      count == Ceil(Length[p], size)
  IN {[p |-> p, n |-> n, last |-> n = count - 1, size |-> size] : n \in 0 .. count - 1}

SeqId(p) == (first + p) % N_SEQ_ID

-----------------------------------------------------------------------------
(* The receiver. *)
Abs(d) == IF d < 0 THEN -d ELSE d

(* x - y on the circle, the shorter way. *)
modulo_subtract(x, y) ==
  LET d1 == x - y
      d2 == d1 + (IF x > y THEN -N_SEQ_ID ELSE N_SEQ_ID)
  IN IF Abs(d1) > Abs(d2) THEN d2 ELSE d1

SlotAt(diff) == (index + diff) % N_FRAG_BUF
Undefine(fs, S) == [i \in Slot |-> IF i \in S THEN Undefined ELSE fs[i]]

(* Mutation: the slots the window moves over keep what they have. *)
get_buf_keeps(id) ==
  LET diff == modulo_subtract(id, seq_id)
  IN IF diff \in 1 .. N_FRAG_BUF - 1
     THEN [slot |-> SlotAt(diff), index |-> SlotAt(diff), seq_id |-> id, fragments |-> fragments]
     ELSE IF diff \in -(N_FRAG_BUF - 1) .. 0
     THEN [slot |-> SlotAt(diff), index |-> index, seq_id |-> seq_id, fragments |-> fragments]
     ELSE [slot |-> 0, index |-> 0, seq_id |-> id, fragments |-> Undefine(fragments, Slot)]

(* Mutation: the window is taken to be one slot shorter. *)
get_buf_short(id) ==
  LET diff == modulo_subtract(id, seq_id)
  IN IF diff \in 1 .. N_FRAG_BUF - 2
     THEN [slot |-> SlotAt(diff), index |-> SlotAt(diff), seq_id |-> id,
           fragments |-> Undefine(fragments, {SlotAt(d) : d \in 1 .. diff})]
     ELSE IF diff \in -(N_FRAG_BUF - 2) .. 0
     THEN [slot |-> SlotAt(diff), index |-> index, seq_id |-> seq_id, fragments |-> fragments]
     ELSE [slot |-> 0, index |-> 0, seq_id |-> id, fragments |-> Undefine(fragments, Slot)]

(* The slot of a sequence id; the window slides, or begins anew. *)
fragment_list_get_buf(id) ==
  LET diff == modulo_subtract(id, seq_id)
  IN IF diff \in 1 .. N_FRAG_BUF - 1
     THEN [slot |-> SlotAt(diff), index |-> SlotAt(diff), seq_id |-> id,
           fragments |-> Undefine(fragments, {SlotAt(d) : d \in 1 .. diff})]
     ELSE IF diff \in -(N_FRAG_BUF - 1) .. 0
     THEN [slot |-> SlotAt(diff), index |-> index, seq_id |-> seq_id, fragments |-> fragments]
     ELSE [slot |-> 0, index |-> 0, seq_id |-> id, fragments |-> Undefine(fragments, Slot)]

(* Mutation: the mask that stands for the last fragment is a bit too wide. *)
MapOfWide(f) == IF f.last THEN f.n .. MAX_FRAGS ELSE {f.n}

(* Bits a fragment sets: the last one those behind it, too. *)
MapOf(f) == IF f.last THEN f.n .. MAX_FRAGS - 1 ELSE {f.n}

(* A slot into which fragment f is copied. *)
Joined(slot, f) ==
  LET fits == slot.defined /\ slot.max_frag_size = f.size
  IN [defined |-> TRUE, max_frag_size |-> f.size,
      map |-> (IF fits THEN slot.map ELSE {}) \cup MapOf(f),
      buf |-> [(IF fits THEN slot.buf ELSE Empty) EXCEPT ![f.n] = f.p]]

(* What fragment f, which completes its packet or not, means for the
   watched packet once one of its fragments has come: it may be given up if f
   lies N_FRAG_BUF packets or more ahead of it, or as much behind the newest;
   or if the first fragment of all is not of packet 0, as the ring begins at
   sequence id 0, whatever the first is. *)
Observe(f, completes) ==
  /\ came' = IF f.p = watched THEN came \cup {f.n} ELSE came
  /\ newest' = IF f.p > newest THEN f.p ELSE newest
  /\ disturbed' = (\/ disturbed
                   \/ newest = NoPacket /\ f.p # 0
                   \/ /\ came' # {}
                      /\ f.p >= watched + N_FRAG_BUF \/ f.p <= newest - N_FRAG_BUF)
  /\ complete' = (complete \/ (f.p = watched /\ completes))
  /\ UNCHANGED watched

fragment_incoming(f) ==
  LET ring == fragment_list_get_buf(SeqId(f.p))
      slot == Joined(ring.fragments[ring.slot], f)
      completes == slot.map = Bit
  IN /\ newest # NoPacket => f.p \in newest - MaxLate .. newest + MaxAhead
     /\ seq_id' = ring.seq_id /\ index' = ring.index
     /\ fragments' = [ring.fragments EXCEPT ![ring.slot] = IF completes THEN Undefined ELSE slot]
     /\ out' = IF completes THEN slot.buf ELSE Empty
     /\ Observe(f, completes)
     /\ UNCHANGED first

(* fragment_wakeup finds that the time to live of slot i is over. *)
fragment_ttl_reap(i) ==
  /\ fragments[i].defined
  /\ fragments' = Undefine(fragments, {i})
  /\ disturbed' = (disturbed \/ \E n \in Bit : fragments[i].buf[n] = watched)
  /\ UNCHANGED <<first, seq_id, index, out, watched, came, newest, complete>>

-----------------------------------------------------------------------------
Next ==
  \/ \E p \in Packet : \E f \in Fragments(p) : fragment_incoming(f)
  \/ \E i \in Slot : fragment_ttl_reap(i)

Spec == Init /\ [][Next]_vars

-----------------------------------------------------------------------------
Count(p) == Cardinality(Fragments(p))

(* What comes out is one packet, all of it: although sequence ids are used
   again after N_SEQ_ID packets and slots after N_FRAG_BUF, no fragment of an
   older packet is left where a newer one is put together. *)
NeverMixed ==
  out # Empty => \E p \in Packet :
                   out = [n \in Bit |-> IF n < Count(p) THEN p ELSE NoPacket]

(* A packet of which every fragment comes comes out, in whatever order they
   and those of its neighbours come and however often, if it is not given up:
   the ring holds all the packets that are N_FRAG_BUF - 1 or less behind. *)
WholeComesOut ==
  came = 0 .. Count(watched) - 1 /\ ~ disturbed => complete

(* The doc of optimal_fragment_size: evening out the sizes does not change
   the number of fragments; nor does it pass what the link allows. *)
OptimalKeepsCount ==
  newest = NoPacket => \A max \in 4 .. MaxSize, len \in 1 .. MaxLength : len > max =>
    LET size == optimal_fragment_size(len, max)
    IN size <= max /\ Ceil(len, size) = Ceil(len, RoundDown(max))
=============================================================================
