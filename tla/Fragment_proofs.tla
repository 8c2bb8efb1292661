---------------------------- MODULE Fragment_proofs ----------------------------
(***************************************************************************)
(* Proofs about fragments: type correctness; that evening out the sizes of *)
(* fragments does not change their number; and, on a link that reorders    *)
(* packets by less than the sequence ids allow, that what comes out is one *)
(* packet and that a packet of which all comes is not lost, for any number *)
(* of packets, of slots and of sequence ids.                               *)
(***************************************************************************)
EXTENDS Fragment, FiniteSetTheorems, TLAPS

-----------------------------------------------------------------------------
(* Division. *)
LEMMA Division ==
  ASSUME NEW a \in Int, NEW m \in Nat \ {0}
  PROVE  a \div m \in Int /\ a % m \in 0 .. m - 1 /\ a = m * (a \div m) + (a % m)
BY SMT

LEMMA ProductBelow ==
  ASSUME NEW m \in Nat \ {0}, NEW q \in Int, m * q < m, m * q > -m
  PROVE  q = 0
BY SMTT(30)

(* Numbers that differ by a multiple of m have the same remainder, and only
   those do. *)
LEMMA SameMod ==
  ASSUME NEW m \in Nat \ {0}, NEW a \in Int, NEW b \in Int, NEW q \in Int, a = b + m * q
  PROVE  a % m = b % m
<1> DEFINE i == a \div m
           j == b \div m
<1>1. i \in Int /\ a % m \in 0 .. m - 1 /\ a = m * i + (a % m)
  BY Division
<1>2. j \in Int /\ b % m \in 0 .. m - 1 /\ b = m * j + (b % m)
  BY Division
<1> HIDE DEF i, j
<1>3. m * (j + q - i) = (a % m) - (b % m)
  <2> DEFINE x == m * i
             y == m * j
             z == m * q
             w == m * (j + q - i)
  <2>1. w = y + z - x /\ x \in Int /\ y \in Int /\ z \in Int
    BY <1>1, <1>2
  <2>2. /\ a = x + (a % m) /\ b = y + (b % m) /\ a = b + z
        /\ a % m \in Int /\ b % m \in Int
    BY <1>1, <1>2
  <2> HIDE DEF x, y, z, w
  <2>3. w = (a % m) - (b % m)
    BY <2>1, <2>2
  <2> QED
    BY <2>3 DEF w
<1>4. j + q - i = 0
  BY <1>1, <1>2, <1>3, ProductBelow
<1> QED
  BY <1>1, <1>2, <1>3, <1>4

LEMMA CloseMod ==
  ASSUME NEW m \in Nat \ {0}, NEW a \in Int, NEW b \in Int, a % m = b % m,
         a - b < m, b - a < m
  PROVE  a = b
<1> DEFINE i == a \div m
           j == b \div m
<1>1. i \in Int /\ a % m \in 0 .. m - 1 /\ a = m * i + (a % m)
  BY Division
<1>2. j \in Int /\ b % m \in 0 .. m - 1 /\ b = m * j + (b % m)
  BY Division
<1> HIDE DEF i, j
<1>3. m * (i - j) = a - b
  <2>1. m * (i - j) = m * i - m * j
    BY <1>1, <1>2
  <2> QED
    BY <1>1, <1>2, <2>1
<1>4. i - j = 0
  BY <1>1, <1>2, <1>3, ProductBelow
<1> QED
  BY <1>1, <1>2, <1>3, <1>4

LEMMA ModOfSum ==
  ASSUME NEW m \in Nat \ {0}, NEW a \in Int, NEW c \in Int
  PROVE  ((a % m) + c) % m = (a + c) % m
<1> DEFINE q == a \div m
<1>1. q \in Int /\ a % m \in 0 .. m - 1 /\ a = m * q + (a % m)
  BY Division
<1> HIDE DEF q
<1>2. a + c = (a % m) + c + m * q /\ a + c \in Int /\ (a % m) + c \in Int
  BY <1>1
<1> QED
  BY <1>1, <1>2, SameMod

LEMMA ModBelow ==
  ASSUME NEW a \in Nat, NEW m \in Nat, a < m
  PROVE  a % m = a
BY SMT

-----------------------------------------------------------------------------
(* The sizes of fragments. *)
LEMMA RoundDownBounds ==
  ASSUME NEW x \in Int
  PROVE  RoundDown(x) \in Int /\ x - 3 <= RoundDown(x) /\ RoundDown(x) <= x
BY DEF RoundDown, Round

LEMMA RoundedIsMultiple ==
  ASSUME NEW x \in Int
  PROVE  \E q \in Int : RoundDown(x) = 4 * q
<1>1. x \div 4 \in Int /\ x % 4 \in 0 .. 3 /\ x = 4 * (x \div 4) + (x % 4)
  BY Division
<1>2. RoundDown(x) = 4 * (x \div 4)
  BY <1>1 DEF RoundDown, Round
<1> QED
  BY <1>1, <1>2

(* A length that needs more than d pieces of size s, but no more than d + 1. *)
LEMMA CeilIs ==
  ASSUME NEW len \in Nat, NEW s \in Nat \ {0}, NEW d \in Nat, s * d < len, len <= s * (d + 1)
  PROVE  Ceil(len, s) = d + 1
<1> DEFINE q == (len + s - 1) \div s
           r == (len + s - 1) % s
<1>1. q \in Int /\ r \in 0 .. s - 1 /\ len + s - 1 = s * q + r
  <2>1. len + s - 1 \in Int
    OBVIOUS
  <2> QED
    BY <2>1, Division
<1> HIDE DEF q, r
<1>2. s * (q - (d + 1)) = len + s - 1 - r - s * d - s /\ s * (d + 1) = s * d + s /\ s * d \in Int
  <2>1. s * (q - (d + 1)) = s * q - s * d - s
    BY <1>1
  <2> QED
    BY <1>1, <2>1
<1>3. q - (d + 1) = 0
  BY <1>1, <1>2, ProductBelow
<1> QED
  BY <1>1, <1>3 DEF Ceil, q

LEMMA OptimalSize ==
  ASSUME NEW max \in Nat, max >= 4, NEW len \in Nat, len > max
  PROVE  /\ optimal_fragment_size(len, max) \in 1 .. max
         /\ Ceil(len, optimal_fragment_size(len, max)) = Ceil(len, RoundDown(max))
<1> DEFINE aligned == RoundDown(max)
           div == len \div aligned
           mod == len % aligned
           part == (max - mod) \div (div + 1)
           size == RoundDown(max - part + Round - 1)
           result == optimal_fragment_size(len, max)
<1>1. aligned \in Nat \ {0} /\ aligned <= max
  <2>1. PICK q \in Int : aligned = 4 * q
    BY RoundedIsMultiple
  <2> QED
    BY <2>1, RoundDownBounds
<1>2. div \in Int /\ mod \in 0 .. aligned - 1 /\ len = aligned * div + mod
  <2>1. len \in Int
    OBVIOUS
  <2> HIDE DEF aligned
  <2> QED
    BY <1>1, <2>1, Division
<1>3. \/ result = aligned
      \/ div > 0 /\ mod > 0 /\ size < aligned /\ result = size
  BY DEF optimal_fragment_size
<1>4. CASE result = aligned
  BY <1>1, <1>4
<1>5. CASE div > 0 /\ mod > 0 /\ size < aligned /\ result = size
  <2> HIDE DEF aligned, div, mod, result
  <2>1. div + 1 \in Nat \ {0} /\ max - mod \in Int /\ max - mod >= 0
    BY <1>1, <1>2, <1>5
  <2> DEFINE rest == (max - mod) % (div + 1)
  <2>2. part \in Int /\ rest \in Nat /\ max - mod = (div + 1) * part + rest
    <3>1. \A x \in Int, y \in Nat \ {0} :
            x \div y \in Int /\ x % y \in Nat /\ x = y * (x \div y) + (x % y)
      BY Division
    <3> QED
      BY <2>1, <3>1
  <2> HIDE DEF rest
  <2> HIDE DEF part
  <2>3. (div + 1) * part <= max - mod /\ (div + 1) * part = part * div + part /\ part * div \in Int
    <3>1. (div + 1) * part = part * div + part /\ part * div \in Int
      BY <1>2, <2>2
    <3> QED
      BY <1>1, <1>2, <2>2, <3>1
  <2>4. size \in Int /\ max - part <= size
    BY <2>2, RoundDownBounds DEF Round
  <2> HIDE DEF size
  <2>5. size > 0
    <3>1. part < max
      <4>1. ASSUME part >= max PROVE FALSE
        <5>1. (div + 1) * part >= 2 * part
          BY <1>5, <2>1, <2>2, <1>2, <1>1, <4>1
        <5> QED
          BY <1>1, <1>2, <1>5, <2>2, <2>3, <4>1, <5>1
      <4> QED
        BY <2>2, <4>1
    <3> QED
      BY <2>2, <2>4, <3>1
  <2>6. size * div < len
    <3>1. size * div <= aligned * div
      BY <1>1, <1>2, <1>5, <2>4
    <3> QED
      BY <1>1, <1>2, <1>5, <2>4, <3>1
  <2>7. len <= size * (div + 1)
    <3>1. (max - part) * (div + 1) <= size * (div + 1)
      BY <1>2, <1>5, <2>2, <2>4
    <3>2. (max - part) * (div + 1) = max * div + max - part * div - part
      BY <1>2, <2>2
    <3>3. aligned * div <= max * div
      BY <1>1, <1>2, <1>5
    <3>4. max * div \in Int /\ aligned * div \in Int /\ size * (div + 1) \in Int
      BY <1>1, <1>2, <2>4
    <3> QED
      BY <1>1, <1>2, <2>2, <2>3, <3>1, <3>2, <3>3, <3>4
  <2>8. Ceil(len, size) = div + 1
    BY <1>2, <1>5, <2>4, <2>5, <2>6, <2>7, CeilIs
  <2>9. Ceil(len, aligned) = div + 1
    <3>1. aligned * (div + 1) = aligned * div + aligned /\ aligned * div \in Int
      BY <1>1, <1>2
    <3> QED
      BY <1>1, <1>2, <1>5, <3>1, CeilIs
  <2> QED
    BY <1>1, <1>5, <2>4, <2>5, <2>8, <2>9 DEF aligned, result
<1> QED
  BY <1>3, <1>4, <1>5

-----------------------------------------------------------------------------
(* The packets. *)
Size(p) == optimal_fragment_size(Length[p], MaxFragSize)
Parts(p) == Ceil(Length[p], Size(p))

LEMMA Numbers ==
  /\ N_FRAG_BUF \in Nat \ {0} /\ N_SEQ_ID \in Nat \ {0} /\ 2 * N_FRAG_BUF <= N_SEQ_ID
  /\ MAX_FRAGS \in Nat \ {0} /\ MaxPackets \in Nat \ {0} /\ MaxLate \in Nat /\ MaxAhead \in Nat
BY FragmentAssumption

LEMMA PartsOf ==
  ASSUME NEW p \in Packet
  PROVE  Size(p) \in Nat \ {0} /\ Parts(p) \in 1 .. MAX_FRAGS
<1> DEFINE a == RoundDown(MaxFragSize)
           len == Length[p]
           q == (len + a - 1) \div a
           r == (len + a - 1) % a
<1>1. a \in Nat \ {0}
  BY FragmentAssumption, RoundDownBounds
<1>2. len \in Nat /\ len > MaxFragSize /\ len <= a * MAX_FRAGS
  BY FragmentAssumption DEF RoundDown, Round
<1>3. Size(p) \in Nat \ {0} /\ Parts(p) = Ceil(len, a)
  BY <1>2, FragmentAssumption, OptimalSize DEF Size, Parts
<1> HIDE DEF a, len
<1>4. q \in Int /\ r \in 0 .. a - 1 /\ len + a - 1 = a * q + r
  <2>1. len + a - 1 \in Int
    BY <1>1, <1>2
  <2> QED
    BY <1>1, <2>1, Division
<1> HIDE DEF q, r
<1>5. len > 0
  BY <1>2, FragmentAssumption
<1>6. q >= 1
  BY <1>1, <1>2, <1>4, <1>5
<1>7. q <= MAX_FRAGS
  <2>1. ASSUME q >= MAX_FRAGS + 1 PROVE FALSE
    <3>1. a * q >= a * (MAX_FRAGS + 1)
      BY <1>1, <1>4, <2>1, Numbers
    <3>2. a * (MAX_FRAGS + 1) = a * MAX_FRAGS + a /\ a * MAX_FRAGS \in Int
      BY <1>1, Numbers
    <3> QED
      BY <1>1, <1>2, <1>4, <3>1, <3>2
  <2> QED
    BY <1>4, <2>1, Numbers
<1> QED
  BY <1>3, <1>4, <1>6, <1>7 DEF Ceil, q

LEMMA FragmentsOf ==
  ASSUME NEW p \in Packet, NEW f \in Fragments(p)
  PROVE  /\ f.p = p /\ f.n \in 0 .. Parts(p) - 1 /\ f.size = Size(p)
         /\ f.last <=> f.n = Parts(p) - 1
<1>1. PICK n \in 0 .. Parts(p) - 1 :
        f = [p |-> p, n |-> n, last |-> n = Parts(p) - 1, size |-> Size(p)]
  BY DEF Fragments, Size, Parts
<1> QED
  BY <1>1

LEMMA CountIs ==
  ASSUME NEW p \in Packet
  PROVE  Count(p) = Parts(p)
<1> DEFINE N == 0 .. Parts(p) - 1
           F == [n \in N |-> [p |-> p, n |-> n, last |-> n = Parts(p) - 1, size |-> Size(p)]]
<1>1. Parts(p) \in Nat \ {0}
  BY PartsOf, Numbers
<1>2. IsFiniteSet(N) /\ Cardinality(N) = Parts(p)
  BY <1>1, FS_Interval
<1>3. Fragments(p) = {F[n] : n \in N}
  BY DEF Fragments, Size, Parts
<1>4. F \in Bijection(N, Fragments(p))
  <2>1. F \in [N -> Fragments(p)]
    BY <1>3
  <2>2. \A n, m \in N : F[n] = F[m] => n = m
    OBVIOUS
  <2>3. \A f \in Fragments(p) : \E n \in N : F[n] = f
    BY <1>3
  <2> QED
    BY <2>1, <2>2, <2>3 DEF Bijection, Injection, Surjection, IsInjective
<1>5. ExistsBijection(N, Fragments(p))
  BY <1>4 DEF ExistsBijection
<1> QED
  BY <1>2, <1>5, FS_Bijection DEF Count

-----------------------------------------------------------------------------
(* Types. *)
LEMMA UndefinedType == Undefined \in Fragment
BY DEF Undefined, Fragment, Empty

LEMMA SeqIdType ==
  ASSUME TypeOK, NEW p \in Int
  PROVE  SeqId(p) \in 0 .. N_SEQ_ID - 1
<1>1. first + p \in Int
  BY DEF TypeOK
<1> QED
  BY <1>1, Numbers, Division DEF SeqId

LEMMA SlotAtType ==
  ASSUME TypeOK, NEW d \in Int
  PROVE  SlotAt(d) \in Slot
<1>1. index + d \in Int
  BY Numbers DEF TypeOK, Slot
<1> QED
  BY <1>1, Numbers, Division DEF SlotAt, Slot

LEMMA SubtractIs ==
  ASSUME NEW x \in 0 .. N_SEQ_ID - 1, NEW y \in 0 .. N_SEQ_ID - 1
  PROVE  /\ modulo_subtract(x, y) \in Int
         /\ modulo_subtract(x, y) \in {x - y, x - y + N_SEQ_ID, x - y - N_SEQ_ID}
         /\ 2 * modulo_subtract(x, y) <= N_SEQ_ID /\ -(2 * modulo_subtract(x, y)) <= N_SEQ_ID
BY Numbers DEF modulo_subtract, Abs

(* The window slides, stays where it is or begins anew: d is the difference of
   sequence ids, r what fragment_list_get_buf returns. *)
Got(id, d, r) ==
  \/ /\ d \in 1 .. N_FRAG_BUF - 1
     /\ r.slot = SlotAt(d) /\ r.index = SlotAt(d) /\ r.seq_id = id
     /\ r.fragments = Undefine(fragments, {SlotAt(e) : e \in 1 .. d})
  \/ /\ d \in -(N_FRAG_BUF - 1) .. 0
     /\ r.slot = SlotAt(d) /\ r.index = index /\ r.seq_id = seq_id
     /\ r.fragments = fragments
  \/ /\ d \notin -(N_FRAG_BUF - 1) .. 0 /\ d \notin 1 .. N_FRAG_BUF - 1
     /\ r.slot = 0 /\ r.index = 0 /\ r.seq_id = id
     /\ r.fragments = Undefine(fragments, Slot)

LEMMA GetBufIs ==
  ASSUME NEW id
  PROVE  Got(id, modulo_subtract(id, seq_id), fragment_list_get_buf(id))
BY DEF Got, fragment_list_get_buf

LEMMA GetBufType ==
  ASSUME TypeOK, NEW id \in 0 .. N_SEQ_ID - 1
  PROVE  LET r == fragment_list_get_buf(id)
         IN /\ r.slot \in Slot /\ r.index \in Slot /\ r.seq_id \in 0 .. N_SEQ_ID - 1
            /\ r.fragments \in [Slot -> Fragment]
            /\ \A i \in Slot : r.fragments[i] \in {fragments[i], Undefined}
<1> DEFINE r == fragment_list_get_buf(id)
<1>1. /\ seq_id \in 0 .. N_SEQ_ID - 1 /\ index \in Slot /\ 0 \in Slot
      /\ fragments \in [Slot -> Fragment]
  BY Numbers DEF TypeOK, Slot
<1>2. modulo_subtract(id, seq_id) \in Int
  BY <1>1, SubtractIs
<1>3. SlotAt(modulo_subtract(id, seq_id)) \in Slot
  BY <1>2, SlotAtType
<1> DEFINE d == modulo_subtract(id, seq_id)
<1>4. Got(id, d, r)
  BY GetBufIs
<1> HIDE DEF r, d
<1>5. r.slot \in Slot /\ r.index \in Slot /\ r.seq_id \in 0 .. N_SEQ_ID - 1
  BY <1>1, <1>3, <1>4 DEF d, Got
<1>6. r.fragments = fragments \/ \E S : r.fragments = Undefine(fragments, S)
  BY <1>4 DEF Got
<1>7. /\ r.fragments \in [Slot -> Fragment]
      /\ \A i \in Slot : r.fragments[i] \in {fragments[i], Undefined}
  BY <1>1, <1>6, UndefinedType DEF Undefine
<1> QED
  BY <1>5, <1>7 DEF r

LEMMA JoinedIs ==
  ASSUME NEW p \in Packet, NEW f \in Fragments(p), NEW s \in Fragment, s.map # Bit
  PROVE  LET j == Joined(s, f)
             fits == s.defined /\ s.max_frag_size = Size(p)
         IN /\ j \in Fragment /\ j.defined /\ j.max_frag_size = Size(p)
            /\ \A n \in Bit : j.buf[n] = IF n = f.n THEN p ELSE IF fits THEN s.buf[n] ELSE NoPacket
            /\ \A n \in Bit : n \in j.map <=> \/ fits /\ n \in s.map
                                              \/ n = f.n
                                              \/ n >= Parts(p) /\ f.n = Parts(p) - 1
<1>1. /\ f.p = p /\ f.n \in Bit /\ f.size = Size(p) /\ (f.last <=> f.n = Parts(p) - 1)
      /\ Size(p) \in Nat /\ Parts(p) \in Nat
  BY FragmentsOf, PartsOf, Numbers DEF Bit
<1>2. MapOf(f) \in SUBSET Bit
  BY <1>1, Numbers DEF MapOf, Bit
<1>3. \A n \in Bit : n \in MapOf(f) <=> n = f.n \/ (n >= Parts(p) /\ f.n = Parts(p) - 1)
  BY <1>1, Numbers DEF MapOf, Bit
<1> HIDE DEF Packet
<1>4. /\ s.buf \in [Bit -> Packet \cup {NoPacket}] /\ s.map \in SUBSET Bit
      /\ Empty \in [Bit -> Packet \cup {NoPacket}]
  BY DEF Fragment, Empty
<1>5. Joined(s, f) \in Fragment
  BY <1>1, <1>2, <1>4 DEF Joined, Fragment
<1>6. \A n \in Bit : Empty[n] = NoPacket
  BY DEF Empty
<1> QED
  BY <1>1, <1>3, <1>4, <1>5, <1>6 DEF Joined

LEMMA IncomingType ==
  ASSUME TypeOK, NEW p \in Packet, NEW f \in Fragments(p), fragment_incoming(f)
  PROVE  TypeOK'
<1> DEFINE ring == fragment_list_get_buf(SeqId(p))
           slot == Joined(ring.fragments[ring.slot], f)
           completes == slot.map = Bit
<1>1. f.p = p /\ f.n \in Bit
  BY FragmentsOf, PartsOf, Numbers DEF Bit
<1>2. SeqId(p) \in 0 .. N_SEQ_ID - 1
  BY SeqIdType DEF Packet
<1>3. /\ ring.slot \in Slot /\ ring.index \in Slot /\ ring.seq_id \in 0 .. N_SEQ_ID - 1
      /\ ring.fragments \in [Slot -> Fragment]
      /\ \A i \in Slot : ring.fragments[i] \in {fragments[i], Undefined}
  BY <1>2, GetBufType
<1>4. /\ seq_id' = ring.seq_id /\ index' = ring.index
      /\ fragments' = [ring.fragments EXCEPT ![ring.slot] = IF completes THEN Undefined ELSE slot]
      /\ out' = IF completes THEN slot.buf ELSE Empty
      /\ Observe(f, completes) /\ first' = first
  BY <1>1 DEF fragment_incoming
<1> HIDE DEF ring
<1>5. Undefined.map # Bit
  BY Numbers DEF Undefined, Bit
<1>6. \A i \in Slot : ring.fragments[i].map # Bit
  BY <1>3, <1>5 DEF TypeOK
<1>7. slot \in Fragment
  BY <1>3, <1>6, JoinedIs
<1>8. Empty \in [Bit -> Packet \cup {NoPacket}]
  BY DEF Empty
<1> HIDE DEF slot
<1>9. fragments' \in [Slot -> Fragment] /\ \A i \in Slot : fragments'[i].map # Bit
  <2> DEFINE s == IF completes THEN Undefined ELSE slot
  <2>1. s \in Fragment /\ s.map # Bit
    BY <1>5, <1>7, UndefinedType
  <2>2. fragments' = [ring.fragments EXCEPT ![ring.slot] = s]
    BY <1>4
  <2> HIDE DEF s
  <2> QED
    BY <1>3, <1>6, <2>1, <2>2
<1>10. out' \in [Bit -> Packet \cup {NoPacket}]
  <2>1. slot.buf \in [Bit -> Packet \cup {NoPacket}]
    BY <1>7 DEF Fragment
  <2> QED
    BY <1>4, <1>8, <2>1
<1> HIDE DEF completes
<1>11. /\ watched' \in Packet /\ came' \subseteq Bit /\ newest' \in Packet \cup {NoPacket}
       /\ disturbed' \in BOOLEAN /\ complete' \in BOOLEAN
  BY <1>1, <1>4 DEF TypeOK, Observe
<1> QED
  BY <1>3, <1>4, <1>9, <1>10, <1>11 DEF TypeOK

LEMMA ReapType ==
  ASSUME TypeOK, NEW i \in Slot, fragment_ttl_reap(i)
  PROVE  TypeOK'
<1>1. Undefined.map # Bit
  BY Numbers DEF Undefined, Bit
<1>2. fragments' \in [Slot -> Fragment] /\ \A j \in Slot : fragments'[j].map # Bit
  BY <1>1, UndefinedType DEF TypeOK, fragment_ttl_reap, Undefine
<1>3. disturbed' \in BOOLEAN
  BY DEF TypeOK, fragment_ttl_reap
<1> QED
  BY <1>2, <1>3 DEF TypeOK, fragment_ttl_reap

LEMMA TypeStep ==
  ASSUME TypeOK, [Next]_vars
  PROVE  TypeOK'
<1>1. CASE UNCHANGED vars
  BY <1>1 DEF vars, list, observed, TypeOK
<1> QED
  BY <1>1, IncomingType, ReapType DEF Next

LEMMA InitType ==
  ASSUME Init
  PROVE  TypeOK
<1>1. Undefined.map # Bit
  BY Numbers DEF Undefined, Bit
<1>2. 0 \in Slot /\ 0 \in 0 .. N_SEQ_ID - 1
  BY Numbers DEF Slot
<1>3. fragments \in [Slot -> Fragment] /\ \A i \in Slot : fragments[i].map # Bit
  BY <1>1, UndefinedType DEF Init
<1> QED
  BY <1>2, <1>3 DEF Init, TypeOK, Empty

(* The state is always within its types, for any number of slots, of sequence
   ids and of fragments, on any link; and no packet that is whole is left in
   the ring. *)
THEOREM TypeCorrect == Spec => []TypeOK
BY InitType, TypeStep, PTL DEF Spec

(* The doc of optimal_fragment_size: for every size the link allows and every
   longer packet, evening out the sizes does not change the number of
   fragments, and no fragment passes what the link allows. *)
THEOREM SizesKeepCount == Spec => []OptimalKeepsCount
<1>1. OptimalKeepsCount
  <2> SUFFICES ASSUME NEW max \in 4 .. MaxSize, NEW len \in 1 .. MaxLength, len > max
               PROVE  LET size == optimal_fragment_size(len, max)
                      IN size <= max /\ Ceil(len, size) = Ceil(len, RoundDown(max))
    BY DEF OptimalKeepsCount
  <2>1. max \in Nat /\ max >= 4 /\ len \in Nat
    BY FragmentAssumption
  <2> QED
    BY <2>1, OptimalSize
<1> QED
  BY <1>1, PTL

-----------------------------------------------------------------------------
(* The ring.  No fragment is further from another one's packet than sequence
   ids tell: N_SEQ_ID is 256 and N_FRAG_BUF 25, so packets no more than 231
   late and ahead together. *)
LinkBound == MaxLate + MaxAhead + N_FRAG_BUF <= N_SEQ_ID

(* The highest sequence id is that of packet h, which need not have come: the
   ring begins at 0, whatever the first one is.  The ring has a slot for each
   packet of its window. *)
Window(h) == h - N_FRAG_BUF + 1 .. h
At(idx, h, p) == (idx + (p - h)) % N_FRAG_BUF

(* Slot s has fragments of packet p, and nothing else. *)
Of(s, p) ==
  /\ s.max_frag_size = Size(p)
  /\ \A n \in Bit : s.buf[n] # NoPacket => s.buf[n] = p /\ n < Parts(p)
  /\ \A n \in Bit : n \in s.map => s.buf[n] = p \/ (n >= Parts(p) /\ s.buf[Parts(p) - 1] = p)
  /\ \A n \in Bit : s.buf[n] = p => n \in s.map
  /\ s.buf[Parts(p) - 1] = p => \A n \in Bit : n >= Parts(p) => n \in s.map

Contents(fs, idx, h) ==
  \A p \in Window(h) : fs[At(idx, h, p)].defined =>
    p \in Packet /\ p <= newest /\ Of(fs[At(idx, h, p)], p)

(* The watched packet is in the window, with all that has come of it. *)
Kept(h) ==
  /\ watched \in Window(h) /\ fragments[At(index, h, watched)].defined
  /\ \A n \in came : fragments[At(index, h, watched)].buf[n] = watched

Ring(h) ==
  /\ h \in Nat /\ newest - MaxLate <= h /\ h <= newest + N_FRAG_BUF - 1
  /\ seq_id = SeqId(h) /\ Contents(fragments, index, h)
  /\ ~ disturbed => h <= newest \/ h <= N_FRAG_BUF - 1
  /\ ~ disturbed /\ ~ complete /\ came # {} => Kept(h)

NotBegun == seq_id = 0 /\ (\A i \in Slot : ~ fragments[i].defined) /\ came = {}
Begun == \E h \in 0 .. newest + N_FRAG_BUF - 1 : Ring(h)

(* What is in the ring has come. *)
Seen ==
  /\ came \subseteq 0 .. Parts(watched) - 1
  /\ \A i \in Slot : fragments[i].defined =>
       \A n \in Bit : fragments[i].buf[n] = watched => n \in came

IInv == NeverMixed /\ Seen /\ (IF newest = NoPacket THEN NotBegun ELSE Begun)

LEMMA Sums ==
  ASSUME NEW a \in Int, NEW b \in Int
  PROVE  a + b \in Int /\ a - b \in Int
OBVIOUS

(* Packets of a window have slots of their own. *)
LEMMA AtDistinct ==
  ASSUME NEW idx \in Int, NEW h \in Int, NEW p \in Window(h), NEW q \in Window(h),
         At(idx, h, p) = At(idx, h, q)
  PROVE  p = q
<1>1. p \in Int /\ q \in Int /\ p - q < N_FRAG_BUF /\ q - p < N_FRAG_BUF
  BY Numbers DEF Window
<1>2. idx + (p - h) \in Int /\ idx + (q - h) \in Int
  BY <1>1
<1>3. idx + (p - h) = idx + (q - h)
  <2> DEFINE a == idx + (p - h)
             b == idx + (q - h)
  <2>1. a - b < N_FRAG_BUF /\ b - a < N_FRAG_BUF
    BY <1>1, Numbers
  <2>2. a % N_FRAG_BUF = b % N_FRAG_BUF /\ a \in Int /\ b \in Int
    BY <1>2 DEF At
  <2> HIDE DEF a, b
  <2>3. a = b
    BY <2>1, <2>2, Numbers, CloseMod
  <2> QED
    BY <2>3 DEF a, b
<1> QED
  BY <1>1, <1>3

(* A packet's slot stays where it is when the window slides. *)
LEMMA AtStays ==
  ASSUME NEW idx \in Int, NEW h \in Int, NEW g \in Int, NEW p \in Int,
         NEW idx2, idx2 = (idx + (g - h)) % N_FRAG_BUF
  PROVE  At(idx2, g, p) = At(idx, h, p)
<1> DEFINE a == idx + (g - h)
           c == p - g
<1>1. a \in Int /\ c \in Int /\ a + c = idx + (p - h)
  OBVIOUS
<1> HIDE DEF a, c
<1>2. ((a % N_FRAG_BUF) + c) % N_FRAG_BUF = (a + c) % N_FRAG_BUF
  BY <1>1, Numbers, ModOfSum
<1>3. At(idx2, g, p) = ((a % N_FRAG_BUF) + c) % N_FRAG_BUF
  BY DEF At, a, c
<1>4. At(idx, h, p) = (a + c) % N_FRAG_BUF
  BY <1>1 DEF At
<1> QED
  BY <1>2, <1>3, <1>4

LEMMA AtHead ==
  ASSUME NEW idx \in Slot, NEW h \in Int
  PROVE  At(idx, h, h) = idx
<1>1. idx + (h - h) = idx /\ idx \in Nat /\ idx < N_FRAG_BUF
  BY Numbers DEF Slot
<1> QED
  BY <1>1, Numbers, ModBelow DEF At

LEMMA AtType ==
  ASSUME NEW idx \in Int, NEW h \in Int, NEW p \in Int
  PROVE  At(idx, h, p) \in Slot
<1>1. idx + (p - h) \in Int
  OBVIOUS
<1> QED
  BY <1>1, Numbers, Division DEF At, Slot

LEMMA InWindow ==
  ASSUME NEW h \in Int, NEW p \in Int, h - N_FRAG_BUF < p, p <= h
  PROVE  p \in Window(h)
BY Numbers DEF Window

LEMMA WindowType ==
  ASSUME NEW h \in Int
  PROVE  /\ h \in Window(h)
         /\ \A p : p \in Window(h) <=> p \in Int /\ h - N_FRAG_BUF < p /\ p <= h
BY Numbers DEF Window

-----------------------------------------------------------------------------
(* Sequence ids. *)
LEMMA SmallMultiple ==
  ASSUME NEW m \in Nat \ {0}, NEW k \in Int, m * k < 2 * m, m * k > -(2 * m)
  PROVE  k \in {-1, 0, 1}
<1>1. CASE k >= 2
  <2>1. m * k >= m * 2
    BY <1>1
  <2> QED
    BY <2>1
<1>2. CASE k <= -2
  <2>1. m * k <= m * (-2)
    BY <1>2
  <2> QED
    BY <2>1
<1> QED
  BY <1>1, <1>2

LEMMA SeqIdsDiffer ==
  ASSUME TypeOK, NEW p \in Int, NEW h \in Int, p - h < N_SEQ_ID, h - p < N_SEQ_ID
  PROVE  SeqId(p) - SeqId(h) \in {p - h, p - h + N_SEQ_ID, p - h - N_SEQ_ID}
<1> DEFINE a == first + p
           b == first + h
           i == a \div N_SEQ_ID
           j == b \div N_SEQ_ID
           x == N_SEQ_ID * i
           y == N_SEQ_ID * j
           w == N_SEQ_ID * (i - j)
<1>1. a \in Int /\ b \in Int /\ a - b = p - h
  BY DEF TypeOK
<1>2. i \in Int /\ SeqId(p) \in 0 .. N_SEQ_ID - 1 /\ a = x + SeqId(p)
  BY <1>1, Numbers, Division DEF SeqId
<1>3. j \in Int /\ SeqId(h) \in 0 .. N_SEQ_ID - 1 /\ b = y + SeqId(h)
  BY <1>1, Numbers, Division DEF SeqId
<1> HIDE DEF a, b, i, j
<1>4. w = x - y /\ x \in Int /\ y \in Int
  BY <1>2, <1>3, Numbers
<1> HIDE DEF x, y
<1>5. w = (p - h) - (SeqId(p) - SeqId(h)) /\ w < 2 * N_SEQ_ID /\ w > -(2 * N_SEQ_ID)
  <2> HIDE DEF w
  <2> QED
    BY <1>1, <1>2, <1>3, <1>4, Numbers
<1>6. i - j \in {-1, 0, 1}
  BY <1>2, <1>3, <1>5, Numbers, SmallMultiple
<1>7. w \in {-N_SEQ_ID, 0, N_SEQ_ID}
  BY <1>6, Numbers
<1> HIDE DEF w
<1> QED
  BY <1>2, <1>3, <1>5, <1>7, Numbers

(* The difference of sequence ids is that of the packets, unless they are
   further apart than the window, or p is so late that it seems to be new. *)
LEMMA DiffIs ==
  ASSUME TypeOK, LinkBound, NEW p \in Int, NEW h \in Int,
         p - h <= MaxLate + MaxAhead, h - p < MaxLate + N_FRAG_BUF,
         NEW d, d = modulo_subtract(SeqId(p), SeqId(h))
  PROVE  \/ d = p - h
         \/ /\ d \in 1 .. N_FRAG_BUF - 1 /\ d = p - h + N_SEQ_ID
            /\ p \notin h - N_FRAG_BUF + 1 .. h + N_FRAG_BUF - 1
         \/ /\ d \notin 1 .. N_FRAG_BUF - 1 /\ d \notin -(N_FRAG_BUF - 1) .. 0
            /\ p \notin h - N_FRAG_BUF + 1 .. h + N_FRAG_BUF - 1
<1>1. SeqId(p) \in 0 .. N_SEQ_ID - 1 /\ SeqId(h) \in 0 .. N_SEQ_ID - 1
  BY SeqIdType
<1>2. p - h < N_SEQ_ID /\ h - p < N_SEQ_ID
  BY Numbers DEF LinkBound
<1>3. SeqId(p) - SeqId(h) \in {p - h, p - h + N_SEQ_ID, p - h - N_SEQ_ID}
  BY <1>2, SeqIdsDiffer
<1>4. /\ d \in Int /\ 2 * d <= N_SEQ_ID /\ -(2 * d) <= N_SEQ_ID
      /\ d \in {SeqId(p) - SeqId(h), SeqId(p) - SeqId(h) + N_SEQ_ID, SeqId(p) - SeqId(h) - N_SEQ_ID}
  BY <1>1, SubtractIs
<1>5. d \in {p - h, p - h + N_SEQ_ID, p - h - N_SEQ_ID}
  BY <1>1, <1>2, <1>3, <1>4, Numbers
<1>6. CASE d = p - h + N_SEQ_ID
  BY <1>2, <1>4, <1>6, Numbers DEF LinkBound
<1>7. CASE d = p - h - N_SEQ_ID
  BY <1>2, <1>4, <1>7, Numbers DEF LinkBound
<1> QED
  BY <1>5, <1>6, <1>7

(* Before the first fragment, the ring is as if some packet had begun it. *)
LEMMA SomeHead ==
  ASSUME TypeOK, NEW p \in Int, NEW d, d = modulo_subtract(SeqId(p), 0)
  PROVE  d \in Int /\ SeqId(p - d) = 0
<1> DEFINE a == first + p
           b == first + (p - d)
           i == a \div N_SEQ_ID
<1>1. a \in Int
  BY DEF TypeOK
<1>2. i \in Int /\ SeqId(p) \in 0 .. N_SEQ_ID - 1 /\ a = N_SEQ_ID * i + SeqId(p)
  BY <1>1, Numbers, Division DEF SeqId
<1>3. 0 \in 0 .. N_SEQ_ID - 1
  BY Numbers
<1>4. d \in Int /\ d \in {SeqId(p), SeqId(p) + N_SEQ_ID, SeqId(p) - N_SEQ_ID}
  BY <1>2, <1>3, SubtractIs
<1>5. b = a - d /\ b \in Int
  BY <1>4 DEF TypeOK
<1> HIDE DEF a, b, i
<1>6. \E q \in Int : b = N_SEQ_ID * q
  <2>1. /\ N_SEQ_ID * (i + 1) = N_SEQ_ID * i + N_SEQ_ID
        /\ N_SEQ_ID * (i - 1) = N_SEQ_ID * i - N_SEQ_ID
        /\ N_SEQ_ID * i \in Int
    BY <1>2, Numbers
  <2>2. b \in {N_SEQ_ID * i, N_SEQ_ID * (i + 1), N_SEQ_ID * (i - 1)}
    BY <1>2, <1>4, <1>5, <2>1, Numbers
  <2>3. i + 1 \in Int /\ i - 1 \in Int
    BY <1>2
  <2> QED
    BY <1>2, <2>2, <2>3, Zenon
<1>7. b % N_SEQ_ID = 0 % N_SEQ_ID
  <2>1. PICK q \in Int : b = N_SEQ_ID * q
    BY <1>6
  <2>2. \A x, y \in Int : x = y + N_SEQ_ID * q => x % N_SEQ_ID = y % N_SEQ_ID
    BY Numbers, SameMod
  <2>3. b = 0 + N_SEQ_ID * q
    BY <1>5, <2>1
  <2> QED
    BY <1>5, <2>2, <2>3
<1>8. 0 % N_SEQ_ID = 0
  BY Numbers, ModBelow
<1> QED
  BY <1>4, <1>7, <1>8 DEF SeqId, b

-----------------------------------------------------------------------------
(* What fragment_list_get_buf does with the ring r for packet p: packet g is
   the head then.  What is in the window came from there, and all that is in
   it still is there unless p lies outside of the window on either side. *)
Moved(h, g, p, r) ==
  /\ p \in Window(g) /\ g \in {h, p} /\ r.seq_id = SeqId(g) /\ r.slot = At(r.index, g, p)
  /\ \A q \in Window(g) : r.fragments[At(r.index, g, q)].defined =>
       q \in Window(h) /\ r.fragments[At(r.index, g, q)] = fragments[At(index, h, q)]
  /\ p \in h - N_FRAG_BUF + 1 .. h + N_FRAG_BUF - 1 =>
       /\ h <= g
       /\ \A q \in Window(h) : q \in Window(g) =>
            r.fragments[At(r.index, g, q)] = fragments[At(index, h, q)]

LEMMA UndefineIs ==
  ASSUME NEW fs, NEW S, NEW i \in Slot
  PROVE  Undefine(fs, S)[i] = IF i \in S THEN Undefined ELSE fs[i]
BY DEF Undefine

(* The slots that are emptied are those of the packets that enter the window. *)
LEMMA SlideEmpties ==
  ASSUME TypeOK, NEW h \in Int, NEW d \in 1 .. N_FRAG_BUF - 1, NEW g, g = h + d,
         NEW q \in Window(g)
  PROVE  At(index, h, q) \in {SlotAt(e) : e \in 1 .. d} <=> q > h
<1>1. /\ index \in Int /\ g \in Int /\ d \in Int
      /\ q \in Int /\ h + d - N_FRAG_BUF < q /\ q <= h + d
  <2>1. g \in Int /\ d \in Int /\ index \in Int
    BY Numbers DEF TypeOK, Slot
  <2> QED
    BY <2>1, WindowType, Numbers
<1>2. CASE q > h
  <2>1. q - h \in 1 .. d
    BY <1>1, <1>2
  <2>2. At(index, h, q) = SlotAt(q - h)
    BY DEF At, SlotAt
  <2> QED
    BY <1>2, <2>1, <2>2
<1>3. ASSUME NEW e \in 1 .. d, At(index, h, q) = SlotAt(e), q <= h
      PROVE  FALSE
  <2> DEFINE t == h + e
  <2>1. t - h = e /\ t \in Int /\ t <= h + d /\ h + d - N_FRAG_BUF < t /\ h < t
    BY <1>1, Numbers
  <2>2. At(index, h, t) = SlotAt(e)
    BY <2>1 DEF At, SlotAt
  <2>3. At(index, h, q) = At(index, h, t)
    BY <1>3, <2>2
  <2> HIDE DEF t
  <2>4. t \in Window(g)
    <3>1. g - N_FRAG_BUF < t /\ t <= g
      BY <1>1, <2>1, Numbers
    <3> QED
      BY <1>1, <2>1, <3>1, InWindow
  <2> DEFINE i == (index + (g - h)) % N_FRAG_BUF
  <2>5. At(i, g, q) = At(index, h, q) /\ At(i, g, t) = At(index, h, t)
    BY <1>1, <2>1, AtStays
  <2>6. i \in Int
    <3>1. index + (g - h) \in Int
      BY <1>1
    <3> QED
      BY <3>1, Numbers, Division
  <2> HIDE DEF i
  <2>7. q = t
    BY <1>1, <2>3, <2>4, <2>5, <2>6, AtDistinct
  <2> QED
    BY <1>1, <1>3, <2>1, <2>7
<1> QED
  BY <1>1, <1>2, <1>3

LEMMA GetBufMoves ==
  ASSUME TypeOK, NEW h \in Int, NEW p \in Int, seq_id = SeqId(h),
         NEW d, d = modulo_subtract(SeqId(p), seq_id),
         \/ d = p - h
         \/ /\ d \in 1 .. N_FRAG_BUF - 1
            /\ \A q \in Window(h) : q > h + d - N_FRAG_BUF => ~ fragments[At(index, h, q)].defined
            /\ p \notin h - N_FRAG_BUF + 1 .. h + N_FRAG_BUF - 1
         \/ /\ d \notin 1 .. N_FRAG_BUF - 1 /\ d \notin -(N_FRAG_BUF - 1) .. 0
            /\ p \notin h - N_FRAG_BUF + 1 .. h + N_FRAG_BUF - 1
  PROVE  \E g \in {h, p} : Moved(h, g, p, fragment_list_get_buf(SeqId(p)))
<1> DEFINE id == SeqId(p)
           r == fragment_list_get_buf(id)
<1>1. d \in Int /\ index \in Slot /\ index \in Int /\ 0 \in Slot
  <2>1. id \in 0 .. N_SEQ_ID - 1 /\ seq_id \in 0 .. N_SEQ_ID - 1
    BY SeqIdType DEF TypeOK
  <2>2. modulo_subtract(id, seq_id) \in Int
    BY <2>1, SubtractIs
  <2>3. index \in Slot /\ index \in Int /\ 0 \in Slot
    BY Numbers DEF TypeOK, Slot
  <2> QED
    BY <2>2, <2>3
<1>2. Got(id, d, r)
  BY GetBufIs
<1>3. ~ Undefined.defined
  BY DEF Undefined
<1> HIDE DEF r
<1>4. CASE /\ d \in -(N_FRAG_BUF - 1) .. 0
           /\ r.slot = SlotAt(d) /\ r.index = index /\ r.seq_id = seq_id
           /\ r.fragments = fragments
  <2>1. d = p - h
    BY <1>4, Numbers
  <2>2. p \in Window(h) /\ r.slot = At(index, h, p)
    BY <1>4, <2>1, WindowType, Numbers DEF SlotAt, At
  <2>3. Moved(h, h, p, r)
    BY <1>4, <2>2 DEF Moved
  <2> QED
    BY <2>3 DEF r
<1>5. CASE /\ d \in 1 .. N_FRAG_BUF - 1
           /\ r.slot = SlotAt(d) /\ r.index = SlotAt(d) /\ r.seq_id = id
           /\ r.fragments = Undefine(fragments, {SlotAt(e) : e \in 1 .. d})
  <2>1. /\ SlotAt(d) \in Slot /\ SlotAt(d) \in Int /\ p \in Window(p)
        /\ \A q \in Window(p) : At(SlotAt(d), p, q) \in Slot
    <3>1. SlotAt(d) \in Slot /\ SlotAt(d) \in Int
      BY <1>1, SlotAtType, Numbers DEF Slot
    <3> QED
      BY <3>1, WindowType, AtType
  <2>2. r.slot = At(r.index, p, p)
    BY <1>5, <2>1, AtHead
  <2>3. CASE d = p - h
    <3>1. h + d = p
      BY <1>1, <2>3
    <3>2. ASSUME NEW q \in Window(p)
          PROVE  r.fragments[At(r.index, p, q)] =
                   IF q > h THEN Undefined ELSE fragments[At(index, h, q)]
      <4>1. q \in Int
        BY WindowType
      <4>2. At(r.index, p, q) = At(index, h, q)
        <5>1. r.index = (index + (p - h)) % N_FRAG_BUF
          BY <1>5, <2>3 DEF SlotAt
        <5> QED
          BY <1>1, <3>1, <4>1, <5>1, AtStays
      <4>3. At(index, h, q) \in Slot
        BY <1>1, <4>1, AtType
      <4>4. At(index, h, q) \in {SlotAt(e) : e \in 1 .. d} <=> q > h
        BY <1>5, <3>1, SlideEmpties
      <4> QED
        BY <1>5, <4>2, <4>3, <4>4, UndefineIs
    <3>3. \A q \in Window(p) : q \in Window(h) <=> ~ (q > h)
      BY <1>1, <1>5, <3>1, WindowType, Numbers
    <3>4. h <= p
      BY <1>1, <1>5, <3>1
    <3>5. Moved(h, p, p, r)
      BY <1>3, <1>5, <2>1, <2>2, <3>2, <3>3, <3>4 DEF Moved
    <3> QED
      BY <3>5 DEF r
  <2>4. CASE /\ \A q \in Window(h) : q > h + d - N_FRAG_BUF => ~ fragments[At(index, h, q)].defined
             /\ p \notin h - N_FRAG_BUF + 1 .. h + N_FRAG_BUF - 1
    <3>1. ASSUME NEW q \in Window(p)
          PROVE  ~ r.fragments[At(r.index, p, q)].defined
      <4> DEFINE g == h + d
                 t == q + (g - p)
      <4>1. /\ t \in Int /\ q \in Int /\ g \in Int /\ t - g = q - p
            /\ h + d - N_FRAG_BUF < t /\ t <= h + d
        BY <1>1, WindowType, Numbers
      <4>2. At(r.index, p, q) = At(r.index, g, t)
        BY <4>1 DEF At
      <4>3. r.index = (index + (g - h)) % N_FRAG_BUF /\ g = h + d /\ d >= 1
        <5>1. g - h = d
          BY <1>1
        <5> HIDE DEF g
        <5> QED
          BY <1>1, <1>5, <5>1 DEF SlotAt, g
      <4> HIDE DEF t, g
      <4>4. At(r.index, g, t) = At(index, h, t) /\ At(index, h, t) \in Slot
        BY <1>1, <4>1, <4>3, AtStays, AtType
      <4>5. At(index, h, t) \in {SlotAt(e) : e \in 1 .. d} <=> t > h
        <5>1. g - N_FRAG_BUF < t /\ t <= g
          BY <1>1, <4>1, <4>3, Numbers
        <5>2. t \in Window(g)
          BY <4>1, <5>1, InWindow
        <5> QED
          BY <1>5, <4>3, <5>2, SlideEmpties
      <4>6. CASE t > h
        BY <1>3, <1>5, <4>2, <4>4, <4>5, <4>6, UndefineIs
      <4>7. CASE ~ (t > h)
        <5>1. h - N_FRAG_BUF < t /\ t <= h
          BY <1>1, <4>1, <4>3, <4>7, Numbers
        <5>2. t \in Window(h)
          BY <4>1, <5>1, InWindow
        <5>3. ~ fragments[At(index, h, t)].defined
          BY <2>4, <4>1, <5>2
        <5> QED
          BY <1>5, <4>2, <4>4, <4>5, <4>7, <5>3, UndefineIs
      <4> QED
        BY <4>6, <4>7
    <3>2. Moved(h, p, p, r)
      BY <1>5, <2>1, <2>2, <2>4, <3>1 DEF Moved
    <3> QED
      BY <3>2 DEF r
  <2> QED
    BY <1>5, <2>3, <2>4
<1>6. CASE /\ d \notin -(N_FRAG_BUF - 1) .. 0 /\ d \notin 1 .. N_FRAG_BUF - 1
           /\ r.slot = 0 /\ r.index = 0 /\ r.seq_id = id
           /\ r.fragments = Undefine(fragments, Slot)
  <2>1. p \notin h - N_FRAG_BUF + 1 .. h + N_FRAG_BUF - 1
    BY <1>1, <1>6, Numbers
  <2>2. p \in Window(p) /\ r.slot = At(r.index, p, p)
    BY <1>1, <1>6, WindowType, AtHead
  <2>3. \A q \in Window(p) : ~ r.fragments[At(r.index, p, q)].defined
    <3>1. ASSUME NEW q \in Window(p) PROVE At(0, p, q) \in Slot
      BY WindowType, AtType
    <3> QED
      BY <1>3, <1>6, <3>1, UndefineIs
  <2>4. Moved(h, p, p, r)
    BY <1>6, <2>1, <2>2, <2>3 DEF Moved
  <2> QED
    BY <2>4 DEF r
<1> QED
  BY <1>2, <1>4, <1>5, <1>6 DEF Got

(* Some packet heads the ring, if only as one that would have begun it. *)
LEMMA RingMoves ==
  ASSUME TypeOK, IInv, LinkBound, NEW p \in Packet,
         newest # NoPacket => p \in newest - MaxLate .. newest + MaxAhead
  PROVE  \E h \in Int : \E g \in {h, p} :
           /\ Contents(fragments, index, h) /\ Moved(h, g, p, fragment_list_get_buf(SeqId(p)))
           /\ newest = NoPacket => g = p \/ p \in Window(h)
           /\ newest # NoPacket => Ring(h)
<1> DEFINE d == modulo_subtract(SeqId(p), seq_id)
<1>1. p \in Int /\ newest \in Int /\ index \in Int
  BY Numbers DEF Packet, NoPacket, TypeOK, Slot
<1>2. CASE newest = NoPacket
  <2>1. seq_id = 0 /\ \A i \in Slot : ~ fragments[i].defined
    BY <1>2 DEF IInv, NotBegun
  <2>2. d \in Int /\ SeqId(p - d) = 0
    BY <1>1, <2>1, SomeHead
  <2> DEFINE h == p - d
  <2>3. h \in Int /\ d = p - h /\ seq_id = SeqId(h)
    BY <1>1, <2>1, <2>2
  <2> HIDE DEF h, d
  <2>4. \A q \in Window(h) : At(index, h, q) \in Slot
    BY <1>1, <2>3, WindowType, AtType
  <2>5. Contents(fragments, index, h)
    BY <2>1, <2>4 DEF Contents
  <2>6. \E g \in {h, p} : Moved(h, g, p, fragment_list_get_buf(SeqId(p)))
    BY <1>1, <2>3, GetBufMoves DEF d
  <2>7. \A g \in {h, p} : Moved(h, g, p, fragment_list_get_buf(SeqId(p))) =>
                          g = p \/ p \in Window(h)
    BY DEF Moved
  <2> QED
    BY <1>2, <2>3, <2>5, <2>6, <2>7
<1>3. CASE newest # NoPacket
  <2>1. PICK h \in 0 .. newest + N_FRAG_BUF - 1 : Ring(h)
    BY <1>3 DEF IInv, Begun
  <2>2. /\ h \in Int /\ seq_id = SeqId(h) /\ Contents(fragments, index, h)
        /\ newest - MaxLate <= h /\ h <= newest + N_FRAG_BUF - 1
    BY <2>1, Numbers DEF Ring
  <2>3. p - h <= MaxLate + MaxAhead /\ h - p < MaxLate + N_FRAG_BUF
    BY <1>1, <1>3, <2>2, Numbers
  <2>4. \/ d = p - h
        \/ /\ d \in 1 .. N_FRAG_BUF - 1 /\ d = p - h + N_SEQ_ID
           /\ p \notin h - N_FRAG_BUF + 1 .. h + N_FRAG_BUF - 1
        \/ /\ d \notin 1 .. N_FRAG_BUF - 1 /\ d \notin -(N_FRAG_BUF - 1) .. 0
           /\ p \notin h - N_FRAG_BUF + 1 .. h + N_FRAG_BUF - 1
    BY <1>1, <2>2, <2>3, DiffIs
  <2>5. ASSUME d \in 1 .. N_FRAG_BUF - 1, d = p - h + N_SEQ_ID,
               NEW q \in Window(h), q > h + d - N_FRAG_BUF
        PROVE  ~ fragments[At(index, h, q)].defined
    <3>1. q \in Int
      BY <2>2, WindowType
    <3>2. q > newest
      BY <1>1, <1>3, <2>2, <2>5, <3>1, Numbers DEF LinkBound
    <3>3. ~ (q <= newest)
      BY <1>1, <3>1, <3>2
    <3> QED
      BY <2>2, <3>3 DEF Contents
  <2>6. \E g \in {h, p} : Moved(h, g, p, fragment_list_get_buf(SeqId(p)))
    BY <1>1, <2>2, <2>4, <2>5, GetBufMoves
  <2> QED
    BY <1>3, <2>1, <2>2, <2>6
<1> QED
  BY <1>2, <1>3

(* A fragment joins what the slot has of its packet. *)
LEMMA JoinedOf ==
  ASSUME NEW p \in Packet, NEW f \in Fragments(p), NEW s \in Fragment, s.map # Bit,
         s.defined => Of(s, p)
  PROVE  LET j == Joined(s, f)
         IN /\ j.defined /\ Of(j, p)
            /\ \A n \in Bit : j.buf[n] = IF n = f.n THEN p
                                         ELSE IF s.defined THEN s.buf[n] ELSE NoPacket
<1> DEFINE j == Joined(s, f)
           fits == s.defined /\ s.max_frag_size = Size(p)
<1>1. /\ j \in Fragment /\ j.defined /\ j.max_frag_size = Size(p)
      /\ \A n \in Bit : j.buf[n] = IF n = f.n THEN p ELSE IF fits THEN s.buf[n] ELSE NoPacket
      /\ \A n \in Bit : n \in j.map <=> \/ fits /\ n \in s.map
                                        \/ n = f.n
                                        \/ n >= Parts(p) /\ f.n = Parts(p) - 1
  BY JoinedIs
<1>2. fits <=> s.defined
  BY DEF Of
<1>3. /\ f.n \in 0 .. Parts(p) - 1 /\ Parts(p) \in Nat /\ f.n \in Bit /\ Parts(p) - 1 \in Bit
      /\ p # NoPacket
  BY FragmentsOf, PartsOf, Numbers DEF Bit, Packet, NoPacket
<1>4. ASSUME NEW n \in Bit
      PROVE  /\ j.buf[n] = IF n = f.n THEN p ELSE IF s.defined THEN s.buf[n] ELSE NoPacket
             /\ n \in j.map <=> \/ s.defined /\ n \in s.map
                                \/ n = f.n
                                \/ n >= Parts(p) /\ f.n = Parts(p) - 1
  BY <1>1, <1>2
<1> HIDE DEF j, fits
<1>5. ASSUME NEW n \in Bit, j.buf[n] # NoPacket
      PROVE  j.buf[n] = p /\ n < Parts(p)
  <2>1. CASE n = f.n
    BY <1>3, <1>4, <2>1
  <2>2. CASE n # f.n
    BY <1>4, <1>5, <2>2 DEF Of
  <2> QED
    BY <2>1, <2>2
<1>6. ASSUME NEW n \in Bit, n \in j.map
      PROVE  j.buf[n] = p \/ (n >= Parts(p) /\ j.buf[Parts(p) - 1] = p)
  <2>1. CASE n = f.n
    BY <1>4, <2>1
  <2>2. CASE s.defined /\ n \in s.map /\ n # f.n
    <3>1. s.buf[n] = p \/ (n >= Parts(p) /\ s.buf[Parts(p) - 1] = p)
      BY <2>2 DEF Of
    <3> QED
      BY <1>3, <1>4, <2>2, <3>1
  <2>3. CASE n >= Parts(p) /\ f.n = Parts(p) - 1
    BY <1>3, <1>4, <2>3
  <2> QED
    BY <1>4, <1>6, <2>1, <2>2, <2>3
<1>7. ASSUME NEW n \in Bit, j.buf[n] = p
      PROVE  n \in j.map
  BY <1>3, <1>4, <1>7 DEF Of
<1>8. ASSUME j.buf[Parts(p) - 1] = p, NEW n \in Bit, n >= Parts(p)
      PROVE  n \in j.map
  BY <1>3, <1>4, <1>8 DEF Of
<1>9. Of(j, p)
  BY <1>1, <1>5, <1>6, <1>7, <1>8 DEF Of
<1> QED
  BY <1>1, <1>4, <1>9 DEF j

(* What fragment_incoming does: packet h headed the ring and g heads it then,
   s was in the slot and x is put there. *)
Put(p, f, h, g, s, x) ==
  LET j == Joined(s, f)
      completes == j.map = Bit
  IN /\ Moved(h, g, p, fragment_list_get_buf(SeqId(p)))
     /\ s = fragment_list_get_buf(SeqId(p)).fragments[At(index', g, p)]
     /\ s \in Fragment /\ (s.defined => Of(s, p)) /\ s \in {fragments[At(index', g, p)], Undefined}
     /\ x = IF completes THEN Undefined ELSE j
     /\ j.defined /\ Of(j, p)
     /\ \A n \in Bit : j.buf[n] = IF n = f.n THEN p ELSE IF s.defined THEN s.buf[n] ELSE NoPacket
     /\ seq_id' = SeqId(g) /\ index' = fragment_list_get_buf(SeqId(p)).index
     /\ fragments' = [fragment_list_get_buf(SeqId(p)).fragments EXCEPT ![At(index', g, p)] = x]
     /\ out' = IF completes THEN j.buf ELSE Empty
     /\ Observe(f, completes)

LEMMA IncomingPuts ==
  ASSUME TypeOK, NEW p \in Packet, NEW f \in Fragments(p), fragment_incoming(f),
         NEW h \in Int, NEW g \in {h, p}, Contents(fragments, index, h),
         Moved(h, g, p, fragment_list_get_buf(SeqId(p)))
  PROVE  \E s, x : Put(p, f, h, g, s, x)
<1> DEFINE r == fragment_list_get_buf(SeqId(p))
           s == r.fragments[r.slot]
           j == Joined(s, f)
           completes == j.map = Bit
           x == IF completes THEN Undefined ELSE j
<1>1. f.p = p
  BY FragmentsOf
<1>2. SeqId(p) \in 0 .. N_SEQ_ID - 1
  BY SeqIdType DEF Packet
<1>3. /\ r.slot \in Slot /\ r.fragments \in [Slot -> Fragment]
      /\ \A i \in Slot : r.fragments[i] \in {fragments[i], Undefined}
  BY <1>2, GetBufType
<1>4. /\ seq_id' = r.seq_id /\ index' = r.index
      /\ fragments' = [r.fragments EXCEPT ![r.slot] = x]
      /\ out' = IF completes THEN j.buf ELSE Empty
      /\ Observe(f, completes)
  BY <1>1 DEF fragment_incoming
<1>5. r.seq_id = SeqId(g) /\ r.slot = At(index', g, p) /\ p \in Window(g)
  BY <1>4 DEF Moved
<1>6. s.defined => Of(s, p)
  BY <1>4, <1>5 DEF Moved, Contents
<1>7. s \in Fragment /\ s.map # Bit
  <2>1. Undefined.map # Bit
    BY Numbers DEF Undefined, Bit
  <2> QED
    BY <1>3, <2>1 DEF TypeOK
<1> HIDE DEF r, s
<1>8. /\ j.defined /\ Of(j, p)
      /\ \A n \in Bit : j.buf[n] = IF n = f.n THEN p ELSE IF s.defined THEN s.buf[n] ELSE NoPacket
  BY <1>6, <1>7, JoinedOf
<1>9. s = r.fragments[At(index', g, p)] /\ s \in {fragments[At(index', g, p)], Undefined}
  BY <1>3, <1>5 DEF s
<1> HIDE DEF j, completes
<1>10. Put(p, f, h, g, s, x)
  BY <1>4, <1>5, <1>6, <1>7, <1>8, <1>9 DEF Put, r, j, completes
<1> QED
  BY <1>10

LEMMA PutChanges ==
  ASSUME TypeOK, NEW p \in Packet, NEW f, NEW h \in Int, NEW g \in Int, NEW s, NEW x,
         Put(p, f, h, g, s, x), index' \in Slot
  PROVE  LET r == fragment_list_get_buf(SeqId(p))
         IN /\ p \in Window(g) /\ At(index', g, p) \in Slot /\ fragments'[At(index', g, p)] = x
            /\ \A q \in Window(g) : q # p =>
                 fragments'[At(index', g, q)] = r.fragments[At(index', g, q)]
            /\ \A i \in Slot : i # At(index', g, p) => fragments'[i] \in {fragments[i], Undefined}
<1> DEFINE r == fragment_list_get_buf(SeqId(p))
<1>1. index' \in Int /\ p \in Int /\ p \in Window(g)
  BY Numbers DEF Slot, Packet, Put, Moved
<1>2. At(index', g, p) \in Slot
  BY <1>1, AtType
<1>3. SeqId(p) \in 0 .. N_SEQ_ID - 1
  BY <1>1, SeqIdType
<1>4. /\ r.fragments \in [Slot -> Fragment]
      /\ \A i \in Slot : r.fragments[i] \in {fragments[i], Undefined}
  BY <1>3, GetBufType
<1>5. fragments' = [r.fragments EXCEPT ![At(index', g, p)] = x]
  BY DEF Put
<1> HIDE DEF r
<1>6. ASSUME NEW q \in Window(g), q # p
      PROVE  fragments'[At(index', g, q)] = r.fragments[At(index', g, q)]
  <2>1. At(index', g, q) # At(index', g, p)
    BY <1>1, <1>6, AtDistinct
  <2>2. q \in Int /\ At(index', g, q) \in Slot
    BY <1>1, WindowType, AtType
  <2> QED
    BY <1>4, <1>5, <2>1, <2>2
<1> QED
  BY <1>1, <1>2, <1>4, <1>5, <1>6 DEF r

(* What comes out is one packet. *)
LEMMA PutOut ==
  ASSUME TypeOK', NEW p \in Packet, NEW f, NEW h, NEW g, NEW s, NEW x, Put(p, f, h, g, s, x)
  PROVE  NeverMixed'
<1> DEFINE j == Joined(s, f)
<1>1. CASE j.map # Bit
  <2>1. out' = Empty
    BY <1>1 DEF Put
  <2> QED
    BY <2>1 DEF NeverMixed
<1>2. CASE j.map = Bit
  <2>1. Of(j, p) /\ out' = j.buf
    BY <1>2 DEF Put
  <2>2. /\ p # NoPacket /\ Parts(p) \in Nat /\ Parts(p) - 1 \in Bit /\ ~ (Parts(p) - 1 >= Parts(p))
        /\ Bit \subseteq Int
    BY PartsOf, Numbers DEF Packet, NoPacket, Bit
  <2> HIDE DEF j
  <2>3. j.buf[Parts(p) - 1] = p
    BY <1>2, <2>1, <2>2 DEF Of
  <2>4. ASSUME NEW n \in Bit
        PROVE  out'[n] = IF n < Count(p) THEN p ELSE NoPacket
    <3>1. n < Parts(p) => j.buf[n] = p
      BY <1>2, <2>1, <2>2 DEF Of
    <3>2. ~ (n < Parts(p)) => j.buf[n] = NoPacket
      BY <2>1 DEF Of
    <3> QED
      BY <2>1, <3>1, <3>2, CountIs
  <2>5. out' \in [Bit -> Packet \cup {NoPacket}]
    BY DEF TypeOK
  <2>6. out' = [n \in Bit |-> IF n < Count(p) THEN p ELSE NoPacket]
    BY <2>4, <2>5
  <2> QED
    BY <2>6 DEF NeverMixed, Count, Fragments
<1> QED
  BY <1>1, <1>2

(* What is in the ring has come. *)
LEMMA PutSeen ==
  ASSUME TypeOK, Seen, NEW p \in Packet, NEW f \in Fragments(p), NEW h \in Int, NEW g \in Int,
         NEW s, NEW x, Put(p, f, h, g, s, x), index' \in Slot
  PROVE  Seen'
<1> DEFINE a == At(index', g, p)
<1>1. f.p = p /\ f.n \in 0 .. Parts(p) - 1 /\ watched' = watched
  BY FragmentsOf DEF Put, Observe
<1>2. came' = IF p = watched THEN came \cup {f.n} ELSE came
  BY <1>1 DEF Put, Observe
<1>3. ~ Undefined.defined /\ watched # NoPacket
  BY DEF Undefined, TypeOK, Packet, NoPacket
<1>4. ASSUME NEW i \in Slot, fragments'[i].defined, NEW n \in Bit, fragments'[i].buf[n] = watched
      PROVE  n \in came'
  <2>1. CASE i # a
    <3>1. fragments'[i] = fragments[i]
      BY <1>3, <1>4, <2>1, PutChanges
    <3> QED
      BY <1>2, <1>4, <3>1 DEF Seen
  <2>2. CASE i = a
    <3>1. fragments'[i] = x /\ a \in Slot
      BY <2>2, PutChanges
    <3>2. x = Joined(s, f)
      BY <1>3, <1>4, <3>1 DEF Put
    <3>3. watched = IF n = f.n THEN p ELSE IF s.defined THEN s.buf[n] ELSE NoPacket
      BY <1>4, <3>1, <3>2 DEF Put
    <3>4. CASE n = f.n
      BY <1>2, <3>3, <3>4
    <3>5. CASE n # f.n
      <4>1. s.defined /\ s.buf[n] = watched
        BY <1>3, <3>3, <3>5
      <4>2. s = fragments[a]
        BY <1>3, <4>1 DEF Put
      <4> QED
        BY <1>2, <3>1, <4>1, <4>2 DEF Seen
    <3> QED
      BY <3>4, <3>5
  <2> QED
    BY <2>1, <2>2
<1>5. came' \subseteq 0 .. Parts(watched) - 1
  BY <1>1, <1>2 DEF Seen
<1> QED
  BY <1>1, <1>4, <1>5 DEF Seen, Parts, Size

LEMMA PutContents ==
  ASSUME TypeOK, NEW p \in Packet, NEW f \in Fragments(p), NEW h \in Int, NEW g \in Int,
         NEW s, NEW x, Put(p, f, h, g, s, x), index' \in Slot, Contents(fragments, index, h)
  PROVE  Contents(fragments, index, g)'
<1> DEFINE r == fragment_list_get_buf(SeqId(p))
<1>1. newest' \in Int /\ p <= newest' /\ newest <= newest' /\ newest \in Int
  <2>1. f.p = p
    BY FragmentsOf
  <2> QED
    BY <2>1 DEF Put, Observe, TypeOK, Packet, NoPacket
<1>2. ASSUME NEW q \in Window(g), fragments'[At(index', g, q)].defined
      PROVE  q \in Packet /\ q <= newest' /\ Of(fragments'[At(index', g, q)], q)
  <2>1. CASE q = p
    <3>1. fragments'[At(index', g, p)] = x
      BY PutChanges
    <3>2. x = Joined(s, f)
      BY <1>2, <2>1, <3>1 DEF Put, Undefined
    <3> QED
      BY <1>1, <2>1, <3>1, <3>2 DEF Put
  <2>2. CASE q # p
    <3>1. fragments'[At(index', g, q)] = r.fragments[At(index', g, q)]
      BY <2>2, PutChanges
    <3>2. q \in Window(h) /\ r.fragments[At(index', g, q)] = fragments[At(index, h, q)]
      BY <1>2, <3>1 DEF Put, Moved
    <3>3. q \in Packet /\ q <= newest /\ Of(fragments[At(index, h, q)], q)
      BY <1>2, <3>1, <3>2 DEF Contents
    <3> QED
      BY <1>1, <3>1, <3>2, <3>3 DEF Packet
  <2> QED
    BY <2>1, <2>2
<1> QED
  BY <1>2 DEF Contents, Of, Window, At, Size, Parts

(* The watched packet is kept unless it may be given up. *)
LEMMA PutKeeps ==
  ASSUME TypeOK, Seen, NEW p \in Packet, NEW f \in Fragments(p), NEW h \in Int, NEW g \in {h, p},
         NEW s, NEW x, Put(p, f, h, g, s, x), index' \in Slot,
         newest = NoPacket => came = {},
         newest # NoPacket => Ring(h),
         ~ disturbed', ~ complete', came' # {}
  PROVE  Kept(g)'
<1> DEFINE r == fragment_list_get_buf(SeqId(p))
<1>1. /\ f.p = p /\ p \in Int /\ watched \in Int /\ g \in Int /\ p >= 0 /\ newest \in Int
      /\ watched' = watched /\ came' = IF p = watched THEN came \cup {f.n} ELSE came
  BY FragmentsOf DEF Put, Observe, TypeOK, Packet, NoPacket
<1>2. /\ ~ disturbed /\ ~ complete /\ ~ (p >= watched + N_FRAG_BUF) /\ ~ (p <= newest - N_FRAG_BUF)
      /\ p = watched => Joined(s, f).map # Bit
  BY <1>1 DEF Put, Observe
<1>3. came # {} =>
        /\ Kept(h) /\ (h <= newest \/ h <= N_FRAG_BUF - 1)
        /\ watched \in Window(h) /\ h - N_FRAG_BUF < watched /\ watched <= h
  <2>1. came # {} => Kept(h) /\ (h <= newest \/ h <= N_FRAG_BUF - 1) /\ watched \in Window(h)
    BY <1>2 DEF Ring, Kept
  <2> QED
    BY <2>1, WindowType
<1>4. came # {} => p \in h - N_FRAG_BUF + 1 .. h + N_FRAG_BUF - 1
  BY <1>1, <1>2, <1>3, Numbers
<1>5. came # {} =>
        /\ h <= g
        /\ \A q \in Window(h) : q \in Window(g) =>
             r.fragments[At(index', g, q)] = fragments[At(index, h, q)]
  BY <1>4 DEF Put, Moved
<1>6. came # {} =>
        /\ watched \in Window(g)
        /\ r.fragments[At(index', g, watched)] = fragments[At(index, h, watched)]
  <2> SUFFICES ASSUME came # {} PROVE watched \in Window(g)
    BY <1>3, <1>5
  <2>1. g - N_FRAG_BUF < watched /\ watched <= g
    BY <1>1, <1>2, <1>3, <1>5, Numbers
  <2> QED
    BY <1>1, <2>1, InWindow
<1>7. CASE p = watched
  <2>1. x = Joined(s, f) /\ fragments'[At(index', g, p)] = x /\ p \in Window(g)
    BY <1>1, <1>2, <1>7, PutChanges DEF Put
  <2>2. /\ x.defined
        /\ \A n \in Bit : x.buf[n] = IF n = f.n THEN p
                                     ELSE IF s.defined THEN s.buf[n] ELSE NoPacket
    BY <2>1 DEF Put
  <2>3. ASSUME NEW n \in came'
        PROVE  x.buf[n] = p
    <3>1. n \in Bit
      <4>1. came' \subseteq 0 .. Parts(watched) - 1
        BY <1>1, <1>7, FragmentsOf DEF Seen
      <4> QED
        BY <1>1, <4>1, PartsOf, Numbers DEF Bit, TypeOK
    <3>2. CASE n = f.n
      BY <2>2, <3>1, <3>2
    <3>3. CASE n # f.n
      <4>1. n \in came
        BY <1>1, <2>3, <3>3
      <4>2. s = fragments[At(index, h, p)]
        BY <1>6, <1>7, <4>1 DEF Put
      <4>3. s.defined /\ s.buf[n] = p
        BY <1>3, <1>7, <4>1, <4>2 DEF Kept
      <4> QED
        BY <2>2, <3>1, <3>3, <4>3
    <3> QED
      BY <3>2, <3>3
  <2> QED
    BY <1>1, <1>7, <2>1, <2>2, <2>3 DEF Kept, Window, At
<1>8. CASE p # watched
  <2>1. came # {} /\ came' = came
    BY <1>1, <1>8
  <2>2. fragments'[At(index', g, watched)] = fragments[At(index, h, watched)]
    BY <1>1, <1>6, <1>8, <2>1, PutChanges
  <2> QED
    BY <1>1, <1>3, <1>6, <2>1, <2>2 DEF Kept, Window, At
<1> QED
  BY <1>7, <1>8

LEMMA IncomingKeeps ==
  ASSUME TypeOK, TypeOK', IInv, LinkBound, NEW p \in Packet, NEW f \in Fragments(p),
         fragment_incoming(f)
  PROVE  IInv'
<1>1. f.p = p
  BY FragmentsOf
<1>2. newest # NoPacket => p \in newest - MaxLate .. newest + MaxAhead
  <2>1. newest # NoPacket => f.p \in newest - MaxLate .. newest + MaxAhead
    BY Zenon DEF fragment_incoming
  <2> QED
    BY <1>1, <2>1
<1>3. PICK h \in Int : \E g \in {h, p} :
        /\ Contents(fragments, index, h) /\ Moved(h, g, p, fragment_list_get_buf(SeqId(p)))
        /\ newest = NoPacket => g = p \/ p \in Window(h)
        /\ newest # NoPacket => Ring(h)
  BY <1>2, RingMoves
<1>4. PICK g \in {h, p} :
        /\ Contents(fragments, index, h) /\ Moved(h, g, p, fragment_list_get_buf(SeqId(p)))
        /\ newest = NoPacket => g = p \/ p \in Window(h)
        /\ newest # NoPacket => Ring(h)
  BY <1>3
<1>5. PICK s, x : Put(p, f, h, g, s, x)
  BY <1>4, IncomingPuts
<1>6. /\ index' \in Slot /\ p \in Int /\ p >= 0 /\ h \in Int /\ g \in Int /\ newest \in Int
      /\ newest # NoPacket => newest >= 0
      /\ newest' = (IF p > newest THEN p ELSE newest) /\ Seen
      /\ newest = NoPacket => came = {}
  BY <1>1, <1>5 DEF TypeOK, Packet, NoPacket, IInv, NotBegun, Put, Observe
<1>7. /\ newest' \in Int /\ newest' >= 0 /\ p <= newest' /\ newest <= newest' /\ newest' # NoPacket
  BY <1>6 DEF NoPacket
<1>8. NeverMixed'
  BY <1>5, PutOut
<1>9. Seen'
  BY <1>5, <1>6, PutSeen
<1>10. Ring(g)' /\ g \in 0 .. newest' + N_FRAG_BUF - 1
  <2>1. g \in Nat /\ newest' - MaxLate <= g /\ g <= newest' + N_FRAG_BUF - 1
    <3>1. CASE g = p
      <4>1. newest # NoPacket => p >= newest - MaxLate
        BY <1>2, <1>6, Numbers
      <4> QED
        BY <1>6, <1>7, <3>1, <4>1, Numbers
    <3>2. CASE g = h
      <4>1. CASE newest = NoPacket
        <5>1. p <= h /\ h - N_FRAG_BUF < p
          BY <1>4, <1>6, <3>2, <4>1, WindowType
        <5> QED
          BY <1>6, <1>7, <3>2, <4>1, <5>1, Numbers DEF NoPacket
      <4>2. CASE newest # NoPacket
        <5>1. h \in Nat /\ newest - MaxLate <= h /\ h <= newest + N_FRAG_BUF - 1
          BY <1>4, <4>2 DEF Ring
        <5>2. p <= h
          <6>1. p \in Window(h)
            BY <1>4, <3>2 DEF Moved
          <6> QED
            BY <1>6, <6>1, WindowType
        <5> QED
          BY <1>6, <1>7, <3>2, <5>1, <5>2, Numbers
      <4> QED
        BY <4>1, <4>2
    <3> QED
      BY <1>4, <3>1, <3>2
  <2>2. seq_id' = SeqId(g)' /\ Contents(fragments, index, g)'
    <3>1. first' = first /\ seq_id' = SeqId(g)
      BY <1>5 DEF fragment_incoming, Put
    <3> QED
      BY <1>4, <1>5, <1>6, <3>1, PutContents DEF SeqId
  <2>3. ~ disturbed' => g <= newest' \/ g <= N_FRAG_BUF - 1
    <3>1. CASE g = p
      BY <1>7, <3>1
    <3>2. CASE g = h /\ newest # NoPacket
      <4>1. ~ disturbed' => ~ disturbed
        BY <1>5 DEF Put, Observe
      <4>2. ~ disturbed' => h <= newest \/ h <= N_FRAG_BUF - 1
        BY <1>4, <3>2, <4>1 DEF Ring
      <4> QED
        BY <1>6, <1>7, <3>2, <4>2, Numbers
    <3>3. CASE g = h /\ newest = NoPacket
      <4>1. ~ disturbed' => p = 0
        BY <1>1, <1>5, <3>3 DEF Put, Observe
      <4>2. h - N_FRAG_BUF < p
        <5>1. p \in Window(h)
          BY <1>4, <3>3 DEF Moved
        <5> QED
          BY <5>1, WindowType
      <4> QED
        BY <1>6, <3>3, <4>1, <4>2, Numbers
    <3> QED
      BY <1>4, <3>1, <3>2, <3>3
  <2>4. ~ disturbed' /\ ~ complete' /\ came' # {} => Kept(g)'
    BY <1>4, <1>5, <1>6, PutKeeps
  <2>5. g \in 0 .. newest' + N_FRAG_BUF - 1
    <3> DEFINE top == newest' + N_FRAG_BUF - 1
    <3>1. top \in Int
      BY <1>7, Numbers
    <3>2. g \in Nat /\ g <= top
      BY <2>1
    <3> HIDE DEF top
    <3>3. g \in 0 .. top
      BY <3>1, <3>2
    <3> QED
      BY <3>3 DEF top
  <2> QED
    BY <2>1, <2>2, <2>3, <2>4, <2>5 DEF Ring
<1>11. Begun'
  BY <1>10 DEF Begun
<1> QED
  BY <1>7, <1>8, <1>9, <1>11 DEF IInv

(* The time to live of a slot is over. *)
LEMMA ReapKeeps ==
  ASSUME TypeOK, IInv, NEW i \in Slot, fragment_ttl_reap(i)
  PROVE  IInv'
<1>1. /\ fragments[i].defined
      /\ UNCHANGED <<first, seq_id, index, out, watched, came, newest, complete>>
      /\ \A j \in Slot : fragments'[j] = IF j = i THEN Undefined ELSE fragments[j]
      /\ disturbed' = (disturbed \/ \E n \in Bit : fragments[i].buf[n] = watched)
  BY UndefineIs DEF fragment_ttl_reap
<1>2. ~ Undefined.defined
  BY DEF Undefined
<1>3. NeverMixed' /\ Seen'
  BY <1>1, <1>2 DEF IInv, NeverMixed, Seen, Parts, Size, Count, Fragments
<1>4. newest # NoPacket
  BY <1>1 DEF IInv, NotBegun
<1>5. PICK h \in 0 .. newest + N_FRAG_BUF - 1 : Ring(h)
  BY <1>4 DEF IInv, Begun
<1>6. h \in Int /\ index \in Int /\ \A q \in Window(h) : At(index, h, q) \in Slot
  <2>1. h \in Int /\ index \in Int
    BY Numbers DEF TypeOK, Slot
  <2> QED
    BY <2>1, WindowType, AtType
<1>7. Contents(fragments, index, h)'
  <2> SUFFICES ASSUME NEW q \in Window(h), fragments'[At(index, h, q)].defined
               PROVE  q \in Packet /\ q <= newest /\ Of(fragments'[At(index, h, q)], q)
    BY <1>1 DEF Contents, Of, Window, At, Size, Parts
  <2>1. fragments'[At(index, h, q)] = fragments[At(index, h, q)]
    BY <1>1, <1>2, <1>6
  <2> QED
    BY <1>5, <2>1 DEF Ring, Contents
<1>8. ASSUME ~ disturbed', ~ complete', came' # {}
      PROVE  Kept(h)'
  <2>1. Kept(h) /\ came # {} /\ \A n \in Bit : fragments[i].buf[n] # watched
    BY <1>1, <1>5, <1>8 DEF Ring
  <2>2. came \subseteq Bit
    BY DEF TypeOK
  <2>3. At(index, h, watched) # i
    BY <2>1, <2>2 DEF Kept
  <2>4. fragments'[At(index, h, watched)] = fragments[At(index, h, watched)]
    BY <1>1, <1>6, <2>1, <2>3 DEF Kept
  <2> QED
    BY <1>1, <2>1, <2>4 DEF Kept, Window, At
<1>9. Ring(h)'
  BY <1>1, <1>5, <1>7, <1>8 DEF Ring, SeqId
<1> QED
  BY <1>1, <1>3, <1>4, <1>5, <1>9 DEF IInv, Begun

LEMMA InvStep ==
  ASSUME LinkBound, TypeOK, IInv, [Next]_vars
  PROVE  IInv'
<1>1. CASE UNCHANGED vars
  BY <1>1 DEF vars, list, observed, IInv, NeverMixed, Seen, NotBegun, Begun, Ring, Contents, Kept,
     Of, Window, At, Size, Parts, SeqId, Count, Fragments
<1>2. CASE Next
  <2>1. TypeOK'
    BY TypeStep
  <2> QED
    BY <1>2, <2>1, IncomingKeeps, ReapKeeps DEF Next
<1> QED
  BY <1>1, <1>2

LEMMA InitInv ==
  ASSUME Init
  PROVE  IInv
BY DEF Init, IInv, NeverMixed, Seen, NotBegun, Undefined

LEMMA Invariant ==
  ASSUME LinkBound
  PROVE  Spec => [](TypeOK /\ IInv)
BY InitType, TypeStep, InitInv, InvStep, PTL DEF Spec

(* What comes out is one packet, all of it, although sequence ids are used
   again after N_SEQ_ID packets and slots after N_FRAG_BUF: for any number of
   either and of packets, if a fragment that is late by as much as the link
   allows cannot be taken for one that is ahead of the window. *)
THEOREM NothingMixed ==
  ASSUME LinkBound
  PROVE  Spec => []NeverMixed
<1>1. IInv => NeverMixed
  BY DEF IInv
<1> QED
  BY <1>1, Invariant, PTL

(* Under the same bound, a packet of which every fragment comes comes out,
   in whatever order they and those of its neighbours come and however often,
   if it is not given up: nothing drives it out of the ring before. *)
THEOREM WholePacketsComeOut ==
  ASSUME LinkBound
  PROVE  Spec => []WholeComesOut
<1>1. TypeOK /\ IInv => WholeComesOut
  <2> SUFFICES ASSUME TypeOK, IInv, came = 0 .. Count(watched) - 1, ~ disturbed, ~ complete
               PROVE  FALSE
    BY DEF WholeComesOut
  <2>1. Parts(watched) \in 1 .. MAX_FRAGS /\ came = 0 .. Parts(watched) - 1 /\ watched \in Packet
    BY PartsOf, CountIs DEF TypeOK
  <2>2. /\ \A n \in Int : 0 <= n /\ n < Parts(watched) => n \in came
        /\ Parts(watched) \in Nat \ {0}
    <3>1. Parts(watched) \in Nat \ {0}
      BY <2>1, Numbers
    <3>2. ASSUME NEW n \in Int, 0 <= n, n < Parts(watched) PROVE n \in 0 .. Parts(watched) - 1
      BY <3>1, <3>2
    <3> QED
      BY <2>1, <3>1, <3>2, Zenon
  <2>3. came # {} /\ Parts(watched) - 1 \in came
    BY <2>2
  <2>4. PICK h \in Int : Ring(h)
    <3>1. newest # NoPacket
      BY <2>3 DEF IInv, NotBegun
    <3> QED
      BY <3>1 DEF IInv, Begun
  <2> DEFINE a == At(index, h, watched)
  <2>5. Kept(h) /\ Contents(fragments, index, h)
    BY <2>3, <2>4 DEF Ring
  <2>6. Of(fragments[a], watched) /\ \A n \in came : fragments[a].buf[n] = watched
    BY <2>5 DEF Kept, Contents
  <2>7. a \in Slot
    <3>1. watched \in Int /\ index \in Int
      BY Numbers DEF TypeOK, Slot, Packet
    <3> QED
      BY <3>1, AtType
  <2>8. fragments[a].map # Bit /\ fragments[a].map \subseteq Bit
    BY <2>7 DEF TypeOK, Fragment
  <2> HIDE DEF a
  <2>9. ASSUME NEW n \in Bit PROVE n \in fragments[a].map
    <3>1. n \in Int /\ 0 <= n
      BY Numbers DEF Bit
    <3>2. CASE n < Parts(watched)
      BY <2>2, <2>6, <3>1, <3>2 DEF Of
    <3>3. CASE n >= Parts(watched)
      BY <2>3, <2>6, <3>3 DEF Of
    <3> QED
      BY <2>2, <3>1, <3>2, <3>3
  <2> QED
    BY <2>8, <2>9
<1> QED
  BY <1>1, Invariant, PTL
=============================================================================
