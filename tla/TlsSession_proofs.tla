--------------------------- MODULE TlsSession_proofs ---------------------------
(***************************************************************************)
(* Proofs about the keys of a session: type correctness; that both peers   *)
(* derive a key from the same two contributions, on any link as long as no *)
(* key id is used twice and on a TCP link for any number of keys; and, on  *)
(* a TCP link, that what a peer encrypts the other one decrypts, unless    *)
(* that is a key ahead of a settling peer, and that a peer with a key to   *)
(* send with never loses it.                                               *)
(***************************************************************************)
EXTENDS TlsSession, SequenceTheorems, TLAPS

USE TlsSessionAssumption
    DEF S_ERROR, S_UNDEF, S_INITIAL, S_PRE_START, S_START, S_SENT_KEY, S_GOT_KEY, S_ACTIVE,
        NoKey

LEMMA OtherPeer ==
  ASSUME NEW p \in Peer
  PROVE  /\ Other(p) \in Peer /\ Other(p) # p /\ Other(Other(p)) = p
         /\ \A r \in Peer : r = p \/ r = Other(p)
BY DEF Peer, Other

-----------------------------------------------------------------------------
(* Key ids. *)
LEMMA Division ==
  ASSUME NEW a \in Int, NEW m \in Nat \ {0}
  PROVE  a \div m \in Int /\ a % m \in 0 .. m - 1 /\ a = m * (a \div m) + (a % m)
BY SMT

LEMMA ProductBelow ==
  ASSUME NEW m \in Nat \ {0}, NEW q \in Int, m * q < m, m * q > -m
  PROVE  q = 0
BY SMTT(30)

LEMMA ModBelow ==
  ASSUME NEW a \in Nat, NEW m \in Nat, a < m
  PROVE  a % m = a
BY SMT

LEMMA ModStep ==
  ASSUME NEW a \in Nat, NEW m \in Nat, m >= 2
  PROVE  (a + 1) % m # a % m
<1> SUFFICES ASSUME (a + 1) % m = a % m PROVE FALSE
  OBVIOUS
<1> DEFINE q == a \div m
           s == (a + 1) \div m
           r == a % m
<1>1. q \in Int /\ r \in 0 .. m - 1 /\ a = m * q + r
  BY Division
<1>2. s \in Int /\ a + 1 = m * s + r
  BY Division
<1> HIDE DEF q, r, s
<1>3. 1 = m * (s - q)
  BY <1>1, <1>2
<1>4. s - q = 0
  BY <1>1, <1>2, <1>3, ProductBelow
<1> QED
  BY <1>3, <1>4

(* Two keys of which one follows the other do not have the same id ... *)
LEMMA IdsOfNeighbours ==
  ASSUME KeyIdMask >= 2,
         NEW a \in Nat, NEW b \in Nat, a <= b + 1, b <= a + 1, key_id(a) = key_id(b)
  PROVE  a = b
<1>1. ASSUME NEW c \in Nat PROVE key_id(c) # key_id(c + 1)
  <2>1. CASE c = 0
    <3>1. (c + 1) - 1 = 0 /\ KeyIdMask \in Nat /\ 0 < KeyIdMask
      BY <2>1
    <3>2. key_id(c + 1) = 1
      BY <3>1, ModBelow DEF key_id
    <3> QED
      BY <2>1, <3>2 DEF key_id
  <2>2. CASE c # 0
    <3>1. c - 1 \in Nat /\ (c - 1) + 1 = (c + 1) - 1 /\ KeyIdMask \in Nat
      BY <2>2
    <3>2. ((c + 1) - 1) % KeyIdMask # (c - 1) % KeyIdMask
      BY <3>1, ModStep
    <3>3. (c - 1) % KeyIdMask \in Nat /\ ((c + 1) - 1) % KeyIdMask \in Nat
      BY <3>1, Division
    <3> QED
      BY <2>2, <3>2, <3>3 DEF key_id
  <2> QED
    BY <2>1, <2>2
<1>2. a = b \/ a = b + 1 \/ b = a + 1
  OBVIOUS
<1> QED
  BY <1>1, <1>2

(* ... nor have two of the keys before the ids recycle. *)
LEMMA IdsOfFirst ==
  ASSUME NEW a \in 0 .. KeyIdMask, NEW b \in 0 .. KeyIdMask, key_id(a) = key_id(b)
  PROVE  a = b
BY ModBelow DEF key_id

-----------------------------------------------------------------------------
(* Packets in flight. *)
LEMMA Appended ==
  ASSUME NEW S, NEW s \in Seq(S), NEW e \in S
  PROVE  /\ Append(s, e) \in Seq(S) /\ Len(Append(s, e)) = Len(s) + 1
         /\ \A i \in DOMAIN Append(s, e) :
              \/ i \in DOMAIN s /\ Append(s, e)[i] = s[i]
              \/ i = Len(s) + 1 /\ Append(s, e)[i] = e
         /\ \A i \in DOMAIN s : i <= Len(s)
BY AppendProperties

LEMMA WithoutElements ==
  ASSUME NEW S, NEW s \in Seq(S), NEW i \in DOMAIN s
  PROVE  /\ Without(s, i) \in Seq(S) /\ Len(Without(s, i)) = Len(s) - 1
         /\ \A j \in DOMAIN Without(s, i) :
              IF j < i THEN j \in DOMAIN s /\ Without(s, i)[j] = s[j]
                       ELSE j + 1 \in DOMAIN s /\ Without(s, i)[j] = s[j + 1]
<1> DEFINE a == SubSeq(s, 1, i - 1)
           b == SubSeq(s, i + 1, Len(s))
<1>1. i \in 1 .. Len(s) /\ Len(s) \in Nat /\ DOMAIN s = 1 .. Len(s)
  BY LenProperties
<1>2. a \in Seq(S) /\ Len(a) = i - 1 /\ \A j \in 1 .. i - 1 : a[j] = s[j]
  <2>1. \A j \in 1 .. i - 1 : s[j] \in S
    BY <1>1, ElementOfSeq
  <2>2. /\ a \in Seq(S)
        /\ Len(a) = IF 1 <= i - 1 THEN i - 1 - 1 + 1 ELSE 0
        /\ \A j \in 1 .. i - 1 - 1 + 1 : a[j] = s[1 + j - 1]
    BY <1>1, <2>1, SubSeqProperties
  <2> QED
    BY <1>1, <2>2
<1>3. b \in Seq(S) /\ Len(b) = Len(s) - i /\ \A j \in 1 .. Len(s) - i : b[j] = s[i + j]
  <2>1. \A j \in i + 1 .. Len(s) : s[j] \in S
    BY <1>1, ElementOfSeq
  <2>2. /\ b \in Seq(S)
        /\ Len(b) = IF i + 1 <= Len(s) THEN Len(s) - (i + 1) + 1 ELSE 0
        /\ \A j \in 1 .. Len(s) - (i + 1) + 1 : b[j] = s[(i + 1) + j - 1]
    BY <1>1, <2>1, SubSeqProperties
  <2> QED
    BY <1>1, <2>2
<1> HIDE DEF a, b
<1>4. /\ a \o b \in Seq(S) /\ Len(a \o b) = Len(s) - 1
      /\ \A j \in 1 .. Len(s) - 1 : (a \o b)[j] = IF j <= i - 1 THEN a[j] ELSE b[j - (i - 1)]
  <2>1. a \in Seq(S) /\ b \in Seq(S)
    BY <1>2, <1>3
  <2>2. /\ a \o b \in Seq(S) /\ Len(a \o b) = Len(a) + Len(b)
        /\ \A j \in 1 .. Len(a) + Len(b) :
             (a \o b)[j] = IF j <= Len(a) THEN a[j] ELSE b[j - Len(a)]
    BY <2>1, ConcatProperties
  <2> QED
    BY <1>1, <1>2, <1>3, <2>2
<1>5. Without(s, i) = a \o b
  BY DEF Without, a, b
<1>6. ASSUME NEW j \in 1 .. Len(s) - 1
      PROVE  IF j < i THEN j \in DOMAIN s /\ (a \o b)[j] = s[j]
                      ELSE j + 1 \in DOMAIN s /\ (a \o b)[j] = s[j + 1]
  <2>1. CASE j < i
    <3>1. j \in 1 .. i - 1 /\ j <= i - 1
      BY <1>1, <2>1
    <3> QED
      BY <1>1, <1>2, <1>4, <2>1, <3>1
  <2>2. CASE ~ (j < i)
    <3>1. j - (i - 1) \in 1 .. Len(s) - i /\ i + (j - (i - 1)) = j + 1 /\ ~ (j <= i - 1)
      BY <1>1, <2>2
    <3> QED
      BY <1>1, <1>3, <1>4, <2>2, <3>1
  <2> QED
    BY <2>1, <2>2
<1> QED
  BY <1>1, <1>4, <1>5, <1>6, LenProperties

-----------------------------------------------------------------------------
(* Keys. *)
LEMMA FreshType ==
  ASSUME NEW s \in S_ERROR .. S_ACTIVE, NEW n \in NoKey .. MaxKeys
  PROVE  Fresh(s, n) \in KeyState
BY DEF Fresh, KeyState

LEMMA UndefinedType == Undefined \in KeyState
<1>1. S_UNDEF \in S_ERROR .. S_ACTIVE /\ NoKey \in NoKey .. MaxKeys
  OBVIOUS
<1> QED
  BY <1>1, FreshType DEF Undefined

LEMMA FirstKeyType ==
  FirstKey \in KeyState /\ FirstKey.n = 0
<1>1. 0 \in NoKey .. MaxKeys /\ S_ACTIVE \in S_ERROR .. S_ACTIVE
  OBVIOUS
<1>2. Fresh(S_ACTIVE, 0) \in KeyState /\ Fresh(S_ACTIVE, 0).n = 0
  BY <1>1, FreshType DEF Fresh
<1>3. {"HARD_RESET", "KEY"} \subseteq Record
  BY DEF Record
<1> QED
  BY <1>1, <1>2, <1>3 DEF FirstKey, KeyState

LEMMA RetiredType ==
  ASSUME NEW k \in KeyState
  PROVE  /\ Retired(k) \in KeyState
         /\ Retired(k).n = k.n /\ Retired(k).state = k.state /\ Retired(k).theirs = k.theirs
         /\ Retired(k).settled = k.settled
BY DEF Retired, KeyState

LEMMA AcceptType ==
  ASSUME NEW k \in KeyState, NEW m \in Packet
  PROVE  /\ Accept(k, m) \in KeyState
         /\ Accept(k, m).n = k.n /\ Accept(k, m).state = k.state
         /\ Accept(k, m).settled = k.settled
<1>1. m.op \in Record \cup {"ACK"} /\ m.n \in 0 .. MaxKeys /\ m.acks \subseteq Record
  BY DEF Packet
<1>2. m.n \in NoKey .. MaxKeys
  BY <1>1
<1> QED
  BY <1>1, <1>2 DEF Accept, KeyState

(* What a packet that is accepted changes. *)
LEMMA AcceptChanges ==
  ASSUME NEW k \in KeyState, NEW m \in Packet, key_id(k.n) = key_id(m.n)
  PROVE  /\ Accept(k, m).out = k.out \ m.acks
         /\ Accept(k, m).in = IF m.op = "ACK" THEN k.in ELSE k.in \cup {m.op}
         /\ Accept(k, m).acks = IF m.op = "ACK" THEN k.acks ELSE k.acks \cup {m.op}
         /\ Accept(k, m).theirs = IF m.op = "KEY" THEN m.n ELSE k.theirs
BY DEF Accept, KeyState

LEMMA AcceptNothing ==
  ASSUME NEW k, NEW m, key_id(k.n) # key_id(m.n)
  PROVE  Accept(k, m) = k
BY DEF Accept

-----------------------------------------------------------------------------
(* Type correctness.  The primary key is the last one made, and packets name
   keys that have been made. *)
Latest ==
  \A p \in Peer : /\ primary[p].n = made[p] - 1
                  /\ \A i \in DOMAIN net[p] : net[p][i].n <= primary[p].n

TypeInv == TypeOK /\ Latest

LEMMA PeerTypes ==
  ASSUME TypeInv, NEW p \in Peer
  PROVE  /\ linked[p] \in BOOLEAN /\ made[p] \in 1 .. MaxKeys
         /\ primary[p] \in KeyState /\ lame[p] \in KeyState
         /\ net[p] \in Seq(Packet) /\ Len(net[p]) <= NetCapacity[p]
         /\ primary[p].n = made[p] - 1 /\ primary[p].n \in 0 .. MaxKeys - 1
         /\ \A i \in DOMAIN net[p] : net[p][i] \in Packet /\ net[p][i].n <= primary[p].n
BY DEF TypeInv, TypeOK, Latest

LEMMA KeyTypes ==
  ASSUME NEW k \in KeyState
  PROVE  /\ k.state \in S_ERROR .. S_ACTIVE /\ k.n \in NoKey .. MaxKeys
         /\ k.out \subseteq Record /\ k.in \subseteq Record /\ k.acks \subseteq Record
         /\ k.theirs \in NoKey .. MaxKeys /\ k.settled \in BOOLEAN
BY DEF KeyState

(* A step that leaves the packets alone and gives peer p a key with the same
   number. *)
LEMMA SameNumberTyped ==
  ASSUME TypeInv, NEW p \in Peer, NEW k \in KeyState, k.n = primary[p].n,
         primary' = [primary EXCEPT ![p] = k], UNCHANGED <<linked, made, lame, net>>
  PROVE  TypeInv'
<1>1. primary' \in [Peer -> KeyState]
  BY DEF TypeInv, TypeOK
<1>2. \A r \in Peer : primary'[r].n = primary[r].n
  BY DEF TypeInv, TypeOK
<1> QED
  BY <1>1, <1>2 DEF TypeInv, TypeOK, Latest

LEMMA InitTyped ==
  ASSUME Init
  PROVE  TypeInv
<1>1. /\ S_INITIAL \in S_ERROR .. S_ACTIVE /\ 0 \in NoKey .. MaxKeys
  OBVIOUS
<1>2. Fresh(S_INITIAL, 0) \in KeyState /\ Fresh(S_INITIAL, 0).n = 0
  BY <1>1, FreshType DEF Fresh
<1>3. primary \in [Peer -> KeyState] /\ \A p \in Peer : primary[p].n = 0
  BY <1>2, FirstKeyType DEF Init
<1>4. lame \in [Peer -> KeyState]
  BY UndefinedType DEF Init
<1>5. /\ net \in [Peer -> Seq(Packet)]
      /\ \A p \in Peer : Len(net[p]) = 0 /\ DOMAIN net[p] = {}
  BY EmptySeq DEF Init
<1>6. made \in [Peer -> 1 .. MaxKeys] /\ \A p \in Peer : made[p] = 1
  BY DEF Init
<1>7. linked \in [Peer -> BOOLEAN]
  BY DEF Init
<1>8. \A p \in Peer : NetCapacity[p] \in Nat
  OBVIOUS
<1> QED
  BY <1>3, <1>4, <1>5, <1>6, <1>7, <1>8 DEF TypeInv, TypeOK, Latest

(* A new key. *)
LEMMA SoftResetChanges ==
  ASSUME TypeInv, NEW p \in Peer, NEW k \in KeyState, k.n = made[p], SoftReset(p, k)
  PROVE  /\ made' \in [Peer -> 1 .. MaxKeys] /\ primary' \in [Peer -> KeyState]
         /\ lame' \in [Peer -> KeyState]
         /\ made'[p] = made[p] + 1 /\ primary'[p] = k /\ lame'[p] = Retired(primary[p])
         /\ \A r \in Peer : r # p => /\ made'[r] = made[r] /\ primary'[r] = primary[r]
                                     /\ lame'[r] = lame[r]
         /\ made[p] < MaxKeys
<1>1. /\ primary[p] \in KeyState /\ Retired(primary[p]) \in KeyState /\ made[p] \in 1 .. MaxKeys
  BY PeerTypes, RetiredType
<1>2. made[p] < MaxKeys /\ made[p] + 1 \in 1 .. MaxKeys
  BY <1>1 DEF SoftReset
<1> QED
  BY <1>1, <1>2 DEF SoftReset, TypeInv, TypeOK

LEMMA NextKeyType ==
  ASSUME TypeInv, NEW p \in Peer
  PROVE  /\ NextKey(p) \in KeyState /\ NextKey(p).n = made[p]
         /\ NextKey(p).state = S_INITIAL /\ NextKey(p).theirs = NoKey
         /\ NextKey(p).out = {} /\ NextKey(p).in = {} /\ NextKey(p).acks = {}
         /\ NextKey(p).settled = FALSE
<1>1. made[p] \in NoKey .. MaxKeys /\ S_INITIAL \in S_ERROR .. S_ACTIVE
  BY PeerTypes
<1> QED
  BY <1>1, FreshType DEF NextKey, Fresh

LEMMA SoftResetTyped ==
  ASSUME TypeInv, NEW p \in Peer, NEW k \in KeyState, k.n = made[p], SoftReset(p, k),
         linked' \in [Peer -> BOOLEAN], net' \in [Peer -> Seq(Packet)],
         \A r \in Peer : /\ Len(net'[r]) <= NetCapacity[r]
                         /\ \A i \in DOMAIN net'[r] : net'[r][i].n <= primary[r].n
  PROVE  TypeInv'
<1>1. /\ made' \in [Peer -> 1 .. MaxKeys] /\ primary' \in [Peer -> KeyState]
      /\ lame' \in [Peer -> KeyState]
      /\ made'[p] = made[p] + 1 /\ primary'[p] = k
      /\ \A r \in Peer : r # p => made'[r] = made[r] /\ primary'[r] = primary[r]
  BY SoftResetChanges
<1>2. \A r \in Peer : primary[r].n = made[r] - 1 /\ made[r] \in Nat
  BY PeerTypes
<1>3. ASSUME NEW r \in Peer
      PROVE  /\ primary'[r].n = made'[r] - 1
             /\ primary'[r].n = primary[r].n \/ primary'[r].n = primary[r].n + 1
  <2>1. CASE r = p
    <3>1. primary'[r] = k /\ made'[r] = made[r] + 1 /\ k.n = made[r]
      BY <1>1, <2>1
    <3> QED
      BY <1>2, <3>1
  <2>2. CASE r # p
    BY <1>1, <1>2, <2>2
  <2> QED
    BY <2>1, <2>2
<1>4. ASSUME NEW r \in Peer, NEW i \in DOMAIN net'[r]
      PROVE  net'[r][i].n <= primary'[r].n
  <2>1. net'[r][i].n <= primary[r].n
    OBVIOUS
  <2>2. net'[r][i] \in Packet
    <3>1. net'[r] \in Seq(Packet)
      OBVIOUS
    <3> QED
      BY <3>1, ElementOfSeq, LenProperties
  <2>3. net'[r][i].n \in Nat
    BY <2>2 DEF Packet
  <2>4. primary[r].n \in Int
    BY <1>2
  <2>5. primary'[r].n = primary[r].n \/ primary'[r].n = primary[r].n + 1
    BY <1>3
  <2> QED
    BY <2>1, <2>3, <2>4, <2>5
<1> QED
  BY <1>1, <1>3, <1>4 DEF TypeInv, TypeOK, Latest

-----------------------------------------------------------------------------
(* Peer p has sent its contribution; and it was acknowledged. *)
Contributes(p, k) ==
  k.state \in {S_SENT_KEY, S_ACTIVE} \/ (p = Client /\ k.state = S_GOT_KEY)
Sent(p, k) == Contributes(p, k) /\ "KEY" \notin k.out

(* The reset of k has been acknowledged; and the contribution sent. *)
Begun(k) == k.state # S_INITIAL /\ initial_opcode(k.n) \notin k.out
KeySent(p, k) == initial_opcode(k.n) \notin k.out /\ (k.state = S_ERROR \/ Contributes(p, k))

(* What the primary key of peer p is at any time. *)
KeyOk(p, k) ==
  /\ k.state # S_UNDEF
  /\ k.theirs \in {NoKey, k.n}
  /\ "KEY" \in k.in <=> k.theirs = k.n
  /\ k.in \subseteq {initial_opcode(k.n), "KEY"} /\ k.acks \subseteq k.in
  /\ DecryptKeyEnabled(p, k) => k.theirs = k.n
  /\ k.settled => k.state = S_ACTIVE
  /\ k.state = S_ACTIVE => "KEY" \notin k.out
  /\ k.out \subseteq {initial_opcode(k.n), "KEY"}
  /\ "KEY" \in k.out => k.state = S_ERROR \/ Contributes(p, k)
  /\ ~ linked[p] => /\ k.state \in {S_ERROR, S_INITIAL, S_PRE_START} /\ "KEY" \notin k.out
                    /\ k.state = S_PRE_START => k.out # {}

LEMMA DueSync ==
  ASSUME NEW p \in Peer, Due(p), primary[p].state \in {S_PRE_START, Completes(p)}
  PROVE  FullSync(primary[p])
BY DEF Due, Completes, AwaitsKey, SendsKey, Peer

LEMMA DueKey ==
  ASSUME NEW p \in Peer, Due(p), primary[p].state = AwaitsKey(p)
  PROVE  primary[p].in = {initial_opcode(primary[p].n), "KEY"}
BY DEF Due, Completes, AwaitsKey, SendsKey, Peer

(* A section of tls_process takes the primary key k of peer p to j. *)
GoesOn(p, k, j) ==
  /\ j \in KeyState
  /\ j.n = k.n /\ j.theirs = k.theirs /\ j.in = k.in /\ j.acks = k.acks
  /\ KeyOk(p, k) => KeyOk(p, j)
  /\ k.settled => j.settled
  /\ KeySent(p, k) => KeySent(p, j)
  /\ Begun(j) <=> Begun(k)
  /\ Sent(p, j) => Sent(p, k)
  /\ j.state = S_ACTIVE => k.state = S_ACTIVE \/ "KEY" \notin k.acks
  /\ "KEY" \in j.out => "KEY" \in k.out \/ ~ KeySent(p, k)
  /\ k.state \in {S_ACTIVE, S_ERROR} => j.state \in {S_ACTIVE, S_ERROR}
  /\ Usable(k) => Usable(j)

KeyGoesOn(p) ==
  /\ \E j : GoesOn(p, primary[p], j) /\ primary' = [primary EXCEPT ![p] = j]
  /\ UNCHANGED <<linked, made, lame, net>>

LEMMA StepGoesOn ==
  ASSUME TypeInv, NEW p \in Peer, NEW from, NEW to \in S_ERROR .. S_ACTIVE, Step(p, from, to),
         from \in S_PRE_START .. S_GOT_KEY, to \notin {S_UNDEF, S_INITIAL},
         to = S_ACTIVE => FullSync(primary[p]),
         NEW j, j = [primary[p] EXCEPT !.state = to],
         KeyOk(p, primary[p]) /\ DecryptKeyEnabled(p, j) => primary[p].theirs = primary[p].n,
         KeyOk(p, primary[p]) /\ ~ linked[p] => to = S_ERROR,
         KeyOk(p, primary[p]) /\ "KEY" \in primary[p].out => to = S_ERROR \/ Contributes(p, j),
         KeySent(p, primary[p]) => KeySent(p, j),
         Sent(p, j) => Sent(p, primary[p])
  PROVE  KeyGoesOn(p)
<1> DEFINE k == primary[p]
<1>1. k \in KeyState /\ primary \in [Peer -> KeyState]
  BY PeerTypes DEF TypeInv, TypeOK
<1>2. /\ k.state = from /\ primary' = [primary EXCEPT ![p] = j]
      /\ UNCHANGED <<linked, made, lame, net>>
  BY <1>1 DEF Step
<1>3. /\ j \in KeyState /\ j.state = to
      /\ j.n = k.n /\ j.theirs = k.theirs /\ j.in = k.in /\ j.acks = k.acks /\ j.out = k.out
      /\ j.settled = k.settled
  BY <1>1 DEF KeyState
<1>4. /\ KeyOk(p, k) /\ DecryptKeyEnabled(p, j) => k.theirs = k.n
      /\ KeyOk(p, k) /\ ~ linked[p] => to = S_ERROR
      /\ KeyOk(p, k) /\ "KEY" \in k.out => to = S_ERROR \/ Contributes(p, j)
      /\ KeySent(p, k) => KeySent(p, j)
      /\ Sent(p, j) => Sent(p, k)
      /\ to = S_ACTIVE => k.out = {} /\ k.acks = {}
  BY DEF FullSync
<1> HIDE DEF k
<1>5. KeyOk(p, k) => KeyOk(p, j)
  <2>1. SUFFICES ASSUME KeyOk(p, k) PROVE KeyOk(p, j)
    OBVIOUS
  <2>2. k.settled = FALSE
    BY <1>1, <1>2, <2>1, KeyTypes DEF KeyOk
  <2>3. ~ linked[p] => j.state = S_ERROR /\ "KEY" \notin j.out
    BY <1>3, <1>4, <2>1 DEF KeyOk
  <2> QED
    BY <1>2, <1>3, <1>4, <2>1, <2>2, <2>3 DEF KeyOk
<1>6. Begun(j) <=> Begun(k)
  BY <1>2, <1>3 DEF Begun
<1>7. ~ Usable(k) /\ k.state \notin {S_ACTIVE, S_ERROR}
  BY <1>2 DEF Usable
<1>8. GoesOn(p, k, j)
  BY <1>3, <1>4, <1>5, <1>6, <1>7 DEF GoesOn
<1> QED
  BY <1>2, <1>8 DEF KeyGoesOn, k

LEMMA HandshakeTimeoutGoesOn ==
  ASSUME TypeInv, NEW p \in Peer, HandshakeTimeout(p)
  PROVE  KeyGoesOn(p)
<1>1. PICK s \in S_PRE_START .. S_GOT_KEY : Step(p, s, S_ERROR)
  BY DEF HandshakeTimeout
<1> DEFINE j == [primary[p] EXCEPT !.state = S_ERROR]
<1>2. primary[p] \in KeyState
  BY PeerTypes
<1>3. j.state = S_ERROR /\ j.out = primary[p].out /\ j.n = primary[p].n
  BY <1>2 DEF KeyState
<1>4. ~ DecryptKeyEnabled(p, j) /\ ~ Sent(p, j) /\ (KeySent(p, primary[p]) => KeySent(p, j))
  BY <1>3 DEF DecryptKeyEnabled, Sent, Contributes, KeySent
<1>5. /\ S_ERROR \in S_ERROR .. S_ACTIVE /\ S_ERROR \notin {S_UNDEF, S_INITIAL}
      /\ S_ERROR = S_ACTIVE => FullSync(primary[p])
  OBVIOUS
<1> QED
  BY <1>1, <1>4, <1>5, StepGoesOn

LEMMA ReceivedInitialAckGoesOn ==
  ASSUME TypeInv, NEW p \in Peer, ReceivedInitialAck(p)
  PROVE  KeyGoesOn(p)
<1> DEFINE k == primary[p]
           j == [k EXCEPT !.state = S_START]
<1>1. Step(p, S_PRE_START, S_START) /\ Due(p)
  BY DEF ReceivedInitialAck
<1>2. k \in KeyState /\ k.state = S_PRE_START
  BY <1>1, PeerTypes DEF Step
<1>3. j.state = S_START
  BY <1>2 DEF KeyState
<1>4. k.out = {}
  BY <1>1, <1>2, DueSync DEF FullSync
<1>5. ~ DecryptKeyEnabled(p, j) /\ ~ Sent(p, j) /\ ~ KeySent(p, k)
  BY <1>2, <1>3 DEF DecryptKeyEnabled, Sent, Contributes, KeySent
<1>6. /\ KeyOk(p, k) /\ ~ linked[p] => FALSE
      /\ "KEY" \notin k.out
  BY <1>2, <1>4 DEF KeyOk
<1>7. /\ S_START \in S_ERROR .. S_ACTIVE /\ S_START \notin {S_UNDEF, S_INITIAL}
      /\ S_PRE_START \in S_PRE_START .. S_GOT_KEY
      /\ S_START = S_ACTIVE => FullSync(k)
  OBVIOUS
<1> QED
  BY <1>1, <1>5, <1>6, <1>7, StepGoesOn

LEMMA EstablishedGoesOn ==
  ASSUME TypeInv, NEW p \in Peer, Established(p)
  PROVE  KeyGoesOn(p)
<1> DEFINE from == Completes(p)
           k == primary[p]
           j == [k EXCEPT !.state = S_ACTIVE]
<1>1. Step(p, from, S_ACTIVE) /\ Due(p)
  BY DEF Established
<1>2. k \in KeyState /\ k.state = from
  BY <1>1, PeerTypes DEF Step
<1>3. j.state = S_ACTIVE /\ j.out = k.out /\ j.n = k.n
  BY <1>2 DEF KeyState
<1>4. FullSync(k)
  BY <1>1, <1>2, DueSync
<1>5. KeyOk(p, k) => k.theirs = k.n
  BY <1>2 DEF KeyOk, DecryptKeyEnabled, Completes
<1>6. Sent(p, j) => Sent(p, k)
  BY <1>2, <1>3 DEF Sent, Contributes, Completes, Peer
<1>7. KeySent(p, k) => KeySent(p, j)
  BY <1>3 DEF KeySent, Contributes
<1>8. (KeyOk(p, k) /\ ~ linked[p] => FALSE) /\ "KEY" \notin k.out
  BY <1>2, <1>4 DEF KeyOk, Completes, FullSync
<1>9. /\ S_ACTIVE \in S_ERROR .. S_ACTIVE /\ S_ACTIVE \notin {S_UNDEF, S_INITIAL}
      /\ from \in S_PRE_START .. S_GOT_KEY
  BY DEF Completes
<1> HIDE DEF from
<1> QED
  BY <1>1, <1>4, <1>5, <1>6, <1>7, <1>8, <1>9, StepGoesOn

LEMMA ReceiveKeyGoesOn ==
  ASSUME TypeInv, NEW p \in Peer, ReceiveKey(p)
  PROVE  KeyGoesOn(p)
<1> DEFINE from == AwaitsKey(p)
           k == primary[p]
           j == [k EXCEPT !.state = S_GOT_KEY]
<1>1. Step(p, from, S_GOT_KEY) /\ Due(p)
  BY DEF ReceiveKey
<1>2. k \in KeyState /\ k.state = from
  BY <1>1, PeerTypes DEF Step
<1>3. j.state = S_GOT_KEY /\ j.out = k.out /\ j.n = k.n
  BY <1>2 DEF KeyState
<1>4. "KEY" \in k.in
  BY <1>1, <1>2, DueKey
<1>5. KeyOk(p, k) => k.theirs = k.n
  BY <1>4 DEF KeyOk
<1>6. Sent(p, j) => Sent(p, k)
  BY <1>2, <1>3 DEF Sent, Contributes, AwaitsKey, Peer
<1>7. KeySent(p, k) => KeySent(p, j)
  BY <1>2, <1>3 DEF KeySent, Contributes, AwaitsKey, Peer
<1>8. /\ KeyOk(p, k) /\ ~ linked[p] => FALSE
      /\ KeyOk(p, k) /\ "KEY" \in k.out => Contributes(p, j)
  BY <1>2, <1>3 DEF KeyOk, AwaitsKey, Contributes, Peer
<1>9. /\ S_GOT_KEY \in S_ERROR .. S_ACTIVE /\ S_GOT_KEY \notin {S_UNDEF, S_INITIAL}
      /\ S_GOT_KEY = S_ACTIVE => FullSync(k)
      /\ from \in S_PRE_START .. S_GOT_KEY
  BY DEF AwaitsKey
<1> HIDE DEF from
<1> QED
  BY <1>1, <1>5, <1>6, <1>7, <1>8, <1>9, StepGoesOn

LEMMA InitialHandshakeGoesOn ==
  ASSUME TypeInv, NEW p \in Peer, InitialHandshake(p)
  PROVE  KeyGoesOn(p)
<1> DEFINE k == primary[p]
           j == [k EXCEPT !.state = S_PRE_START, !.out = {initial_opcode(k.n)}]
<1>1. k \in KeyState /\ primary \in [Peer -> KeyState]
  BY PeerTypes DEF TypeInv, TypeOK
<1>2. /\ k.state = S_INITIAL /\ primary' = [primary EXCEPT ![p] = j]
      /\ UNCHANGED <<linked, made, lame, net>>
  BY <1>1 DEF InitialHandshake
<1>3. {initial_opcode(k.n)} \subseteq Record /\ S_PRE_START \in S_ERROR .. S_ACTIVE
      /\ "KEY" # initial_opcode(k.n)
  BY DEF initial_opcode, Record
<1>4. /\ j \in KeyState /\ j.state = S_PRE_START /\ j.out = {initial_opcode(k.n)}
      /\ j.n = k.n /\ j.theirs = k.theirs /\ j.in = k.in /\ j.acks = k.acks
      /\ j.settled = k.settled
  BY <1>1, <1>3 DEF KeyState
<1> HIDE DEF k, j
<1>5. KeyOk(p, k) => KeyOk(p, j)
  BY <1>2, <1>3, <1>4 DEF KeyOk, DecryptKeyEnabled
<1>6. ~ Begun(k) /\ ~ Begun(j) /\ ~ Sent(p, j) /\ ~ KeySent(p, k) /\ ~ Usable(k)
  BY <1>2, <1>4 DEF Begun, Sent, KeySent, Contributes, Usable
<1>7. j.state # S_ACTIVE /\ "KEY" \notin j.out /\ k.state \notin {S_ACTIVE, S_ERROR}
  BY <1>2, <1>3, <1>4
<1>8. GoesOn(p, k, j)
  BY <1>4, <1>5, <1>6, <1>7 DEF GoesOn
<1> QED
  BY <1>2, <1>8 DEF KeyGoesOn, k

LEMMA SendKeyGoesOn ==
  ASSUME TypeInv, NEW p \in Peer, SendKey(p)
  PROVE  KeyGoesOn(p)
<1> DEFINE k == primary[p]
           j == [k EXCEPT !.state = S_SENT_KEY, !.out = k.out \cup {"KEY"}]
<1>1. k \in KeyState /\ primary \in [Peer -> KeyState]
  BY PeerTypes DEF TypeInv, TypeOK
<1>2. /\ k.state = SendsKey(p)
      /\ primary' = [primary EXCEPT ![p] = j] /\ UNCHANGED <<linked, made, lame, net>>
  BY <1>1 DEF SendKey
<1>3. k.out \cup {"KEY"} \subseteq Record /\ S_SENT_KEY \in S_ERROR .. S_ACTIVE
  BY <1>1 DEF KeyState, Record
<1>4. /\ j \in KeyState /\ j.state = S_SENT_KEY /\ j.out = k.out \cup {"KEY"}
      /\ j.n = k.n /\ j.theirs = k.theirs /\ j.in = k.in /\ j.acks = k.acks
      /\ j.settled = k.settled
  BY <1>1, <1>3 DEF KeyState
<1> HIDE DEF k, j
<1>5. KeyOk(p, k) => KeyOk(p, j)
  BY <1>2, <1>4 DEF KeyOk, DecryptKeyEnabled, SendsKey, Contributes
<1>6. ~ Sent(p, j) /\ ~ Usable(k) /\ ~ KeySent(p, k) /\ k.state \notin {S_ACTIVE, S_ERROR}
  BY <1>2, <1>4 DEF Sent, Usable, KeySent, Contributes, SendsKey, Peer
<1>7. Begun(k) <=> Begun(j)
  BY <1>2, <1>4 DEF Begun, initial_opcode, SendsKey
<1>8. j.state # S_ACTIVE
  BY <1>4
<1>9. GoesOn(p, k, j)
  BY <1>4, <1>5, <1>6, <1>7, <1>8 DEF GoesOn
<1> QED
  BY <1>2, <1>9 DEF KeyGoesOn, k

LEMMA SettleGoesOn ==
  ASSUME TypeInv, NEW p \in Peer, Settle(p)
  PROVE  KeyGoesOn(p)
<1> DEFINE k == primary[p]
           j == [k EXCEPT !.settled = TRUE]
<1>1. k \in KeyState /\ primary \in [Peer -> KeyState]
  BY PeerTypes DEF TypeInv, TypeOK
<1>2. /\ k.state = S_ACTIVE
      /\ primary' = [primary EXCEPT ![p] = j] /\ UNCHANGED <<linked, made, lame, net>>
  BY <1>1, KeyTypes DEF Settle, Usable
<1>3. /\ j \in KeyState /\ j.settled = TRUE
      /\ j.n = k.n /\ j.theirs = k.theirs /\ j.in = k.in /\ j.acks = k.acks /\ j.out = k.out
      /\ j.state = k.state
  BY <1>1 DEF KeyState
<1> HIDE DEF k, j
<1>4. KeyOk(p, k) => KeyOk(p, j)
  BY <1>2, <1>3 DEF KeyOk, DecryptKeyEnabled, Contributes
<1>5. /\ Begun(k) <=> Begun(j)
      /\ Sent(p, j) => Sent(p, k)
      /\ KeySent(p, k) => KeySent(p, j)
      /\ Usable(k) => Usable(j)
  BY <1>3 DEF Begun, Sent, KeySent, Contributes, Usable
<1>6. GoesOn(p, k, j)
  BY <1>2, <1>3, <1>4, <1>5 DEF GoesOn
<1> QED
  BY <1>2, <1>6 DEF KeyGoesOn, k

LEMMA HandshakeGoesOn ==
  ASSUME TypeInv, NEW p \in Peer, HandshakeTimeout(p) \/ Settle(p) \/ Handshake(p)
  PROVE  KeyGoesOn(p)
BY HandshakeTimeoutGoesOn, SettleGoesOn, InitialHandshakeGoesOn, ReceivedInitialAckGoesOn,
   EstablishedGoesOn, SendKeyGoesOn, ReceiveKeyGoesOn DEF Handshake

(* Packet m of peer p is on its way; what it acknowledges is acknowledged. *)
Quiet(k) == [k EXCEPT !.acks = {}]

Sends(p, m) ==
  /\ m \in Packet /\ m.n = primary[p].n /\ m.acks = primary[p].acks
  /\ \/ m.op = "ACK"
     \/ /\ m.op \in primary[p].out /\ primary[p].state > S_INITIAL
        /\ m.op = "KEY" => initial_opcode(m.n) \notin primary[p].out
  /\ Transmit(p, m)
  /\ primary' = [primary EXCEPT ![p] = Quiet(primary[p])]
  /\ UNCHANGED <<linked, made, lame>>

LEMMA SendSends ==
  ASSUME TypeInv, NEW p \in Peer, SendReliable(p) \/ SendAck(p)
  PROVE  \E m : Sends(p, m)
<1> DEFINE k == primary[p]
           Of(op) == [op |-> op, n |-> k.n, acks |-> k.acks]
<1>1. /\ k \in KeyState /\ k.n \in 0 .. MaxKeys /\ k.out \subseteq Record /\ k.acks \subseteq Record
      /\ primary \in [Peer -> KeyState]
  BY PeerTypes, KeyTypes DEF TypeInv, TypeOK
<1>2. \A op \in Record \cup {"ACK"} : Of(op) \in Packet
  BY <1>1 DEF Packet
<1>3. CASE SendAck(p)
  <2>1. /\ Transmit(p, Of("ACK")) /\ UNCHANGED <<linked, made, lame>>
        /\ primary' = [primary EXCEPT ![p] = Quiet(k)]
    BY <1>1, <1>3 DEF SendAck, Quiet
  <2> QED
    BY <1>2, <2>1 DEF Sends
<1>4. CASE SendReliable(p)
  <2>1. PICK op \in k.out : /\ op = "KEY" => k.out = {"KEY"}
                            /\ Transmit(p, Of(op))
    BY <1>4 DEF SendReliable
  <2>2. /\ UNCHANGED <<linked, made, lame>> /\ k.state > S_INITIAL
        /\ primary' = [primary EXCEPT ![p] = Quiet(k)]
    BY <1>1, <1>4 DEF SendReliable, Quiet
  <2>3. Of(op) \in Packet
    BY <1>1, <1>2, <2>1
  <2>4. op = "KEY" => initial_opcode(k.n) \notin k.out
    BY <2>1 DEF initial_opcode
  <2>5. k.state > S_INITIAL
    BY <2>2
  <2>6. Of(op).op = op /\ Of(op).n = k.n /\ Of(op).acks = k.acks
    OBVIOUS
  <2> HIDE DEF Of
  <2> QED
    BY <2>1, <2>2, <2>3, <2>4, <2>5, <2>6 DEF Sends
<1> QED
  BY <1>3, <1>4

LEMMA QuietType ==
  ASSUME NEW k \in KeyState
  PROVE  /\ Quiet(k) \in KeyState
         /\ Quiet(k).n = k.n /\ Quiet(k).theirs = k.theirs /\ Quiet(k).in = k.in
         /\ Quiet(k).out = k.out /\ Quiet(k).acks = {} /\ Quiet(k).state = k.state
         /\ Quiet(k).settled = k.settled
BY DEF Quiet, KeyState

LEMMA SendsChanges ==
  ASSUME TypeInv, NEW p \in Peer, NEW m, Sends(p, m)
  PROVE  /\ net' \in [Peer -> Seq(Packet)] /\ primary' \in [Peer -> KeyState]
         /\ net'[p] = Append(net[p], m) /\ net'[Other(p)] = net[Other(p)]
         /\ Len(net'[p]) <= NetCapacity[p]
         /\ primary'[p] = Quiet(primary[p]) /\ primary'[Other(p)] = primary[Other(p)]
<1>1. /\ primary[p] \in KeyState /\ Quiet(primary[p]) \in KeyState
      /\ net[p] \in Seq(Packet) /\ Len(net[p]) \in Nat /\ NetCapacity[p] \in Nat
  BY PeerTypes, QuietType, LenProperties
<1>2. Append(net[p], m) \in Seq(Packet) /\ Len(Append(net[p], m)) = Len(net[p]) + 1
  BY <1>1, Appended DEF Sends
<1>3. Other(p) \in Peer /\ Other(p) # p
  BY OtherPeer
<1>4. /\ net \in [Peer -> Seq(Packet)] /\ primary \in [Peer -> KeyState]
      /\ net' = [net EXCEPT ![p] = Append(net[p], m)] /\ Len(net[p]) < NetCapacity[p]
      /\ primary' = [primary EXCEPT ![p] = Quiet(primary[p])]
  BY DEF Sends, Transmit, TypeInv, TypeOK
<1> QED
  BY <1>1, <1>2, <1>3, <1>4

LEMMA SendsTyped ==
  ASSUME TypeInv, NEW p \in Peer, NEW m, Sends(p, m)
  PROVE  TypeInv'
<1>1. /\ net' \in [Peer -> Seq(Packet)] /\ primary' \in [Peer -> KeyState]
      /\ net'[p] = Append(net[p], m) /\ net'[Other(p)] = net[Other(p)]
      /\ Len(net'[p]) <= NetCapacity[p]
      /\ primary'[p] = Quiet(primary[p]) /\ primary'[Other(p)] = primary[Other(p)]
  BY SendsChanges
<1>2. /\ primary[p] \in KeyState /\ net[p] \in Seq(Packet) /\ m \in Packet
      /\ m.n = primary[p].n /\ UNCHANGED <<linked, made, lame>>
  BY PeerTypes DEF Sends
<1>3. \A r \in Peer : r = p \/ r = Other(p)
  BY OtherPeer
<1>4. \A r \in Peer : primary'[r].n = primary[r].n
  <2>1. Quiet(primary[p]).n = primary[p].n
    BY <1>2, QuietType
  <2> QED
    BY <1>1, <1>3, <2>1
<1>5. \A r \in Peer : Len(net'[r]) <= NetCapacity[r]
  BY <1>1, <1>3, PeerTypes
<1>6. \A i \in DOMAIN net'[p] : net'[p][i].n <= primary[p].n
  <2>1. \A i \in DOMAIN net'[p] : \/ i \in DOMAIN net[p] /\ net'[p][i] = net[p][i]
                                  \/ net'[p][i] = m
    BY <1>1, <1>2, Appended
  <2>2. primary[p].n \in Nat
    BY PeerTypes
  <2> QED
    BY <1>2, <2>1, <2>2, PeerTypes
<1>7. \A r \in Peer : \A i \in DOMAIN net'[r] : net'[r][i].n <= primary'[r].n
  BY <1>1, <1>3, <1>4, <1>6, PeerTypes
<1>8. \A r \in Peer : primary'[r].n = made'[r] - 1
  BY <1>2, <1>4, PeerTypes
<1> QED
  BY <1>1, <1>2, <1>5, <1>7, <1>8 DEF TypeInv, TypeOK, Latest

-----------------------------------------------------------------------------
(* What tls_pre_decrypt does with packet m: nothing, or something to the
   primary key, or a new one. *)
Processed(p, m) ==
  /\ linked' \in [Peer -> BOOLEAN] /\ \A r \in Peer : linked[r] => linked'[r]
  /\ \A r \in Peer : r # p => linked'[r] = linked[r]
  /\ primary[p].state # S_ERROR
  /\ \/ ~ linked[p] /\ UNCHANGED <<made, primary, lame>>
     \/ /\ primary' = [primary EXCEPT ![p] = Accept(primary[p], m)]
        /\ linked'[p] /\ UNCHANGED <<made, lame>>
     \/ RequestsReset(p, m) /\ SoftReset(p, Accept(NextKey(p), m))

LEMMA ProcessProcesses ==
  ASSUME TypeInv, NEW p \in Peer, NEW m, Process(p, m)
  PROVE  Processed(p, m)
<1>1. linked \in [Peer -> BOOLEAN]
  BY DEF TypeInv, TypeOK
<1> QED
  BY <1>1 DEF Process, Processed

LEMMA ProcessedTyped ==
  ASSUME TypeInv, NEW p \in Peer, NEW m \in Packet, Processed(p, m),
         net' \in [Peer -> Seq(Packet)],
         \A r \in Peer : /\ Len(net'[r]) <= NetCapacity[r]
                         /\ \A i \in DOMAIN net'[r] : net'[r][i].n <= primary[r].n
  PROVE  TypeInv'
<1>1. linked' \in [Peer -> BOOLEAN]
  BY DEF Processed
<1>2. CASE UNCHANGED <<made, primary, lame>>
  BY <1>1, <1>2 DEF TypeInv, TypeOK, Latest
<1>3. CASE primary' = [primary EXCEPT ![p] = Accept(primary[p], m)] /\ UNCHANGED <<made, lame>>
  <2>1. /\ primary[p] \in KeyState /\ primary \in [Peer -> KeyState]
        /\ Accept(primary[p], m) \in KeyState /\ Accept(primary[p], m).n = primary[p].n
    BY PeerTypes, AcceptType DEF TypeInv, TypeOK
  <2>2. primary' \in [Peer -> KeyState] /\ \A r \in Peer : primary'[r].n = primary[r].n
    BY <1>3, <2>1
  <2> QED
    BY <1>1, <1>3, <2>2 DEF TypeInv, TypeOK, Latest
<1>4. CASE SoftReset(p, Accept(NextKey(p), m))
  <2>1. Accept(NextKey(p), m) \in KeyState /\ Accept(NextKey(p), m).n = made[p]
    BY NextKeyType, AcceptType
  <2> QED
    BY <1>1, <1>4, <2>1, SoftResetTyped
<1> QED
  BY <1>2, <1>3, <1>4 DEF Processed

LEMMA ReceiveTyped ==
  ASSUME TypeInv, NEW p \in Peer, NEW i \in DOMAIN net[p], NEW b \in BOOLEAN,
         net' = IF b THEN net ELSE [net EXCEPT ![p] = Without(@, i)]
  PROVE  /\ net' \in [Peer -> Seq(Packet)]
         /\ \A r \in Peer : /\ Len(net'[r]) <= NetCapacity[r]
                            /\ \A j \in DOMAIN net'[r] : net'[r][j].n <= primary[r].n
<1>1. net[p] \in Seq(Packet) /\ net \in [Peer -> Seq(Packet)]
  BY DEF TypeInv, TypeOK
<1>2. CASE b
  BY <1>1, <1>2, PeerTypes
<1>3. CASE ~ b
  <2>1. /\ Without(net[p], i) \in Seq(Packet) /\ Len(Without(net[p], i)) = Len(net[p]) - 1
        /\ \A j \in DOMAIN Without(net[p], i) :
             \E l \in DOMAIN net[p] : Without(net[p], i)[j] = net[p][l]
    BY <1>1, WithoutElements
  <2>2. /\ net' \in [Peer -> Seq(Packet)] /\ net'[p] = Without(net[p], i)
        /\ \A r \in Peer : r # p => net'[r] = net[r]
    BY <1>1, <1>3, <2>1
  <2>3. Len(net[p]) \in Nat /\ NetCapacity[p] \in Nat /\ Len(net[p]) <= NetCapacity[p]
    BY <1>1, PeerTypes, LenProperties
  <2>4. Len(net'[p]) <= NetCapacity[p]
    BY <2>1, <2>2, <2>3
  <2>5. \A j \in DOMAIN net'[p] : net'[p][j].n <= primary[p].n
    BY <2>1, <2>2, PeerTypes
  <2> QED
    BY <2>2, <2>4, <2>5, PeerTypes
<1> QED
  BY <1>2, <1>3

LEMMA KillTyped ==
  ASSUME TypeInv, NEW p \in Peer, KillLameDuck(p)
  PROVE  TypeInv'
<1>1. lame' \in [Peer -> KeyState]
  BY UndefinedType DEF KillLameDuck, TypeInv, TypeOK
<1> QED
  BY <1>1 DEF KillLameDuck, TypeInv, TypeOK, Latest

LEMMA TypeStep ==
  ASSUME TypeInv, [Next]_vars
  PROVE  TypeInv'
<1>1. CASE UNCHANGED vars
  BY <1>1 DEF vars, TypeInv, TypeOK, Latest
<1>2. ASSUME NEW p \in Peer, Renegotiate(p)
      PROVE  TypeInv'
  <2>1. linked' \in [Peer -> BOOLEAN] /\ net' \in [Peer -> Seq(Packet)] /\ net' = net
    BY <1>2 DEF Renegotiate, TypeInv, TypeOK
  <2>2. \A r \in Peer : /\ Len(net'[r]) <= NetCapacity[r]
                        /\ \A i \in DOMAIN net'[r] : net'[r][i].n <= primary[r].n
    BY <2>1, PeerTypes
  <2>3. SoftReset(p, NextKey(p)) /\ NextKey(p) \in KeyState /\ NextKey(p).n = made[p]
    BY <1>2, NextKeyType DEF Renegotiate
  <2> QED
    BY <2>1, <2>2, <2>3, SoftResetTyped
<1>3. ASSUME NEW p \in Peer, HandshakeTimeout(p) \/ Settle(p) \/ Handshake(p)
      PROVE  TypeInv'
  BY <1>3, HandshakeGoesOn, SameNumberTyped DEF KeyGoesOn, GoesOn
<1>4. ASSUME NEW p \in Peer, SendReliable(p) \/ SendAck(p)
      PROVE  TypeInv'
  BY <1>4, SendSends, SendsTyped
<1>5. ASSUME NEW p \in Peer, NEW i \in DOMAIN net[Other(p)], Receive(p, i) \/ ReceiveDuplicate(p, i)
      PROVE  TypeInv'
  <2>1. Other(p) \in Peer /\ net[Other(p)][i] \in Packet
    BY OtherPeer, PeerTypes
  <2>2. Processed(p, net[Other(p)][i])
    BY <1>5, ProcessProcesses DEF Receive, ReceiveDuplicate
  <2>3. \E b \in BOOLEAN : net' = IF b THEN net ELSE [net EXCEPT ![Other(p)] = Without(@, i)]
    BY <1>5 DEF Receive, ReceiveDuplicate
  <2>4. /\ net' \in [Peer -> Seq(Packet)]
        /\ \A r \in Peer : /\ Len(net'[r]) <= NetCapacity[r]
                           /\ \A j \in DOMAIN net'[r] : net'[r][j].n <= primary[r].n
    BY <2>1, <2>3, ReceiveTyped
  <2> QED
    BY <2>1, <2>2, <2>4, ProcessedTyped
<1> QED
  BY <1>1, <1>2, <1>3, <1>4, <1>5, KillTyped DEF Next

LEMMA TypeInvariant == Spec => []TypeInv
BY InitTyped, TypeStep, PTL DEF Spec

(* The state is always within its types, for any number of keys and any
   capacity of the link: no key state is left half initialised by a reset, and
   a peer never has more packets in flight than the link takes. *)
THEOREM TypeCorrect == Spec => []TypeOK
<1>1. TypeInv => TypeOK
  BY DEF TypeInv
<1> QED
  BY <1>1, TypeInvariant, PTL

-----------------------------------------------------------------------------
(* While no key id is used twice, a key only takes the contribution of its
   own number, whatever the link does with packets. *)
NoIdTwice == MaxKeys <= KeyIdMask + 1

Own(k) == k.theirs \in {NoKey, k.n}
OwnKeys == \A p \in Peer : Own(primary[p]) /\ Own(lame[p])

LEMMA AcceptOwn ==
  ASSUME NoIdTwice, NEW k \in KeyState, NEW m \in Packet, Own(k),
         k.n \in 0 .. MaxKeys - 1, m.n \in 0 .. MaxKeys - 1
  PROVE  Own(Accept(k, m))
<1>1. CASE key_id(k.n) # key_id(m.n)
  BY <1>1, AcceptNothing
<1>2. CASE key_id(k.n) = key_id(m.n)
  <2>1. k.n \in 0 .. KeyIdMask /\ m.n \in 0 .. KeyIdMask
    BY DEF NoIdTwice
  <2>2. k.n = m.n
    BY <1>2, <2>1, IdsOfFirst
  <2>3. /\ Accept(k, m).theirs = IF m.op = "KEY" THEN m.n ELSE k.theirs
        /\ Accept(k, m).n = k.n
    BY <1>2, AcceptType, AcceptChanges
  <2> QED
    BY <2>2, <2>3 DEF Own
<1> QED
  BY <1>1, <1>2

LEMMA SoftResetOwn ==
  ASSUME TypeInv, OwnKeys, NEW p \in Peer, NEW k \in KeyState, k.n = made[p], Own(k),
         SoftReset(p, k)
  PROVE  OwnKeys'
<1>1. /\ primary'[p] = k /\ lame'[p] = Retired(primary[p])
      /\ \A r \in Peer : r # p => primary'[r] = primary[r] /\ lame'[r] = lame[r]
  BY SoftResetChanges
<1>2. Own(Retired(primary[p]))
  <2>1. primary[p] \in KeyState
    BY PeerTypes
  <2>2. /\ Retired(primary[p]).n = primary[p].n
        /\ Retired(primary[p]).theirs = primary[p].theirs
    BY <2>1, RetiredType
  <2> QED
    BY <2>2 DEF OwnKeys, Own
<1>3. \A r \in Peer : Own(primary'[r]) /\ Own(lame'[r])
  BY <1>1, <1>2 DEF OwnKeys
<1> QED
  BY <1>3 DEF OwnKeys, Own

LEMMA OwnExcept ==
  ASSUME TypeInv, OwnKeys, NEW p \in Peer, NEW j, Own(j),
         primary' = [primary EXCEPT ![p] = j], lame' = lame
  PROVE  OwnKeys'
<1>1. \A r \in Peer : primary'[r] = j \/ primary'[r] = primary[r]
  BY DEF TypeInv, TypeOK
<1> QED
  BY <1>1 DEF OwnKeys, Own

LEMMA ProcessedOwn ==
  ASSUME NoIdTwice, TypeInv, OwnKeys, NEW p \in Peer, NEW m \in Packet, m.n \in 0 .. MaxKeys - 1,
         Processed(p, m)
  PROVE  OwnKeys'
<1>1. primary[p] \in KeyState /\ primary[p].n \in 0 .. MaxKeys - 1 /\ Own(primary[p])
  BY PeerTypes DEF OwnKeys
<1>2. CASE UNCHANGED <<made, primary, lame>>
  BY <1>2 DEF OwnKeys, Own
<1>3. CASE primary' = [primary EXCEPT ![p] = Accept(primary[p], m)] /\ UNCHANGED <<made, lame>>
  BY <1>1, <1>3, AcceptOwn, OwnExcept
<1>4. CASE SoftReset(p, Accept(NextKey(p), m))
  <2>1. NextKey(p) \in KeyState /\ NextKey(p).n = made[p] /\ Own(NextKey(p))
    BY NextKeyType DEF Own
  <2>2. made[p] \in 0 .. MaxKeys - 1
    BY <1>4, PeerTypes DEF SoftReset
  <2>3. Accept(NextKey(p), m) \in KeyState /\ Accept(NextKey(p), m).n = made[p]
    BY <2>1, AcceptType
  <2>4. Own(Accept(NextKey(p), m))
    BY <2>1, <2>2, AcceptOwn
  <2> QED
    BY <1>4, <2>3, <2>4, SoftResetOwn
<1> QED
  BY <1>2, <1>3, <1>4 DEF Processed

LEMMA OwnStep ==
  ASSUME NoIdTwice, TypeInv, OwnKeys, [Next]_vars
  PROVE  OwnKeys'
<1>1. CASE UNCHANGED vars
  BY <1>1 DEF vars, OwnKeys, Own
<1>2. ASSUME NEW p \in Peer, Renegotiate(p)
      PROVE  OwnKeys'
  <2>1. SoftReset(p, NextKey(p)) /\ NextKey(p) \in KeyState /\ NextKey(p).n = made[p]
        /\ Own(NextKey(p))
    BY <1>2, NextKeyType DEF Renegotiate, Own
  <2> QED
    BY <2>1, SoftResetOwn
<1>3. ASSUME NEW p \in Peer, HandshakeTimeout(p) \/ Settle(p) \/ Handshake(p)
      PROVE  OwnKeys'
  <2>1. PICK j : GoesOn(p, primary[p], j) /\ primary' = [primary EXCEPT ![p] = j] /\ lame' = lame
    BY <1>3, HandshakeGoesOn DEF KeyGoesOn
  <2>2. Own(j)
    BY <2>1 DEF OwnKeys, Own, GoesOn
  <2> QED
    BY <2>1, <2>2, OwnExcept
<1>4. ASSUME NEW p \in Peer, SendReliable(p) \/ SendAck(p)
      PROVE  OwnKeys'
  <2>1. primary' = [primary EXCEPT ![p] = Quiet(primary[p])] /\ lame' = lame
    BY <1>4, SendSends DEF Sends
  <2>2. primary[p] \in KeyState
    BY PeerTypes
  <2>3. Quiet(primary[p]).n = primary[p].n /\ Quiet(primary[p]).theirs = primary[p].theirs
    BY <2>2, QuietType
  <2>4. Own(Quiet(primary[p]))
    BY <2>3 DEF OwnKeys, Own
  <2> QED
    BY <2>1, <2>4, OwnExcept
<1>5. ASSUME NEW p \in Peer, NEW i \in DOMAIN net[Other(p)], Receive(p, i) \/ ReceiveDuplicate(p, i)
      PROVE  OwnKeys'
  <2>1. /\ Other(p) \in Peer /\ net[Other(p)][i] \in Packet
        /\ net[Other(p)][i].n <= primary[Other(p)].n /\ primary[Other(p)].n \in 0 .. MaxKeys - 1
    BY OtherPeer, PeerTypes
  <2>2. net[Other(p)][i].n \in 0 .. MaxKeys - 1
    BY <2>1 DEF Packet
  <2>3. Processed(p, net[Other(p)][i])
    BY <1>5, ProcessProcesses DEF Receive, ReceiveDuplicate
  <2> QED
    BY <2>1, <2>2, <2>3, ProcessedOwn
<1>6. ASSUME NEW p \in Peer, KillLameDuck(p)
      PROVE  OwnKeys'
  <2>1. Own(Undefined)
    BY DEF Own, Undefined, Fresh
  <2>2. primary' = primary /\ \A r \in Peer : lame'[r] = lame[r] \/ lame'[r] = Undefined
    BY <1>6 DEF KillLameDuck, TypeInv, TypeOK
  <2> QED
    BY <2>1, <2>2 DEF OwnKeys, Own
<1> QED
  BY <1>1, <1>2, <1>3, <1>4, <1>5, <1>6 DEF Next

LEMMA InitOwn ==
  ASSUME Init
  PROVE  OwnKeys
BY DEF Init, OwnKeys, Own, Undefined, FirstKey, Fresh

LEMMA OwnIsPaired ==
  ASSUME OwnKeys
  PROVE  KeysPaired
BY DEF OwnKeys, Own, KeysPaired, Counterpart, Other, Peer

-----------------------------------------------------------------------------
(* A TCP link.  P_KEY_ID_MASK is 7: two keys in a row have different ids. *)
Fifo == InOrder /\ KeyIdMask >= 2

(* The retiring key is the one before the primary key, and active. *)
LameOk(p) ==
  \/ lame[p] = Undefined
  \/ /\ lame[p].n \in Nat /\ lame[p].n = primary[p].n - 1 /\ lame[p].theirs = lame[p].n
     /\ lame[p].state = S_ACTIVE

(* Of the two primary keys, that of the other peer q is at most one ahead; p
   cannot have the contribution to a key that q has not made; and the retiring
   key is there until both have settled. *)
Spread(p) ==
  LET k == primary[p]
      j == primary[Other(p)]
  IN /\ j.n <= k.n + 1
     /\ k.theirs = k.n => k.n <= j.n
     /\ k.n > 0 /\ lame[p] = Undefined => k.settled /\ (j.n = k.n => j.settled)

(* The contribution of p is acknowledged, or is about to be. *)
Acks(m, n) == m.n = n /\ "KEY" \in m.acks
AckComing(p) ==
  "KEY" \in primary[p].out =>
    \E i \in DOMAIN net[Other(p)] : Acks(net[Other(p)][i], primary[p].n)

(* What q has from p, p has sent; what p had acknowledged, q has; and q, with
   the contribution of p, has acknowledged it unless it owes that still. *)
Sync(p) ==
  LET k == primary[p]
      j == primary[Other(p)]
  IN /\ j.theirs = j.n /\ j.n = k.n => KeySent(p, k)
     /\ Sent(p, k) => k.n <= j.n /\ (j.n = k.n => j.theirs = j.n)
     /\ Begun(k) => k.n <= j.n /\ (j.n = k.n => initial_opcode(k.n) \in j.in)
     /\ /\ j.theirs = j.n /\ j.n = k.n
        /\ "KEY" \notin j.acks \/ j.state = S_ACTIVE
        => AckComing(p)

(* The client has not told the server yet that it has its contribution. *)
Unanswered(p, k) ==
  p = Client /\ "KEY" \in k.acks /\ k.state \notin {S_ACTIVE, S_ERROR}

(* Once the other peer is done with a key, this one lacks acknowledgements at
   most, and they are on their way. *)
Complete(p) ==
  LET k == primary[p]
  IN /\ k.theirs = k.n /\ initial_opcode(k.n) \in k.in /\ KeySent(p, k)
     /\ AckComing(p) /\ ~ Unanswered(p, k)

Ahead(p) == primary[Other(p)].n = primary[p].n + 1 => Complete(p)

(* The server contributes after the client and completes after it has: the
   acknowledgement of the client's contribution comes with the server's or
   before it. *)
ClientOk(p) ==
  LET k == primary[p]
      j == primary[Other(p)]
      s == net[Other(p)]
  IN p = Client =>
       /\ k.theirs = k.n =>
            /\ KeySent(p, k) /\ "KEY" \notin k.out /\ initial_opcode(k.n) \in k.in
            /\ "KEY" \in k.acks \/ k.acks = {}
       /\ Unanswered(p, k) => /\ j.n = k.n => ~ Sent(Other(p), j)
                              /\ \A i \in DOMAIN net[p] : ~ Acks(net[p][i], k.n)
       /\ \A i \in DOMAIN s : s[i].op = "KEY" /\ s[i].n = k.n /\ "KEY" \in k.out =>
            \E l \in DOMAIN s : l <= i /\ Acks(s[l], k.n)

(* A packet m that p has in flight. *)
PacketOk(p, m) ==
  LET k == primary[p]
      j == primary[Other(p)]
  IN /\ m.n >= j.n - 1 /\ m.op \in {"ACK", "KEY", initial_opcode(m.n)}
     /\ j.theirs = j.n => m.n >= j.n /\ ~ (m.op = initial_opcode(m.n) /\ m.n = j.n)
     /\ m.op = "KEY" /\ m.n = k.n => KeySent(p, k) /\ (p = Server => k.theirs = k.n)
     /\ m.n = k.n => m.acks \subseteq k.in

(* Packet m precedes packet o. *)
Precedes(m, o) ==
  /\ m.n <= o.n
  /\ m.op = "KEY" /\ m.n = o.n => o.op # initial_opcode(o.n)

Ordered(s) == \A i, l \in DOMAIN s : i < l => Precedes(s[i], s[l])

InFlight(p) == (\A i \in DOMAIN net[p] : PacketOk(p, net[p][i])) /\ Ordered(net[p])

PeerInv(p) ==
  /\ KeyOk(p, primary[p]) /\ LameOk(p) /\ Spread(p) /\ Sync(p) /\ Ahead(p)
  /\ ClientOk(p) /\ InFlight(p)
IInv == \A p \in Peer : PeerInv(p)

LEMMA InitInv ==
  ASSUME Init
  PROVE  IInv
<1> SUFFICES ASSUME NEW p \in Peer PROVE PeerInv(p)
  BY DEF IInv
<1>1. Other(p) \in Peer
  BY OtherPeer
<1>2. /\ primary[p] = IF FirstKeyActive THEN FirstKey ELSE Fresh(S_INITIAL, 0)
      /\ primary[Other(p)] = primary[p] /\ lame[p] = Undefined
      /\ net[p] = << >> /\ net[Other(p)] = << >> /\ linked[p] = FirstKeyActive
  BY <1>1 DEF Init
<1>3. /\ primary[p].n = 0 /\ primary[p].out = {} /\ primary[p].acks = {}
      /\ primary[p].in = IF FirstKeyActive THEN {"HARD_RESET", "KEY"} ELSE {}
  BY <1>2 DEF Fresh, FirstKey
<1>4. /\ primary[p].theirs = IF FirstKeyActive THEN 0 ELSE NoKey
      /\ primary[p].state = IF FirstKeyActive THEN S_ACTIVE ELSE S_INITIAL
  BY <1>2 DEF Fresh, FirstKey
<1>5. KeyOk(p, primary[p])
  <2>1. ~ FirstKeyActive => primary[p].settled = FALSE
    BY <1>2 DEF Fresh
  <2> QED
    BY <1>2, <1>3, <1>4, <2>1 DEF KeyOk, DecryptKeyEnabled, Contributes, initial_opcode
<1>6. Spread(p)
  BY <1>2, <1>3 DEF Spread
<1>7. AckComing(p)
  BY <1>3 DEF AckComing
<1>8. Sync(p)
  BY <1>2, <1>3, <1>4, <1>7 DEF Sync, Begun, Sent, KeySent, Contributes, initial_opcode
<1>9. Ahead(p)
  BY <1>2, <1>3 DEF Ahead
<1>10. ClientOk(p)
  BY <1>2, <1>3, <1>4 DEF ClientOk, KeySent, Contributes, Unanswered, initial_opcode
<1>11. InFlight(p)
  BY <1>2 DEF InFlight, Ordered
<1> QED
  BY <1>2, <1>5, <1>6, <1>8, <1>9, <1>10, <1>11 DEF PeerInv, LameOk

(* A peer whose key is active knows that of the other one to be complete. *)
LEMMA ActiveComplete ==
  ASSUME TypeInv, IInv, NEW p \in Peer,
         primary[Other(p)].n = primary[p].n, primary[Other(p)].state = S_ACTIVE
  PROVE  Complete(p)
<1> DEFINE q == Other(p)
           k == primary[p]
           o == primary[q]
<1>1. q \in Peer /\ Other(q) = p /\ Other(p) = q
  BY OtherPeer
<1>2. PeerInv(p) /\ PeerInv(q)
  BY <1>1 DEF IInv
<1>3. o.theirs = o.n /\ Sent(q, o)
  BY <1>2 DEF PeerInv, KeyOk, DecryptKeyEnabled, Sent, Contributes
<1>4. KeySent(p, k) /\ AckComing(p)
  BY <1>1, <1>2, <1>3 DEF PeerInv, Sync
<1>5. k.theirs = k.n
  BY <1>1, <1>2, <1>3 DEF PeerInv, Sync
<1>6. KeySent(q, o)
  BY <1>1, <1>2, <1>5 DEF PeerInv, Sync
<1>7. Begun(o)
  BY <1>6 DEF KeySent, Begun
<1>8. initial_opcode(k.n) \in k.in
  BY <1>1, <1>2, <1>7 DEF PeerInv, Sync
<1>9. ~ Unanswered(p, k)
  BY <1>1, <1>2, <1>3 DEF PeerInv, ClientOk, Unanswered
<1> QED
  BY <1>4, <1>5, <1>8, <1>9 DEF Complete

(* A contribution in flight to q was asked for. *)
LEMMA KeyAskedFor ==
  ASSUME TypeInv, IInv, NEW p \in Peer, NEW i \in DOMAIN net[p],
         net[p][i].op = "KEY", net[p][i].n = primary[Other(p)].n
  PROVE  /\ initial_opcode(primary[Other(p)].n) \in primary[Other(p)].in
         /\ p = Server => KeySent(Other(p), primary[Other(p)])
<1> DEFINE q == Other(p)
           k == primary[p]
           o == primary[q]
           m == net[p][i]
<1>1. q \in Peer /\ Other(q) = p /\ Other(p) = q
  BY OtherPeer
<1>2. PeerInv(p) /\ PeerInv(q) /\ PacketOk(p, m)
  BY <1>1 DEF IInv, PeerInv, InFlight
<1>3. k.n \in Nat /\ o.n \in Nat /\ m.n <= k.n
  BY <1>1, PeerTypes
<1>4. k.n = o.n \/ k.n = o.n + 1
  <2>1. k.n <= o.n + 1
    BY <1>1, <1>2 DEF PeerInv, Spread
  <2> QED
    BY <1>3, <2>1
<1>5. CASE k.n = o.n + 1
  BY <1>1, <1>2, <1>5 DEF PeerInv, Ahead, Complete
<1>6. CASE k.n = o.n
  <2>1. KeySent(p, k) /\ (p = Server => k.theirs = k.n)
    BY <1>2, <1>6 DEF PacketOk
  <2>2. Begun(k)
    BY <2>1 DEF KeySent, Begun, Contributes
  <2> QED
    BY <1>1, <1>2, <1>6, <2>1, <2>2 DEF PeerInv, Sync
<1> QED
  BY <1>4, <1>5, <1>6

(* A client whose key is complete reads on only when it is active. *)
LEMMA ReadsActive ==
  ASSUME TypeInv, IInv, NEW p \in Peer, p = Client, Reads(p),
         primary[p].theirs = primary[p].n, ~ Unanswered(p, primary[p]),
         primary[p].state # S_ERROR
  PROVE  primary[p].state = S_ACTIVE
<1> DEFINE k == primary[p]
<1>1. SUFFICES ASSUME k.state # S_ACTIVE PROVE Due(p)
  BY DEF Reads
<1>2. KeyOk(p, k) /\ ClientOk(p)
  BY DEF IInv, PeerInv
<1>3. KeySent(p, k) /\ "KEY" \notin k.out /\ initial_opcode(k.n) \in k.in /\ k.acks = {}
  BY <1>1, <1>2 DEF ClientOk, Unanswered
<1>4. k.state \in {S_SENT_KEY, S_GOT_KEY} /\ k.out = {}
  BY <1>1, <1>2, <1>3 DEF KeySent, Contributes, KeyOk
<1>5. k.in = {initial_opcode(k.n), "KEY"}
  BY <1>2, <1>3 DEF KeyOk
<1> QED
  BY <1>3, <1>4, <1>5 DEF Due, AwaitsKey, Completes, FullSync

-----------------------------------------------------------------------------
(* A section of tls_process. *)
LEMMA GoesOnKeeps ==
  ASSUME TypeInv, IInv, NEW p \in Peer, KeyGoesOn(p)
  PROVE  IInv'
<1> DEFINE q == Other(p)
<1>1. PICK j : GoesOn(p, primary[p], j) /\ primary' = [primary EXCEPT ![p] = j]
  BY DEF KeyGoesOn
<1>2. q \in Peer /\ q # p /\ Other(q) = p /\ Other(p) = q /\ \A r \in Peer : r = p \/ r = q
  BY OtherPeer
<1>3. primary'[p] = j /\ primary'[q] = primary[q] /\ lame' = lame /\ net' = net
      /\ linked' = linked
  BY <1>1, <1>2 DEF KeyGoesOn, TypeInv, TypeOK
<1> DEFINE k == primary[p]
           o == primary[q]
<1>4. PeerInv(p) /\ PeerInv(q)
  BY <1>2 DEF IInv
<1>5. /\ j.n = k.n /\ j.theirs = k.theirs /\ j.in = k.in /\ j.acks = k.acks
      /\ KeyOk(p, j) /\ (k.settled => j.settled) /\ (Begun(k) <=> Begun(j))
      /\ KeySent(p, k) => KeySent(p, j)
      /\ Sent(p, j) => Sent(p, k)
      /\ j.state = S_ACTIVE => k.state = S_ACTIVE \/ "KEY" \notin k.acks
      /\ "KEY" \in j.out => "KEY" \in k.out \/ ~ KeySent(p, k)
      /\ k.state \in {S_ACTIVE, S_ERROR} => j.state \in {S_ACTIVE, S_ERROR}
  BY <1>1, <1>4 DEF GoesOn, PeerInv
<1>6. \A i \in DOMAIN net[q] : net[q][i].op = "KEY" /\ net[q][i].n = k.n /\ p = Client =>
        KeySent(p, k)
  BY <1>2, KeyAskedFor DEF Peer
<1> HIDE DEF q
<1>7. /\ AckComing(p) /\ KeySent(p, k) => AckComing(p)'
      /\ AckComing(q) => AckComing(q)'
  BY <1>2, <1>3, <1>5 DEF AckComing
<1>8. Unanswered(p, j) => Unanswered(p, k)
  BY <1>5 DEF Unanswered
<1>9. PeerInv(p)'
  <2>1. KeyOk(p, primary[p])'
    BY <1>3, <1>5 DEF KeyOk, DecryptKeyEnabled, Contributes
  <2>2. LameOk(p)'
    BY <1>3, <1>4, <1>5 DEF PeerInv, LameOk
  <2>3. Spread(p)'
    BY <1>2, <1>3, <1>4, <1>5 DEF PeerInv, Spread
  <2>4. Sync(p)'
    <3>1. Sync(p)
      BY <1>4 DEF PeerInv
    <3> QED
      BY <1>2, <1>3, <1>5, <1>7, <3>1 DEF Sync
  <2>5. Ahead(p)'
    BY <1>2, <1>3, <1>4, <1>5, <1>7, <1>8 DEF PeerInv, Ahead, Complete
  <2>6. ClientOk(p)'
    <3>1. ClientOk(p)
      BY <1>4 DEF PeerInv
    <3> QED
      BY <1>2, <1>3, <1>5, <1>6, <1>8, <3>1 DEF ClientOk, Acks
  <2>7. InFlight(p)'
    <3>1. \A i \in DOMAIN net[p] : PacketOk(p, net[p][i])
      BY <1>4 DEF PeerInv, InFlight
    <3>2. \A i \in DOMAIN net[p] : PacketOk(p, net[p][i])'
      BY <1>2, <1>3, <1>5, <3>1 DEF PacketOk
    <3> QED
      BY <1>3, <1>4, <3>2 DEF PeerInv, InFlight, Ordered, Precedes
  <2> QED
    BY <2>1, <2>2, <2>3, <2>4, <2>5, <2>6, <2>7 DEF PeerInv
<1>10. PeerInv(q)'
  <2>1. KeyOk(q, primary[q])'
    BY <1>3, <1>4 DEF PeerInv, KeyOk, DecryptKeyEnabled, Contributes
  <2>2. LameOk(q)'
    BY <1>3, <1>4 DEF PeerInv, LameOk
  <2>3. Spread(q)'
    BY <1>2, <1>3, <1>4, <1>5 DEF PeerInv, Spread
  <2>4. Sync(q)'
    <3>1. Sync(q)
      BY <1>4 DEF PeerInv
    <3> QED
      BY <1>2, <1>3, <1>5, <1>7, <3>1 DEF Sync
  <2>5. Ahead(q)'
    BY <1>2, <1>3, <1>4, <1>5, <1>7 DEF PeerInv, Ahead, Complete
  <2>6. ClientOk(q)'
    BY <1>2, <1>3, <1>4, <1>5 DEF PeerInv, ClientOk, Acks
  <2>7. InFlight(q)'
    <3>1. \A i \in DOMAIN net[q] : PacketOk(q, net[q][i])
      BY <1>4 DEF PeerInv, InFlight
    <3>2. \A i \in DOMAIN net[q] : PacketOk(q, net[q][i])'
      BY <1>2, <1>3, <1>5, <3>1 DEF PacketOk
    <3> QED
      BY <1>3, <1>4, <3>2 DEF PeerInv, InFlight, Ordered, Precedes
  <2> QED
    BY <2>1, <2>2, <2>3, <2>4, <2>5, <2>6, <2>7 DEF PeerInv
<1> QED
  BY <1>2, <1>9, <1>10 DEF IInv

(* A packet is sent. *)
LEMMA SendsKeeps ==
  ASSUME TypeInv, IInv, NEW p \in Peer, NEW m, Sends(p, m)
  PROVE  IInv'
<1> DEFINE q == Other(p)
           k == primary[p]
           o == primary[q]
           j == Quiet(k)
<1>1. q \in Peer /\ q # p /\ Other(q) = p /\ Other(p) = q /\ \A r \in Peer : r = p \/ r = q
  BY OtherPeer
<1>2. /\ primary'[p] = j /\ primary'[q] = o /\ lame' = lame /\ linked' = linked
      /\ net'[p] = Append(net[p], m) /\ net'[q] = net[q]
  BY SendsChanges DEF Sends
<1>3. PeerInv(p) /\ PeerInv(q)
  BY <1>1 DEF IInv
<1>4. k \in KeyState /\ k.n \in Nat /\ o.n \in Nat
  BY <1>1, PeerTypes
<1>5. /\ j.n = k.n /\ j.theirs = k.theirs /\ j.in = k.in /\ j.out = k.out /\ j.acks = {}
      /\ j.state = k.state /\ j.settled = k.settled
  BY <1>4, QuietType
<1>6. /\ m \in Packet /\ m.n = k.n /\ m.acks = k.acks
      /\ m.op # "ACK" => m.op \in k.out /\ k.state > S_INITIAL
      /\ m.op = "KEY" => initial_opcode(k.n) \notin k.out
  BY DEF Sends
<1> DEFINE last == Len(net[p]) + 1
<1>7. /\ \A i \in DOMAIN net'[p] : \/ i \in DOMAIN net[p] /\ net'[p][i] = net[p][i]
                                   \/ i = last /\ net'[p][i] = m
      /\ \A i \in DOMAIN net[p] : i <= Len(net[p])
      /\ last \in DOMAIN net'[p] /\ net'[p][last] = m
      /\ \A i \in DOMAIN net[p] : i \in DOMAIN net'[p] /\ net'[p][i] = net[p][i]
      /\ Len(net[p]) \in Nat /\ \A i \in DOMAIN net'[p] : i \in Nat
      /\ \A i \in DOMAIN net[p] : net[p][i].n <= k.n
  <2>1. net[p] \in Seq(Packet) /\ net'[p] \in Seq(Packet)
    BY PeerTypes, SendsChanges
  <2>2. \A i \in DOMAIN net[p] : net[p][i].n <= k.n
    BY PeerTypes
  <2>3. /\ \A i \in 1 .. Len(net[p]) : Append(net[p], m)[i] = net[p][i]
        /\ Append(net[p], m)[Len(net[p]) + 1] = m /\ Len(Append(net[p], m)) = Len(net[p]) + 1
    BY <1>6, <2>1, AppendProperties
  <2>4. DOMAIN net[p] = 1 .. Len(net[p]) /\ DOMAIN net'[p] = 1 .. Len(net[p]) + 1
        /\ Len(net[p]) \in Nat
    BY <1>2, <2>1, <2>3, LenProperties
  <2> QED
    BY <1>2, <1>6, <2>1, <2>2, <2>3, <2>4, Appended
<1> HIDE DEF q, j, last
<1>8. /\ AckComing(p) => AckComing(p)'
      /\ AckComing(q) => AckComing(q)'
      /\ o.n = k.n /\ "KEY" \in k.acks => AckComing(q)'
  <2>1. AckComing(p) => AckComing(p)'
    BY <1>1, <1>2, <1>5 DEF AckComing, Acks
  <2>2. AckComing(q) => AckComing(q)'
    BY <1>1, <1>2, <1>7 DEF AckComing, Acks
  <2>3. o.n = k.n /\ "KEY" \in k.acks => Acks(net'[p][last], o.n)
    BY <1>6, <1>7 DEF Acks
  <2>4. o.n = k.n /\ "KEY" \in k.acks => AckComing(q)'
    BY <1>1, <1>2, <1>7, <2>3 DEF AckComing, Acks
  <2> QED
    BY <2>1, <2>2, <2>4
<1>9. m.op = "KEY" => KeySent(p, k) /\ (p = Server => k.theirs = k.n)
  <2>1. ASSUME m.op = "KEY" PROVE KeySent(p, k) /\ (p = Server => k.theirs = k.n)
    <3>1. "KEY" \in k.out /\ k.state > S_INITIAL /\ initial_opcode(k.n) \notin k.out
      BY <1>6, <2>1
    <3>2. Contributes(p, k)
      BY <1>3, <3>1 DEF PeerInv, KeyOk
    <3>3. p = Server => DecryptKeyEnabled(p, k)
      BY <3>2 DEF Contributes, DecryptKeyEnabled
    <3> QED
      BY <1>3, <3>1, <3>2, <3>3 DEF PeerInv, KeyOk, KeySent
  <2> QED
    BY <2>1
<1>10. PacketOk(p, m)
  <2>1. o.theirs = o.n => m.n >= o.n
    BY <1>1, <1>3, <1>4, <1>6 DEF PeerInv, Spread
  <2>2. o.theirs = o.n /\ o.n = k.n => initial_opcode(k.n) \notin k.out
    BY <1>1, <1>3 DEF PeerInv, Sync, KeySent
  <2>3. m.n >= o.n - 1
    BY <1>1, <1>3, <1>4, <1>6 DEF PeerInv, Spread
  <2>4. m.acks \subseteq k.in /\ m.op \in {"ACK", "KEY", initial_opcode(m.n)}
    BY <1>3, <1>6 DEF PeerInv, KeyOk
  <2>5. m.op # "ACK" => m.op \in k.out
    BY <1>6
  <2>6. initial_opcode(m.n) # "ACK"
    BY DEF initial_opcode
  <2> QED
    BY <1>1, <1>6, <1>9, <2>1, <2>2, <2>3, <2>4, <2>5, <2>6 DEF PacketOk
<1>11. ASSUME NEW i \in DOMAIN net[p] PROVE Precedes(net[p][i], m)
  <2>1. net[p][i].n <= m.n
    BY <1>6, <1>7
  <2>2. net[p][i].op = "KEY" /\ net[p][i].n = k.n => initial_opcode(k.n) \notin k.out
    BY <1>3 DEF PeerInv, InFlight, PacketOk, KeySent
  <2>3. initial_opcode(m.n) # "ACK"
    BY DEF initial_opcode
  <2> QED
    BY <1>6, <2>1, <2>2, <2>3 DEF Precedes
<1>12. PeerInv(p)'
  <2>1. KeyOk(p, primary[p])'
    BY <1>2, <1>3, <1>5 DEF PeerInv, KeyOk, DecryptKeyEnabled, Contributes
  <2>2. LameOk(p)'
    BY <1>2, <1>3, <1>5 DEF PeerInv, LameOk
  <2>3. Spread(p)'
    BY <1>1, <1>2, <1>3, <1>5 DEF PeerInv, Spread
  <2>4. Sync(p)'
    <3>1. Sync(p)
      BY <1>3 DEF PeerInv
    <3> QED
      BY <1>1, <1>2, <1>5, <1>8, <3>1 DEF Sync, Begun, Sent, KeySent, Contributes
  <2>5. Ahead(p)'
    BY <1>1, <1>2, <1>3, <1>5, <1>8
    DEF PeerInv, Ahead, Complete, Unanswered, KeySent, Contributes
  <2>6. ClientOk(p)'
    <3>1. ClientOk(p)
      BY <1>3 DEF PeerInv
    <3> QED
      BY <1>1, <1>2, <1>5, <3>1 DEF ClientOk, Unanswered, KeySent, Contributes, Acks
  <2>7. ASSUME NEW i \in DOMAIN net'[p] PROVE PacketOk(p, net[p][i])'
    <3>1. PacketOk(p, net'[p][i])
      BY <1>3, <1>7, <1>10 DEF PeerInv, InFlight
    <3> QED
      BY <1>1, <1>2, <1>5, <3>1 DEF PacketOk, KeySent, Contributes
  <2>8. ASSUME NEW i \in DOMAIN net'[p], NEW l \in DOMAIN net'[p], i < l
        PROVE  Precedes(net'[p][i], net'[p][l])
    <3>1. i \in DOMAIN net[p] /\ net'[p][i] = net[p][i]
      <4>1. i \in Nat /\ l \in Nat /\ l <= Len(net[p]) + 1 /\ i # Len(net[p]) + 1
        BY <1>7, <2>8 DEF last
      <4> QED
        BY <1>7, <4>1 DEF last
    <3> QED
      BY <1>3, <1>7, <1>11, <2>8, <3>1 DEF PeerInv, InFlight, Ordered
  <2> QED
    BY <2>1, <2>2, <2>3, <2>4, <2>5, <2>6, <2>7, <2>8 DEF PeerInv, InFlight, Ordered, Precedes
<1>13. PeerInv(q)'
  <2>1. KeyOk(q, primary[q])'
    BY <1>2, <1>3 DEF PeerInv, KeyOk, DecryptKeyEnabled, Contributes
  <2>2. LameOk(q)'
    BY <1>2, <1>3 DEF PeerInv, LameOk
  <2>3. Spread(q)'
    BY <1>1, <1>2, <1>3, <1>5 DEF PeerInv, Spread
  <2>4. Sync(q)'
    <3>1. Sync(q)
      BY <1>3 DEF PeerInv
    <3> QED
      BY <1>1, <1>2, <1>5, <1>8, <3>1 DEF Sync, Begun, Sent, KeySent, Contributes
  <2>5. Ahead(q)'
    BY <1>1, <1>2, <1>3, <1>5, <1>8
    DEF PeerInv, Ahead, Complete, Unanswered, KeySent, Contributes
  <2>6. ClientOk(q)'
    <3>1. ClientOk(q) /\ Sync(q)
      BY <1>3 DEF PeerInv
    <3>2. q = Client => p = Server
      BY <1>1 DEF Peer
    <3>3. m.op = "KEY" /\ m.n = o.n /\ "KEY" \in o.out /\ q = Client =>
            \E l \in DOMAIN net'[p] : l <= last /\ Acks(net'[p][l], o.n)
      <4>1. SUFFICES ASSUME m.op = "KEY", m.n = o.n, "KEY" \in o.out, q = Client
                     PROVE \E l \in DOMAIN net'[p] : l <= last /\ Acks(net'[p][l], o.n)
        OBVIOUS
      <4>2. AckComing(q)'
        <5>1. k.theirs = k.n /\ k.n = o.n
          BY <1>6, <1>9, <3>2, <4>1
        <5> QED
          BY <1>1, <1>8, <3>1, <5>1 DEF Sync
      <4>3. PICK l \in DOMAIN net'[p] : Acks(net'[p][l], o.n)
        BY <1>1, <1>2, <4>1, <4>2 DEF AckComing, Acks
      <4>4. l <= last
        BY <1>7 DEF last
      <4> QED
        BY <4>3, <4>4
    <3>4. ASSUME NEW i \in DOMAIN net'[p], net'[p][i].op = "KEY", net'[p][i].n = o.n,
                 "KEY" \in o.out, q = Client
          PROVE  \E l \in DOMAIN net'[p] : l <= i /\ Acks(net'[p][l], o.n)
      BY <1>1, <1>7, <3>1, <3>3, <3>4 DEF ClientOk, Acks
    <3> HIDE DEF o, k
    <3> QED
      BY <1>1, <1>2, <1>5, <3>1, <3>4
      DEF ClientOk, Sent, Contributes, Unanswered, KeySent, Acks, o, k
  <2>7. InFlight(q)'
    <3>1. \A i \in DOMAIN net[q] : PacketOk(q, net[q][i])
      BY <1>3 DEF PeerInv, InFlight
    <3>2. \A i \in DOMAIN net[q] : PacketOk(q, net[q][i])'
      BY <1>1, <1>2, <1>5, <3>1 DEF PacketOk, KeySent, Contributes
    <3> QED
      BY <1>2, <1>3, <3>2 DEF PeerInv, InFlight, Ordered, Precedes
  <2> QED
    BY <2>1, <2>2, <2>3, <2>4, <2>5, <2>6, <2>7 DEF PeerInv
<1> QED
  BY <1>1, <1>12, <1>13 DEF IInv

(* A step that does not change the primary keys nor the packets in flight. *)
LEMMA SameKeys ==
  ASSUME TypeInv, IInv, primary' = primary, net' = net,
         NEW p \in Peer, linked[p] => linked'[p], LameOk(p)', Spread(p)'
  PROVE  PeerInv(p)'
<1>1. PeerInv(p) /\ Other(p) \in Peer
  BY OtherPeer DEF IInv
<1>2. KeyOk(p, primary[p])'
  BY <1>1 DEF PeerInv, KeyOk, DecryptKeyEnabled, Contributes
<1>3. Sync(p)' /\ Ahead(p)' /\ ClientOk(p)'
  BY <1>1
  DEF PeerInv, Sync, Ahead, Complete, ClientOk, AckComing, Begun, Sent, KeySent, Contributes,
      Unanswered, Acks
<1>4. InFlight(p)'
  BY <1>1 DEF PeerInv, InFlight, Ordered, PacketOk, Precedes, KeySent, Contributes
<1> QED
  BY <1>2, <1>3, <1>4 DEF PeerInv

(* A retiring key is freed. *)
LEMMA KillKeeps ==
  ASSUME TypeInv, IInv, NEW p \in Peer, KillLameDuck(p)
  PROVE  IInv'
<1> DEFINE q == Other(p)
<1>1. q \in Peer /\ q # p /\ Other(q) = p /\ Other(p) = q /\ \A r \in Peer : r = p \/ r = q
  BY OtherPeer
<1>2. /\ primary' = primary /\ net' = net /\ lame'[p] = Undefined /\ lame'[q] = lame[q]
      /\ linked' = linked
      /\ primary[p].settled
      /\ \A j \in Counterpart(p, primary[p]) : j.settled
  BY <1>1 DEF KillLameDuck, TypeInv, TypeOK
<1>3. PeerInv(p) /\ PeerInv(q) /\ primary[p].n \in Nat
  BY <1>1, PeerTypes DEF IInv
<1> HIDE DEF q
<1>4. primary[p].theirs = primary[p].n
  BY <1>2, <1>3 DEF PeerInv, KeyOk, DecryptKeyEnabled
<1>5. primary[q].n = primary[p].n => primary[q].settled
  <2>1. ASSUME primary[q].n = primary[p].n PROVE primary[q] \in Counterpart(p, primary[p])
    BY <1>1, <1>3, <1>4, <2>1 DEF Counterpart
  <2> QED
    BY <1>2, <2>1
<1>6. PeerInv(p)'
  <2>1. LameOk(p)'
    BY <1>2 DEF LameOk
  <2>2. Spread(p)'
    BY <1>1, <1>2, <1>3, <1>5 DEF PeerInv, Spread
  <2> QED
    BY <1>2, <2>1, <2>2, SameKeys
<1>7. PeerInv(q)'
  <2>1. LameOk(q)' /\ Spread(q)'
    BY <1>1, <1>2, <1>3 DEF PeerInv, LameOk, Spread
  <2> QED
    BY <1>1, <1>2, <2>1, SameKeys
<1> QED
  BY <1>1, <1>6, <1>7 DEF IInv

(* What peer r has in flight, but for the first packet maybe. *)
Shrinks(r) ==
  \E d \in {0, 1} : \A i \in DOMAIN net'[r] : /\ i \in Nat /\ i + d \in DOMAIN net[r]
                                              /\ net'[r][i] = net[r][i + d]

LEMMA ShrinksInFlight ==
  ASSUME NEW r \in Peer, InFlight(r), Shrinks(r)
  PROVE  (\A i \in DOMAIN net'[r] : PacketOk(r, net'[r][i])) /\ Ordered(net'[r])
<1>1. PICK d \in {0, 1} : \A i \in DOMAIN net'[r] : /\ i \in Nat /\ i + d \in DOMAIN net[r]
                                                    /\ net'[r][i] = net[r][i + d]
  BY DEF Shrinks
<1>2. \A i \in DOMAIN net'[r] : PacketOk(r, net'[r][i])
  BY <1>1 DEF InFlight
<1>3. ASSUME NEW i \in DOMAIN net'[r], NEW l \in DOMAIN net'[r], i < l
      PROVE  Precedes(net'[r][i], net'[r][l])
  <2>1. i + d < l + d /\ i + d \in DOMAIN net[r] /\ l + d \in DOMAIN net[r]
    BY <1>1, <1>3
  <2> QED
    BY <1>1, <2>1 DEF InFlight, Ordered
<1> QED
  BY <1>2, <1>3 DEF Ordered

LEMMA UnchangedShrinks ==
  ASSUME TypeInv, NEW r \in Peer, net'[r] = net[r]
  PROVE  Shrinks(r)
<1>1. net[r] \in Seq(Packet)
  BY PeerTypes
<1>2. \A i \in DOMAIN net[r] : i \in Nat /\ i + 0 = i
  BY <1>1, LenProperties
<1> QED
  BY <1>2 DEF Shrinks

(* The first packet of r leaves the link. *)
Shifts(r) ==
  /\ 1 \in DOMAIN net[r] /\ \A i \in DOMAIN net[r] : i \in Nat /\ i >= 1
  /\ \A i \in DOMAIN net'[r] : /\ i \in Nat /\ i >= 1 /\ i + 1 \in DOMAIN net[r]
                               /\ net'[r][i] = net[r][i + 1]
  /\ \A i \in DOMAIN net[r] : i # 1 => i - 1 \in DOMAIN net'[r] /\ net'[r][i - 1] = net[r][i]

LEMMA FirstShifts ==
  ASSUME TypeInv, NEW r \in Peer, 1 \in DOMAIN net[r], net' = [net EXCEPT ![r] = Without(@, 1)]
  PROVE  Shifts(r) /\ Shrinks(r) /\ \A s \in Peer : s # r => net'[s] = net[s]
<1>1. net[r] \in Seq(Packet) /\ net \in [Peer -> Seq(Packet)]
  BY PeerTypes DEF TypeInv, TypeOK
<1>2. /\ Without(net[r], 1) \in Seq(Packet) /\ Len(Without(net[r], 1)) = Len(net[r]) - 1
      /\ \A j \in DOMAIN Without(net[r], 1) :
           IF j < 1 THEN j \in DOMAIN net[r] /\ Without(net[r], 1)[j] = net[r][j]
                    ELSE j + 1 \in DOMAIN net[r] /\ Without(net[r], 1)[j] = net[r][j + 1]
  BY <1>1, WithoutElements
<1>3. net'[r] = Without(net[r], 1)
  BY <1>1
<1>4. /\ DOMAIN net[r] = 1 .. Len(net[r]) /\ Len(net[r]) \in Nat
      /\ DOMAIN net'[r] = 1 .. Len(net[r]) - 1
  BY <1>1, <1>2, <1>3, LenProperties
<1>5. \A j \in DOMAIN net'[r] : /\ j \in Nat /\ j >= 1 /\ j + 1 \in DOMAIN net[r]
                                /\ net'[r][j] = net[r][j + 1]
  BY <1>2, <1>3, <1>4
<1>6. ASSUME NEW i \in DOMAIN net[r], i # 1
      PROVE  i - 1 \in DOMAIN net'[r] /\ net'[r][i - 1] = net[r][i]
  <2>1. i - 1 \in DOMAIN net'[r] /\ (i - 1) + 1 = i
    BY <1>4, <1>6
  <2> QED
    BY <1>5, <2>1
<1>7. Shifts(r)
  BY <1>4, <1>5, <1>6 DEF Shifts
<1>8. Shrinks(r)
  BY <1>5 DEF Shrinks
<1> QED
  BY <1>1, <1>7, <1>8

(* The acknowledgement p waits for is not in the packet that leaves, or p does
   not wait for it any more. *)
Waits(p) ==
  /\ primary'[p].n = primary[p].n /\ primary'[p].out \subseteq primary[p].out
  /\ "KEY" \in primary'[p].out => ~ Acks(net[Other(p)][1], primary[p].n)

LEMMA AckStillComing ==
  ASSUME NEW p \in Peer, Shifts(Other(p)), Waits(p), AckComing(p)
  PROVE  AckComing(p)'
<1> DEFINE q == Other(p)
           n == primary[p].n
<1>1. SUFFICES ASSUME "KEY" \in primary'[p].out
               PROVE  \E i \in DOMAIN net'[q] : Acks(net'[q][i], n)
  BY DEF AckComing, Waits, Acks
<1>2. PICK i \in DOMAIN net[q] : Acks(net[q][i], n)
  BY <1>1 DEF AckComing, Waits
<1>3. i # 1
  BY <1>1, <1>2 DEF Waits
<1> QED
  BY <1>2, <1>3 DEF Shifts

LEMMA AnswerStillComing ==
  ASSUME NEW p \in Peer, Shifts(Other(p)), Waits(p), ClientOk(p), p = Client,
         NEW i \in DOMAIN net'[Other(p)], net'[Other(p)][i].op = "KEY",
         net'[Other(p)][i].n = primary[p].n, "KEY" \in primary'[p].out
  PROVE  \E l \in DOMAIN net'[Other(p)] : l <= i /\ Acks(net'[Other(p)][l], primary[p].n)
<1> DEFINE q == Other(p)
           n == primary[p].n
<1>1. i + 1 \in DOMAIN net[q] /\ net'[q][i] = net[q][i + 1] /\ i \in Nat
  BY DEF Shifts
<1>2. PICK l \in DOMAIN net[q] : l <= i + 1 /\ Acks(net[q][l], n)
  BY <1>1 DEF ClientOk, Waits
<1>3. l # 1 /\ l \in Nat
  BY <1>2 DEF Waits, Shifts
<1>4. l - 1 \in DOMAIN net'[q] /\ net'[q][l - 1] = net[q][l] /\ l - 1 <= i
  BY <1>1, <1>2, <1>3 DEF Shifts
<1> QED
  BY <1>2, <1>4

(* A packet that is not for the key of peer p, or comes before its hello, is
   dropped. *)
LEMMA DropKeeps ==
  ASSUME TypeInv, IInv, NEW p \in Peer, 1 \in DOMAIN net[Other(p)],
         net' = [net EXCEPT ![Other(p)] = Without(@, 1)],
         net[Other(p)][1].n # primary[p].n \/ ~ linked[p],
         \A r \in Peer : linked[r] => linked'[r],
         UNCHANGED <<made, primary, lame>>
  PROVE  IInv'
<1> DEFINE q == Other(p)
           k == primary[p]
           o == primary[q]
<1>1. q \in Peer /\ q # p /\ Other(q) = p /\ Other(p) = q /\ \A r \in Peer : r = p \/ r = q
  BY OtherPeer
<1>2. PeerInv(p) /\ PeerInv(q)
  BY <1>1 DEF IInv
<1>3. Shifts(q) /\ Shrinks(q) /\ net'[p] = net[p]
  BY <1>1, FirstShifts
<1>4. Waits(p)
  BY <1>2 DEF Waits, Acks, PeerInv, KeyOk
<1> HIDE DEF q
<1>5. AckComing(p) => AckComing(p)'
  BY <1>1, <1>3, <1>4, AckStillComing
<1>6. AckComing(q) => AckComing(q)'
  BY <1>1, <1>3 DEF AckComing, Acks
<1>7. \A i \in DOMAIN net'[q] : \E l \in DOMAIN net[q] : net'[q][i] = net[q][l]
  BY <1>3 DEF Shifts
<1>8. ASSUME NEW r \in Peer PROVE KeyOk(r, primary[r])' /\ LameOk(r)' /\ Spread(r)' /\ Sync(r)' /\ Ahead(r)'
  <2>1. PeerInv(r) /\ (AckComing(r) => AckComing(r)')
    BY <1>1, <1>2, <1>5, <1>6
  <2>2. KeyOk(r, primary[r])'
    BY <2>1 DEF PeerInv, KeyOk, DecryptKeyEnabled, Contributes
  <2>3. LameOk(r)' /\ Spread(r)'
    BY <2>1 DEF PeerInv, LameOk, Spread
  <2>4. Sync(r)' /\ Ahead(r)'
    BY <2>1 DEF PeerInv, Sync, Ahead, Complete, Begun, Sent, KeySent, Contributes, Unanswered
  <2> QED
    BY <2>2, <2>3, <2>4
<1>9. ClientOk(p)'
  <2>1. ClientOk(p)
    BY <1>2 DEF PeerInv
  <2>2. ASSUME p = Client, NEW i \in DOMAIN net'[q], net'[q][i].op = "KEY",
               net'[q][i].n = k.n, "KEY" \in k.out
        PROVE  \E l \in DOMAIN net'[q] : l <= i /\ Acks(net'[q][l], k.n)
    BY <1>1, <1>3, <1>4, <2>1, <2>2, AnswerStillComing
  <2> QED
    BY <1>1, <1>3, <2>1, <2>2
    DEF ClientOk, Sent, KeySent, Contributes, Unanswered, Acks
<1>10. ClientOk(q)'
  BY <1>1, <1>2, <1>3, <1>7
  DEF PeerInv, ClientOk, Sent, KeySent, Contributes, Unanswered, Acks
<1>11. ASSUME NEW r \in Peer PROVE InFlight(r)'
  <2>1. InFlight(r) /\ Shrinks(r)
    BY <1>1, <1>2, <1>3, UnchangedShrinks DEF PeerInv
  <2>2. (\A i \in DOMAIN net'[r] : PacketOk(r, net'[r][i])) /\ Ordered(net'[r])
    BY <2>1, ShrinksInFlight
  <2> QED
    BY <2>2 DEF InFlight, Ordered, PacketOk, KeySent, Contributes, Precedes
<1> QED
  BY <1>1, <1>8, <1>9, <1>10, <1>11 DEF IInv, PeerInv

(* A new key j of peer p, whose old one is active. *)
LEMMA NewKeyKeeps ==
  ASSUME TypeInv, IInv, NEW p \in Peer, NEW j \in KeyState, SoftReset(p, j),
         primary[p].state = S_ACTIVE,
         j.n = made[p], j.state = S_INITIAL, j.theirs = NoKey, j.out = {},
         j.in \subseteq {"SOFT_RESET"}, j.acks \subseteq j.in, j.settled = FALSE,
         \A r \in Peer : linked[r] => linked'[r],
         net'[p] = net[p], \A r \in Peer : Shrinks(r)
  PROVE  IInv'
<1> DEFINE q == Other(p)
           k == primary[p]
           o == primary[q]
<1>1. q \in Peer /\ q # p /\ Other(q) = p /\ Other(p) = q /\ \A r \in Peer : r = p \/ r = q
  BY OtherPeer
<1>2. /\ primary'[p] = j /\ lame'[p] = Retired(k) /\ primary'[q] = o /\ lame'[q] = lame[q]
  BY <1>1, SoftResetChanges
<1>3. k \in KeyState /\ k.n \in Nat /\ o.n \in Nat /\ j.n = k.n + 1
      /\ initial_opcode(j.n) = "SOFT_RESET"
  BY <1>1, PeerTypes DEF initial_opcode
<1>4. PeerInv(p) /\ PeerInv(q)
  BY <1>1 DEF IInv
<1>5. k.state = S_ACTIVE /\ k.theirs = k.n
  BY <1>4 DEF PeerInv, KeyOk, DecryptKeyEnabled
<1>6. /\ Retired(k).n = k.n /\ Retired(k).state = S_ACTIVE /\ Retired(k).theirs = k.n
  BY <1>3, <1>5, RetiredType
<1>7. k.n <= o.n /\ o.n <= k.n + 1
  BY <1>1, <1>4, <1>5 DEF PeerInv, Spread
<1>8. o.theirs = o.n => o.n = k.n
  BY <1>1, <1>3, <1>4, <1>7 DEF PeerInv, Spread
<1>9. o.settled => o.theirs = o.n
  BY <1>4 DEF PeerInv, KeyOk, DecryptKeyEnabled
<1>10. o.n = k.n => Complete(q)
  BY <1>1, ActiveComplete
<1>11. AckComing(q) => AckComing(q)'
  BY <1>1, <1>2 DEF AckComing, Acks
<1> HIDE DEF q, k, o
<1>12. PeerInv(p)'
  <2>1. KeyOk(p, primary[p])'
    <3>1. k.n >= 0 /\ j.n # NoKey
      BY <1>3
    <3>2. "KEY" \notin j.in
      OBVIOUS
    <3> QED
      BY <1>2, <1>3, <3>1, <3>2 DEF KeyOk, DecryptKeyEnabled
  <2>2. LameOk(p)'
    BY <1>2, <1>3, <1>6 DEF LameOk
  <2>3. Spread(p)'
    <3>1. lame'[p] # Undefined
      BY <1>2, <1>3, <1>6 DEF Undefined, Fresh
    <3> QED
      BY <1>1, <1>2, <1>3, <1>7, <3>1 DEF Spread
  <2>4. Sync(p)'
    <3>1. ~ (o.theirs = o.n /\ o.n = j.n)
      BY <1>3, <1>8
    <3> HIDE DEF o
    <3> QED
      BY <1>1, <1>2, <3>1 DEF Sync, Sent, Begun, Contributes, o
  <2>5. Ahead(p)'
    BY <1>1, <1>2, <1>3, <1>7 DEF Ahead
  <2>6. ClientOk(p)'
    <3>1. j.theirs # j.n /\ "KEY" \notin j.acks /\ "KEY" \notin j.out
      BY <1>3
    <3> QED
      BY <1>2, <3>1 DEF ClientOk, Unanswered
  <2>7. InFlight(p)'
    <3>1. InFlight(p) /\ Shrinks(p)
      BY <1>4 DEF PeerInv
    <3>2. (\A i \in DOMAIN net'[p] : PacketOk(p, net'[p][i])) /\ Ordered(net'[p])
      BY <3>1, ShrinksInFlight
    <3>3. \A i \in DOMAIN net'[p] : net'[p][i].n # j.n
      <4>1. \A i \in DOMAIN net[p] : net[p][i] \in Packet /\ net[p][i].n <= k.n
        BY PeerTypes DEF k
      <4>2. \A i \in DOMAIN net[p] : net[p][i].n # j.n
        BY <1>3, <4>1 DEF Packet
      <4> QED
        BY <3>1, <4>2 DEF Shrinks
    <3>4. ASSUME NEW i \in DOMAIN net'[p] PROVE PacketOk(p, net[p][i])'
      BY <1>1, <1>2, <3>2, <3>3 DEF PacketOk, o
    <3> QED
      BY <3>2, <3>4 DEF InFlight, Ordered, Precedes
  <2> QED
    BY <2>1, <2>2, <2>3, <2>4, <2>5, <2>6, <2>7 DEF PeerInv
<1>13. PeerInv(q)'
  <2>1. KeyOk(q, primary[q])'
    BY <1>1, <1>2, <1>4 DEF PeerInv, KeyOk, DecryptKeyEnabled, Contributes, o
  <2>2. LameOk(q)'
    BY <1>2, <1>4 DEF PeerInv, LameOk, o
  <2>3. Spread(q)'
    BY <1>1, <1>2, <1>3, <1>4, <1>7, <1>8, <1>9 DEF PeerInv, Spread, k, o
  <2>4. Sync(q)'
    <3>1. Sync(q)
      BY <1>4 DEF PeerInv
    <3>2. Sent(q, o) => o.n <= k.n
      BY <1>1, <3>1 DEF Sync, k, o
    <3>3. Begun(o) => o.n <= k.n
      BY <1>1, <3>1 DEF Sync, k, o
    <3>4. j.theirs # j.n /\ (Sent(q, o) \/ Begun(o) => o.n <= j.n /\ j.n # o.n)
      BY <1>3, <3>2, <3>3
    <3> QED
      BY <1>1, <1>2, <3>4 DEF Sync, Begun, Sent, KeySent, Contributes, o
  <2>5. Ahead(q)'
    <3>1. ASSUME j.n = o.n + 1 PROVE Complete(q)
      BY <1>3, <1>10, <3>1
    <3> QED
      BY <1>1, <1>2, <1>11, <3>1
      DEF Ahead, Complete, KeySent, Contributes, Unanswered, o
  <2>6. ClientOk(q)'
    <3>1. ~ Sent(p, j)
      BY DEF Sent, Contributes
    <3>2. \A i \in DOMAIN net'[q] : \E l \in DOMAIN net[q] : net'[q][i] = net[q][l]
      BY <1>1 DEF Shrinks
    <3>3. ClientOk(q)
      BY <1>4 DEF PeerInv
    <3> QED
      BY <1>1, <1>2, <3>1, <3>2, <3>3
      DEF ClientOk, Sent, KeySent, Contributes, Unanswered, Acks, o
  <2>7. InFlight(q)'
    <3>1. InFlight(q) /\ Shrinks(q)
      BY <1>1, <1>4 DEF PeerInv
    <3>2. (\A i \in DOMAIN net'[q] : PacketOk(q, net'[q][i])) /\ Ordered(net'[q])
      BY <1>1, <3>1, ShrinksInFlight
    <3>3. ASSUME NEW i \in DOMAIN net'[q] PROVE PacketOk(q, net[q][i])'
      <4>1. PacketOk(q, net'[q][i])
        BY <3>2
      <4>2. net'[q][i].n >= k.n
        BY <1>1, <1>5, <4>1 DEF PacketOk, k
      <4>3. j.n - 1 = k.n /\ j.theirs # j.n
        BY <1>3
      <4> QED
        BY <1>1, <1>2, <4>1, <4>2, <4>3 DEF PacketOk, KeySent, Contributes, o
    <3> QED
      BY <3>2, <3>3 DEF InFlight, Ordered, Precedes
  <2> QED
    BY <2>1, <2>2, <2>3, <2>4, <2>5, <2>6, <2>7 DEF PeerInv
<1> QED
  BY <1>1, <1>12, <1>13 DEF IInv

(* Packet m from peer q is the next one, and is accepted. *)
LEMMA AcceptKeeps ==
  ASSUME TypeInv, IInv, NEW p \in Peer, 1 \in DOMAIN net[Other(p)],
         NEW m, m = net[Other(p)][1], m.n = primary[p].n,
         Reads(p), primary[p].state # S_ERROR,
         linked'[p], linked'[Other(p)] = linked[Other(p)],
         primary' = [primary EXCEPT ![p] = Accept(primary[p], m)], UNCHANGED <<made, lame>>,
         net' = [net EXCEPT ![Other(p)] = Without(@, 1)]
  PROVE  IInv'
<1> DEFINE q == Other(p)
           k == primary[p]
           o == primary[q]
           j == Accept(k, m)
<1>1. q \in Peer /\ q # p /\ Other(q) = p /\ Other(p) = q /\ \A r \in Peer : r = p \/ r = q
  BY OtherPeer
<1>2. /\ k \in KeyState /\ k.n \in Nat /\ o.n \in Nat /\ m \in Packet /\ m.n <= o.n
      /\ m.n = k.n
  BY <1>1, PeerTypes
<1>3. /\ primary'[p] = j /\ primary'[q] = o /\ lame' = lame
      /\ linked'[p] /\ linked'[q] = linked[q]
  BY <1>1 DEF TypeInv, TypeOK
<1>4. /\ j.n = k.n /\ j.state = k.state /\ j.settled = k.settled
      /\ j.out = k.out \ m.acks
      /\ j.in = (IF m.op = "ACK" THEN k.in ELSE k.in \cup {m.op})
      /\ j.acks = (IF m.op = "ACK" THEN k.acks ELSE k.acks \cup {m.op})
      /\ j.theirs = IF m.op = "KEY" THEN m.n ELSE k.theirs
  <2>1. key_id(k.n) = key_id(m.n)
    OBVIOUS
  <2>2. j.n = k.n /\ j.state = k.state /\ j.settled = k.settled
    BY <1>2, AcceptType
  <2> QED
    BY <1>2, <2>1, <2>2, AcceptChanges
<1>5. PeerInv(p) /\ PeerInv(q) /\ PacketOk(q, m) /\ m = net[q][1] /\ 1 \in DOMAIN net[q]
  BY <1>1 DEF IInv, PeerInv, InFlight
<1>6. Shifts(q) /\ Shrinks(q) /\ net'[p] = net[p]
  BY <1>1, FirstShifts
<1>7. \A i \in DOMAIN net'[q] : Precedes(m, net'[q][i])
  <2>1. \A i \in DOMAIN net'[q] : 1 < i + 1 /\ i + 1 \in DOMAIN net[q] /\ net'[q][i] = net[q][i + 1]
    BY <1>6 DEF Shifts
  <2> QED
    BY <1>5, <2>1 DEF PeerInv, InFlight, Ordered
<1>8. Waits(p)
  BY <1>3, <1>4, <1>5 DEF Waits, Acks
<1>9. m.op = "KEY" /\ p = Client => initial_opcode(k.n) \in k.in /\ KeySent(p, k)
  <2>1. p = Client => q = Server
    BY <1>1 DEF Peer
  <2> QED
    BY <1>1, <1>2, <1>5, <2>1, KeyAskedFor
<1>10. k.theirs = k.n /\ p = Client /\ ~ Unanswered(p, k) => k.state = S_ACTIVE
  BY ReadsActive
<1>11. k.state # S_ERROR /\ InFlight(p)
  BY <1>5 DEF PeerInv
<1>12. ASSUME "KEY" \in j.out, p = Client,
              NEW i \in DOMAIN net'[q], net'[q][i].op = "KEY", net'[q][i].n = k.n
       PROVE  \E l \in DOMAIN net'[q] : l <= i /\ Acks(net'[q][l], k.n)
  BY <1>3, <1>5, <1>6, <1>8, <1>12, AnswerStillComing DEF PeerInv
<1> HIDE DEF q, k, o, j
<1>13. /\ AckComing(p) => AckComing(p)'
       /\ AckComing(q) => AckComing(q)'
  <2>1. AckComing(p) => AckComing(p)'
    BY <1>1, <1>6, <1>8, AckStillComing DEF q
  <2>2. AckComing(q) => AckComing(q)'
    BY <1>1, <1>3, <1>6 DEF AckComing, Acks, o
  <2> QED
    BY <2>1, <2>2
<1>14. /\ k.theirs = k.n => j.theirs = j.n
       /\ j.theirs = j.n => k.theirs = k.n \/ m.op = "KEY"
       /\ m.op = "KEY" => j.theirs = j.n
  BY <1>2, <1>4
<1>15. /\ KeySent(p, k) => KeySent(p, j)
       /\ Begun(k) => Begun(j)
       /\ Begun(j) => Begun(k) \/ initial_opcode(k.n) \in m.acks
       /\ Sent(p, j) => Sent(p, k) \/ "KEY" \in m.acks
  BY <1>4 DEF KeySent, Begun, Sent, Contributes
<1>16. /\ m.op \in {"ACK", "KEY", initial_opcode(k.n)}
       /\ k.theirs = k.n => m.op # initial_opcode(k.n)
       /\ m.op = "KEY" /\ o.n = k.n => KeySent(q, o)
       /\ o.n = k.n => m.acks \subseteq o.in
  BY <1>1, <1>2, <1>5 DEF PacketOk, k, o
<1>17. /\ KeyOk(p, k) /\ KeyOk(q, o) /\ Spread(p) /\ Spread(q) /\ Sync(p) /\ Sync(q)
       /\ Ahead(p) /\ Ahead(q) /\ ClientOk(p) /\ ClientOk(q) /\ LameOk(p) /\ LameOk(q)
       /\ InFlight(q)
  BY <1>5 DEF PeerInv, k, o
<1>18. PeerInv(p)'
  <2>1. KeyOk(p, primary[p])'
    <3>1. j.in \subseteq {initial_opcode(j.n), "KEY"} /\ j.acks \subseteq j.in
      BY <1>4, <1>16, <1>17 DEF KeyOk
    <3>2. "KEY" \in j.in <=> j.theirs = j.n
      <4>1. initial_opcode(k.n) # "KEY"
        BY DEF initial_opcode
      <4> QED
        BY <1>2, <1>4, <1>16, <1>17, <4>1 DEF KeyOk
    <3>3. j.out \subseteq {initial_opcode(j.n), "KEY"} /\ j.out \subseteq k.out
      BY <1>4, <1>17 DEF KeyOk
    <3>4. j.theirs \in {NoKey, j.n} /\ (DecryptKeyEnabled(p, j) => j.theirs = j.n)
      BY <1>4, <1>14, <1>17 DEF KeyOk, DecryptKeyEnabled
    <3>5. /\ j.state # S_UNDEF /\ (j.settled => j.state = S_ACTIVE)
          /\ j.state = S_ACTIVE => "KEY" \notin j.out
          /\ "KEY" \in j.out => j.state = S_ERROR \/ Contributes(p, j)
      BY <1>4, <1>17, <3>3 DEF KeyOk, Contributes
    <3> QED
      BY <1>3, <3>1, <3>2, <3>3, <3>4, <3>5 DEF KeyOk, DecryptKeyEnabled, Contributes
  <2>2. LameOk(p)'
    BY <1>3, <1>4, <1>17 DEF LameOk, k
  <2>3. Spread(p)'
    BY <1>1, <1>2, <1>3, <1>4, <1>17 DEF Spread, k, o
  <2>4. Sync(p)'
    <3>1. o.theirs = o.n /\ o.n = j.n => KeySent(p, j)
      BY <1>1, <1>4, <1>15, <1>17 DEF Sync, k, o
    <3>2. Sent(p, j) => j.n <= o.n /\ (o.n = j.n => o.theirs = o.n)
      <4>1. Sent(p, k) => k.n <= o.n /\ (o.n = k.n => o.theirs = o.n)
        BY <1>1, <1>17 DEF Sync, k, o
      <4>2. "KEY" \in m.acks => k.n <= o.n /\ (o.n = k.n => o.theirs = o.n)
        BY <1>2, <1>16, <1>17 DEF KeyOk
      <4> QED
        BY <1>4, <1>15, <4>1, <4>2
    <3>3. Begun(j) => j.n <= o.n /\ (o.n = j.n => initial_opcode(j.n) \in o.in)
      <4>1. Begun(k) => k.n <= o.n /\ (o.n = k.n => initial_opcode(k.n) \in o.in)
        BY <1>1, <1>17 DEF Sync, k, o
      <4>2. initial_opcode(k.n) \in m.acks => k.n <= o.n /\ (o.n = k.n => initial_opcode(k.n) \in o.in)
        BY <1>2, <1>16
      <4> QED
        BY <1>4, <1>15, <4>1, <4>2
    <3>4. o.theirs = o.n /\ o.n = j.n /\ ("KEY" \notin o.acks \/ o.state = S_ACTIVE) => AckComing(p)'
      BY <1>1, <1>4, <1>13, <1>17 DEF Sync, k, o
    <3> QED
      BY <1>1, <1>3, <3>1, <3>2, <3>3, <3>4 DEF Sync, Begun, Sent, KeySent, Contributes
  <2>5. Ahead(p)'
    <3>1. ASSUME o.n = j.n + 1 PROVE Complete(p)'
      <4>1. /\ k.theirs = k.n /\ initial_opcode(k.n) \in k.in /\ KeySent(p, k) /\ AckComing(p)
            /\ ~ Unanswered(p, k)
        BY <1>1, <1>4, <1>17, <3>1 DEF Ahead, Complete, k, o
      <4>2. j.theirs = j.n /\ initial_opcode(j.n) \in j.in /\ KeySent(p, j) /\ AckComing(p)'
        BY <1>4, <1>13, <1>14, <1>15, <4>1
      <4>3. ~ Unanswered(p, j)
        BY <1>4, <1>10, <4>1 DEF Unanswered
      <4> QED
        BY <1>3, <4>2, <4>3 DEF Complete, KeySent, Contributes, Unanswered
    <3> QED
      BY <1>1, <1>3, <3>1 DEF Ahead
  <2>6. ClientOk(p)'
    <3> SUFFICES ASSUME p = Client PROVE ClientOk(p)'
      BY DEF ClientOk
    <3>1. k.theirs = k.n =>
            /\ KeySent(p, k) /\ "KEY" \notin k.out /\ initial_opcode(k.n) \in k.in
            /\ "KEY" \in k.acks \/ k.acks = {}
      BY <1>17 DEF ClientOk, k
    <3>2. m.op = "KEY" => "KEY" \notin j.out
      <4>1. SUFFICES ASSUME m.op = "KEY", "KEY" \in k.out PROVE "KEY" \in m.acks
        BY <1>4
      <4>2. PICK l \in DOMAIN net[q] : l <= 1 /\ Acks(net[q][l], k.n)
        BY <1>1, <1>2, <1>5, <1>17, <4>1 DEF ClientOk, k
      <4>3. l = 1
        BY <1>6, <4>2 DEF Shifts
      <4> QED
        BY <1>5, <4>2, <4>3 DEF Acks
    <3>3. j.theirs = j.n =>
            /\ KeySent(p, j) /\ "KEY" \notin j.out /\ initial_opcode(j.n) \in j.in
            /\ "KEY" \in j.acks \/ j.acks = {}
      <4>1. CASE m.op = "KEY"
        BY <1>4, <1>9, <1>15, <3>2, <4>1
      <4>2. CASE m.op # "KEY"
        BY <1>4, <1>14, <1>15, <1>16, <3>1, <4>2
      <4> QED
        BY <4>1, <4>2
    <3>4. ASSUME Unanswered(p, j)
          PROVE  /\ o.n = j.n => ~ Sent(q, o)
                 /\ \A i \in DOMAIN net[p] : ~ Acks(net[p][i], j.n)
      <4>1. CASE Unanswered(p, k)
        BY <1>1, <1>4, <1>17, <4>1 DEF ClientOk, k, o
      <4>2. CASE ~ Unanswered(p, k)
        <5>1. m.op = "KEY" /\ k.state # S_ACTIVE
          BY <1>4, <3>4, <4>2 DEF Unanswered
        <5>2. k.theirs # k.n
          BY <1>10, <4>2, <5>1
        <5>3. o.n = k.n => ~ Sent(q, o)
          BY <1>1, <1>17, <5>2 DEF Sync, k, o
        <5>4. "KEY" \notin k.in
          BY <1>17, <5>2 DEF KeyOk
        <5>5. \A i \in DOMAIN net[p] : ~ Acks(net[p][i], k.n)
          BY <1>11, <5>4 DEF InFlight, PacketOk, Acks, k
        <5> QED
          BY <1>4, <5>3, <5>5
      <4> QED
        BY <4>1, <4>2
    <3> QED
      BY <1>1, <1>3, <1>4, <1>6, <1>12, <3>3, <3>4
      DEF ClientOk, Sent, KeySent, Contributes, Unanswered, Acks
  <2>7. InFlight(p)'
    <3>1. ASSUME NEW i \in DOMAIN net[p] PROVE PacketOk(p, net[p][i])'
      <4>1. PacketOk(p, net[p][i])
        BY <1>11 DEF InFlight
      <4>2. k.in \subseteq j.in
        BY <1>4
      <4> QED
        BY <1>1, <1>3, <1>4, <1>6, <1>14, <1>15, <4>1, <4>2
        DEF PacketOk, KeySent, Contributes, k, o
    <3> QED
      BY <1>6, <1>11, <3>1 DEF InFlight, Ordered, Precedes
  <2> QED
    BY <2>1, <2>2, <2>3, <2>4, <2>5, <2>6, <2>7 DEF PeerInv
<1>19. PeerInv(q)'
  <2>1. KeyOk(q, primary[q])'
    BY <1>3, <1>17 DEF KeyOk, DecryptKeyEnabled, Contributes
  <2>2. LameOk(q)'
    BY <1>3, <1>17 DEF LameOk, o
  <2>3. Spread(q)'
    BY <1>1, <1>3, <1>4, <1>17 DEF Spread, k, o
  <2>4. Sync(q)'
    <3>1. j.theirs = j.n /\ j.n = o.n => KeySent(q, o)
      BY <1>1, <1>4, <1>14, <1>16, <1>17 DEF Sync, k, o
    <3>2. Sent(q, o) => o.n <= j.n /\ (j.n = o.n => j.theirs = j.n)
      BY <1>1, <1>4, <1>14, <1>17 DEF Sync, k, o
    <3>3. Begun(o) => o.n <= j.n /\ (j.n = o.n => initial_opcode(o.n) \in j.in)
      BY <1>1, <1>4, <1>17 DEF Sync, k, o
    <3>4. ASSUME j.theirs = j.n, j.n = o.n, "KEY" \notin j.acks \/ j.state = S_ACTIVE
          PROVE  AckComing(q)
      <4>1. k.theirs = k.n
        <5>1. CASE m.op = "KEY"
          <6>1. k.state = S_ACTIVE
            BY <1>4, <3>4, <5>1
          <6> QED
            BY <1>17, <6>1 DEF KeyOk, DecryptKeyEnabled
        <5>2. CASE m.op # "KEY"
          BY <1>4, <3>4, <5>2
        <5> QED
          BY <5>1, <5>2
      <4>2. "KEY" \notin k.acks \/ k.state = S_ACTIVE
        BY <1>4, <3>4
      <4> QED
        BY <1>1, <1>4, <1>17, <3>4, <4>1, <4>2 DEF Sync, k, o
    <3> QED
      BY <1>1, <1>3, <1>13, <3>1, <3>2, <3>3, <3>4 DEF Sync, Begun, Sent, KeySent, Contributes
  <2>5. Ahead(q)'
    BY <1>1, <1>3, <1>4, <1>13, <1>17
    DEF Ahead, Complete, KeySent, Contributes, Unanswered, k, o
  <2>6. ClientOk(q)'
    <3>1. ASSUME Unanswered(q, o), j.n = o.n PROVE ~ Sent(p, j)
      <4>1. ~ Sent(p, k) /\ ~ Acks(net[q][1], o.n)
        BY <1>1, <1>4, <1>5, <1>17, <3>1 DEF ClientOk, Unanswered, k, o
      <4> QED
        BY <1>2, <1>4, <1>5, <1>15, <3>1, <4>1 DEF Acks
    <3>2. \A i \in DOMAIN net'[q] : \E l \in DOMAIN net[q] : net'[q][i] = net[q][l]
      BY <1>6 DEF Shifts
    <3> QED
      BY <1>1, <1>3, <1>6, <1>17, <3>1, <3>2
      DEF ClientOk, Sent, KeySent, Contributes, Unanswered, Acks, o
  <2>7. InFlight(q)'
    <3>1. (\A i \in DOMAIN net'[q] : PacketOk(q, net'[q][i])) /\ Ordered(net'[q])
      BY <1>1, <1>6, <1>17, ShrinksInFlight
    <3>2. ASSUME NEW i \in DOMAIN net'[q] PROVE PacketOk(q, net[q][i])'
      <4>1. PacketOk(q, net'[q][i]) /\ Precedes(m, net'[q][i])
        BY <1>7, <3>1
      <4>2. net'[q][i].n >= j.n - 1
        BY <1>1, <1>4, <4>1 DEF PacketOk, k
      <4>3. j.theirs = j.n =>
              /\ net'[q][i].n >= j.n
              /\ ~ (net'[q][i].op = initial_opcode(net'[q][i].n) /\ net'[q][i].n = j.n)
        <5>1. CASE m.op = "KEY"
          BY <1>2, <1>4, <4>1, <5>1 DEF Precedes
        <5>2. CASE m.op # "KEY"
          BY <1>1, <1>4, <4>1, <5>2 DEF PacketOk, k
        <5> QED
          BY <5>1, <5>2
      <4> QED
        BY <1>1, <1>3, <4>1, <4>2, <4>3 DEF PacketOk, KeySent, Contributes, o
    <3> QED
      BY <3>1, <3>2 DEF InFlight, Ordered, Precedes
  <2> QED
    BY <2>1, <2>2, <2>3, <2>4, <2>5, <2>6, <2>7 DEF PeerInv
<1> QED
  BY <1>1, <1>18, <1>19 DEF IInv

-----------------------------------------------------------------------------
(* A peer makes a new key only when its last one is active. *)
Ready(p) == primary[p].state = S_ACTIVE

LEMMA RenegotiateReady ==
  ASSUME TypeInv, NEW p \in Peer, Renegotiate(p)
  PROVE  Ready(p)
<1>1. primary[p].state >= S_ACTIVE /\ primary[p] \in KeyState
  BY PeerTypes DEF Renegotiate
<1> QED
  BY <1>1, KeyTypes DEF Ready

(* The request for the next key comes after all that the other peer sent for
   this one, so this one is complete; and a peer completes it before it reads
   on. *)
LEMMA RequestReady ==
  ASSUME Fifo, TypeInv, IInv, NEW p \in Peer, 1 \in DOMAIN net[Other(p)],
         RequestsReset(p, net[Other(p)][1]), Reads(p), primary[p].state # S_ERROR
  PROVE  Ready(p)
<1> DEFINE q == Other(p)
           k == primary[p]
           m == net[q][1]
<1>1. q \in Peer /\ Other(q) = p
  BY OtherPeer
<1>2. PeerInv(p) /\ PacketOk(q, m) /\ Ordered(net[q])
  BY <1>1 DEF IInv, PeerInv, InFlight
<1>3. m \in Packet /\ m.n <= primary[q].n /\ primary[q].n \in Nat /\ k.n \in Nat
      /\ net[q] \in Seq(Packet)
  BY <1>1, PeerTypes
<1>4. m.n \in Nat
  BY <1>3 DEF Packet
<1>5. k.theirs = k.n /\ m.op = "SOFT_RESET"
  BY <1>2 DEF RequestsReset, PeerInv, KeyOk
<1>6. m.op = initial_opcode(m.n)
  BY <1>2, <1>5 DEF PacketOk
<1>7. m.n >= k.n /\ m.n # k.n
  BY <1>1, <1>2, <1>5, <1>6 DEF PacketOk
<1>8. primary[q].n = k.n + 1 /\ m.n > k.n
  <2>1. primary[q].n <= k.n + 1
    BY <1>2 DEF PeerInv, Spread
  <2> QED
    BY <1>3, <1>4, <1>7, <2>1
<1>9. Complete(p)
  BY <1>2, <1>8 DEF PeerInv, Ahead
<1>10. \A i \in DOMAIN net[q] : net[q][i].n # k.n
  <2>1. \A i \in DOMAIN net[q] : i \in Nat /\ (i = 1 \/ 1 < i)
    BY <1>3, LenProperties
  <2>2. \A i \in DOMAIN net[q] : i = 1 \/ m.n <= net[q][i].n
    BY <1>2, <2>1 DEF Ordered, Precedes
  <2>3. \A i \in DOMAIN net[q] : net[q][i].n \in Nat
    <3>1. \A i \in DOMAIN net[q] : net[q][i] \in Packet
      BY <1>1, PeerTypes
    <3> QED
      BY <3>1 DEF Packet
  <2> QED
    BY <1>3, <1>4, <1>8, <2>2, <2>3
<1>11. k.out = {} /\ (k.state = S_ERROR \/ Contributes(p, k))
  <2>1. "KEY" \notin k.out
    BY <1>9, <1>10 DEF Complete, AckComing, Acks
  <2>2. KeySent(p, k) /\ KeyOk(p, k)
    BY <1>2, <1>9 DEF Complete, PeerInv
  <2> QED
    BY <2>1, <2>2 DEF KeySent, KeyOk
<1> HIDE DEF q, m, k
<1>12. CASE p = Client
  <2>1. ~ Unanswered(p, k)
    BY <1>9 DEF Complete, k
  <2> QED
    BY <1>5, <1>12, <2>1, ReadsActive DEF Ready, k
<1>13. CASE p # Client
  <2>1. p = Server
    BY <1>13 DEF Peer
  <2>2. k.acks = {} /\ ~ Due(p)
    BY <2>1 DEF Reads, Fifo, k
  <2>3. k.state # S_SENT_KEY
    BY <1>11, <2>1, <2>2 DEF Due, Completes, FullSync, k
  <2>4. k.state # S_ERROR
    BY DEF k
  <2> QED
    BY <1>11, <1>13, <2>3, <2>4 DEF Contributes, Ready, k
<1> QED
  BY <1>12, <1>13

LEMMA RenegotiateKeeps ==
  ASSUME TypeInv, IInv, NEW p \in Peer, Renegotiate(p)
  PROVE  IInv'
<1>1. Ready(p)
  BY RenegotiateReady
<1>2. SoftReset(p, NextKey(p)) /\ net' = net
  BY DEF Renegotiate
<1>3. /\ \A r \in Peer : Shrinks(r)
      /\ net'[p] = net[p] /\ \A r \in Peer : linked[r] => linked'[r]
  BY <1>2, UnchangedShrinks DEF Renegotiate
<1>4. /\ NextKey(p) \in KeyState /\ NextKey(p).n = made[p]
      /\ NextKey(p).state = S_INITIAL /\ NextKey(p).theirs = NoKey
      /\ NextKey(p).out = {} /\ NextKey(p).in = {} /\ NextKey(p).acks = {}
      /\ NextKey(p).settled = FALSE
  BY NextKeyType
<1>5. NextKey(p).in \subseteq {"SOFT_RESET"} /\ NextKey(p).acks \subseteq NextKey(p).in
  BY <1>4
<1> QED
  BY <1>1, <1>2, <1>3, <1>4, <1>5, NewKeyKeeps DEF Ready

LEMMA RequestKeeps ==
  ASSUME TypeInv, IInv, NEW p \in Peer, 1 \in DOMAIN net[Other(p)],
         NEW m, m = net[Other(p)][1], RequestsReset(p, m), SoftReset(p, Accept(NextKey(p), m)),
         Ready(p), net'[p] = net[p], \A r \in Peer : Shrinks(r),
         \A r \in Peer : linked[r] => linked'[r]
  PROVE  IInv'
<1> DEFINE k == NextKey(p)
           j == Accept(k, m)
<1>2. m \in Packet /\ m.op = "SOFT_RESET"
  BY OtherPeer, PeerTypes DEF RequestsReset
<1>3. /\ k \in KeyState /\ k.n = made[p] /\ k.state = S_INITIAL /\ k.theirs = NoKey
      /\ k.out = {} /\ k.in = {} /\ k.acks = {} /\ k.settled = FALSE
  BY NextKeyType
<1> HIDE DEF k
<1>4. j \in KeyState /\ j.n = made[p] /\ j.state = S_INITIAL /\ j.settled = FALSE
  BY <1>2, <1>3, AcceptType
<1>5. /\ j.theirs = NoKey /\ j.out = {}
      /\ j.in \subseteq {"SOFT_RESET"} /\ j.acks \subseteq j.in
  <2>1. CASE key_id(k.n) # key_id(m.n)
    <3>1. j = k
      BY <2>1, AcceptNothing
    <3> QED
      BY <1>3, <3>1
  <2>2. CASE key_id(k.n) = key_id(m.n)
    <3>1. /\ j.out = k.out \ m.acks
          /\ j.in = IF m.op = "ACK" THEN k.in ELSE k.in \cup {m.op}
          /\ j.acks = IF m.op = "ACK" THEN k.acks ELSE k.acks \cup {m.op}
          /\ j.theirs = IF m.op = "KEY" THEN m.n ELSE k.theirs
      BY <1>2, <1>3, <2>2, AcceptChanges
    <3> QED
      BY <1>2, <1>3, <3>1
  <2> QED
    BY <2>1, <2>2
<1>6. SoftReset(p, j)
  BY DEF k
<1> HIDE DEF j
<1> QED
  BY <1>4, <1>5, <1>6, NewKeyKeeps DEF Ready

LEMMA ReceiveKeeps ==
  ASSUME Fifo, TypeInv, IInv, NEW p \in Peer, NEW i \in DOMAIN net[Other(p)], Receive(p, i)
  PROVE  IInv'
<1> DEFINE q == Other(p)
           m == net[q][1]
<1>1. q \in Peer /\ Other(q) = p
  BY OtherPeer
<1>2. /\ 1 \in DOMAIN net[q] /\ net' = [net EXCEPT ![q] = Without(@, 1)] /\ Process(p, m)
      /\ Reads(p)
  BY DEF Receive, Fifo
<1>3. Processed(p, m)
  BY <1>2, ProcessProcesses
<1>4. /\ \A r \in Peer : Shrinks(r)
      /\ net'[p] = net[p]
  BY <1>1, <1>2, FirstShifts, UnchangedShrinks, OtherPeer
<1>5. CASE ~ linked[p] /\ UNCHANGED <<made, primary, lame>>
  BY <1>2, <1>3, <1>5, DropKeeps DEF Processed
<1>6. CASE RequestsReset(p, m) /\ SoftReset(p, Accept(NextKey(p), m))
  <2>1. Ready(p)
    BY <1>2, <1>3, <1>6, RequestReady DEF Processed
  <2> QED
    BY <1>2, <1>3, <1>4, <1>6, <2>1, RequestKeeps DEF Processed
<1>7. CASE /\ primary' = [primary EXCEPT ![p] = Accept(primary[p], m)]
           /\ linked'[p] /\ UNCHANGED <<made, lame>>
  <2>1. CASE key_id(primary[p].n) # key_id(m.n)
    <3>1. Accept(primary[p], m) = primary[p]
      BY <2>1, AcceptNothing
    <3>2. primary' = primary
      BY <1>7, <3>1 DEF TypeInv, TypeOK
    <3>3. m.n # primary[p].n
      BY <2>1
    <3> QED
      BY <1>2, <1>3, <1>7, <3>2, <3>3, DropKeeps DEF Processed
  <2>2. CASE key_id(primary[p].n) = key_id(m.n)
    <3>1. m \in Packet /\ m.n <= primary[q].n /\ primary[p].n \in Nat /\ primary[q].n \in Nat
      BY <1>1, <1>2, PeerTypes
    <3>2. m.n \in Nat
      BY <3>1 DEF Packet
    <3>3. PacketOk(q, m) /\ Spread(p)
      BY <1>1, <1>2 DEF IInv, PeerInv, InFlight
    <3>4. m.n >= primary[p].n - 1
      BY <1>1, <3>3 DEF PacketOk
    <3>5. primary[q].n <= primary[p].n + 1
      BY <3>3 DEF Spread
    <3>6. m.n <= primary[p].n + 1 /\ primary[p].n <= m.n + 1
      BY <3>1, <3>2, <3>4, <3>5
    <3>7. m.n = primary[p].n
      BY <2>2, <3>1, <3>2, <3>6, IdsOfNeighbours DEF Fifo
    <3>8. linked'[q] = linked[q] /\ primary[p].state # S_ERROR /\ linked'[p]
      BY <1>3, <1>7, OtherPeer DEF Processed
    <3> QED
      BY <1>2, <1>7, <3>7, <3>8, AcceptKeeps
  <2> QED
    BY <2>1, <2>2
<1> QED
  BY <1>3, <1>5, <1>6, <1>7 DEF Processed

LEMMA InvStep ==
  ASSUME Fifo, TypeInv, IInv, [Next]_vars
  PROVE  IInv'
<1>1. CASE UNCHANGED vars
  <2>1. ASSUME NEW r \in Peer PROVE PeerInv(r)'
    <3>1. PeerInv(r)
      BY DEF IInv
    <3>2. LameOk(r)' /\ Spread(r)'
      BY <1>1, <3>1 DEF vars, PeerInv, LameOk, Spread
    <3> QED
      BY <1>1, <3>2, SameKeys DEF vars
  <2> QED
    BY <2>1 DEF IInv
<1>2. ASSUME NEW p \in Peer, HandshakeTimeout(p) \/ Settle(p) \/ Handshake(p)
      PROVE  IInv'
  BY <1>2, HandshakeGoesOn, GoesOnKeeps
<1>3. ASSUME NEW p \in Peer, SendReliable(p) \/ SendAck(p)
      PROVE  IInv'
  BY <1>3, SendSends, SendsKeeps
<1>4. ASSUME NEW p \in Peer, NEW i, ReceiveDuplicate(p, i)
      PROVE  FALSE
  BY <1>4 DEF ReceiveDuplicate, Fifo
<1> QED
  BY <1>1, <1>2, <1>3, <1>4, RenegotiateKeeps, KillKeeps, ReceiveKeeps DEF Next

LEMMA Invariant ==
  ASSUME Fifo
  PROVE  Spec => [](TypeInv /\ IInv)
<1>1. Init => IInv
  BY InitInv
<1>2. TypeInv /\ IInv /\ [Next]_vars => IInv'
  BY InvStep
<1> QED
  BY <1>1, <1>2, TypeInvariant, PTL DEF Spec

-----------------------------------------------------------------------------
(* Both peers derive a key from the same two contributions: as long as no id
   is used twice on any link, however it loses, repeats and reorders packets,
   and for any number of keys on a TCP link. *)
LEMMA InvOwn ==
  ASSUME TypeInv, IInv
  PROVE  OwnKeys
<1> SUFFICES ASSUME NEW p \in Peer PROVE Own(primary[p]) /\ Own(lame[p])
  BY DEF OwnKeys
<1>1. PeerInv(p)
  BY DEF IInv
<1> QED
  BY <1>1 DEF PeerInv, KeyOk, LameOk, Own, Undefined, Fresh

(* If one peer's key was made with another's, that one, once it has a
   contribution, has this: the peers derive the same data channel keys
   (tls_session_generate_data_channel_keys), although key ids recycle and a
   packet only carries the id of its key: on a link that loses, repeats and
   reorders as long as no id is used twice, and on a TCP link for any number
   of keys. *)
THEOREM KeysArePaired ==
  ASSUME NoIdTwice \/ Fifo
  PROVE  Spec => []KeysPaired
<1>1. ASSUME NoIdTwice PROVE Spec => []KeysPaired
  <2>1. Init => OwnKeys
    BY InitOwn
  <2>2. TypeInv /\ OwnKeys /\ [Next]_vars => OwnKeys'
    BY <1>1, OwnStep
  <2>3. OwnKeys => KeysPaired
    BY OwnIsPaired
  <2> QED
    BY <2>1, <2>2, <2>3, TypeInvariant, PTL DEF Spec
<1>2. ASSUME Fifo PROVE Spec => []KeysPaired
  <2>1. TypeInv /\ IInv => KeysPaired
    BY InvOwn, OwnIsPaired
  <2>2. Spec => [](TypeInv /\ IInv)
    BY <1>2, Invariant
  <2> QED
    BY <2>1, <2>2, PTL
<1> QED
  BY <1>1, <1>2

-----------------------------------------------------------------------------
(* On a TCP link a peer only sends data with a key that the other one has. *)
LEMMA InvSendKey ==
  ASSUME Fifo, TypeInv, IInv
  PROVE  SendKeyIsKnown
<1> SUFFICES ASSUME NEW p \in Peer, Usable(EncryptKey(p)),
                    primary[p].settled \/ made[Other(p)] <= made[p]
             PROVE  LET k == EncryptKey(p)
                        j == DecryptKey(Other(p), key_id(k.n))
                        q == primary[Other(p)]
                    IN  \/ j.n = k.theirs /\ j.theirs = k.n
                        \/ q.n = k.theirs /\ q.theirs = k.n /\ q.state < S_ACTIVE
  BY DEF SendKeyIsKnown
<1> DEFINE q == Other(p)
           k == EncryptKey(p)
           j == DecryptKey(q, key_id(k.n))
           o == primary[q]
<1>1. q \in Peer /\ Other(q) = p /\ Other(p) = q
  BY OtherPeer
<1>2. PeerInv(p) /\ PeerInv(q)
  BY <1>1 DEF IInv
<1>3. /\ primary[p] \in KeyState /\ o \in KeyState /\ lame[p] \in KeyState /\ lame[q] \in KeyState
      /\ primary[p].n \in Nat /\ o.n \in Nat
      /\ primary[p].n = made[p] - 1 /\ o.n = made[q] - 1 /\ made[p] \in Nat /\ made[q] \in Nat
  BY <1>1, PeerTypes
<1>4. o.n <= primary[p].n + 1 /\ primary[p].n <= o.n + 1
  BY <1>1, <1>2 DEF PeerInv, Spread
<1>5. ASSUME NEW n \in Nat, o.n <= n + 1, n <= o.n + 1, key_id(o.n) = key_id(n)
      PROVE  o.n = n
  BY <1>3, <1>5, IdsOfNeighbours DEF Fifo
<1>6. lame[q] # Undefined =>
        DecryptKeyEnabled(q, lame[q]) /\ lame[q].n = o.n - 1 /\ lame[q].theirs = lame[q].n
  BY <1>2 DEF PeerInv, LameOk, DecryptKeyEnabled
<1>7. ~ DecryptKeyEnabled(q, o) => o.state < S_ACTIVE
  BY <1>3, KeyTypes DEF DecryptKeyEnabled
<1>8. /\ o.settled => o.theirs = o.n /\ DecryptKeyEnabled(q, o)
      /\ primary[p].settled => Usable(primary[p])
  BY <1>2 DEF PeerInv, KeyOk, DecryptKeyEnabled, Usable
<1>9. ASSUME k.n = o.n, k.theirs = k.n, o.theirs = o.n
      PROVE  \/ j.n = k.theirs /\ j.theirs = k.n
             \/ o.n = k.theirs /\ o.theirs = k.n /\ o.state < S_ACTIVE
  BY <1>7, <1>9 DEF DecryptKey
<1>10. ASSUME k.n \in Nat, k.n = o.n - 1, k.theirs = k.n, lame[q] # Undefined
       PROVE  j.n = k.theirs /\ j.theirs = k.n
  <2>1. key_id(o.n) # key_id(k.n)
    BY <1>3, <1>5, <1>10
  <2> QED
    BY <1>6, <1>10, <2>1 DEF DecryptKey
<1>11. CASE k = primary[p]
  <2>1. k.state = S_ACTIVE
    BY <1>3, <1>11, KeyTypes DEF Usable
  <2>2. k.theirs = k.n /\ Sent(p, k)
    BY <1>2, <1>11, <2>1 DEF PeerInv, KeyOk, DecryptKeyEnabled, Sent, Contributes
  <2>3. k.n <= o.n /\ (o.n = k.n => o.theirs = o.n)
    BY <1>1, <1>2, <1>11, <2>2 DEF PeerInv, Sync
  <2>4. CASE o.n = k.n
    BY <1>9, <2>2, <2>3, <2>4
  <2>5. CASE o.n # k.n
    <3>1. o.n = k.n + 1
      BY <1>3, <1>4, <1>11, <2>3, <2>5
    <3>2. o.n > 0 /\ lame[q] = Undefined => o.settled
      BY <1>1, <1>2 DEF PeerInv, Spread
    <3>3. o.theirs = o.n => o.n <= k.n
      BY <1>1, <1>2, <1>11 DEF PeerInv, Spread
    <3>4. lame[q] # Undefined
      BY <1>3, <1>8, <1>11, <3>1, <3>2, <3>3
    <3> QED
      BY <1>3, <1>10, <1>11, <2>2, <3>1, <3>4
  <2> QED
    BY <2>4, <2>5
<1>12. CASE k # primary[p]
  <2>1. k = lame[p] /\ ~ primary[p].settled
    <3>1. k = lame[p]
      BY <1>12 DEF EncryptKey
    <3> QED
      BY <1>3, <1>8, <1>12, <3>1 DEF EncryptKey
  <2>2. lame[p] # Undefined
    BY <2>1 DEF Usable, Undefined, Fresh
  <2>3. k.n = primary[p].n - 1 /\ k.theirs = k.n /\ k.n \in Nat
    BY <1>2, <1>3, <2>1, <2>2 DEF PeerInv, LameOk
  <2>4. o.n # primary[p].n + 1
    BY <1>3, <2>1
  <2>5. CASE o.n = k.n
    <3>1. o.theirs = o.n
      BY <1>1, <1>2, <1>3, <2>3, <2>5 DEF PeerInv, Ahead, Complete
    <3> QED
      BY <1>9, <2>3, <2>5, <3>1
  <2>6. CASE o.n # k.n
    <3>1. o.n = primary[p].n
      BY <1>3, <1>4, <2>3, <2>4, <2>6
    <3>2. o.n > 0 /\ lame[q] = Undefined => primary[p].settled
      BY <1>1, <1>2, <3>1 DEF PeerInv, Spread
    <3> QED
      BY <1>3, <1>10, <2>1, <2>3, <3>1, <3>2
  <2> QED
    BY <2>5, <2>6
<1> QED
  BY <1>11, <1>12

(* On a TCP link, whatever key tls_pre_encrypt picks, through the settling time
   of a soft reset too, tls_pre_decrypt of the other peer finds the same key
   for it, primary or retiring, or is about to have it as its primary one: as
   long as the other peer has not begun the next key before this one settled
   its last. *)
THEOREM SendKeyKnown ==
  ASSUME Fifo
  PROVE  Spec => []SendKeyIsKnown
<1>1. TypeInv /\ IInv => SendKeyIsKnown
  BY InvSendKey
<1> QED
  BY <1>1, Invariant, PTL

-----------------------------------------------------------------------------
(* On a TCP link a peer with a key to send with has one after every step. *)
HasKey(p) == Usable(primary[p]) \/ Usable(lame[p])

LEMMA EncryptKeyUsable ==
  ASSUME NEW p
  PROVE  Usable(EncryptKey(p)) <=> HasKey(p)
BY DEF EncryptKey, HasKey

LEMMA ResetHasKey ==
  ASSUME TypeInv, IInv, NEW p \in Peer, NEW j \in KeyState, j.n = made[p], SoftReset(p, j),
         Ready(p), NEW r \in Peer, HasKey(r)
  PROVE  HasKey(r)'
<1>1. primary[p] \in KeyState
  BY PeerTypes
<1>2. /\ lame'[p] = Retired(primary[p]) /\ Retired(primary[p]).state = primary[p].state
      /\ r # p => primary'[r] = primary[r] /\ lame'[r] = lame[r]
  BY <1>1, SoftResetChanges, RetiredType
<1>3. primary[p].state = S_ACTIVE
  BY DEF Ready
<1> QED
  BY <1>2, <1>3 DEF HasKey, Usable

LEMMA HasKeyStep ==
  ASSUME Fifo, TypeInv, IInv, [Next]_vars, NEW r \in Peer, HasKey(r)
  PROVE  HasKey(r)'
<1>1. primary \in [Peer -> KeyState] /\ lame \in [Peer -> KeyState]
  BY DEF TypeInv, TypeOK
<1>2. CASE UNCHANGED vars
  BY <1>2 DEF vars, HasKey, Usable
<1>3. ASSUME NEW p \in Peer, HandshakeTimeout(p) \/ Settle(p) \/ Handshake(p)
      PROVE  HasKey(r)'
  <2>1. PICK j : GoesOn(p, primary[p], j) /\ primary' = [primary EXCEPT ![p] = j] /\ lame' = lame
    BY <1>3, HandshakeGoesOn DEF KeyGoesOn
  <2>2. (primary'[r] = primary[r] \/ (r = p /\ primary'[r] = j)) /\ lame'[r] = lame[r]
    BY <1>1, <2>1
  <2> QED
    BY <2>1, <2>2 DEF GoesOn, HasKey, Usable
<1>4. ASSUME NEW p \in Peer, SendReliable(p) \/ SendAck(p)
      PROVE  HasKey(r)'
  <2>1. primary' = [primary EXCEPT ![p] = Quiet(primary[p])] /\ lame' = lame
    BY <1>4, SendSends DEF Sends
  <2>2. Quiet(primary[p]).state = primary[p].state
    BY <1>1, QuietType
  <2>3. primary'[r].state = primary[r].state
    BY <1>1, <2>1, <2>2
  <2> QED
    BY <2>1, <2>3 DEF HasKey, Usable
<1>5. ASSUME NEW p \in Peer, KillLameDuck(p)
      PROVE  HasKey(r)'
  <2>1. primary' = primary /\ (r # p => lame'[r] = lame[r]) /\ primary[p].settled
    BY <1>1, <1>5 DEF KillLameDuck
  <2>2. primary[p].state = S_ACTIVE
    BY <2>1 DEF IInv, PeerInv, KeyOk
  <2> QED
    BY <2>1, <2>2 DEF HasKey, Usable
<1>6. ASSUME NEW p \in Peer, Renegotiate(p)
      PROVE  HasKey(r)'
  <2>1. SoftReset(p, NextKey(p)) /\ NextKey(p) \in KeyState /\ NextKey(p).n = made[p]
    BY <1>6, NextKeyType DEF Renegotiate
  <2> QED
    BY <1>6, <2>1, RenegotiateReady, ResetHasKey
<1>7. ASSUME NEW p \in Peer, NEW i \in DOMAIN net[Other(p)], Receive(p, i)
      PROVE  HasKey(r)'
  <2> DEFINE m == net[Other(p)][1]
  <2>1. 1 \in DOMAIN net[Other(p)] /\ Process(p, m) /\ Reads(p)
    BY <1>7 DEF Receive, Fifo
  <2>2. Processed(p, m) /\ m \in Packet
    BY <2>1, ProcessProcesses, OtherPeer, PeerTypes
  <2>3. CASE ~ linked[p] /\ UNCHANGED <<made, primary, lame>>
    BY <2>3 DEF HasKey, Usable
  <2>4. CASE /\ primary' = [primary EXCEPT ![p] = Accept(primary[p], m)]
             /\ linked'[p] /\ UNCHANGED <<made, lame>>
    <3>1. Accept(primary[p], m).state = primary[p].state
      BY <1>1, <2>2, AcceptType
    <3>2. primary'[r].state = primary[r].state
      BY <1>1, <2>4, <3>1
    <3> QED
      BY <2>4, <3>2 DEF HasKey, Usable
  <2>5. CASE RequestsReset(p, m) /\ SoftReset(p, Accept(NextKey(p), m))
    <3>1. Accept(NextKey(p), m) \in KeyState /\ Accept(NextKey(p), m).n = made[p]
      BY <2>2, NextKeyType, AcceptType
    <3> QED
      BY <2>1, <2>2, <2>5, <3>1, RequestReady, ResetHasKey DEF Processed
  <2> QED
    BY <2>2, <2>3, <2>4, <2>5 DEF Processed
<1>8. ASSUME NEW p \in Peer, NEW i, ReceiveDuplicate(p, i)
      PROVE  FALSE
  BY <1>8 DEF ReceiveDuplicate, Fifo
<1> QED
  BY <1>2, <1>3, <1>4, <1>5, <1>6, <1>7, <1>8 DEF Next

(* On a TCP link, no step of a renegotiation leaves a peer that had a key to
   send tunnel data with without one. *)
THEOREM AlwaysHasKey ==
  ASSUME Fifo
  PROVE  Spec => AlwaysAKey
<1>1. TypeInv /\ IInv /\ [Next]_vars =>
        [\A p \in Peer : Usable(EncryptKey(p)) => Usable(EncryptKey(p))']_vars
  <2> SUFFICES ASSUME TypeInv, IInv, [Next]_vars, NEW p \in Peer, Usable(EncryptKey(p))
               PROVE  Usable(EncryptKey(p))'
    OBVIOUS
  <2>1. HasKey(p)'
    BY HasKeyStep, EncryptKeyUsable
  <2> QED
    BY <2>1 DEF HasKey, EncryptKey
<1>2. Spec => [](TypeInv /\ IInv)
  BY Invariant
<1> QED
  BY <1>1, <1>2, PTL DEF Spec, AlwaysAKey

=============================================================================
