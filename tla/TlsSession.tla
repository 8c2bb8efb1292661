------------------------------ MODULE TlsSession ------------------------------
(***************************************************************************)
(* The keys of one TLS session between two peers (ssl.c): the first key,   *)
(* its replacement by soft resets (renegotiation), the retiring key, and   *)
(* the choice of the key that encrypts and decrypts tunnel data.           *)
(*                                                                         *)
(* A key state is known by n: it is the n-th one its session made, counted *)
(* from 0.  The reliability layer is abstracted to what it promises        *)
(* (see Reliable): a reset and one KEY record, which stands for the TLS    *)
(* handshake and the key exchange, are sent again until acknowledged.      *)
(* The clock is abstracted to the order in which windows close.            *)
(***************************************************************************)
EXTENDS Integers, Sequences, FiniteSets

CONSTANTS
  Client, Server,
  KeyIdMask,      \* P_KEY_ID_MASK (ssl.h:54): ids are 0, then 1 .. KeyIdMask
  FirstKeyActive, \* start when the first key is in use on both sides
  InOrder,        \* a TCP link, which neither repeats nor reorders
  MaxKeys,        \* bound: key states a session makes
  MaxOwnKeys,     \* bound: up to which it makes them without a request
  NetCapacity     \* bound: NetCapacity[p] is how many packets of p are in flight

Peer == {Client, Server}
Other(p) == CHOOSE q \in Peer : q # p

ASSUME TlsSessionAssumption ==
  /\ Client # Server
  /\ KeyIdMask \in Nat \ {0} /\ InOrder \in BOOLEAN /\ FirstKeyActive \in BOOLEAN
  /\ MaxKeys \in Nat \ {0} /\ MaxOwnKeys \in 1 .. MaxKeys
  /\ NetCapacity \in [Peer -> Nat \ {0}]

(* ks->state (ssl_common.h:78-99), compared by number in the code. *)
S_ERROR     == -1
S_UNDEF     == 0
S_INITIAL   == 1
S_PRE_START == 2
S_START     == 3
S_SENT_KEY  == 4
S_GOT_KEY   == 5
S_ACTIVE    == 6

VARIABLES
  linked,     \* session_id_remote is defined
  made,       \* key states made so far
  primary,    \* key[KS_PRIMARY]
  lame,       \* key[KS_LAME_DUCK]
  net         \* net[p]: packets p has in flight, oldest first

vars == <<linked, made, primary, lame, net>>

Record == {"HARD_RESET", "SOFT_RESET", "KEY"}
NoKey == -1

(* out: records not acknowledged yet; in: records received; acks: records to
   acknowledge; theirs: the key state of the other peer whose key came;
   settled: auth_deferred_expire has passed. *)
KeyState ==
  [state : S_ERROR .. S_ACTIVE, n : NoKey .. MaxKeys, out : SUBSET Record,
   in : SUBSET Record, acks : SUBSET Record, theirs : NoKey .. MaxKeys,
   settled : BOOLEAN]
Packet == [op : Record \cup {"ACK"}, n : 0 .. MaxKeys, acks : SUBSET Record]

TypeOK ==
  /\ linked \in [Peer -> BOOLEAN]
  /\ made \in [Peer -> 1 .. MaxKeys]
  /\ primary \in [Peer -> KeyState] /\ lame \in [Peer -> KeyState]
  /\ net \in [Peer -> Seq(Packet)]
  /\ \A p \in Peer : Len(net[p]) <= NetCapacity[p]

Fresh(state, n) == [state |-> state, n |-> n, out |-> {}, in |-> {}, acks |-> {},
                    theirs |-> NoKey, settled |-> FALSE]
Undefined == Fresh(S_UNDEF, NoKey)
FirstKey == [Fresh(S_ACTIVE, 0) EXCEPT !.in = {"HARD_RESET", "KEY"}, !.theirs = 0,
                                       !.settled = TRUE]

Init ==
  /\ linked = [p \in Peer |-> FirstKeyActive]
  /\ made = [p \in Peer |-> 1]
  /\ primary = [p \in Peer |-> IF FirstKeyActive THEN FirstKey ELSE Fresh(S_INITIAL, 0)]
  /\ lame = [p \in Peer |-> Undefined]
  /\ net = [p \in Peer |-> << >>]

-----------------------------------------------------------------------------
(* Key ids recycle to 1: id 0 tells the first key. *)
key_id(n) == IF n = 0 THEN 0 ELSE ((n - 1) % KeyIdMask) + 1

initial_opcode(n) == IF n = 0 THEN "HARD_RESET" ELSE "SOFT_RESET"

(* FULL_SYNC *)
FullSync(k) == k.out = {} /\ k.acks = {}

(* DECRYPT_KEY_ENABLED (ssl_verify.h:93). *)
DecryptKeyEnabled(p, k) == k.state >= (IF p = Server THEN S_SENT_KEY ELSE S_GOT_KEY)

(* A retiring key is not processed any more: its records do not matter. *)
Retired(k) == [k EXCEPT !.out = {}, !.in = {}, !.acks = {}]

(* Mutation: the old key is freed at once. *)
SoftResetForgets(p, k) ==
  /\ made[p] < MaxKeys
  /\ made' = [made EXCEPT ![p] = @ + 1]
  /\ lame' = [lame EXCEPT ![p] = Undefined]
  /\ primary' = [primary EXCEPT ![p] = k]

(* key_state_soft_reset with its key_state_init: primary key k is new. *)
SoftReset(p, k) ==
  /\ made[p] < MaxKeys
  /\ made' = [made EXCEPT ![p] = @ + 1]
  /\ lame' = [lame EXCEPT ![p] = Retired(primary[p])]
  /\ primary' = [primary EXCEPT ![p] = k]

NextKey(p) == Fresh(S_INITIAL, made[p])

(* tls_pre_encrypt: the first key whose settling time is over, or else the
   first one. *)
Usable(k) == k.state >= S_ACTIVE
EncryptKey(p) ==
  IF \/ ~ Usable(primary[p])
     \/ Usable(lame[p]) /\ lame[p].settled /\ ~ primary[p].settled
  THEN lame[p] ELSE primary[p]

(* Mutation: only the newest key decrypts. *)
DecryptNewest(p, id) ==
  IF DecryptKeyEnabled(p, primary[p]) /\ key_id(primary[p].n) = id
    THEN primary[p] ELSE Undefined

(* tls_pre_decrypt of a data packet: the first key with the id. *)
DecryptKey(p, id) ==
  LET With(k) == DecryptKeyEnabled(p, k) /\ key_id(k.n) = id IN
  IF With(primary[p]) THEN primary[p] ELSE IF With(lame[p]) THEN lame[p] ELSE Undefined

(* The key of the other peer that belongs to k. *)
Counterpart(p, k) == {j \in {primary[Other(p)], lame[Other(p)]} : j.n = k.theirs /\ k.theirs # NoKey}

Transmit(p, m) == /\ Len(net[p]) < NetCapacity[p]
                  /\ net' = [net EXCEPT ![p] = Append(@, m)]

-----------------------------------------------------------------------------
(* tls_process, section by section. *)

(* An active key is replaced by its age, by the bytes or packets it carried or
   before its packet ids wrap (ssl.c:2184), whatever the other peer is at. *)
Renegotiate(p) ==
  /\ primary[p].state >= S_ACTIVE /\ made[p] < MaxOwnKeys
  /\ SoftReset(p, NextKey(p))
  /\ UNCHANGED <<linked, net>>

(* lame_duck_must_die: a retiring key outlives the negotiation of the next
   (--tran-window 3600 against --hand-window 60).  A session whose negotiation
   failed passes to tls_multi, with its retiring key. *)
KillLameDuck(p) ==
  /\ lame[p].state # S_UNDEF
  /\ primary[p].settled
  /\ \A j \in Counterpart(p, primary[p]) : j.settled
  /\ lame' = [lame EXCEPT ![p] = Undefined]
  /\ UNCHANGED <<linked, made, primary, net>>

(* A section that changes the primary key from one state to another. *)
Step(p, from, to) ==
  /\ primary[p].state = from
  /\ primary' = [primary EXCEPT ![p].state = to]
  /\ UNCHANGED <<linked, made, lame, net>>

(* What the next section that changes the state waits for. *)
AwaitsKey(p) == IF p = Server THEN S_START ELSE S_SENT_KEY
SendsKey(p) == IF p = Server THEN S_GOT_KEY ELSE S_START
Completes(p) == IF p = Server THEN S_SENT_KEY ELSE S_GOT_KEY
Due(p) ==
  LET k == primary[p] IN
    \/ k.state = S_INITIAL /\ (p = Client \/ linked[p])
    \/ k.state = AwaitsKey(p) /\ k.in = {initial_opcode(k.n), "KEY"}
    \/ k.state = SendsKey(p)
    \/ k.state \in {S_PRE_START, Completes(p)} /\ FullSync(k)

InitialHandshake(p) ==
  /\ primary[p].state = S_INITIAL /\ Due(p)
  /\ primary' = [primary EXCEPT ![p].state = S_PRE_START,
                                ![p].out = {initial_opcode(primary[p].n)}]
  /\ UNCHANGED <<linked, made, lame, net>>

(* must_negotiate is reached before the key is active. *)
HandshakeTimeout(p) ==
  \E s \in S_PRE_START .. S_GOT_KEY : Step(p, s, S_ERROR)

ReceivedInitialAck(p) == Due(p) /\ Step(p, S_PRE_START, S_START)

(* Mutation: the server waits for the client to have its key, as the client does. *)
EstablishedAlike(p) == FullSync(primary[p]) /\ Step(p, S_GOT_KEY, S_ACTIVE)

(* The key is active for the client once it has the server's, for the server
   once its own is acknowledged. *)
Established(p) == Due(p) /\ Step(p, Completes(p), S_ACTIVE)

SendKey(p) ==
  /\ primary[p].state = SendsKey(p)
  /\ primary' = [primary EXCEPT ![p].state = S_SENT_KEY, ![p].out = @ \cup {"KEY"}]
  /\ UNCHANGED <<linked, made, lame, net>>

ReceiveKey(p) == Due(p) /\ Step(p, AwaitsKey(p), S_GOT_KEY)

(* Reliable -> TCP/UDP, the first time or again. *)
SendReliable(p) ==
  /\ primary[p].state > S_INITIAL
  /\ \E op \in primary[p].out :
       /\ op = "KEY" => primary[p].out = {"KEY"}
       /\ Transmit(p, [op |-> op, n |-> primary[p].n, acks |-> primary[p].acks])
  /\ primary' = [primary EXCEPT ![p].acks = {}]
  /\ UNCHANGED <<linked, made, lame>>

(* Dedicated ACK -> TCP/UDP. *)
SendAck(p) ==
  /\ primary[p].state >= S_INITIAL /\ primary[p].acks # {}
  /\ Transmit(p, [op |-> "ACK", n |-> primary[p].n, acks |-> primary[p].acks])
  /\ primary' = [primary EXCEPT ![p].acks = {}]
  /\ UNCHANGED <<linked, made, lame>>

(* auth_deferred_expire passes. *)
Settle(p) ==
  /\ Usable(primary[p]) /\ ~ primary[p].settled
  /\ primary' = [primary EXCEPT ![p].settled = TRUE]
  /\ UNCHANGED <<linked, made, lame, net>>

-----------------------------------------------------------------------------
(* Mutations: a packet of another key is accepted; an acknowledgement is
   stored as if it were a record. *)
AcceptAnyKey(k, m) ==
  [k EXCEPT !.out = @ \ m.acks,
            !.in = IF m.op = "ACK" THEN @ ELSE @ \cup {m.op},
            !.acks = IF m.op = "ACK" THEN @ ELSE @ \cup {m.op},
            !.theirs = IF m.op = "KEY" THEN m.n ELSE @]

AcceptAck(k, m) ==
  IF key_id(k.n) # key_id(m.n) THEN k
  ELSE [k EXCEPT !.out = @ \ m.acks, !.in = @ \cup {m.op}, !.acks = @ \cup {m.op},
                 !.theirs = IF m.op = "KEY" THEN m.n ELSE @]

(* tls_pre_decrypt of a control packet: the reliability part, for the key k
   that is primary by now. *)
Accept(k, m) ==
  IF key_id(k.n) # key_id(m.n) THEN k
  ELSE [k EXCEPT !.out = @ \ m.acks,
                 !.in = IF m.op = "ACK" THEN @ ELSE @ \cup {m.op},
                 !.acks = IF m.op = "ACK" THEN @ ELSE @ \cup {m.op},
                 !.theirs = IF m.op = "KEY" THEN m.n ELSE @]

(* A soft reset starts a renegotiation when the primary key is complete, even
   when it is the request that led to this key, delivered again. *)
RequestsReset(p, m) == m.op = "SOFT_RESET" /\ DecryptKeyEnabled(p, primary[p])

Process(p, m) ==
  /\ primary[p].state # S_ERROR
  /\ IF ~ linked[p] /\ m.op # "HARD_RESET"
       THEN UNCHANGED <<linked, made, primary, lame>>
     ELSE
       /\ linked' = [linked EXCEPT ![p] = TRUE]
       /\ IF RequestsReset(p, m)
            THEN SoftReset(p, Accept(NextKey(p), m))
            ELSE /\ primary' = [primary EXCEPT ![p] = Accept(@, m)]
                 /\ UNCHANGED <<made, lame>>

(* tls_process runs between two packets; a TCP server has written what it owes
   a client before it reads from it again (multi_tcp_post). *)
Reads(p) == ~ Due(p) /\ (InOrder /\ p = Server => primary[p].acks = {})

Without(s, i) == SubSeq(s, 1, i - 1) \o SubSeq(s, i + 1, Len(s))

Receive(p, i) ==
  /\ i \in DOMAIN net[Other(p)] /\ (InOrder => i = 1) /\ Reads(p)
  /\ net' = [net EXCEPT ![Other(p)] = Without(@, i)]
  /\ Process(p, net[Other(p)][i])

(* UDP only: it comes again.  A packet that is lost is one never received. *)
ReceiveDuplicate(p, i) ==
  /\ ~ InOrder /\ i \in DOMAIN net[Other(p)] /\ Reads(p)
  /\ net' = net
  /\ Process(p, net[Other(p)][i])

-----------------------------------------------------------------------------
(* The sections that take the primary key to its next state. *)
Handshake(p) ==
  \/ InitialHandshake(p) \/ ReceivedInitialAck(p) \/ Established(p)
  \/ SendKey(p) \/ ReceiveKey(p)

Next ==
  \E p \in Peer :
    \/ Renegotiate(p) \/ KillLameDuck(p) \/ HandshakeTimeout(p) \/ Settle(p)
    \/ Handshake(p) \/ SendReliable(p) \/ SendAck(p)
    \/ \E i \in DOMAIN net[Other(p)] : Receive(p, i) \/ ReceiveDuplicate(p, i)

Spec == Init /\ [][Next]_vars

(* The event loop runs and a TCP link delivers.  Nothing makes a key expire. *)
Fairness ==
  \A p \in Peer :
    /\ WF_vars(Handshake(p)) /\ SF_vars(SendReliable(p)) /\ SF_vars(SendAck(p))
    /\ WF_vars(Receive(p, 1))

FairSpec == Spec /\ Fairness

-----------------------------------------------------------------------------
(* Both peers derive a key from the same two contributions: if one peer's key
   was made with another's, that one, once it has a contribution, has this. *)
KeysPaired ==
  \A p \in Peer : \A k \in {primary[p], lame[p]} :
    \A j \in Counterpart(p, k) : j.theirs # NoKey => j.theirs = k.n

(* Tunnel data a peer would send now is decrypted by the other one with the
   same key, or its key is about to be read.  Left out: a peer that has not
   settled its last key while the other one has begun the next already, which
   has freed the retiring key that the first one still encrypts with. *)
SendKeyIsKnown ==
  \A p \in Peer :
    LET k == EncryptKey(p)
        j == DecryptKey(Other(p), key_id(k.n))
        q == primary[Other(p)]
    IN Usable(k) /\ (primary[p].settled \/ made[Other(p)] <= made[p])
         => \/ j.n = k.theirs /\ j.theirs = k.n
            \/ q.n = k.theirs /\ q.theirs = k.n /\ q.state < S_ACTIVE

(* The manual, --tran-window: "removes the key renegotiation sequence from the
   critical path of tunnel data forwarding" (openvpn.8:4472): from the first
   active key on a peer always has a key to send with. *)
AlwaysAKey == [][\A p \in Peer : Usable(EncryptKey(p)) => Usable(EncryptKey(p))']_vars

(* Every negotiation ends, in an active key unless a handshake window closes:
   peers never wait for each other's acknowledgements (FULL_SYNC) for ever,
   whichever of them asked, or both at once. *)
NegotiationEnds ==
  \A p \in Peer :
    (primary[p].state \in S_INITIAL .. S_GOT_KEY)
      ~> (Usable(primary[p]) \/ \E q \in Peer : primary[q].state = S_ERROR)
=============================================================================
