------------------------------- MODULE TlsMulti -------------------------------
(***************************************************************************)
(* The sessions of a tunnel as one peer keeps them (struct tls_multi,      *)
(* ssl.c): TM_ACTIVE, TM_UNTRUSTED, where somebody else may negotiate, and *)
(* TM_LAME_DUCK, the remains of a session whose renegotiation failed.      *)
(* This peer is the server of the TLS handshakes.  The others are sessions *)
(* of any peers; session ids tell them apart, and each has one address     *)
(* (packets from another one are dropped, here lost).                      *)
(*                                                                         *)
(* A handshake is the records HELLO, KEY and the last ACK; each answers    *)
(* this peer, so that it can come whenever the state it answers is there.  *)
(* Packets come late, again or never.                                      *)
(***************************************************************************)
EXTENDS Integers, FiniteSets

CONSTANTS
  MaxRemote,      \* bound: sessions of other peers
  MaxSessions,    \* bound: sessions this peer makes
  MaxKeys         \* bound: renegotiations of a session

ASSUME TlsMultiAssumption ==
  /\ MaxRemote \in Nat \ {0} /\ MaxSessions \in Nat \ {0, 1} /\ MaxKeys \in Nat

TM_ACTIVE == 0
TM_UNTRUSTED == 1
TM_LAME_DUCK == 2
Slot == 0 .. 2

Remote == 1 .. MaxRemote
None == 0            \* a session id that is not defined

VARIABLES
  multi,       \* the sessions, by slot
  made,        \* sessions made so far: the session_id of the last one
  single_session,  \* --single-session, or an exit is scheduled
  n_sessions,  \* some session has been linked
  due,         \* a packet has come: tls_multi_process is next
  error        \* the last tls_multi_process hit an error in TM_ACTIVE

vars == <<multi, made, single_session, n_sessions, due, error>>

(* n: the n-th key of its session; by: the peer TLS has heard; reset: its
   soft reset has come; in: a record tls_process has not seen; expired: its
   must_die has passed.  S_INITIAL and S_PRE_START are part of S_START, and
   S_SENT_KEY of S_GOT_KEY. *)
State == {"S_ERROR", "S_UNDEF", "S_START", "S_GOT_KEY", "S_ACTIVE"}
Key == [state : State, n : 0 .. MaxKeys, by : 0 .. MaxRemote, reset : BOOLEAN,
        in : {"nothing", "HELLO", "KEY", "ACK"}, expired : BOOLEAN]
TlsSession == [session_id : 0 .. MaxSessions, session_id_remote : 0 .. MaxRemote,
               primary : Key, lame : Key]

(* With the assertions of tls_process and tls_pre_decrypt on the states. *)
TypeOK ==
  /\ multi \in [Slot -> TlsSession]
  /\ made \in 0 .. MaxSessions
  /\ single_session \in BOOLEAN /\ n_sessions \in BOOLEAN
  /\ due \in BOOLEAN /\ error \in BOOLEAN
  /\ \A i \in Slot : multi[i].primary.state \in
       IF i = TM_LAME_DUCK THEN {"S_UNDEF", "S_ERROR"} ELSE State \ {"S_ERROR"}
  /\ multi[TM_ACTIVE].primary.state # "S_UNDEF"
  /\ multi[TM_UNTRUSTED].primary.state = "S_UNDEF" => single_session

key_state_init(n, by) == [state |-> "S_START", n |-> n, by |-> by, reset |-> FALSE,
                          in |-> "nothing", expired |-> FALSE]
NoKey == [key_state_init(0, None) EXCEPT !.state = "S_UNDEF"]
tls_session_init(id) == [session_id |-> id, session_id_remote |-> None,
                         primary |-> key_state_init(0, None), lame |-> NoKey]
Cleared == [tls_session_init(None) EXCEPT !.primary = NoKey]

(* tls_multi_init_finalize *)
Init ==
  /\ single_session \in BOOLEAN
  /\ multi = [i \in Slot |-> IF i = TM_ACTIVE \/ (i = TM_UNTRUSTED /\ ~ single_session)
                             THEN tls_session_init(i + 1) ELSE Cleared]
  /\ made = 2 /\ n_sessions = FALSE /\ due = FALSE /\ error = FALSE

(* DECRYPT_KEY_ENABLED, for a server. *)
DecryptKeyEnabled(k) == k.state \in {"S_GOT_KEY", "S_ACTIVE"}

-----------------------------------------------------------------------------
(* tls_pre_decrypt: control packets. *)

(* Mutation: the retiring session is not compared. *)
MatchLive(a) == {i \in {TM_ACTIVE, TM_UNTRUSTED} : multi[i].session_id_remote = a}

(* Slots whose session is that of the sender. *)
Match(a) == {i \in Slot : multi[i].session_id_remote = a}

(* Mutation: an initial packet may take the active session. *)
InitialSlotActive == TM_ACTIVE

(* Where the first packet of a new session goes. *)
InitialSlot ==
  IF multi[TM_ACTIVE].session_id_remote = None THEN TM_ACTIVE ELSE TM_UNTRUSTED

(* A hard reset of nobody known.  A session in TM_UNTRUSTED that negotiates
   with another peer is linked to the new one as it is. *)
NewLink(a) ==
  /\ Match(a) = {}
  /\ single_session => InitialSlot = TM_ACTIVE /\ ~ n_sessions
  /\ multi' = [multi EXCEPT ![InitialSlot].session_id_remote = a]
  /\ n_sessions' = TRUE
  /\ UNCHANGED made

key_state_soft_reset(s) ==
  [s EXCEPT !.lame = s.primary, !.primary = key_state_init(s.primary.n + 1, s.primary.by)]

(* The other peer asks for a new key, or answers such a request.  A request
   that led to an earlier key, delivered again, makes a new key too, but is not
   one of its records. *)
SoftResetComes(i) ==
  LET s == multi[i]
      k == s.primary
  IN \/ /\ DecryptKeyEnabled(k) /\ k.n < MaxKeys
        /\ \E reset \in BOOLEAN :
             multi' = [multi EXCEPT ![i] =
               [key_state_soft_reset(s) EXCEPT !.primary.reset = reset]]
     \/ /\ k.state = "S_START" /\ k.n > 0 /\ ~ k.reset
        /\ multi' = [multi EXCEPT ![i].primary.reset = TRUE]

(* A record waits for tls_process. *)
RecordComes(i) ==
  LET k == multi[i].primary
  IN \E op \in {"HELLO", "KEY", "ACK"} :
       /\ op = "HELLO" => k.state = "S_START" /\ k.n = 0
       /\ op = "KEY" => /\ k.state = "S_START" /\ k.by = multi[i].session_id_remote
                        /\ k.n > 0 => k.reset
       /\ op = "ACK" => k.state = "S_GOT_KEY"
       /\ multi' = [multi EXCEPT ![i].primary.in = op]

(* Control packets of a session in TM_LAME_DUCK are dropped. *)
Comes(a) ==
  \E i \in Match(a) \ {TM_LAME_DUCK} :
    (SoftResetComes(i) \/ RecordComes(i)) /\ UNCHANGED <<made, n_sessions>>

tls_pre_decrypt ==
  /\ ~ due /\ due' = TRUE
  /\ UNCHANGED <<single_session, error>>
  /\ \E a \in Remote : NewLink(a) \/ Comes(a)

-----------------------------------------------------------------------------
(* tls_process of session s: renew, that it decides to renegotiate; late, that
   the handshake window of its key is over; fails, that TLS or the credentials
   fail, which they may at any time. *)
tls_process(s, renew, late, fails) ==
  LET r == IF renew THEN key_state_soft_reset(s) ELSE s
      lame == IF r.lame.expired THEN NoKey ELSE r.lame
      k == r.primary
      state ==
        IF fails \/ (k.state \in {"S_START", "S_GOT_KEY"} /\ late /\ ~ renew) THEN "S_ERROR"
        ELSE CASE k.state = "S_START" /\ k.in = "KEY" -> "S_GOT_KEY"
               [] k.state = "S_GOT_KEY" /\ k.in = "ACK" -> "S_ACTIVE"
               [] OTHER -> k.state
      by == IF k.in = "HELLO" /\ k.by = None THEN s.session_id_remote ELSE k.by
  IN [r EXCEPT !.lame = lame, !.primary = [k EXCEPT !.state = state, !.by = by, !.in = "nothing"]]

Failed(s) == s.primary.state = "S_ERROR"

(* The slots after an error of slot i; session ids from m.made are used up. *)
Fresh(m, i) == [slot |-> [m.slot EXCEPT ![i] = tls_session_init(m.made + 1)],
                made |-> m.made + 1]

(* move_session, its source made anew. *)
move_session(m, dest, src) ==
  Fresh([m EXCEPT !.slot[dest] = m.slot[src]], src)

(* Mutation: an error resets the session, whatever keys it has. *)
HandleErrorReset(m, i) == IF Failed(m.slot[i]) THEN Fresh(m, i) ELSE m

(* An unexpired retiring key is kept. *)
HandleError(m, i) ==
  IF ~ Failed(m.slot[i]) THEN m
  ELSE IF i = TM_ACTIVE /\ m.slot[i].lame.state = "S_ACTIVE" /\ ~ single_session
       THEN move_session(m, TM_LAME_DUCK, TM_ACTIVE)
       ELSE Fresh(m, i)

(* Mutation: the retiring session stays. *)
LameDuckStays(m) == m

(* lame_duck_must_die *)
LameDuckDies(m) ==
  IF m.slot[TM_LAME_DUCK].lame.expired THEN [m EXCEPT !.slot[TM_LAME_DUCK] = Cleared] ELSE m

(* Mutation: a session is trusted as soon as its handshake has begun. *)
PromoteEarly(m) ==
  IF m.slot[TM_UNTRUSTED].primary.by # None
  THEN move_session(m, TM_ACTIVE, TM_UNTRUSTED) ELSE m

(* An authenticated session usurps the active one. *)
Promote(m) ==
  IF DecryptKeyEnabled(m.slot[TM_UNTRUSTED].primary)
  THEN move_session(m, TM_ACTIVE, TM_UNTRUSTED) ELSE m

(* A session is processed if its key is initialised and its peer known. *)
ProcessSession(s, renew, late, fails) ==
  IF s.primary.state \in {"S_ERROR", "S_UNDEF"} \/ s.session_id_remote = None THEN s
  ELSE tls_process(s, renew, late, fails)

ProcessSlot(m, i, renew, late, fails) ==
  HandleError([m EXCEPT !.slot[i] = ProcessSession(m.slot[i], renew, late, fails)], i)

Negotiating == {i \in {TM_ACTIVE, TM_UNTRUSTED} :
                  multi[i].primary.state \in {"S_START", "S_GOT_KEY"}}
Renewable == multi[TM_ACTIVE].primary.state = "S_ACTIVE" /\ multi[TM_ACTIVE].primary.n < MaxKeys

tls_multi_process ==
  \E renew \in {FALSE, Renewable}, late \in SUBSET Negotiating,
     fails \in SUBSET {TM_ACTIVE, TM_UNTRUSTED} :
    LET a == ProcessSlot([slot |-> multi, made |-> made], TM_ACTIVE,
                         renew, TM_ACTIVE \in late, TM_ACTIVE \in fails)
        u == ProcessSlot(a, TM_UNTRUSTED,
                         FALSE, TM_UNTRUSTED \in late, TM_UNTRUSTED \in fails)
        m == Promote(LameDuckDies(u))
    IN /\ m.made <= MaxSessions
       /\ multi' = m.slot /\ made' = m.made
       /\ error' = Failed(ProcessSession(multi[TM_ACTIVE], renew, TM_ACTIVE \in late, TM_ACTIVE \in fails))
       /\ due' = FALSE
       /\ UNCHANGED <<single_session, n_sessions>>

(* must_die of a retiring key passes. *)
Expire(i) ==
  /\ multi[i].lame.state # "S_UNDEF" /\ ~ multi[i].lame.expired
  /\ multi' = [multi EXCEPT ![i].lame.expired = TRUE]
  /\ UNCHANGED <<made, single_session, n_sessions, due, error>>

(* schedule_exit lets no new session in. *)
schedule_exit ==
  /\ single_session' = TRUE
  /\ UNCHANGED <<multi, made, n_sessions, due, error>>

-----------------------------------------------------------------------------
Next ==
  \/ tls_pre_decrypt \/ tls_multi_process
  \/ \E i \in Slot : Expire(i)
  \/ schedule_exit

Spec == Init /\ [][Next]_vars

-----------------------------------------------------------------------------
(* A key that can decrypt was negotiated with the very peer its session is   *)
(* linked to, although every hard reset relinks TM_UNTRUSTED while its       *)
(* handshake is under way and sessions move between the slots.               *)
Trusted(s) ==
  \A k \in {s.primary, s.lame} :
    DecryptKeyEnabled(k) => k.by = s.session_id_remote /\ k.by # None

TrustedPeer == \A i \in Slot : Trusted(multi[i])

(* No two slots are linked to the same session of another peer: a repeated   *)
(* hard reset opens nothing while what it opened before is anywhere.         *)
OneSessionPerPeer ==
  \A i, j \in Slot :
    i # j /\ multi[i].session_id_remote = multi[j].session_id_remote
      => multi[i].session_id_remote = None

(* The inductive invariant.  Only a key that can decrypt retires, only a      *)
(* retiring key expires, a record waits no longer than for the next pass, of  *)
(* a known peer and for a key under negotiation, and TM_UNTRUSTED has no key  *)
(* that can decrypt: what the passes and moves of sessions rely on.           *)
SessionInv(s) ==
  /\ Trusted(s)
  /\ ~ s.primary.expired
  /\ \/ s.lame.state = "S_UNDEF" /\ ~ s.lame.expired
     \/ DecryptKeyEnabled(s.lame)
  /\ s.primary.in # "nothing" =>
       s.session_id_remote # None /\ s.primary.state \in {"S_START", "S_GOT_KEY"}
  /\ s.primary.in = "KEY" => s.primary.by = s.session_id_remote

IInv ==
  /\ TypeOK
  /\ \A i \in Slot : SessionInv(multi[i]) /\ multi[i].session_id <= made
  /\ OneSessionPerPeer
  /\ ~ due => \A i \in Slot : multi[i].primary.in = "nothing"
  /\ ~ DecryptKeyEnabled(multi[TM_UNTRUSTED].primary)
  /\ multi[TM_UNTRUSTED].lame.state = "S_UNDEF"

(* key_scan: the keys for tunnel data, of which S_ACTIVE ones encrypt. *)
KeyScan == {multi[TM_ACTIVE].primary, multi[TM_ACTIVE].lame, multi[TM_LAME_DUCK].lame}
Usable == {k \in KeyScan : k.state = "S_ACTIVE"}
Promoted == multi'[TM_ACTIVE].session_id = multi[TM_UNTRUSTED].session_id

(* Whatever negotiations fail and sessions begin anew, the tunnel is left    *)
(* without a key to encrypt with only by an authenticated session that       *)
(* usurps it, with --single-session, when its keys are due to die or the     *)
(* TLS of the newest one has failed itself, or by a soft reset that comes    *)
(* again before the key it led to is active (see AlwaysAKey in TlsSession).  *)
KeyIsKept ==
  [][~ single_session /\ Usable' = {} /\ ~ Promoted
       => \/ \A k \in Usable : k.expired \/ (error' /\ k = multi[TM_ACTIVE].primary)
          \/ ~ due /\ due' /\ multi[TM_ACTIVE].primary.state = "S_GOT_KEY"]_vars

(* Whatever strangers send and however their handshakes go, the active       *)
(* session gives way only after an error of its own, or to one whose         *)
(* handshake is complete.                                                    *)
StrangersAreHarmless ==
  [][multi'[TM_ACTIVE].session_id # multi[TM_ACTIVE].session_id
       => \/ Promoted /\ DecryptKeyEnabled(multi'[TM_ACTIVE].primary)
          \/ ~ Promoted /\ error']_vars

(* No expired key outlives the pass of tls_multi_process that follows a      *)
(* packet, whatever errors and moves between the slots the pass makes.       *)
ExpiredIsKilled ==
  [][due /\ ~ due' => \A k \in KeyScan' : ~ k.expired]_vars
=============================================================================
