---------------------------- MODULE TlsMulti_proofs ----------------------------
(***************************************************************************)
(* Proofs about the sessions of a tunnel: the inductive invariant, that a  *)
(* key is only trusted for the peer it was negotiated with, and what a     *)
(* pass of tls_multi_process may never do.                                 *)
(*                                                                         *)
(* A pass takes a record m of the slots and of the sessions made through   *)
(* ProcessSlot (twice), LameDuckDies and Promote; each has a lemma that    *)
(* says what it leaves where, and the pass is their composition.           *)
(***************************************************************************)
EXTENDS TlsMulti, TLAPS

USE TlsMultiAssumption DEF TM_ACTIVE, TM_UNTRUSTED, TM_LAME_DUCK, Slot, None, Remote

(* Within a pass the ids are not bounded yet. *)
Session == [session_id : Nat, session_id_remote : 0 .. MaxRemote, primary : Key, lame : Key]

Distinct(f) ==
  \A i, j \in Slot :
    i # j /\ f[i].session_id_remote = f[j].session_id_remote => f[i].session_id_remote = None

(* What holds between any two steps of a pass. *)
Core(m) ==
  /\ m \in [slot : [Slot -> Session], made : Nat]
  /\ \A i \in Slot : SessionInv(m.slot[i]) /\ m.slot[i].session_id <= m.made
  /\ Distinct(m.slot)

(* What else holds where no error waits to be handled. *)
Places(m) ==
  /\ m.slot[TM_ACTIVE].primary.state \notin {"S_UNDEF", "S_ERROR"}
  /\ m.slot[TM_UNTRUSTED].primary.state # "S_ERROR"
  /\ m.slot[TM_UNTRUSTED].primary.state = "S_UNDEF" => single_session
  /\ m.slot[TM_UNTRUSTED].lame.state = "S_UNDEF"
  /\ m.slot[TM_LAME_DUCK].primary.state \in {"S_UNDEF", "S_ERROR"}

Before == [slot |-> multi, made |-> made]

-----------------------------------------------------------------------------
(* New sessions and keys. *)
LEMMA NewKey ==
  ASSUME NEW n \in 0 .. MaxKeys, NEW by \in 0 .. MaxRemote
  PROVE  LET k == key_state_init(n, by)
         IN /\ k \in Key
            /\ k.state = "S_START" /\ k.n = n /\ k.by = by /\ k.in = "nothing" /\ ~ k.expired
BY DEF key_state_init, Key, State

LEMMA NoKeyIsUndefined ==
  NoKey \in Key /\ NoKey.state = "S_UNDEF" /\ NoKey.in = "nothing" /\ ~ NoKey.expired
<1>1. /\ 0 \in 0 .. MaxKeys /\ None \in 0 .. MaxRemote
  OBVIOUS
<1>2. /\ key_state_init(0, None) \in Key
      /\ key_state_init(0, None).in = "nothing" /\ ~ key_state_init(0, None).expired
  BY <1>1, NewKey
<1> QED
  BY <1>2 DEF NoKey, Key, State

LEMMA NewSession ==
  ASSUME NEW id \in Nat
  PROVE  /\ tls_session_init(id) \in Session
         /\ tls_session_init(id).session_id = id
         /\ tls_session_init(id).session_id_remote = None
         /\ tls_session_init(id).primary.state = "S_START"
         /\ tls_session_init(id).primary.in = "nothing"
         /\ tls_session_init(id).lame.state = "S_UNDEF"
         /\ ~ tls_session_init(id).lame.expired
         /\ SessionInv(tls_session_init(id))
<1> DEFINE s == tls_session_init(id)
           k == key_state_init(0, None)
<1>1. /\ k \in Key /\ k.state = "S_START" /\ k.in = "nothing" /\ ~ k.expired
  BY NewKey
<1>2. /\ s \in Session
      /\ s.session_id = id /\ s.session_id_remote = None
      /\ s.primary = k /\ s.lame = NoKey
  BY <1>1, NoKeyIsUndefined DEF tls_session_init, Session
<1>3. SessionInv(s)
  BY <1>1, <1>2, NoKeyIsUndefined DEF SessionInv, Trusted, DecryptKeyEnabled
<1> QED
  BY <1>1, <1>2, <1>3, NoKeyIsUndefined

LEMMA ClearedSession ==
  /\ Cleared \in Session
  /\ Cleared.session_id = None /\ Cleared.session_id_remote = None
  /\ Cleared.primary.state = "S_UNDEF" /\ Cleared.primary.in = "nothing"
  /\ Cleared.lame.state = "S_UNDEF" /\ ~ Cleared.lame.expired
  /\ SessionInv(Cleared)
<1>1. /\ Cleared \in Session
      /\ Cleared.session_id = None /\ Cleared.session_id_remote = None
      /\ Cleared.primary = NoKey /\ Cleared.lame = NoKey
  BY NewSession, NoKeyIsUndefined DEF Cleared, tls_session_init, Session
<1> QED
  BY <1>1, NoKeyIsUndefined DEF SessionInv, Trusted, DecryptKeyEnabled

LEMMA SoftReset ==
  ASSUME NEW s \in Session, s.primary.n < MaxKeys
  PROVE  LET r == key_state_soft_reset(s)
         IN /\ r \in Session
            /\ r.session_id = s.session_id /\ r.session_id_remote = s.session_id_remote
            /\ r.lame = s.primary
            /\ r.primary = key_state_init(s.primary.n + 1, s.primary.by)
<1>1. s.primary.n + 1 \in 0 .. MaxKeys /\ s.primary.by \in 0 .. MaxRemote
  BY DEF Session, Key
<1>2. key_state_init(s.primary.n + 1, s.primary.by) \in Key
  BY <1>1, NewKey
<1> QED
  BY <1>2 DEF key_state_soft_reset, Session

(* What tls_process leaves. *)
LEMMA Process ==
  ASSUME NEW s \in Session, SessionInv(s), s.session_id_remote # None,
         s.primary.state \in {"S_START", "S_GOT_KEY", "S_ACTIVE"},
         NEW renew \in BOOLEAN, NEW late \in BOOLEAN, NEW fails \in BOOLEAN,
         renew => s.primary.state = "S_ACTIVE" /\ s.primary.n < MaxKeys
  PROVE  LET p == tls_process(s, renew, late, fails)
         IN /\ p \in Session
            /\ SessionInv(p)
            /\ p.session_id = s.session_id /\ p.session_id_remote = s.session_id_remote
            /\ p.primary.in = "nothing" /\ ~ p.lame.expired
            /\ p.primary.state # "S_UNDEF"
            /\ ~ renew /\ s.lame.state = "S_UNDEF" => p.lame.state = "S_UNDEF"
            /\ renew => p.lame = s.primary
            /\ ~ renew /\ ~ s.lame.expired => p.lame = s.lame
            /\ ~ renew /\ s.primary.state = "S_ACTIVE" => Failed(p) \/ p.primary.state = "S_ACTIVE"
<1> DEFINE r == IF renew THEN key_state_soft_reset(s) ELSE s
           p == tls_process(s, renew, late, fails)
           lame == IF r.lame.expired THEN NoKey ELSE r.lame
<1>1. /\ r \in Session
      /\ r.session_id = s.session_id /\ r.session_id_remote = s.session_id_remote
  BY SoftReset
<1>2. /\ renew => /\ r.lame = s.primary
                  /\ r.primary.state = "S_START" /\ r.primary.in = "nothing"
                  /\ ~ r.primary.expired /\ r.primary.by = s.primary.by
      /\ ~ renew => r = s
  <2>1. s.primary.n \in 0 .. MaxKeys /\ s.primary.by \in 0 .. MaxRemote
    BY DEF Session, Key
  <2> QED
    BY <2>1, SoftReset, NewKey
<1>3. SessionInv(r)
  BY <1>1, <1>2 DEF SessionInv, Trusted, DecryptKeyEnabled
<1>4. /\ r.primary \in Key /\ lame \in Key
      /\ ~ lame.expired
      /\ lame.state = "S_UNDEF" \/ (DecryptKeyEnabled(lame) /\ lame = r.lame)
      /\ ~ r.lame.expired => lame = r.lame
      /\ r.lame.state = "S_UNDEF" => lame.state = "S_UNDEF"
  BY <1>1, <1>3, NoKeyIsUndefined DEF Session, SessionInv
<1> DEFINE k == r.primary
           state ==
             IF fails \/ (k.state \in {"S_START", "S_GOT_KEY"} /\ late /\ ~ renew) THEN "S_ERROR"
             ELSE CASE k.state = "S_START" /\ k.in = "KEY" -> "S_GOT_KEY"
                    [] k.state = "S_GOT_KEY" /\ k.in = "ACK" -> "S_ACTIVE"
                    [] OTHER -> k.state
           by == IF k.in = "HELLO" /\ k.by = None THEN s.session_id_remote ELSE k.by
<1>5. /\ k.state \in {"S_START", "S_GOT_KEY", "S_ACTIVE"}
      /\ state \in {"S_ERROR", "S_START", "S_GOT_KEY", "S_ACTIVE"}
  BY <1>2
<1>7. state \in {"S_GOT_KEY", "S_ACTIVE"} =>
        k.state \in {"S_GOT_KEY", "S_ACTIVE"} \/ (k.state = "S_START" /\ k.in = "KEY")
  BY <1>5
<1>8. ~ renew /\ s.primary.state = "S_ACTIVE" => state \in {"S_ACTIVE", "S_ERROR"}
  BY <1>2
<1>9. by \in 0 .. MaxRemote /\ (k.by # None => by = k.by)
  BY <1>4 DEF Key, Session
<1> HIDE DEF state, by, lame
<1>10. /\ p = [r EXCEPT !.lame = lame,
                        !.primary = [k EXCEPT !.state = state, !.by = by, !.in = "nothing"]]
  BY DEF tls_process, state, by, lame
<1> HIDE DEF r
<1>11. /\ [k EXCEPT !.state = state, !.by = by, !.in = "nothing"] \in Key
       /\ [k EXCEPT !.state = state, !.by = by, !.in = "nothing"].expired = k.expired
       /\ [k EXCEPT !.state = state, !.by = by, !.in = "nothing"].in = "nothing"
       /\ [k EXCEPT !.state = state, !.by = by, !.in = "nothing"].state = state
       /\ [k EXCEPT !.state = state, !.by = by, !.in = "nothing"].by = by
  BY <1>4, <1>5, <1>9 DEF Key, State
<1>12. /\ p \in Session
       /\ p.session_id = r.session_id /\ p.session_id_remote = r.session_id_remote
       /\ p.lame = lame
       /\ p.primary.state = state /\ p.primary.by = by
       /\ p.primary.in = "nothing" /\ p.primary.expired = k.expired
  BY <1>1, <1>4, <1>10, <1>11 DEF Session
<1>13. SessionInv(p)
  <2>1. Trusted(p)
    <3>1. DecryptKeyEnabled(p.primary) => p.primary.by = p.session_id_remote /\ p.primary.by # None
      BY <1>1, <1>3, <1>7, <1>9, <1>12 DEF SessionInv, Trusted, DecryptKeyEnabled
    <3>2. DecryptKeyEnabled(p.lame) => p.lame.by = p.session_id_remote /\ p.lame.by # None
      BY <1>3, <1>4, <1>12 DEF SessionInv, Trusted, DecryptKeyEnabled
    <3> QED
      BY <3>1, <3>2 DEF Trusted
  <2> QED
    BY <1>3, <1>4, <1>12, <2>1 DEF SessionInv
<1>14. Failed(p) <=> state = "S_ERROR"
  BY <1>12 DEF Failed
<1> HIDE DEF p
<1>15. /\ renew => p.lame = s.primary
       /\ ~ renew /\ ~ s.lame.expired => p.lame = s.lame
       /\ ~ renew /\ s.lame.state = "S_UNDEF" => p.lame.state = "S_UNDEF"
       /\ ~ renew /\ s.primary.state = "S_ACTIVE" => Failed(p) \/ p.primary.state = "S_ACTIVE"
  BY <1>2, <1>4, <1>8, <1>12, <1>14 DEF SessionInv
<1>16. /\ p \in Session /\ SessionInv(p)
       /\ p.session_id = s.session_id /\ p.session_id_remote = s.session_id_remote
       /\ p.primary.in = "nothing" /\ ~ p.lame.expired
       /\ p.primary.state # "S_UNDEF"
  BY <1>1, <1>4, <1>5, <1>12, <1>13
<1> QED
  BY <1>15, <1>16 DEF p

-----------------------------------------------------------------------------
(* The operators of a pass on the slots. *)
LEMMA FreshCore ==
  ASSUME NEW m, Core(m), NEW i \in Slot
  PROVE  /\ Core(Fresh(m, i))
         /\ Fresh(m, i).made = m.made + 1
         /\ Fresh(m, i).slot[i] = tls_session_init(m.made + 1)
         /\ \A j \in Slot : j # i => Fresh(m, i).slot[j] = m.slot[j]
<1> DEFINE f == Fresh(m, i)
           s == tls_session_init(m.made + 1)
<1>1. m \in [slot : [Slot -> Session], made : Nat]
  BY DEF Core
<1>2. s \in Session /\ s.session_id = m.made + 1 /\ s.session_id_remote = None /\ SessionInv(s)
  BY <1>1, NewSession
<1> HIDE DEF s
<1>3. f = [slot |-> [m.slot EXCEPT ![i] = s], made |-> m.made + 1]
  BY DEF Fresh, s
<1>4. /\ f \in [slot : [Slot -> Session], made : Nat]
      /\ f.made = m.made + 1
      /\ f.slot[i] = s /\ \A j \in Slot : j # i => f.slot[j] = m.slot[j]
  BY <1>1, <1>2, <1>3
<1> HIDE DEF f
<1>5. \A j \in Slot : SessionInv(f.slot[j])
  BY <1>2, <1>4 DEF Core
<1>6. \A j \in Slot : f.slot[j].session_id <= f.made
  <2> TAKE j \in Slot
  <2>1. m.slot[j].session_id \in Nat /\ m.slot[j].session_id <= m.made
    BY <1>1 DEF Core, Session
  <2> QED
    BY <1>1, <1>2, <1>4, <2>1
<1>7. Distinct(f.slot)
  BY <1>2, <1>4 DEF Core, Distinct
<1> QED
  BY <1>4, <1>5, <1>6, <1>7 DEF Core, f, s

LEMMA MoveCore ==
  ASSUME NEW m, Core(m), NEW dest \in Slot, NEW src \in Slot, dest # src
  PROVE  LET v == move_session(m, dest, src)
         IN /\ Core(v)
            /\ v.made = m.made + 1
            /\ v.slot[dest] = m.slot[src]
            /\ v.slot[src] = tls_session_init(m.made + 1)
            /\ \A j \in Slot : j # dest /\ j # src => v.slot[j] = m.slot[j]
<1> DEFINE v == move_session(m, dest, src)
           s == tls_session_init(m.made + 1)
<1>1. m \in [slot : [Slot -> Session], made : Nat]
  BY DEF Core
<1>2. s \in Session /\ s.session_id = m.made + 1 /\ s.session_id_remote = None /\ SessionInv(s)
  BY <1>1, NewSession
<1> HIDE DEF s
<1>3. v = [slot |-> [[m.slot EXCEPT ![dest] = m.slot[src]] EXCEPT ![src] = s], made |-> m.made + 1]
  BY <1>1 DEF move_session, Fresh, s
<1>4. /\ v \in [slot : [Slot -> Session], made : Nat]
      /\ v.made = m.made + 1 /\ v.slot[dest] = m.slot[src] /\ v.slot[src] = s
      /\ \A j \in Slot : j # dest /\ j # src => v.slot[j] = m.slot[j]
  BY <1>1, <1>2, <1>3
<1> HIDE DEF v
<1>5. \A j \in Slot : SessionInv(v.slot[j])
  BY <1>2, <1>4 DEF Core
<1>6. \A j \in Slot : v.slot[j].session_id <= v.made
  <2> TAKE j \in Slot
  <2>1. /\ m.slot[j].session_id \in Nat /\ m.slot[j].session_id <= m.made
        /\ m.slot[src].session_id \in Nat /\ m.slot[src].session_id <= m.made
    BY <1>1 DEF Core, Session
  <2> QED
    BY <1>1, <1>2, <1>4, <2>1
<1>7. Distinct(v.slot)
  BY <1>2, <1>4 DEF Core, Distinct
<1> QED
  BY <1>4, <1>5, <1>6, <1>7 DEF Core, v, s

LEMMA ReplaceCore ==
  ASSUME NEW m, Core(m), NEW i \in Slot, NEW s \in Session, SessionInv(s),
         s.session_id = m.slot[i].session_id,
         s.session_id_remote = m.slot[i].session_id_remote
  PROVE  LET v == [m EXCEPT !.slot[i] = s]
         IN /\ Core(v)
            /\ v.made = m.made /\ v.slot[i] = s
            /\ \A j \in Slot : j # i => v.slot[j] = m.slot[j]
<1> DEFINE v == [m EXCEPT !.slot[i] = s]
<1>1. m \in [slot : [Slot -> Session], made : Nat]
  BY DEF Core
<1>2. /\ v \in [slot : [Slot -> Session], made : Nat]
      /\ v.made = m.made /\ v.slot[i] = s
      /\ \A j \in Slot : j # i => v.slot[j] = m.slot[j]
  BY <1>1
<1> HIDE DEF v
<1>3. \A j \in Slot : SessionInv(v.slot[j]) /\ v.slot[j].session_id <= v.made
  BY <1>2 DEF Core
<1>4. Distinct(v.slot)
  BY <1>2 DEF Core, Distinct
<1> QED
  BY <1>2, <1>3, <1>4 DEF Core, v

LEMMA LameDuckDiesCore ==
  ASSUME NEW m, Core(m)
  PROVE  LET v == LameDuckDies(m)
         IN /\ Core(v)
            /\ v.made = m.made
            /\ \A j \in Slot : j # TM_LAME_DUCK => v.slot[j] = m.slot[j]
            /\ ~ v.slot[TM_LAME_DUCK].lame.expired
            /\ v.slot[TM_LAME_DUCK] \in {m.slot[TM_LAME_DUCK], Cleared}
            /\ ~ m.slot[TM_LAME_DUCK].lame.expired => v = m
<1>1. CASE ~ m.slot[TM_LAME_DUCK].lame.expired
  BY <1>1 DEF LameDuckDies
<1>2. CASE m.slot[TM_LAME_DUCK].lame.expired
  <2> DEFINE v == [m EXCEPT !.slot[TM_LAME_DUCK] = Cleared]
  <2>1. m \in [slot : [Slot -> Session], made : Nat]
    BY DEF Core
  <2>2. /\ v \in [slot : [Slot -> Session], made : Nat]
        /\ v.made = m.made /\ v.slot[TM_LAME_DUCK] = Cleared
        /\ \A j \in Slot : j # TM_LAME_DUCK => v.slot[j] = m.slot[j]
    BY <2>1, ClearedSession
  <2> HIDE DEF v
  <2>3. \A j \in Slot : SessionInv(v.slot[j]) /\ v.slot[j].session_id <= v.made
    BY <2>1, <2>2, ClearedSession DEF Core
  <2>4. Distinct(v.slot)
    BY <2>2, ClearedSession DEF Core, Distinct
  <2>5. Core(v) /\ LameDuckDies(m) = v
    BY <1>2, <2>2, <2>3, <2>4 DEF Core, LameDuckDies, v
  <2> QED
    BY <1>2, <2>2, <2>5, ClearedSession
<1> QED
  BY <1>1, <1>2

-----------------------------------------------------------------------------
(* Slots processed one after the other.  A key for tunnel data that is not
   due to die: *)
Live(f) ==
  \E k \in {f[TM_ACTIVE].primary, f[TM_ACTIVE].lame, f[TM_LAME_DUCK].lame} :
    k.state = "S_ACTIVE" /\ ~ k.expired

LEMMA NoPeerNoKey ==
  ASSUME NEW s \in Session, SessionInv(s), s.session_id_remote = None
  PROVE  s.lame.state = "S_UNDEF" /\ ~ s.lame.expired /\ s.primary.in = "nothing"
         /\ ~ DecryptKeyEnabled(s.primary)
BY DEF SessionInv, Trusted

(* No key for tunnel data is usable and not due to die but the newest one. *)
OnlyPrimary(f) ==
  \A k \in {f[TM_ACTIVE].primary, f[TM_ACTIVE].lame, f[TM_LAME_DUCK].lame} :
    k.state = "S_ACTIVE" => k.expired \/ k = f[TM_ACTIVE].primary

(* What becomes of m when the slot in question has been processed; e: with an
   error. *)
ActiveProcessed(m, a, e) ==
  /\ Core(a) /\ Places(a)
  /\ a.slot[TM_UNTRUSTED] = m.slot[TM_UNTRUSTED]
  /\ a.slot[TM_ACTIVE].primary.in = "nothing"
  /\ ~ a.slot[TM_ACTIVE].lame.expired
  /\ m.made <= a.made
  /\ a.slot[TM_ACTIVE].session_id # m.slot[TM_ACTIVE].session_id =>
       a.slot[TM_ACTIVE].session_id > m.made /\ e
  /\ Live(m.slot) /\ ~ single_session => Live(a.slot) \/ (e /\ OnlyPrimary(m.slot))

UntrustedProcessed(m, u) ==
  /\ Core(u) /\ Places(u)
  /\ u.slot[TM_ACTIVE] = m.slot[TM_ACTIVE]
  /\ u.slot[TM_LAME_DUCK] = m.slot[TM_LAME_DUCK]
  /\ u.slot[TM_UNTRUSTED].primary.in = "nothing"
  /\ m.made <= u.made
  /\ DecryptKeyEnabled(u.slot[TM_UNTRUSTED].primary) =>
       u.slot[TM_UNTRUSTED].session_id = m.slot[TM_UNTRUSTED].session_id

LEMMA ProcessActive ==
  ASSUME NEW m, Core(m), Places(m),
         NEW renew \in BOOLEAN, NEW late \in BOOLEAN, NEW fails \in BOOLEAN,
         renew => /\ m.slot[TM_ACTIVE].primary.state = "S_ACTIVE"
                  /\ m.slot[TM_ACTIVE].primary.n < MaxKeys
  PROVE  ActiveProcessed(m, ProcessSlot(m, TM_ACTIVE, renew, late, fails),
                         Failed(ProcessSession(m.slot[TM_ACTIVE], renew, late, fails)))
<1> DEFINE s == m.slot[TM_ACTIVE]
           p == tls_process(s, renew, late, fails)
           v == [m EXCEPT !.slot[TM_ACTIVE] = p]
           a == ProcessSlot(m, TM_ACTIVE, renew, late, fails)
           e == Failed(ProcessSession(s, renew, late, fails))
<1>1. /\ m \in [slot : [Slot -> Session], made : Nat]
      /\ s \in Session /\ SessionInv(s)
      /\ s.primary.state \in {"S_START", "S_GOT_KEY", "S_ACTIVE"}
  BY DEF Core, Places, Session, Key, State
<1>2. CASE s.session_id_remote = None
  <2>1. a = m
    <3>1. ProcessSession(s, renew, late, fails) = s /\ ~ Failed(s)
      BY <1>1, <1>2 DEF ProcessSession, Failed
    <3>2. [m EXCEPT !.slot[TM_ACTIVE] = s] = m
      BY <1>1
    <3> QED
      BY <3>1, <3>2 DEF ProcessSlot, HandleError
  <2>2. ~ s.lame.expired /\ s.primary.in = "nothing" /\ m.made <= m.made
    BY <1>1, <1>2, NoPeerNoKey
  <2> HIDE DEF a, e
  <2> QED
    BY <2>1, <2>2 DEF ActiveProcessed, a, e
<1>3. CASE s.session_id_remote # None
  <2>1. /\ p \in Session /\ SessionInv(p)
        /\ p.session_id = s.session_id /\ p.session_id_remote = s.session_id_remote
        /\ p.primary.in = "nothing" /\ ~ p.lame.expired
        /\ p.primary.state # "S_UNDEF"
        /\ renew => p.lame = s.primary
        /\ ~ renew /\ ~ s.lame.expired => p.lame = s.lame
        /\ ~ renew /\ s.primary.state = "S_ACTIVE" => Failed(p) \/ p.primary.state = "S_ACTIVE"
    BY <1>1, <1>3, Process
  <2>2. a = HandleError(v, TM_ACTIVE) /\ e = Failed(p)
    BY <1>1, <1>3 DEF ProcessSlot, ProcessSession
  <2> HIDE DEF e
  <2> HIDE DEF p
  <2>3. /\ Core(v) /\ v.made = m.made /\ v.slot[TM_ACTIVE] = p
        /\ \A j \in Slot : j # TM_ACTIVE => v.slot[j] = m.slot[j]
    BY <2>1, ReplaceCore
  <2> HIDE DEF v
  <2>4. /\ v \in [slot : [Slot -> Session], made : Nat]
        /\ v.slot[TM_UNTRUSTED] = m.slot[TM_UNTRUSTED]
        /\ v.slot[TM_LAME_DUCK] = m.slot[TM_LAME_DUCK]
    BY <2>3 DEF Core
  <2>5. p.primary.expired = FALSE /\ s.primary.expired = FALSE
    BY <1>1, <2>1 DEF SessionInv, Session, Key
  <2>6. CASE ~ Failed(p)
    <3>1. a = v
      BY <2>2, <2>3, <2>6 DEF HandleError
    <3>2. Places(v)
      BY <2>1, <2>3, <2>4, <2>6 DEF Places, Failed
    <3>3. Live(m.slot) => Live(v.slot)
      BY <2>1, <2>3, <2>4, <2>5, <2>6 DEF Live
    <3> QED
      BY <1>1, <2>1, <2>3, <2>4, <3>1, <3>2, <3>3 DEF ActiveProcessed, e
  <2>7. CASE Failed(p) /\ p.lame.state = "S_ACTIVE" /\ ~ single_session
    <3>1. a = move_session(v, TM_LAME_DUCK, TM_ACTIVE)
      BY <2>2, <2>3, <2>7 DEF HandleError
    <3>2. /\ Core(a) /\ a.made = v.made + 1 /\ a.slot[TM_LAME_DUCK] = p
          /\ a.slot[TM_ACTIVE] = tls_session_init(v.made + 1)
          /\ a.slot[TM_UNTRUSTED] = m.slot[TM_UNTRUSTED]
      BY <2>3, <2>4, <3>1, MoveCore
    <3> HIDE DEF a
    <3>3. /\ a.slot[TM_ACTIVE].session_id = m.made + 1
          /\ a.slot[TM_ACTIVE].primary.state = "S_START"
          /\ a.slot[TM_ACTIVE].primary.in = "nothing"
          /\ ~ a.slot[TM_ACTIVE].lame.expired
      BY <1>1, <2>3, <3>2, NewSession
    <3>4. Places(a)
      BY <2>7, <3>2, <3>3 DEF Places, Failed
    <3>5. Live(a.slot)
      BY <2>1, <2>7, <3>2 DEF Live
    <3> QED
      BY <1>1, <2>1, <2>2, <2>3, <2>7, <3>2, <3>3, <3>4, <3>5 DEF a, e, ActiveProcessed
  <2>8. CASE Failed(p) /\ ~ (p.lame.state = "S_ACTIVE" /\ ~ single_session)
    <3>1. a = Fresh(v, TM_ACTIVE)
      BY <2>2, <2>3, <2>8 DEF HandleError
    <3>2. /\ Core(a) /\ a.made = v.made + 1
          /\ a.slot[TM_ACTIVE] = tls_session_init(v.made + 1)
          /\ a.slot[TM_UNTRUSTED] = m.slot[TM_UNTRUSTED]
          /\ a.slot[TM_LAME_DUCK] = m.slot[TM_LAME_DUCK]
      <4>1. /\ Core(Fresh(v, TM_ACTIVE)) /\ Fresh(v, TM_ACTIVE).made = v.made + 1
            /\ Fresh(v, TM_ACTIVE).slot[TM_ACTIVE] = tls_session_init(v.made + 1)
            /\ \A j \in Slot : j # TM_ACTIVE => Fresh(v, TM_ACTIVE).slot[j] = v.slot[j]
        BY <2>3, FreshCore
      <4> HIDE DEF a
      <4> QED
        BY <2>4, <3>1, <4>1
    <3> HIDE DEF a
    <3>3. /\ a.slot[TM_ACTIVE].session_id = m.made + 1
          /\ a.slot[TM_ACTIVE].primary.state = "S_START"
          /\ a.slot[TM_ACTIVE].primary.in = "nothing"
          /\ ~ a.slot[TM_ACTIVE].lame.expired
      BY <1>1, <2>3, <3>2, NewSession
    <3>4. Places(a)
      BY <3>2, <3>3 DEF Places
    <3>5. Live(m.slot) /\ ~ single_session => Live(a.slot) \/ OnlyPrimary(m.slot)
      <4>1. ~ single_session => p.lame.state # "S_ACTIVE"
        BY <2>8
      <4>2. ~ single_session => ~ renew
        BY <2>1, <4>1
      <4>3. ~ single_session => s.lame.state # "S_ACTIVE" \/ s.lame.expired
        BY <2>1, <4>1, <4>2
      <4> QED
        BY <3>2, <4>3 DEF Live, OnlyPrimary
    <3> QED
      BY <1>1, <2>1, <2>2, <2>3, <2>8, <3>2, <3>3, <3>4, <3>5 DEF a, e, ActiveProcessed
  <2> QED
    BY <2>6, <2>7, <2>8
<1> QED
  BY <1>2, <1>3

LEMMA ProcessUntrusted ==
  ASSUME NEW m, Core(m), Places(m), NEW renew \in BOOLEAN, ~ renew,
         NEW late \in BOOLEAN, NEW fails \in BOOLEAN
  PROVE  UntrustedProcessed(m, ProcessSlot(m, TM_UNTRUSTED, renew, late, fails))
<1> DEFINE s == m.slot[TM_UNTRUSTED]
           p == tls_process(s, renew, late, fails)
           v == [m EXCEPT !.slot[TM_UNTRUSTED] = p]
           u == ProcessSlot(m, TM_UNTRUSTED, renew, late, fails)
<1>1. /\ m \in [slot : [Slot -> Session], made : Nat]
      /\ s \in Session /\ SessionInv(s) /\ s.lame.state = "S_UNDEF"
      /\ s.primary.state \in {"S_UNDEF", "S_START", "S_GOT_KEY", "S_ACTIVE"}
  BY DEF Core, Places, Session, Key, State
<1>2. CASE s.session_id_remote = None \/ s.primary.state = "S_UNDEF"
  <2>1. u = m
    <3>1. ProcessSession(s, renew, late, fails) = s /\ ~ Failed(s)
      BY <1>1, <1>2 DEF ProcessSession, Failed
    <3>2. [m EXCEPT !.slot[TM_UNTRUSTED] = s] = m
      BY <1>1
    <3> QED
      BY <3>1, <3>2 DEF ProcessSlot, HandleError
  <2>2. s.primary.in = "nothing"
    BY <1>1, <1>2, NoPeerNoKey DEF SessionInv, Session, Key
  <2>3. m.made <= m.made
    BY <1>1
  <2> HIDE DEF u
  <2> QED
    BY <2>1, <2>2, <2>3 DEF u, UntrustedProcessed
<1>3. CASE s.session_id_remote # None /\ s.primary.state # "S_UNDEF"
  <2>1. /\ p \in Session /\ SessionInv(p)
        /\ p.session_id = s.session_id /\ p.session_id_remote = s.session_id_remote
        /\ p.primary.in = "nothing" /\ p.lame.state = "S_UNDEF"
        /\ p.primary.state # "S_UNDEF"
    BY <1>1, <1>3, Process
  <2>2. u = HandleError(v, TM_UNTRUSTED)
    BY <1>1, <1>3 DEF ProcessSlot, ProcessSession
  <2> HIDE DEF p
  <2>3. /\ Core(v) /\ v.made = m.made /\ v.slot[TM_UNTRUSTED] = p
        /\ \A j \in Slot : j # TM_UNTRUSTED => v.slot[j] = m.slot[j]
    BY <2>1, ReplaceCore
  <2> HIDE DEF v, u
  <2>4. /\ v \in [slot : [Slot -> Session], made : Nat]
        /\ v.slot[TM_ACTIVE] = m.slot[TM_ACTIVE]
        /\ v.slot[TM_LAME_DUCK] = m.slot[TM_LAME_DUCK]
        /\ m.made <= v.made
    BY <1>1, <2>3 DEF Core
  <2>5. CASE ~ Failed(p)
    <3>1. u = v
      BY <2>2, <2>3, <2>5 DEF HandleError
    <3>2. Places(v)
      BY <2>1, <2>3, <2>5 DEF Places, Failed
    <3> QED
      BY <2>1, <2>3, <2>4, <3>1, <3>2 DEF u, UntrustedProcessed
  <2>6. CASE Failed(p)
    <3>1. u = Fresh(v, TM_UNTRUSTED)
      BY <2>2, <2>3, <2>6 DEF HandleError
    <3>2. /\ Core(u) /\ u.made = v.made + 1
          /\ u.slot[TM_UNTRUSTED] = tls_session_init(v.made + 1)
          /\ u.slot[TM_ACTIVE] = m.slot[TM_ACTIVE]
          /\ u.slot[TM_LAME_DUCK] = m.slot[TM_LAME_DUCK]
      <4>1. /\ Core(Fresh(v, TM_UNTRUSTED)) /\ Fresh(v, TM_UNTRUSTED).made = v.made + 1
            /\ Fresh(v, TM_UNTRUSTED).slot[TM_UNTRUSTED] = tls_session_init(v.made + 1)
            /\ \A j \in Slot : j # TM_UNTRUSTED => Fresh(v, TM_UNTRUSTED).slot[j] = v.slot[j]
        BY <2>3, FreshCore
      <4> QED
        BY <2>4, <3>1, <4>1
    <3>3. /\ u.slot[TM_UNTRUSTED].primary.state = "S_START"
          /\ u.slot[TM_UNTRUSTED].primary.in = "nothing"
          /\ u.slot[TM_UNTRUSTED].lame.state = "S_UNDEF"
      BY <1>1, <2>3, <3>2, NewSession
    <3>4. Places(u)
      BY <3>2, <3>3 DEF Places
    <3>5. m.made <= u.made /\ ~ DecryptKeyEnabled(u.slot[TM_UNTRUSTED].primary)
      BY <1>1, <2>3, <3>2, <3>3 DEF DecryptKeyEnabled
    <3> QED
      BY <3>2, <3>3, <3>4, <3>5 DEF u, UntrustedProcessed
  <2> QED
    BY <2>5, <2>6
<1> QED
  BY <1>2, <1>3

LEMMA PromoteCore ==
  ASSUME NEW m, Core(m), Places(m)
  PROVE  LET v == Promote(m)
         IN /\ Core(v) /\ Places(v)
            /\ m.made <= v.made
            /\ v.slot[TM_LAME_DUCK] = m.slot[TM_LAME_DUCK]
            /\ DecryptKeyEnabled(m.slot[TM_UNTRUSTED].primary)
                 => v.slot[TM_ACTIVE] = m.slot[TM_UNTRUSTED]
                    /\ v.slot[TM_UNTRUSTED].primary.in = "nothing"
            /\ ~ DecryptKeyEnabled(m.slot[TM_UNTRUSTED].primary) => v = m
            /\ ~ DecryptKeyEnabled(v.slot[TM_UNTRUSTED].primary)
<1> DEFINE v == Promote(m)
<1>1. m \in [slot : [Slot -> Session], made : Nat]
  BY DEF Core
<1>2. CASE ~ DecryptKeyEnabled(m.slot[TM_UNTRUSTED].primary)
  <2>1. v = m
    BY <1>2 DEF Promote
  <2> QED
    BY <1>1, <1>2, <2>1
<1>3. CASE DecryptKeyEnabled(m.slot[TM_UNTRUSTED].primary)
  <2>1. v = move_session(m, TM_ACTIVE, TM_UNTRUSTED)
    BY <1>3 DEF Promote
  <2>2. /\ Core(v) /\ v.made = m.made + 1
        /\ v.slot[TM_ACTIVE] = m.slot[TM_UNTRUSTED]
        /\ v.slot[TM_UNTRUSTED] = tls_session_init(m.made + 1)
        /\ v.slot[TM_LAME_DUCK] = m.slot[TM_LAME_DUCK]
    BY <2>1, MoveCore
  <2> HIDE DEF v
  <2>3. /\ v.slot[TM_UNTRUSTED].primary.state = "S_START"
        /\ v.slot[TM_UNTRUSTED].primary.in = "nothing"
        /\ v.slot[TM_UNTRUSTED].lame.state = "S_UNDEF"
    BY <1>1, <2>2, NewSession
  <2>4. Places(v)
    BY <1>3, <2>2, <2>3 DEF Places, DecryptKeyEnabled
  <2>5. ~ DecryptKeyEnabled(v.slot[TM_UNTRUSTED].primary)
    BY <2>3 DEF DecryptKeyEnabled
  <2> QED
    BY <1>1, <1>3, <2>2, <2>3, <2>4, <2>5 DEF v
<1> QED
  BY <1>2, <1>3

-----------------------------------------------------------------------------
(* A whole pass. *)
LEMMA InvBefore ==
  ASSUME IInv
  PROVE  Core(Before) /\ Places(Before) /\ Before.slot = multi /\ Before.made = made
<1>1. multi \in [Slot -> Session] /\ made \in Nat
  BY DEF IInv, TypeOK, Session, TlsSession
<1>2. /\ Before \in [slot : [Slot -> Session], made : Nat]
      /\ Before.slot = multi /\ Before.made = made
  BY <1>1 DEF Before
<1> HIDE DEF Before
<1>3. \A i \in Slot : SessionInv(multi[i]) /\ multi[i].session_id <= made
  BY DEF IInv
<1>4. Distinct(multi)
  BY DEF IInv, OneSessionPerPeer, Distinct
<1>5. Places(Before)
  BY <1>2 DEF IInv, TypeOK, Places, State
<1> QED
  BY <1>2, <1>3, <1>4, <1>5 DEF Core

Replaced(f, e) ==
  f[TM_ACTIVE].session_id # multi[TM_ACTIVE].session_id =>
    \/ /\ f[TM_ACTIVE].session_id = multi[TM_UNTRUSTED].session_id
       /\ DecryptKeyEnabled(f[TM_ACTIVE].primary)
    \/ /\ f[TM_ACTIVE].session_id # multi[TM_UNTRUSTED].session_id
       /\ e

(* What the result m of a pass satisfies; e: TM_ACTIVE hit an error. *)
Passed(m, e) ==
  /\ Core(m) /\ Places(m)
  /\ \A i \in Slot : m.slot[i].primary.in = "nothing"
  /\ ~ DecryptKeyEnabled(m.slot[TM_UNTRUSTED].primary)
  /\ ~ m.slot[TM_ACTIVE].lame.expired /\ ~ m.slot[TM_LAME_DUCK].lame.expired
  /\ Replaced(m.slot, e)
  /\ Live(multi) /\ ~ single_session =>
       \/ Live(m.slot) \/ m.slot[TM_ACTIVE].session_id = multi[TM_UNTRUSTED].session_id
       \/ e /\ OnlyPrimary(multi)

LEMMA QuietLameDuck ==
  ASSUME NEW m, Core(m), Places(m)
  PROVE  m.slot[TM_LAME_DUCK].primary.in = "nothing"
<1>1. m.slot[TM_LAME_DUCK] \in Session /\ SessionInv(m.slot[TM_LAME_DUCK])
  BY DEF Core
<1> QED
  BY <1>1 DEF Places, SessionInv, Session, Key

LEMMA Pass ==
  ASSUME IInv, NEW renew \in BOOLEAN, renew => Renewable, NEW no \in BOOLEAN, ~ no,
         NEW lateA \in BOOLEAN, NEW failsA \in BOOLEAN,
         NEW lateU \in BOOLEAN, NEW failsU \in BOOLEAN
  PROVE  Passed(Promote(LameDuckDies(
           ProcessSlot(ProcessSlot(Before, TM_ACTIVE, renew, lateA, failsA),
                       TM_UNTRUSTED, no, lateU, failsU))),
                Failed(ProcessSession(multi[TM_ACTIVE], renew, lateA, failsA)))
<1> DEFINE e == Failed(ProcessSession(multi[TM_ACTIVE], renew, lateA, failsA))
           a == ProcessSlot(Before, TM_ACTIVE, renew, lateA, failsA)
           u == ProcessSlot(a, TM_UNTRUSTED, no, lateU, failsU)
           d == LameDuckDies(u)
           m == Promote(d)
<1>1. Core(Before) /\ Places(Before) /\ Before.slot = multi /\ Before.made = made
  BY InvBefore
<1>2. /\ Core(a) /\ Places(a)
      /\ a.slot[TM_UNTRUSTED] = multi[TM_UNTRUSTED]
      /\ a.slot[TM_ACTIVE].primary.in = "nothing"
      /\ ~ a.slot[TM_ACTIVE].lame.expired
      /\ a.slot[TM_ACTIVE].session_id # multi[TM_ACTIVE].session_id =>
           a.slot[TM_ACTIVE].session_id > made /\ e
      /\ Live(multi) /\ ~ single_session => Live(a.slot) \/ (e /\ OnlyPrimary(multi))
  <2>1. renew => /\ Before.slot[TM_ACTIVE].primary.state = "S_ACTIVE"
                 /\ Before.slot[TM_ACTIVE].primary.n < MaxKeys
    BY <1>1 DEF Renewable
  <2>2. ActiveProcessed(Before, a, e)
    BY <1>1, <2>1, ProcessActive
  <2> HIDE DEF a, e
  <2> QED
    BY <1>1, <2>2 DEF ActiveProcessed
<1> HIDE DEF a, e
<1>3. /\ Core(u) /\ Places(u)
      /\ u.slot[TM_ACTIVE] = a.slot[TM_ACTIVE]
      /\ u.slot[TM_LAME_DUCK] = a.slot[TM_LAME_DUCK]
      /\ u.slot[TM_UNTRUSTED].primary.in = "nothing"
      /\ DecryptKeyEnabled(u.slot[TM_UNTRUSTED].primary) =>
           u.slot[TM_UNTRUSTED].session_id = a.slot[TM_UNTRUSTED].session_id
  <2>1. UntrustedProcessed(a, u)
    BY <1>2, ProcessUntrusted
  <2> HIDE DEF u
  <2> QED
    BY <2>1 DEF UntrustedProcessed
<1> HIDE DEF u
<1>4. /\ Core(d)
      /\ d.slot[TM_ACTIVE] = u.slot[TM_ACTIVE]
      /\ d.slot[TM_UNTRUSTED] = u.slot[TM_UNTRUSTED]
      /\ ~ d.slot[TM_LAME_DUCK].lame.expired
      /\ d.slot[TM_LAME_DUCK] \in {u.slot[TM_LAME_DUCK], Cleared}
      /\ ~ u.slot[TM_LAME_DUCK].lame.expired => d = u
  BY <1>3, LameDuckDiesCore
<1> HIDE DEF d
<1>5. Places(d)
  BY <1>3, <1>4, ClearedSession DEF Places
<1>6. /\ Core(m) /\ Places(m)
      /\ m.slot[TM_LAME_DUCK] = d.slot[TM_LAME_DUCK]
      /\ DecryptKeyEnabled(d.slot[TM_UNTRUSTED].primary)
           => m.slot[TM_ACTIVE] = d.slot[TM_UNTRUSTED]
              /\ m.slot[TM_UNTRUSTED].primary.in = "nothing"
      /\ ~ DecryptKeyEnabled(d.slot[TM_UNTRUSTED].primary) => m = d
      /\ ~ DecryptKeyEnabled(m.slot[TM_UNTRUSTED].primary)
  BY <1>4, <1>5, PromoteCore
<1> HIDE DEF m
<1>7. \A i \in Slot : m.slot[i].primary.in = "nothing"
  <2>1. m.slot[TM_LAME_DUCK].primary.in = "nothing"
    BY <1>6, QuietLameDuck
  <2>2. m.slot[TM_ACTIVE].primary.in = "nothing" /\ m.slot[TM_UNTRUSTED].primary.in = "nothing"
    BY <1>2, <1>3, <1>4, <1>6
  <2> QED
    BY <2>1, <2>2
<1>8. ~ m.slot[TM_ACTIVE].lame.expired /\ ~ m.slot[TM_LAME_DUCK].lame.expired
  <2>1. d.slot[TM_UNTRUSTED] \in Session /\ SessionInv(d.slot[TM_UNTRUSTED])
    BY <1>4 DEF Core
  <2>2. ~ d.slot[TM_UNTRUSTED].lame.expired
    BY <1>5, <2>1 DEF Places, SessionInv, DecryptKeyEnabled
  <2> QED
    BY <1>2, <1>3, <1>4, <1>6, <2>2
<1>9. Replaced(m.slot, e)
  <2>1. /\ multi[TM_UNTRUSTED].session_id \in Nat
        /\ multi[TM_UNTRUSTED].session_id <= made /\ made \in Nat
        /\ a.slot[TM_ACTIVE].session_id \in Nat
    BY <1>1, <1>2 DEF Core, Session
  <2>2. multi[TM_ACTIVE].session_id # multi[TM_UNTRUSTED].session_id
          \/ m.slot[TM_ACTIVE].session_id = multi[TM_ACTIVE].session_id
          \/ m.slot[TM_ACTIVE].session_id # multi[TM_ACTIVE].session_id
    OBVIOUS
  <2>3. CASE DecryptKeyEnabled(d.slot[TM_UNTRUSTED].primary)
    BY <1>2, <1>3, <1>4, <1>6, <2>3 DEF Replaced
  <2>4. CASE ~ DecryptKeyEnabled(d.slot[TM_UNTRUSTED].primary)
    <3>1. m.slot[TM_ACTIVE] = a.slot[TM_ACTIVE]
      BY <1>3, <1>4, <1>6, <2>4
    <3> QED
      BY <1>2, <2>1, <3>1 DEF Replaced
  <2> QED
    BY <2>3, <2>4
<1>10. Live(multi) /\ ~ single_session =>
         \/ Live(m.slot) \/ m.slot[TM_ACTIVE].session_id = multi[TM_UNTRUSTED].session_id
         \/ e /\ OnlyPrimary(multi)
  <2>1. CASE DecryptKeyEnabled(d.slot[TM_UNTRUSTED].primary)
    BY <1>2, <1>3, <1>4, <1>6, <2>1
  <2>2. CASE ~ DecryptKeyEnabled(d.slot[TM_UNTRUSTED].primary)
    <3>1. /\ m.slot[TM_ACTIVE] = a.slot[TM_ACTIVE]
          /\ ~ a.slot[TM_LAME_DUCK].lame.expired => m.slot[TM_LAME_DUCK] = a.slot[TM_LAME_DUCK]
      BY <1>3, <1>4, <1>6, <2>2
    <3>2. a.slot[TM_LAME_DUCK] \in Session /\ SessionInv(a.slot[TM_LAME_DUCK])
      BY <1>2 DEF Core
    <3>3. Live(a.slot) => Live(m.slot)
      BY <3>1, <3>2 DEF Live
    <3> QED
      BY <1>2, <3>3
  <2> QED
    BY <2>1, <2>2
<1> QED
  BY <1>6, <1>7, <1>8, <1>9, <1>10 DEF Passed, m, d, u, a, e

LEMMA PassResult ==
  ASSUME IInv, tls_multi_process
  PROVE  \E m : /\ Passed(m, error') /\ error' \in BOOLEAN /\ m.made <= MaxSessions
                /\ multi' = m.slot /\ made' = m.made /\ due' = FALSE
                /\ UNCHANGED <<single_session, n_sessions>>
<1>1. PICK renew \in {FALSE, Renewable}, late \in SUBSET Negotiating,
           fails \in SUBSET {TM_ACTIVE, TM_UNTRUSTED} :
        LET a == ProcessSlot([slot |-> multi, made |-> made], TM_ACTIVE,
                             renew, TM_ACTIVE \in late, TM_ACTIVE \in fails)
            u == ProcessSlot(a, TM_UNTRUSTED,
                             FALSE, TM_UNTRUSTED \in late, TM_UNTRUSTED \in fails)
            m == Promote(LameDuckDies(u))
        IN /\ m.made <= MaxSessions
           /\ multi' = m.slot /\ made' = m.made
           /\ error' = Failed(ProcessSession(multi[TM_ACTIVE], renew,
                                            TM_ACTIVE \in late, TM_ACTIVE \in fails))
           /\ due' = FALSE
           /\ UNCHANGED <<single_session, n_sessions>>
  BY DEF tls_multi_process
<1>2. \A no \in BOOLEAN : ~ no =>
        Passed(Promote(LameDuckDies(
          ProcessSlot(ProcessSlot(Before, TM_ACTIVE, renew, TM_ACTIVE \in late, TM_ACTIVE \in fails),
                      TM_UNTRUSTED, no, TM_UNTRUSTED \in late, TM_UNTRUSTED \in fails))),
               Failed(ProcessSession(multi[TM_ACTIVE], renew, TM_ACTIVE \in late, TM_ACTIVE \in fails)))
  <2> DEFINE lateA == TM_ACTIVE \in late
             failsA == TM_ACTIVE \in fails
             lateU == TM_UNTRUSTED \in late
             failsU == TM_UNTRUSTED \in fails
  <2>1. renew \in BOOLEAN /\ (renew => Renewable)
    <3>1. Renewable \in BOOLEAN
      BY DEF Renewable
    <3>2. CASE renew = FALSE
      BY <3>2
    <3>3. CASE renew = Renewable
      BY <3>1, <3>3
    <3> QED
      BY <3>2, <3>3
  <2>2. /\ lateA \in BOOLEAN /\ failsA \in BOOLEAN /\ lateU \in BOOLEAN /\ failsU \in BOOLEAN
    OBVIOUS
  <2> HIDE DEF lateA, failsA, lateU, failsU
  <2>3. \A no \in BOOLEAN : ~ no =>
          Passed(Promote(LameDuckDies(
            ProcessSlot(ProcessSlot(Before, TM_ACTIVE, renew, lateA, failsA),
                        TM_UNTRUSTED, no, lateU, failsU))),
                 Failed(ProcessSession(multi[TM_ACTIVE], renew, lateA, failsA)))
    BY <2>1, <2>2, Pass
  <2> QED
    BY <2>3 DEF lateA, failsA, lateU, failsU
<1>3. FALSE \in BOOLEAN /\ error' \in BOOLEAN
  BY <1>1 DEF Failed
<1> QED
  BY <1>1, <1>2, <1>3 DEF Before

-----------------------------------------------------------------------------
(* The inductive invariant. *)
LEMMA PlacesAreTyped ==
  ASSUME NEW f \in [Slot -> TlsSession],
         f[TM_ACTIVE].primary.state \notin {"S_UNDEF", "S_ERROR"},
         f[TM_UNTRUSTED].primary.state # "S_ERROR",
         f[TM_LAME_DUCK].primary.state \in {"S_UNDEF", "S_ERROR"}
  PROVE  \A i \in Slot : f[i].primary.state \in
           IF i = TM_LAME_DUCK THEN {"S_UNDEF", "S_ERROR"} ELSE State \ {"S_ERROR"}
<1>1. \A i \in Slot : f[i].primary.state \in State
  BY DEF TlsSession, Key
<1> QED
  BY <1>1

LEMMA InitInv == Init => IInv
<1> SUFFICES ASSUME Init
             PROVE  IInv
  OBVIOUS
<1>1. /\ multi = [i \in Slot |-> IF i = TM_ACTIVE \/ (i = TM_UNTRUSTED /\ ~ single_session)
                                THEN tls_session_init(i + 1) ELSE Cleared]
      /\ made = 2 /\ due = FALSE /\ error = FALSE /\ n_sessions = FALSE /\ single_session \in BOOLEAN
  BY DEF Init
<1>2. \A i \in Slot :
        /\ multi[i] \in Session /\ SessionInv(multi[i])
        /\ multi[i].session_id \in {0, i + 1} /\ (i = TM_LAME_DUCK => multi[i].session_id = 0)
        /\ multi[i].session_id_remote = None
        /\ multi[i].primary.in = "nothing" /\ multi[i].lame.state = "S_UNDEF"
        /\ multi[i].primary.state =
             IF i = TM_ACTIVE \/ (i = TM_UNTRUSTED /\ ~ single_session)
             THEN "S_START" ELSE "S_UNDEF"
  <2> TAKE i \in Slot
  <2>1. CASE i = TM_ACTIVE \/ (i = TM_UNTRUSTED /\ ~ single_session)
    <3>1. i + 1 \in Nat /\ multi[i] = tls_session_init(i + 1)
      BY <1>1, <2>1
    <3> QED
      BY <2>1, <3>1, NewSession
  <2>2. CASE ~ (i = TM_ACTIVE \/ (i = TM_UNTRUSTED /\ ~ single_session))
    <3>1. multi[i] = Cleared
      BY <1>1, <2>2
    <3> QED
      BY <2>2, <3>1, ClearedSession
  <2> QED
    BY <2>1, <2>2
<1>3. multi \in [Slot -> TlsSession]
  <2>1. \A i \in Slot : multi[i] \in TlsSession
    BY <1>2 DEF Session, TlsSession
  <2> QED
    BY <1>1, <2>1
<1>4. TypeOK
  <2>1. /\ multi[TM_ACTIVE].primary.state = "S_START"
        /\ multi[TM_UNTRUSTED].primary.state \in {"S_START", "S_UNDEF"}
        /\ multi[TM_UNTRUSTED].primary.state = "S_UNDEF" => single_session
        /\ multi[TM_LAME_DUCK].primary.state = "S_UNDEF"
    BY <1>2
  <2>2. \A i \in Slot : multi[i].primary.state \in
           IF i = TM_LAME_DUCK THEN {"S_UNDEF", "S_ERROR"} ELSE State \ {"S_ERROR"}
    BY <1>3, <2>1, PlacesAreTyped
  <2>3. made \in 0 .. MaxSessions
    BY <1>1
  <2>4. /\ n_sessions \in BOOLEAN /\ due \in BOOLEAN /\ error \in BOOLEAN
        /\ single_session \in BOOLEAN
    BY DEF Init
  <2> QED
    BY <1>3, <2>1, <2>2, <2>3, <2>4 DEF TypeOK
<1>5. \A i \in Slot : SessionInv(multi[i]) /\ multi[i].session_id <= made
  BY <1>1, <1>2
<1>6. OneSessionPerPeer
  BY <1>2 DEF OneSessionPerPeer
<1>7. ~ DecryptKeyEnabled(multi[TM_UNTRUSTED].primary)
  BY <1>2 DEF DecryptKeyEnabled
<1> QED
  BY <1>2, <1>4, <1>5, <1>6, <1>7 DEF IInv

(* A step that changes one session and not whose it is. *)
Changes(i, s) ==
  /\ multi' = [multi EXCEPT ![i] = s]
  /\ UNCHANGED <<made, single_session, error>> /\ n_sessions' \in BOOLEAN
  /\ due' = TRUE \/ (due' = due /\ s.primary.in = multi[i].primary.in)

LEMMA ChangeInv ==
  ASSUME IInv, NEW i \in Slot, NEW s \in TlsSession, SessionInv(s), Changes(i, s),
         s.session_id = multi[i].session_id,
         \A j \in Slot : i # j /\ s.session_id_remote = multi[j].session_id_remote
                          => s.session_id_remote = None,
         \/ s.primary.state = multi[i].primary.state
         \/ i # TM_LAME_DUCK /\ s.primary.state = "S_START",
         s.lame.state = multi[i].lame.state \/ i # TM_UNTRUSTED
  PROVE  IInv'
<1>1. /\ multi \in [Slot -> TlsSession] /\ multi' \in [Slot -> TlsSession]
      /\ multi'[i] = s /\ \A j \in Slot : j # i => multi'[j] = multi[j]
      /\ made' = made /\ single_session' = single_session
  BY DEF Changes, IInv, TypeOK
<1>2. TypeOK'
  <2>2. /\ multi'[TM_ACTIVE].primary.state \notin {"S_UNDEF", "S_ERROR"}
        /\ multi'[TM_UNTRUSTED].primary.state # "S_ERROR"
        /\ multi'[TM_UNTRUSTED].primary.state = "S_UNDEF" => single_session'
        /\ multi'[TM_LAME_DUCK].primary.state \in {"S_UNDEF", "S_ERROR"}
    BY <1>1 DEF IInv, TypeOK, State
  <2>3. /\ made' \in 0 .. MaxSessions /\ single_session' \in BOOLEAN
        /\ n_sessions' \in BOOLEAN /\ due' \in BOOLEAN /\ error' \in BOOLEAN
    BY DEF Changes, IInv, TypeOK
  <2> QED
    BY <1>1, <2>2, <2>3, PlacesAreTyped DEF TypeOK
<1>3. \A j \in Slot : SessionInv(multi'[j]) /\ multi'[j].session_id <= made'
  BY <1>1 DEF IInv
<1>4. OneSessionPerPeer'
  BY <1>1 DEF IInv, OneSessionPerPeer
<1>5. ~ due' => \A j \in Slot : multi'[j].primary.in = "nothing"
  BY <1>1 DEF IInv, Changes
<1>6. ~ DecryptKeyEnabled(multi'[TM_UNTRUSTED].primary)
  BY <1>1 DEF IInv, DecryptKeyEnabled
<1>7. multi'[TM_UNTRUSTED].lame.state = "S_UNDEF"
  BY <1>1 DEF IInv
<1> HIDE DEF TM_UNTRUSTED
<1> QED
  BY <1>2, <1>3, <1>4, <1>5, <1>6, <1>7 DEF IInv, SessionInv, Trusted, DecryptKeyEnabled, Slot

LEMMA Stranger ==
  ASSUME IInv, NEW s \in TlsSession, SessionInv(s), s.session_id_remote = None
  PROVE  ~ DecryptKeyEnabled(s.primary) /\ ~ DecryptKeyEnabled(s.lame)
BY DEF SessionInv, Trusted

LEMMA NewLinkInv ==
  ASSUME IInv, ~ due, due' = TRUE, UNCHANGED <<single_session, error>>, NEW a \in Remote, NewLink(a)
  PROVE  IInv'
<1> DEFINE i == InitialSlot
           s == [multi[i] EXCEPT !.session_id_remote = a]
<1>1. /\ multi \in [Slot -> TlsSession] /\ i \in {TM_ACTIVE, TM_UNTRUSTED}
      /\ multi[i] \in TlsSession /\ SessionInv(multi[i])
      /\ multi[i].primary.in = "nothing"
  BY DEF IInv, TypeOK, InitialSlot
<1>2. ~ DecryptKeyEnabled(multi[i].primary) /\ ~ DecryptKeyEnabled(multi[i].lame)
  <2>1. CASE i = TM_ACTIVE
    <3>1. multi[i].session_id_remote = None
      BY <2>1 DEF InitialSlot
    <3> QED
      BY <1>1, <3>1, Stranger
  <2>2. CASE i = TM_UNTRUSTED
    BY <2>2 DEF IInv, DecryptKeyEnabled
  <2> QED
    BY <1>1, <2>1, <2>2
<1>3. multi' = [multi EXCEPT ![i] = s]
  BY <1>1 DEF NewLink
<1> HIDE DEF i
<1>4. /\ s \in TlsSession /\ s.session_id_remote = a /\ a # None
      /\ s.session_id = multi[i].session_id
      /\ s.primary = multi[i].primary /\ s.lame = multi[i].lame
  BY <1>1 DEF TlsSession
<1> HIDE DEF s
<1>5. SessionInv(s)
  BY <1>1, <1>2, <1>4 DEF SessionInv, Trusted
<1>6. \A j \in Slot : multi[j].session_id_remote # a
  BY DEF NewLink, Match
<1>7. Changes(i, s)
  BY <1>3 DEF Changes, NewLink
<1> QED
  BY <1>1, <1>4, <1>5, <1>6, <1>7, ChangeInv

LEMMA ComesInv ==
  ASSUME IInv, ~ due, due' = TRUE, UNCHANGED <<single_session, error>>, NEW a \in Remote, Comes(a)
  PROVE  IInv'
<1>1. PICK i \in Match(a) \ {TM_LAME_DUCK} :
        (SoftResetComes(i) \/ RecordComes(i)) /\ UNCHANGED <<made, n_sessions>>
  BY DEF Comes
<1> DEFINE s == multi[i]
<1>2. /\ i \in {TM_ACTIVE, TM_UNTRUSTED} /\ multi[i].session_id_remote # None
      /\ multi \in [Slot -> TlsSession] /\ s \in TlsSession /\ SessionInv(s)
      /\ n_sessions \in BOOLEAN
  BY <1>1 DEF Match, IInv, TypeOK
<1>3. \A j \in Slot : i # j /\ s.session_id_remote = multi[j].session_id_remote
                         => s.session_id_remote = None
  BY <1>2 DEF IInv, OneSessionPerPeer
<1>4. CASE RecordComes(i)
  <2>1. PICK op \in {"HELLO", "KEY", "ACK"} :
          /\ s.primary.state \in {"S_START", "S_GOT_KEY"}
          /\ op = "KEY" => s.primary.by = s.session_id_remote
          /\ multi' = [multi EXCEPT ![i].primary.in = op]
    BY <1>4 DEF RecordComes
  <2> DEFINE n == [s EXCEPT !.primary = [s.primary EXCEPT !.in = op]]
  <2>2. s.primary \in Key
    BY <1>2 DEF TlsSession
  <2>3. /\ [s.primary EXCEPT !.in = op] \in Key
        /\ [s.primary EXCEPT !.in = op].in = op
        /\ [s.primary EXCEPT !.in = op].state = s.primary.state
        /\ [s.primary EXCEPT !.in = op].by = s.primary.by
        /\ [s.primary EXCEPT !.in = op].expired = s.primary.expired
    BY <2>2 DEF Key
  <2>4. multi' = [multi EXCEPT ![i] = n]
    BY <1>2, <2>1
  <2>5. /\ n \in TlsSession /\ n.session_id = s.session_id
        /\ n.session_id_remote = s.session_id_remote /\ n.lame = s.lame
        /\ n.primary.in = op /\ n.primary.state = s.primary.state
        /\ n.primary.by = s.primary.by /\ n.primary.expired = s.primary.expired
    BY <1>2, <2>3 DEF TlsSession
  <2> HIDE DEF n
  <2>6. SessionInv(n)
    BY <1>2, <2>1, <2>5 DEF SessionInv, Trusted, DecryptKeyEnabled
  <2>7. Changes(i, n)
    BY <1>1, <1>2, <2>4 DEF Changes
  <2> QED
    BY <1>2, <1>3, <2>5, <2>6, <2>7, ChangeInv
<1>5. CASE SoftResetComes(i)
  <2> DEFINE r == IF DecryptKeyEnabled(s.primary) THEN key_state_soft_reset(s) ELSE s
  <2>1. PICK reset \in BOOLEAN :
          multi' = [multi EXCEPT ![i] = [r EXCEPT !.primary.reset = reset]]
    BY <1>5 DEF SoftResetComes, DecryptKeyEnabled
  <2>2. \/ DecryptKeyEnabled(s.primary) /\ s.primary.n < MaxKeys
        \/ s.primary.state = "S_START"
    BY <1>5 DEF SoftResetComes
  <2> DEFINE n == [r EXCEPT !.primary = [r.primary EXCEPT !.reset = reset]]
  <2>3. /\ r \in TlsSession
        /\ r.session_id = s.session_id /\ r.session_id_remote = s.session_id_remote
        /\ r.primary.state = "S_START"
        /\ i = TM_UNTRUSTED => r.lame.state = s.lame.state
        /\ SessionInv(r)
    <3>1. CASE s.primary.state = "S_START"
      BY <1>2, <3>1 DEF DecryptKeyEnabled
    <3>2. CASE DecryptKeyEnabled(s.primary) /\ s.primary.n < MaxKeys
      <4>1. s \in Session /\ s.session_id \in 0 .. MaxSessions /\ s.primary.n < MaxKeys
        BY <1>2, <3>2 DEF Session, TlsSession
      <4>2. /\ r \in Session
            /\ r.session_id = s.session_id /\ r.session_id_remote = s.session_id_remote
            /\ r.lame = s.primary
            /\ r.primary = key_state_init(s.primary.n + 1, s.primary.by)
        BY <3>2, <4>1, SoftReset
      <4> HIDE DEF r
      <4>3. /\ r.primary.state = "S_START" /\ r.primary.in = "nothing" /\ ~ r.primary.expired
        <5>1. s.primary.n + 1 \in 0 .. MaxKeys /\ s.primary.by \in 0 .. MaxRemote
          BY <4>1 DEF Session, Key
        <5> QED
          BY <4>2, <5>1, NewKey
      <4>4. SessionInv(r)
        <5>1. DecryptKeyEnabled(r.lame) /\ ~ DecryptKeyEnabled(r.primary)
          BY <3>2, <4>2, <4>3 DEF DecryptKeyEnabled
        <5>2. Trusted(r)
          BY <1>2, <4>2, <5>1 DEF SessionInv, Trusted
        <5> QED
          BY <4>3, <5>1, <5>2 DEF SessionInv
      <4>5. i # TM_UNTRUSTED
        BY <3>2 DEF IInv
      <4>6. r \in TlsSession
        BY <4>1, <4>2 DEF Session, TlsSession
      <4> QED
        BY <4>2, <4>3, <4>4, <4>5, <4>6
    <3> QED
      BY <2>2, <3>1, <3>2
  <2> HIDE DEF r
  <2>4. /\ [r.primary EXCEPT !.reset = reset] \in Key
        /\ [r.primary EXCEPT !.reset = reset].in = r.primary.in
        /\ [r.primary EXCEPT !.reset = reset].state = r.primary.state
        /\ [r.primary EXCEPT !.reset = reset].by = r.primary.by
        /\ [r.primary EXCEPT !.reset = reset].expired = r.primary.expired
    BY <2>3 DEF Key, TlsSession
  <2>5. /\ n \in TlsSession /\ n.session_id = s.session_id
        /\ n.session_id_remote = s.session_id_remote /\ n.lame = r.lame
        /\ n.primary.in = r.primary.in /\ n.primary.state = r.primary.state
        /\ n.primary.by = r.primary.by /\ n.primary.expired = r.primary.expired
    BY <2>3, <2>4 DEF TlsSession
  <2>6. multi' = [multi EXCEPT ![i] = n]
    BY <2>1
  <2> HIDE DEF n
  <2>7. SessionInv(n)
    BY <2>3, <2>5 DEF SessionInv, Trusted, DecryptKeyEnabled
  <2>8. Changes(i, n)
    BY <1>1, <1>2, <2>6 DEF Changes
  <2> QED
    BY <1>2, <1>3, <2>3, <2>5, <2>7, <2>8, ChangeInv
<1> QED
  BY <1>1, <1>4, <1>5

LEMMA ExpireInv ==
  ASSUME IInv, NEW i \in Slot, Expire(i)
  PROVE  IInv'
<1> DEFINE s == multi[i]
           n == [s EXCEPT !.lame = [s.lame EXCEPT !.expired = TRUE]]
<1>1. /\ multi \in [Slot -> TlsSession] /\ s \in TlsSession /\ SessionInv(s)
      /\ n_sessions \in BOOLEAN /\ s.lame.state # "S_UNDEF"
      /\ multi' = [multi EXCEPT ![i] = n]
      /\ UNCHANGED <<made, single_session, n_sessions, due, error>>
  BY DEF IInv, TypeOK, Expire
<1>2. /\ [s.lame EXCEPT !.expired = TRUE] \in Key
      /\ [s.lame EXCEPT !.expired = TRUE].state = s.lame.state
      /\ [s.lame EXCEPT !.expired = TRUE].by = s.lame.by
  BY <1>1 DEF TlsSession, Key
<1>3. /\ n \in TlsSession /\ n.session_id = s.session_id
      /\ n.session_id_remote = s.session_id_remote /\ n.primary = s.primary
      /\ n.lame.state = s.lame.state /\ n.lame.by = s.lame.by
  BY <1>1, <1>2 DEF TlsSession
<1> HIDE DEF n
<1>4. SessionInv(n)
  BY <1>1, <1>3 DEF SessionInv, Trusted, DecryptKeyEnabled
<1>5. Changes(i, n)
  BY <1>1, <1>3 DEF Changes
<1>6. \A j \in Slot : i # j /\ n.session_id_remote = multi[j].session_id_remote
                         => n.session_id_remote = None
  BY <1>1, <1>3 DEF IInv, OneSessionPerPeer
<1> QED
  BY <1>3, <1>4, <1>5, <1>6, ChangeInv

LEMMA PassInv ==
  ASSUME IInv, tls_multi_process
  PROVE  IInv'
<1>1. PICK m : /\ Passed(m, error') /\ error' \in BOOLEAN /\ m.made <= MaxSessions
               /\ multi' = m.slot /\ made' = m.made /\ due' = FALSE
               /\ UNCHANGED <<single_session, n_sessions>>
  BY PassResult
<1>2. /\ multi' \in [Slot -> Session] /\ made' \in 0 .. MaxSessions
      /\ \A i \in Slot : SessionInv(multi'[i]) /\ multi'[i].session_id <= made'
  BY <1>1 DEF Passed, Core
<1>3. multi' \in [Slot -> TlsSession]
  <2>1. \A i \in Slot : multi'[i] \in TlsSession
    BY <1>2 DEF Session, TlsSession
  <2> QED
    BY <1>2, <2>1
<1>4. TypeOK'
  <2>2. /\ multi'[TM_ACTIVE].primary.state \notin {"S_UNDEF", "S_ERROR"}
        /\ multi'[TM_UNTRUSTED].primary.state # "S_ERROR"
        /\ multi'[TM_UNTRUSTED].primary.state = "S_UNDEF" => single_session'
        /\ multi'[TM_LAME_DUCK].primary.state \in {"S_UNDEF", "S_ERROR"}
    BY <1>1 DEF Passed, Places
  <2>3. /\ made' \in 0 .. MaxSessions /\ single_session' \in BOOLEAN
        /\ n_sessions' \in BOOLEAN /\ due' \in BOOLEAN /\ error' \in BOOLEAN
    BY <1>1, <1>2 DEF IInv, TypeOK
  <2> QED
    BY <1>3, <2>2, <2>3, PlacesAreTyped DEF TypeOK
<1>5. OneSessionPerPeer'
  BY <1>1 DEF Passed, Core, Distinct, OneSessionPerPeer
<1>6. /\ \A i \in Slot : multi'[i].primary.in = "nothing"
      /\ ~ DecryptKeyEnabled(multi'[TM_UNTRUSTED].primary)
      /\ multi'[TM_UNTRUSTED].lame.state = "S_UNDEF"
  BY <1>1 DEF Passed, Places
<1> QED
  BY <1>2, <1>4, <1>5, <1>6 DEF IInv, SessionInv, Trusted, DecryptKeyEnabled

LEMMA StepInv == IInv /\ [Next]_vars => IInv'
<1> SUFFICES ASSUME IInv, [Next]_vars
             PROVE  IInv'
  OBVIOUS
<1>1. CASE tls_pre_decrypt
  BY <1>1, NewLinkInv, ComesInv DEF tls_pre_decrypt
<1>2. CASE tls_multi_process
  BY <1>2, PassInv
<1>3. ASSUME NEW i \in Slot, Expire(i) PROVE IInv'
  BY <1>3, ExpireInv
<1>4. CASE schedule_exit
  BY <1>4 DEF schedule_exit, IInv, TypeOK, SessionInv, Trusted, DecryptKeyEnabled, OneSessionPerPeer
<1>5. CASE UNCHANGED vars
  BY <1>5 DEF vars, IInv, TypeOK, SessionInv, Trusted, DecryptKeyEnabled, OneSessionPerPeer
<1> QED
  BY <1>1, <1>2, <1>3, <1>4, <1>5 DEF Next

(* The inductive invariant holds of every behaviour, for any number of peers,  *)
(* sessions and renegotiations: after each pass and packet every slot holds    *)
(* what tls_process and move_session rely on.                                  *)
THEOREM InvariantHolds == Spec => []IInv
<1> QED
  BY InitInv, StepInv, PTL DEF Spec

(* A key that can decrypt was negotiated with the peer its session is linked   *)
(* to, whatever hard resets relink TM_UNTRUSTED and wherever sessions move.    *)
THEOREM PeersAreTrusted == Spec => []TrustedPeer
<1>1. IInv => TrustedPeer
  BY DEF IInv, SessionInv, TrustedPeer
<1> QED
  BY <1>1, InvariantHolds, PTL

(* No session of another peer is linked to two slots.                          *)
THEOREM PeersHaveOneSession == Spec => []OneSessionPerPeer
<1>1. IInv => OneSessionPerPeer
  BY DEF IInv
<1> QED
  BY <1>1, InvariantHolds, PTL

-----------------------------------------------------------------------------
(* What no step does. *)
Carries(f) ==
  \E k \in {f[TM_ACTIVE].primary, f[TM_ACTIVE].lame, f[TM_LAME_DUCK].lame} :
    k.state = "S_ACTIVE"

LEMMA KeysOfScan ==
  /\ (\E k \in Usable : ~ k.expired) <=> Live(multi)
  /\ Usable' = {} <=> ~ Carries(multi')
  /\ OnlyPrimary(multi) => \A k \in Usable : k.expired \/ k = multi[TM_ACTIVE].primary
BY DEF Usable, KeyScan, Live, Carries, OnlyPrimary

(* A soft reset before the newest key is active. *)
Overtaken == ~ due /\ due' /\ multi[TM_ACTIVE].primary.state = "S_GOT_KEY"

(* Packets and timers leave the active session and the keys that encrypt.  *)
Kept ==
  /\ multi'[TM_ACTIVE].session_id = multi[TM_ACTIVE].session_id
  /\ Carries(multi) => Carries(multi') \/ Overtaken

LEMMA LinkKeeps ==
  ASSUME IInv, NEW a \in Remote, NewLink(a)
  PROVE  Kept
<1>1. /\ multi \in [Slot -> TlsSession] /\ InitialSlot \in {TM_ACTIVE, TM_UNTRUSTED}
      /\ multi' = [multi EXCEPT ![InitialSlot].session_id_remote = a]
  BY DEF IInv, TypeOK, NewLink, InitialSlot
<1>2. \A j \in Slot : /\ multi'[j].session_id = multi[j].session_id
                     /\ multi'[j].primary = multi[j].primary
                     /\ multi'[j].lame = multi[j].lame
  BY <1>1 DEF TlsSession
<1> QED
  BY <1>2 DEF Kept, Carries

LEMMA RecordKeeps ==
  ASSUME IInv, NEW i \in Slot, RecordComes(i)
  PROVE  Kept
<1>1. PICK op \in {"HELLO", "KEY", "ACK"} : multi' = [multi EXCEPT ![i].primary.in = op]
  BY DEF RecordComes
<1>2. \A j \in Slot : multi[j] \in TlsSession /\ multi[j].primary \in Key
  BY DEF IInv, TypeOK, TlsSession
<1>3. \A j \in Slot : /\ multi'[j].session_id = multi[j].session_id
                     /\ multi'[j].primary.state = multi[j].primary.state
                     /\ multi'[j].lame = multi[j].lame
  BY <1>1, <1>2 DEF IInv, TypeOK, TlsSession, Key
<1> QED
  BY <1>3 DEF Kept, Carries

LEMMA ResetKeeps ==
  ASSUME IInv, NEW i \in {TM_ACTIVE, TM_UNTRUSTED}, SoftResetComes(i), ~ due, due' = TRUE
  PROVE  Kept
<1> DEFINE s == multi[i]
           r == IF DecryptKeyEnabled(s.primary) THEN key_state_soft_reset(s) ELSE s
<1>1. PICK reset \in BOOLEAN : multi' = [multi EXCEPT ![i] = [r EXCEPT !.primary.reset = reset]]
  BY DEF SoftResetComes, DecryptKeyEnabled
<1>2. /\ multi \in [Slot -> TlsSession] /\ s \in TlsSession /\ s \in Session
      /\ \/ DecryptKeyEnabled(s.primary) /\ s.primary.n < MaxKeys
         \/ s.primary.state = "S_START"
  BY DEF IInv, TypeOK, SoftResetComes, TlsSession, Session
<1>3. /\ r \in Session /\ r.session_id = s.session_id
      /\ DecryptKeyEnabled(s.primary) => r.lame = s.primary
      /\ s.primary.state = "S_START" => r = s
  BY <1>2, SoftReset DEF DecryptKeyEnabled
<1> HIDE DEF r
<1>4. /\ multi'[i].session_id = s.session_id /\ multi'[i].lame = r.lame
      /\ multi'[i].primary.state = r.primary.state
      /\ \A j \in Slot : j # i => multi'[j] = multi[j]
  BY <1>1, <1>2, <1>3 DEF Session, Key
<1>5. CASE i = TM_ACTIVE
  <2>1. CASE s.primary.state = "S_START"
    BY <1>3, <1>4, <1>5, <2>1 DEF Kept, Carries
  <2>2. CASE s.primary.state = "S_ACTIVE"
    BY <1>3, <1>4, <1>5, <2>2 DEF Kept, Carries, DecryptKeyEnabled
  <2>3. CASE s.primary.state = "S_GOT_KEY"
    BY <1>4, <1>5, <2>3 DEF Kept, Overtaken
  <2> QED
    BY <1>2, <2>1, <2>2, <2>3 DEF DecryptKeyEnabled
<1>6. CASE i = TM_UNTRUSTED
  BY <1>4, <1>6 DEF Kept, Carries
<1> QED
  BY <1>5, <1>6

LEMMA ExpireKeeps ==
  ASSUME IInv, NEW i \in Slot, Expire(i)
  PROVE  Kept
<1>1. /\ \A j \in Slot : multi[j] \in TlsSession /\ multi[j].lame \in Key
      /\ multi \in [Slot -> TlsSession]
      /\ multi' = [multi EXCEPT ![i].lame.expired = TRUE]
  BY DEF IInv, TypeOK, TlsSession, Expire
<1>2. \A j \in Slot : /\ multi'[j].session_id = multi[j].session_id
                     /\ multi'[j].lame.state = multi[j].lame.state
                     /\ multi'[j].primary = multi[j].primary
  BY <1>1 DEF TlsSession, Key
<1> QED
  BY <1>2 DEF Kept, Carries

LEMMA OthersKeep ==
  ASSUME IInv, [Next]_vars, ~ tls_multi_process
  PROVE  Kept /\ ~ (due /\ ~ due')
<1>1. CASE tls_pre_decrypt
  <2>1. PICK a \in Remote : NewLink(a) \/ Comes(a)
    BY <1>1 DEF tls_pre_decrypt
  <2>2. Comes(a) => \E i \in {TM_ACTIVE, TM_UNTRUSTED} : SoftResetComes(i) \/ RecordComes(i)
    BY DEF Comes, Match
  <2>3. ~ due /\ due' = TRUE
    BY <1>1 DEF tls_pre_decrypt
  <2>4. Kept
    BY <2>1, <2>2, <2>3, LinkKeeps, RecordKeeps, ResetKeeps
  <2> QED
    BY <2>3, <2>4
<1>2. ASSUME NEW i \in Slot, Expire(i) PROVE Kept /\ ~ (due /\ ~ due')
  BY <1>2, ExpireKeeps DEF Expire
<1>3. CASE schedule_exit
  BY <1>3 DEF schedule_exit, Kept, Carries
<1>4. CASE UNCHANGED vars
  BY <1>4 DEF vars, Kept, Carries
<1> QED
  BY <1>1, <1>2, <1>3, <1>4 DEF Next

LEMMA PassPromotes ==
  ASSUME IInv, tls_multi_process
  PROVE  /\ \A k \in KeyScan' : ~ k.expired
         /\ Replaced(multi', error')
         /\ Live(multi) /\ ~ single_session =>
              Carries(multi') \/ Promoted \/ (error' /\ OnlyPrimary(multi))
<1>1. PICK m : Passed(m, error') /\ multi' = m.slot
  BY PassResult
<1>2. SessionInv(multi'[TM_ACTIVE])
  BY <1>1 DEF Passed, Core
<1>3. \A k \in KeyScan' : ~ k.expired
  BY <1>1, <1>2 DEF Passed, KeyScan, SessionInv
<1>4. Live(multi') => Carries(multi')
  BY DEF Live, Carries
<1>5. Replaced(multi', error')
  BY <1>1 DEF Passed
<1>6. Live(multi) /\ ~ single_session =>
        Carries(multi') \/ Promoted \/ (error' /\ OnlyPrimary(multi))
  BY <1>1, <1>4 DEF Passed, Promoted
<1> QED
  BY <1>3, <1>5, <1>6

(* Whatever strangers send, the active session gives way only after an error   *)
(* of its own or to one whose handshake is complete.                           *)
THEOREM StrangersCannotReplace == Spec => StrangersAreHarmless
<1>1. ASSUME IInv, [Next]_vars, multi'[TM_ACTIVE].session_id # multi[TM_ACTIVE].session_id
      PROVE  \/ Promoted /\ DecryptKeyEnabled(multi'[TM_ACTIVE].primary)
             \/ ~ Promoted /\ error'
  BY <1>1, OthersKeep, PassPromotes DEF Kept, Replaced, Promoted
<1> QED
  BY <1>1, InvariantHolds, PTL DEF Spec, StrangersAreHarmless

(* No expired key outlives the pass that follows a packet.                     *)
THEOREM ExpiredKeysDie == Spec => ExpiredIsKilled
<1>1. ASSUME IInv, [Next]_vars, due, ~ due'
      PROVE  \A k \in KeyScan' : ~ k.expired
  BY <1>1, OthersKeep, PassPromotes
<1> QED
  BY <1>1, InvariantHolds, PTL DEF Spec, ExpiredIsKilled

(* The tunnel is left without a key to encrypt with only by an authenticated   *)
(* session, with --single-session, by age, by an error of the newest key where *)
(* it is the only one, or by a soft reset before the newest key is active.     *)
THEOREM KeysAreKept == Spec => KeyIsKept
<1>1. ASSUME IInv, [Next]_vars, ~ single_session, Usable' = {}, ~ Promoted
      PROVE  \/ \A k \in Usable : k.expired \/ (error' /\ k = multi[TM_ACTIVE].primary)
             \/ Overtaken
  <2>1. ~ Carries(multi')
    BY <1>1, KeysOfScan
  <2>2. CASE ~ Live(multi)
    BY <2>2, KeysOfScan
  <2>3. CASE Live(multi)
    <3>1. Carries(multi)
      BY <2>3 DEF Live, Carries
    <3>2. CASE tls_multi_process
      <4>1. error' /\ OnlyPrimary(multi)
        BY <1>1, <2>1, <2>3, <3>2, PassPromotes
      <4> QED
        BY <4>1, KeysOfScan
    <3>3. CASE ~ tls_multi_process
      BY <1>1, <2>1, <3>1, <3>3, OthersKeep DEF Kept
    <3> QED
      BY <3>2, <3>3
  <2> QED
    BY <2>2, <2>3
<1> QED
  BY <1>1, InvariantHolds, PTL DEF Spec, KeyIsKept, Overtaken
=============================================================================
