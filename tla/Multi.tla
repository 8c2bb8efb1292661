-------------------------------- MODULE Multi --------------------------------
(***************************************************************************)
(* A server's clients (multi.c), over UDP and a routed tun device: their   *)
(* instances, the pool of addresses (pool.c), the routes to addresses and  *)
(* networks with the cache of host routes (mroute.c), the queue of packets *)
(* between clients (mbuf.c), and the event loop that serves them (mudp.c). *)
(*                                                                         *)
(* The state is one record, m, after struct multi_context; a function of   *)
(* the code is a function of it.  A failed ASSERT is recorded in m.failed. *)
(***************************************************************************)
EXTENDS Integers, FiniteSets, SequencesExt, FiniteSetsExt

CONSTANTS
  Real, CN,        \* clients' real addresses, and common names
  Handle, Host,    \* addresses of the pool (0 .. n - 1), and others
  Net,             \* networks
  NetBits, Covers, \* [Net -> length of the prefix], [Net -> set of addresses]
  Iroutes,         \* [CN -> sequence of networks]: iroutes of its config file
  Push,            \* [CN -> set of what its connect script may push: a host,
                   \*  or NoAddr for nothing]
  MaxRoutes,       \* --max-routes-per-client
  Capacity,        \* --bcast-buffers
  MaxInstances,    \* bound: instances over time
  NoName, NoAddr, All  \* All: to every client

Addr == Handle \cup Host
Key == Addr \cup Net
Instance == 1 .. MaxInstances
Null == 0                            \* NULL, an instance
NoHandle == Cardinality(Handle)      \* vaddr_handle -1

ASSUME MultiAssumption ==
  /\ IsFiniteSet(Real) /\ IsFiniteSet(Handle) /\ IsFiniteSet(Host) /\ IsFiniteSet(Net)
  /\ Handle = 0 .. Cardinality(Handle) - 1 /\ Handle \cap Host = {} /\ Addr \cap Net = {}
  /\ NoAddr \notin Addr /\ All \notin Addr \cup {NoAddr}
  /\ NetBits \in [Net -> Nat] /\ Covers \in [Net -> SUBSET Addr]
  /\ Iroutes \in [CN -> Seq(Net)] /\ Push \in [CN -> SUBSET (Host \cup {NoAddr})]
  /\ NoName \notin CN /\ MaxRoutes \in Nat /\ Capacity \in Nat \ {0} /\ MaxInstances \in Nat

VARIABLE m      \* struct multi_context

(* Contents of an instance.  out: which of to_tun and to_link are not empty. *)
Clear == [allocated |-> FALSE, halt |-> FALSE, refcount |-> 0, route_count |-> 0,
          vaddr_handle |-> NoHandle, addr |-> NoAddr, cn |-> NoName,
          connection_established |-> FALSE, context_auth |-> FALSE, did_iroutes |-> FALSE,
          n_clients_delta |-> 0, out |-> {}]
NoRoute == [instance |-> Null, cache |-> FALSE, fresh |-> FALSE]

Init ==
  /\ m = [instance |-> [i \in Instance |-> Clear],
          created |-> 0,
          hash |-> [r \in Real |-> Null],              \* and iter
          vhash |-> [k \in Key |-> NoRoute],
          net_len_refcount |-> [b \in {NetBits[n] : n \in Net} |-> 0],
          pool |-> [h \in Handle |-> [in_use |-> FALSE, common_name |-> NoName,
                                      last_release |-> 0]],
          pending |-> Null,
          mbuf |-> <<>>,
          n_clients |-> 0,
          failed |-> {},
          home |-> [c \in CN |-> NoHandle]]   \* handle it had last, if its own still

TypeOK ==
  /\ \A i \in Instance :
       /\ m.instance[i].refcount \in 0 .. Cardinality(Key) + 1
       /\ m.instance[i].route_count \in 0 .. MaxRoutes
       /\ m.instance[i].vaddr_handle \in Handle \cup {NoHandle}
       /\ m.instance[i].out \subseteq {"TUN", "LINK"}
  /\ m.hash \in [Real -> Instance \cup {Null}]
  /\ m.vhash \in [Key -> [instance : Instance \cup {Null}, cache : BOOLEAN, fresh : BOOLEAN]]
  /\ m.pending \in Instance \cup {Null}
  /\ m.mbuf \in Seq(Instance \cup {Null}) /\ Len(m.mbuf) <= Capacity
  /\ m.n_clients \in 0 .. MaxInstances

Asserted(mm, holds, what) == IF holds THEN mm ELSE [mm EXCEPT !.failed = @ \cup {what}]

-----------------------------------------------------------------------------
(* Routes. *)
inc_refcount(mm, i) == [mm EXCEPT !.instance[i].refcount = @ + 1]
dec_refcount(mm, i) ==
  IF mm.instance[i].refcount <= 1
  THEN [mm EXCEPT !.instance[i].refcount = 0, !.instance[i].allocated = FALSE]
  ELSE [mm EXCEPT !.instance[i].refcount = @ - 1]

(* fresh: not older than the last change of iroutes, nor too old. *)
multi_route_defined(mm, r) ==
  r # NoRoute /\ ~ mm.instance[r.instance].halt /\ (r.cache => r.fresh)

(* Mutation: the instance keeps its reference to a route that is replaced. *)
multi_route_del_keeps(mm, key) == [mm EXCEPT !.vhash[key] = NoRoute]

multi_route_del(mm, key) ==
  LET i == mm.vhash[key].instance
  IN [dec_refcount([mm EXCEPT !.instance[i].route_count = @ - 1], i) EXCEPT !.vhash[key] = NoRoute]

multi_learn_addr(mm, i, key, cache) ==
  LET old == mm.vhash[key]
      counted == [inc_refcount(mm, i) EXCEPT !.instance[i].route_count = @ + 1]
      replaced == IF old # NoRoute THEN multi_route_del(counted, key) ELSE counted
  IN IF ~ (multi_route_defined(mm, old) /\ old.instance = i) /\ mm.instance[i].route_count < MaxRoutes
     THEN [replaced EXCEPT !.vhash[key] = [instance |-> i, cache |-> cache, fresh |-> TRUE]]
     ELSE mm

(* The networks an address is looked up in: of each length in use, the one
   that covers it, if its route is defined; the longest first. *)
Routed(mm, a) == {n \in Net : /\ a \in Covers[n] /\ mm.net_len_refcount[NetBits[n]] > 0
                              /\ multi_route_defined(mm, mm.vhash[n])}
Longest(ns) == CHOOSE n \in ns : \A o \in ns : NetBits[o] <= NetBits[n]

(* multi_get_instance_by_virtual_addr: instance, and m with what it caches. *)
Lookup(mm, a) ==
  IF multi_route_defined(mm, mm.vhash[a]) THEN [instance |-> mm.vhash[a].instance, m |-> mm]
  ELSE IF Routed(mm, a) = {} THEN [instance |-> Null, m |-> mm]
  ELSE LET i == mm.vhash[Longest(Routed(mm, a))].instance
       IN [instance |-> i, m |-> multi_learn_addr(mm, i, a, TRUE)]

(* ++cache_generation: no cached route is good any longer. *)
Invalidated(mm) == [mm EXCEPT !.vhash = [k \in Key |-> [mm.vhash[k] EXCEPT !.fresh = FALSE]]]

(* Mutation: cached routes stay as they are. *)
add_iroute_beside(mm, n) == [mm EXCEPT !.net_len_refcount[NetBits[n]] = @ + 1]

mroute_helper_add_iroute(mm, n) == [Invalidated(mm) EXCEPT !.net_len_refcount[NetBits[n]] = @ + 1]

OfLength(nets, b) == {k \in DOMAIN nets : NetBits[nets[k]] = b}
Number(nets, b) == Cardinality(OfLength(nets, b))

(* multi_del_iroutes: mroute_helper_del_iroute for each of nets. *)
multi_del_iroutes(mm, nets) ==
  IF nets = << >> THEN mm
  ELSE Asserted([Invalidated(mm) EXCEPT !.net_len_refcount =
                   [b \in DOMAIN @ |-> @[b] - Number(nets, b)]],
                \A b \in DOMAIN mm.net_len_refcount : Number(nets, b) <= mm.net_len_refcount[b],
                "net_len_refcount >= 0")

-----------------------------------------------------------------------------
(* The pool. *)
Latest(pool) == Max({pool[h].last_release : h \in Handle})

(* Mutation: the name is not looked for. *)
pool_find_any(pool, cn) ==
  LET free == {h \in Handle : ~ pool[h].in_use}
      earliest == {h \in free : \A g \in free : pool[h].last_release <= pool[g].last_release}
  IN IF free = {} THEN NoHandle ELSE Min(earliest)

(* The free entry the name had before, else the one released earliest. *)
ifconfig_pool_find(pool, cn) ==
  LET free == {h \in Handle : ~ pool[h].in_use}
      previous == {h \in free : pool[h].common_name = cn}
      earliest == {h \in free : \A g \in free : pool[h].last_release <= pool[g].last_release}
  IN IF free = {} THEN NoHandle ELSE IF previous # {} THEN Min(previous) ELSE Min(earliest)

ifconfig_pool_acquire(mm, i) ==
  LET cn == mm.instance[i].cn
      h == ifconfig_pool_find(mm.pool, cn)
  IN IF h = NoHandle THEN mm
     ELSE [mm EXCEPT !.instance[i].vaddr_handle = h, !.instance[i].addr = h,
                     !.pool[h] = [in_use |-> TRUE, common_name |-> cn, last_release |-> 0],
                     !.home = [c \in CN |-> IF c = cn THEN h
                                            ELSE IF @[c] = h THEN NoHandle ELSE @[c]]]

(* now, when the addresses of is may be released: the time of the last release,
   or later; with no address to release it does not matter. *)
Clock(mm, is) ==
  IF \E i \in is : mm.instance[i].vaddr_handle # NoHandle
  THEN {Latest(mm.pool), Latest(mm.pool) + 1} \ {0} ELSE {0}

ifconfig_pool_release(mm, i, hard, now) ==
  LET h == mm.instance[i].vaddr_handle
  IN IF h = NoHandle THEN mm
     ELSE [mm EXCEPT !.pool[h] = [in_use |-> FALSE,
                                  common_name |-> IF hard THEN NoName ELSE @.common_name,
                                  last_release |-> IF hard THEN 0 ELSE now],
                     !.home[mm.instance[i].cn] = IF hard THEN NoHandle ELSE @]

-----------------------------------------------------------------------------
(* The queue of packets to clients, named by their receivers. *)
mbuf_extract(queue) ==
  LET live == {k \in DOMAIN queue : queue[k] # Null}
  IN IF live = {} THEN [instance |-> Null, rest |-> <<>>]
     ELSE [instance |-> queue[Min(live)],
           rest |-> SubSeq(queue, Min(live) + 1, Len(queue))]

(* Mutation: no room is made. *)
mbuf_add_beyond(mm, i) == [mm EXCEPT !.mbuf = Append(@, i)]

mbuf_add_item(mm, i) ==
  LET full == Len(mm.mbuf) = Capacity
      room == IF full THEN mbuf_extract(mm.mbuf).rest ELSE mm.mbuf
  IN Asserted([mm EXCEPT !.mbuf = Append(room, i)],
              full => mbuf_extract(mm.mbuf).instance # Null, "mbuf_extract_item")

(* mbuf_dereference_instance. *)
Dereferenced(queue, i) == [k \in DOMAIN queue |-> IF queue[k] = i THEN Null ELSE queue[k]]

-----------------------------------------------------------------------------
(* Instances. *)
Live(mm) == {i \in Instance : mm.instance[i].allocated /\ ~ mm.instance[i].halt}

(* multi_create_instance: r's first packet has been let in. *)
Created(mm, r) ==
  LET i == mm.created + 1
  IN [mm EXCEPT !.created = i, !.hash[r] = i,
                !.instance[i] = [Clear EXCEPT !.allocated = TRUE, !.refcount = 1]]

(* Mutation: the iroutes of an instance that never got so far are deleted. *)
close_unconditionally(mm, i, now) ==
  LET halted == [mm EXCEPT !.instance[i].halt = TRUE,
                           !.n_clients = @ - mm.instance[i].n_clients_delta,
                           !.pending = IF @ = i THEN Null ELSE @,
                           !.hash = [r \in Real |-> IF @[r] = i THEN Null ELSE @[r]],
                           !.mbuf = Dereferenced(@, i)]
      iroutes == IF mm.instance[i].cn = NoName THEN <<>> ELSE Iroutes[mm.instance[i].cn]
      closed == dec_refcount(multi_del_iroutes(ifconfig_pool_release(halted, i, FALSE, now), iroutes), i)
      kept == closed.instance[i]
  IN [closed EXCEPT !.instance[i] = [Clear EXCEPT !.halt = TRUE, !.allocated = kept.allocated,
                                     !.refcount = kept.refcount, !.route_count = kept.route_count]]

(* Mutation: a closed instance stays pending. *)
close_pending(mm, i, now) ==
  LET halted == [mm EXCEPT !.instance[i].halt = TRUE,
                           !.n_clients = @ - mm.instance[i].n_clients_delta,
                           !.hash = [r \in Real |-> IF @[r] = i THEN Null ELSE @[r]],
                           !.mbuf = Dereferenced(@, i)]
      iroutes == IF mm.instance[i].did_iroutes THEN Iroutes[mm.instance[i].cn] ELSE <<>>
      closed == dec_refcount(multi_del_iroutes(ifconfig_pool_release(halted, i, FALSE, now), iroutes), i)
      kept == closed.instance[i]
  IN [closed EXCEPT !.instance[i] = [Clear EXCEPT !.halt = TRUE, !.allocated = kept.allocated,
                                     !.refcount = kept.refcount, !.route_count = kept.route_count]]

(* Of an instance that is only kept for the routes that still name it, the
   rest is cleared: nothing reads it. *)
multi_close_instance(mm, i, now) ==
  LET halted == [mm EXCEPT !.instance[i].halt = TRUE,
                           !.n_clients = @ - mm.instance[i].n_clients_delta,
                           !.pending = IF @ = i THEN Null ELSE @,
                           !.hash = [r \in Real |-> IF @[r] = i THEN Null ELSE @[r]],
                           !.mbuf = Dereferenced(@, i)]
      iroutes == IF mm.instance[i].did_iroutes THEN Iroutes[mm.instance[i].cn] ELSE <<>>
      closed == dec_refcount(multi_del_iroutes(ifconfig_pool_release(halted, i, FALSE, now), iroutes), i)
      kept == closed.instance[i]
  IN Asserted([closed EXCEPT !.instance[i] =
                [Clear EXCEPT !.halt = TRUE, !.allocated = kept.allocated,
                              !.refcount = kept.refcount, !.route_count = kept.route_count]],
              ~ mm.instance[i].halt, "!mi->halt")

(* Each of is in turn, in one iteration of the loop. *)
CloseAll(mm, is, now) ==
  LET closed[i \in 0 .. MaxInstances] ==
        IF i = 0 THEN mm
        ELSE IF i \in is THEN multi_close_instance(closed[i - 1], i, now) ELSE closed[i - 1]
  IN closed[MaxInstances]

(* What the connect script pushes is released from the pool, hard. *)
multi_select_virtual_addr(mm, i, push) ==
  IF push # NoAddr
  THEN [ifconfig_pool_release(mm, i, TRUE, 0)
          EXCEPT !.instance[i].vaddr_handle = NoHandle, !.instance[i].addr = push]
  ELSE IF mm.instance[i].vaddr_handle = NoHandle THEN ifconfig_pool_acquire(mm, i) ELSE mm

multi_add_iroutes(mm, i) ==
  LET nets == Iroutes[mm.instance[i].cn]
      added[k \in 0 .. Len(nets)] ==
        IF k = 0 THEN mm
        ELSE multi_learn_addr(mroute_helper_add_iroute(added[k - 1], nets[k]), i, nets[k], FALSE)
  IN [added[Len(nets)] EXCEPT !.instance[i].did_iroutes = TRUE]

(* Mutation: another client of the name stays. *)
delete_no_dup(mm, i, now) == mm

multi_delete_dup(mm, i, now) ==
  CloseAll(mm, {j \in Live(mm) \ {i} : mm.instance[j].cn = mm.instance[i].cn}, now)

(* multi_connection_established; succeeded: the connect script has. *)
Established(mm, i, push, succeeded, now) ==
  LET alone == [multi_delete_dup(mm, i, now) EXCEPT !.instance[i].vaddr_handle = NoHandle]
      selected == multi_select_virtual_addr(multi_select_virtual_addr(alone, i, NoAddr), i, push)
      addr == selected.instance[i].addr
      learned == IF addr # NoAddr THEN multi_learn_addr(selected, i, addr, FALSE) ELSE selected
      routed == [multi_add_iroutes(learned, i) EXCEPT !.instance[i].context_auth = TRUE]
  IN [(IF succeeded THEN routed ELSE selected)
        EXCEPT !.instance[i].connection_established = TRUE,
               !.n_clients = @ + 1, !.instance[i].n_clients_delta = 1]

-----------------------------------------------------------------------------
(* Packets. *)
Out(mm, i, put, sent) == [mm EXCEPT !.instance[i].out = (@ \ sent) \cup put]

multi_bcast(mm, sender) ==
  LET added[i \in 0 .. MaxInstances] ==
        IF i = 0 THEN mm
        ELSE IF i \in Live(mm) \ {sender} THEN mbuf_add_item(added[i - 1], i) ELSE added[i - 1]
  IN added[MaxInstances]

(* Client i's packet for address dest, for none the server knows or for all. *)
Forwarded(mm, i, dest) ==
  LET to == IF dest \in Addr THEN Lookup(mm, dest) ELSE [instance |-> Null, m |-> mm]
  IN IF dest = All THEN Out(multi_bcast(mm, i), i, {"TUN"}, {})
     ELSE IF to.instance = Null THEN Out(to.m, i, {"TUN"}, {})
     ELSE Out(mbuf_add_item(to.m, to.instance), i, {}, {"TUN"})

-----------------------------------------------------------------------------
(* The event loop, which runs until an assertion fails. *)
Running == m.failed = {}
Pending == m.instance[m.pending].out

(* p2mp_iow_flags: nothing is read while there is anything to write. *)
Readable == Running /\ m.pending = Null /\ m.mbuf = <<>>

(* management_callback_kill_by_cn *)
Killed(c, now) == CloseAll(m, {i \in Live(m) : m.instance[i].cn = c}, now)

(* Management is served before the rest of what an iteration of the loop
   waited for; what it does to that is seen in TunWrite alone, the rest being
   the same as in the next iteration. *)
Kill(c) == Running /\ \E now \in Clock(m, Live(m)) : m' = Killed(c, now)

(* multi_process_post of instance i, which has been served: a signal closes
   it, or it waits for output, which may be made now; the connection of one
   with a name may be found established, and the connect script succeed or
   fail. *)
Post(mm, i) ==
  LET cn == mm.instance[i].cn
      Pend(x, made) == LET y == Out(x, i, made, {})
                       IN m' = [y EXCEPT !.pending = IF y.instance[i].out # {} THEN i ELSE Null]
  IN \/ \E now \in Clock(mm, {i}) : m' = multi_close_instance(mm, i, now)
     \/ \E made \in {{}, {"LINK"}} : Pend(mm, made)
     \/ /\ m.instance[i].cn # NoName /\ ~ mm.instance[i].connection_established
        /\ \E now \in Clock(mm, Live(mm)), made \in {{}, {"LINK"}} :
             \/ \E push \in Push[cn] : Pend(Established(mm, i, push, TRUE, now), made)
             \/ \E push \in Push[cn] \cup {NoAddr} :
                  Pend(Established(mm, i, push, FALSE, now), made)

(* multi_process_outgoing_link *)
SocketWrite ==
  \/ /\ Running /\ m.pending # Null /\ "LINK" \in Pending
     /\ Post(Out(m, m.pending, {}, {"LINK"}), m.pending)
  \/ /\ Running /\ m.pending = Null /\ m.mbuf # <<>>
     /\ LET head == mbuf_extract(m.mbuf)
            taken == [m EXCEPT !.mbuf = head.rest]
        IN IF head.instance = Null THEN m' = taken
           ELSE Post(Out(taken, head.instance, {}, {"LINK"}), head.instance)

(* multi_process_outgoing_tun, maybe after a client was killed. *)
TunWrite ==
  /\ Running /\ m.pending # Null /\ "TUN" \in Pending
  /\ \/ Post(Out(m, m.pending, {}, {"TUN"}), m.pending)
     \/ \E c \in CN, now \in Clock(m, Live(m)) :
          /\ Killed(c, now).pending = Null
          /\ m' = Asserted(Killed(c, now), FALSE, "mi")

(* multi_process_incoming_link of a packet from r, who may be new: one of the
   handshake, one that names the client, or one to forward. *)
SocketRead(r) ==
  /\ Readable
  /\ m.hash[r] = Null => m.created < MaxInstances
  /\ LET known == IF m.hash[r] # Null THEN m ELSE Created(m, r)
         i == known.hash[r]
         read == [known EXCEPT !.pending = i]
         none == Out(read, i, {}, {"TUN"})
     IN \/ Post(none, i)
        \/ /\ none.instance[i].cn = NoName
           /\ \E c \in CN : Post([none EXCEPT !.instance[i].cn = c], i)
        \/ /\ read.instance[i].context_auth
           /\ \E src \in Addr :
                LET from == Lookup(read, src)
                IN IF from.instance # i THEN Post(Out(from.m, i, {}, {"TUN"}), i)
                   ELSE \E dest \in Addr \cup {NoAddr, All} : Post(Forwarded(from.m, i, dest), i)

(* multi_process_incoming_tun of a packet to an address, or to all. *)
TunRead ==
  /\ Readable
  /\ \/ m' = multi_bcast(m, Null)
     \/ \E a \in Addr :
          LET to == Lookup(m, a)
          IN IF to.instance = Null THEN m' = to.m
             ELSE Post(Out(to.m, to.instance, {"LINK"}, {}), to.instance)

(* multi_process_timeout: earliest_wakeup is any client. *)
Timeout == Running /\ \E i \in Live(m) : Post(m, i)

(* multi_reap_range, once a second, finds route key undefined. *)
Reap(key) ==
  /\ Running /\ m.vhash[key] # NoRoute /\ ~ multi_route_defined(m, m.vhash[key])
  /\ m' = multi_route_del(m, key)

(* Time passes: a cached route has not been used for its time to live. *)
Age(key) ==
  /\ Running /\ m.vhash[key].cache /\ m.vhash[key].fresh
  /\ m' = [m EXCEPT !.vhash[key].fresh = FALSE]

Next ==
  \/ SocketWrite \/ TunWrite \/ TunRead \/ Timeout
  \/ \E c \in CN : Kill(c)
  \/ \E r \in Real : SocketRead(r)
  \/ \E k \in Key : Reap(k) \/ Age(k)

Spec == Init /\ [][Next]_m

-----------------------------------------------------------------------------
Routes(i) == {k \in Key : m.vhash[k].instance = i}

(* Every instance is freed with the last that names it and not before: its
   references are the routes to it and, until it is closed, itself.  The
   clients that are connected and the lengths of their iroutes are counted
   right, whichever way they came and went. *)
Accounted ==
  /\ \A i \in Instance :
       LET mi == m.instance[i]
       IN /\ mi.route_count = Cardinality(Routes(i))
          /\ mi.refcount = mi.route_count + (IF i \in Live(m) THEN 1 ELSE 0)
          /\ mi.allocated <=> mi.refcount > 0
  /\ m.n_clients = Cardinality({i \in Live(m) : m.instance[i].connection_established})
  /\ \A b \in DOMAIN m.net_len_refcount :
       m.net_len_refcount[b] =
         Cardinality(UNION {{i} \X OfLength(Iroutes[m.instance[i].cn], b) :
                            i \in {i \in Live(m) : m.instance[i].did_iroutes}})

(* What the loop serves next is a client that is not closed: nothing else is
   pending, queued or found by its real address. *)
NothingDangles ==
  /\ {m.pending} \cup ToSet(m.mbuf) \cup {m.hash[r] : r \in Real} \subseteq Live(m) \cup {Null}
  /\ \A i \in Live(m) : Cardinality({r \in Real : m.hash[r] = i}) = 1

(* An address of the pool is in use as long as the one client that has it,
   and what the server has for this client's address reaches it. *)
AddressIsOnes ==
  /\ \A h \in Handle :
       Cardinality({i \in Live(m) : m.instance[i].vaddr_handle = h})
         = (IF m.pool[h].in_use THEN 1 ELSE 0)
  /\ \A i \in Live(m) : m.instance[i].context_auth /\ m.instance[i].addr # NoAddr =>
       Lookup(m, m.instance[i].addr).instance = i

(* A cached host route goes where the iroutes would send it now. *)
CacheIsCurrent ==
  \A a \in Addr : m.vhash[a].cache /\ multi_route_defined(m, m.vhash[a]) =>
    Routed(m, a) # {} /\ m.vhash[a].instance = m.vhash[Longest(Routed(m, a))].instance

(* The assertions hold of closing a client once, of the room the queue makes
   and of the counts of network lengths. *)
AssertionsHold == m.failed \subseteq {"mi"}

(* The assertion of multi_process_outgoing_tun: when the tun device takes what
   a client has for it, there is a client that has. *)
TunHasSender == "mi" \notin m.failed

(* A client gets the address it had before, unless another had it since. *)
ReturnsHome ==
  [][\A i \in Instance :
       LET h == m'.instance[i].vaddr_handle
       IN h # NoHandle /\ m.instance[i].vaddr_handle = NoHandle =>
            m.home[m'.instance[i].cn] \in {h, NoHandle}]_m
=============================================================================
