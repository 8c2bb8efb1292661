----------------------------- MODULE Multi_proofs -----------------------------
(***************************************************************************)
(* Proofs about a server's clients: that instances, clients and lengths of *)
(* networks are counted right, that the loop serves no closed instance,    *)
(* that an address is one client's, that what is cached about routes is    *)
(* current, and that a client returns to the address it had.               *)
(*                                                                         *)
(* All follow from one invariant, Inv, of the record a function of the     *)
(* code takes and returns.  Functions are composed, so each has a lemma of *)
(* its own: that it keeps the part of the invariant it works on, and how   *)
(* it leaves the rest.  A client that is being connected has some of its   *)
(* iroutes, not yet all, which the j and n of RouteInv are for.            *)
(*                                                                         *)
(* Connecting and closing clients take most of the proof; an operation that*)
(* does neither is Beside them, and keeps the invariant and the addresses; *)
(* every step of the loop is one of the former among some of the latter.   *)
(***************************************************************************)
EXTENDS Multi, FiniteSetTheorems, SequenceTheorems, WellFoundedInduction, TLAPS

-----------------------------------------------------------------------------
Length == {NetBits[n] : n \in Net}
Client == [allocated : BOOLEAN, halt : BOOLEAN, refcount : Int, route_count : Int,
           vaddr_handle : Handle \cup {NoHandle}, addr : Addr \cup {NoAddr}, cn : CN \cup {NoName},
           connection_established : BOOLEAN, context_auth : BOOLEAN, did_iroutes : BOOLEAN,
           n_clients_delta : Int, out : SUBSET {"TUN", "LINK"}]
Route == [instance : Instance \cup {Null}, cache : BOOLEAN, fresh : BOOLEAN]
Entry == [in_use : BOOLEAN, common_name : CN \cup {NoName}, last_release : Nat]
Context == [instance : [Instance -> Client], created : 0 .. MaxInstances,
            hash : [Real -> Instance \cup {Null}], vhash : [Key -> Route],
            net_len_refcount : [Length -> Int], pool : [Handle -> Entry],
            pending : Instance \cup {Null}, mbuf : Seq(Instance \cup {Null}),
            n_clients : Int, failed : SUBSET {"mi"},
            home : [CN -> Handle \cup {NoHandle}]]

(* Routes and references.  Client j, if not Null, is being connected, and has
   the first n of its networks. *)
RoutesTo(mm, i) == {k \in Key : mm.vhash[k].instance = i}
Counted(mm) ==
  \A i \in Instance :
    LET mi == mm.instance[i]
    IN /\ mi.route_count = Cardinality(RoutesTo(mm, i))
       /\ mi.refcount = mi.route_count + (IF i \in Live(mm) THEN 1 ELSE 0)
       /\ mi.allocated <=> mi.refcount > 0
       /\ mi.route_count <= MaxRoutes

Beginning(nets, n) == {nets[k] : k \in 1 .. n}
Nets(mm, i, j, n) ==
  IF i = j THEN Beginning(Iroutes[mm.instance[i].cn], n)
  ELSE IF mm.instance[i].did_iroutes THEN ToSet(Iroutes[mm.instance[i].cn]) ELSE {}
RouteOk(mm, j, n) ==
  \A k \in Key :
    /\ mm.vhash[k].instance = Null => mm.vhash[k] = NoRoute
    /\ mm.vhash[k].instance \in Live(mm) =>
         mm.vhash[k].instance = j \/ mm.instance[mm.vhash[k].instance].context_auth
    /\ k \in Net => ~ mm.vhash[k].cache
    /\ k \in Net /\ mm.vhash[k].instance \in Live(mm) => k \in Nets(mm, mm.vhash[k].instance, j, n)

Holding(mm, b) ==
  UNION {{i} \X OfLength(Iroutes[mm.instance[i].cn], b) : i \in {i \in Live(mm) : mm.instance[i].did_iroutes}}
First(nets, n, b) == {k \in 1 .. n : NetBits[nets[k]] = b}
Named(mm) == \A i \in Live(mm) : mm.instance[i].did_iroutes => mm.instance[i].cn \in CN
LengthsOk(mm, j, n) ==
  /\ Named(mm)
  /\ \A b \in Length :
       mm.net_len_refcount[b] = Cardinality(Holding(mm, b))
         + (IF j = Null THEN 0 ELSE Cardinality(First(Iroutes[mm.instance[j].cn], n, b)))

CacheOk(mm) ==
  \A a \in Addr : mm.vhash[a].cache /\ multi_route_defined(mm, mm.vhash[a]) =>
    Routed(mm, a) # {} /\ mm.vhash[a].instance = mm.vhash[Longest(Routed(mm, a))].instance

RouteInv(mm, j, n) ==
  Counted(mm) /\ RouteOk(mm, j, n) /\ LengthsOk(mm, j, n) /\ CacheOk(mm)

(* Clients. *)
Found(mm) ==
  /\ mm.pending \in Live(mm) \cup {Null}
  /\ \A k \in DOMAIN mm.mbuf : mm.mbuf[k] \in Live(mm) \cup {Null}
  /\ Len(mm.mbuf) <= Capacity
  /\ \A r \in Real : mm.hash[r] \in Live(mm) \cup {Null}
  /\ \A i \in Live(mm) : \E r \in Real : mm.hash[r] = i
  /\ \A r, s \in Real : mm.hash[r] = mm.hash[s] /\ mm.hash[r] # Null => r = s

Connected(mm) == {i \in Live(mm) : mm.instance[i].connection_established}
Progress(mm) ==
  /\ mm.n_clients = Cardinality(Connected(mm))
  /\ \A i \in Instance : mm.created < i => mm.instance[i] = Clear
  /\ \A i \in Live(mm) :
       LET mi == mm.instance[i]
       IN /\ mi.n_clients_delta = (IF mi.connection_established THEN 1 ELSE 0)
          /\ mi.connection_established => mi.cn \in CN
          /\ ~ mi.connection_established =>
               /\ mi.vaddr_handle = NoHandle /\ mi.addr = NoAddr
               /\ ~ mi.context_auth
          /\ mi.did_iroutes = mi.context_auth
  /\ \A i, j \in Connected(mm) : mm.instance[i].cn = mm.instance[j].cn => i = j

Leases(mm) ==
  /\ \A i \in Live(mm) :
       LET mi == mm.instance[i]
       IN /\ mi.vaddr_handle # NoHandle =>
               /\ mm.pool[mi.vaddr_handle].in_use
               /\ mm.pool[mi.vaddr_handle].common_name = mi.cn
               /\ mi.addr = mi.vaddr_handle
          /\ mi.addr \in Handle => mi.vaddr_handle = mi.addr
          /\ mi.addr \in Host => mi.addr \in Push[mi.cn]
  /\ \A h \in Handle : mm.pool[h].in_use => \E i \in Live(mm) : mm.instance[i].vaddr_handle = h
  /\ \A h \in Handle : mm.pool[h].common_name \in CN => mm.home[mm.pool[h].common_name] = h
  /\ \A c \in CN : mm.home[c] # NoHandle => mm.pool[mm.home[c]].common_name = c

ClientInv(mm) == Found(mm) /\ Progress(mm) /\ Leases(mm)

(* Counted, LengthsOk and the first parts of Found and Progress are nearly what
   is to be shown; they need that only networks of clients that were given their
   iroutes lead to clients (RouteOk), that a name is one connected client's
   (Progress), and that the pool, the homes and the clients agree (Leases). *)
Inv(mm) == mm \in Context /\ RouteInv(mm, Null, 0) /\ ClientInv(mm) /\ mm.failed \subseteq {"mi"}

(* Each address pushed is one name's, and a client may have a route to it. *)
OwnPushes == MaxRoutes > 0 /\ \A c, d \in CN : c # d => Push[c] \cap Push[d] \subseteq {NoAddr}
Addressed(mm) ==
  \A i \in Live(mm) : mm.instance[i].context_auth /\ mm.instance[i].addr # NoAddr =>
    mm.vhash[mm.instance[i].addr].instance = i /\ ~ mm.vhash[mm.instance[i].addr].cache

-----------------------------------------------------------------------------
(* Numbers and finite sets. *)
LEMMA LeastNat ==
  ASSUME NEW T, T \subseteq Nat, T # {}
  PROVE  \E n \in T : \A k \in T : n <= k
<1>1. PICK n \in T : \A k \in T : ~ (<<k, n>> \in OpToRel(<, Nat))
  BY NatLessThanWellFounded, WFMin
<1>2. \A k \in T : ~ (k < n)
  BY <1>1 DEF OpToRel
<1>3. n \in Nat /\ (\A k \in T : k \in Nat)
  OBVIOUS
<1> QED
  BY <1>2, <1>3

LEMMA MinIs ==
  ASSUME NEW T, T \subseteq Nat, T # {}
  PROVE  Min(T) \in T /\ \A k \in T : Min(T) <= k
BY LeastNat DEF Min

LEMMA Finite ==
  /\ IsFiniteSet(Key) /\ IsFiniteSet(Addr) /\ IsFiniteSet(Instance)
  /\ Cardinality(Handle) \in Nat /\ NoHandle \in Nat /\ NoHandle \notin Handle /\ Handle \subseteq Nat
  /\ Null \notin Instance /\ Instance \subseteq Nat /\ Handle = 0 .. NoHandle - 1
<1>1. IsFiniteSet(Addr) /\ IsFiniteSet(Key)
  BY MultiAssumption, FS_Union DEF Addr, Key
<1>2. IsFiniteSet(Instance)
  BY MultiAssumption, FS_Interval DEF Instance
<1>3. Cardinality(Handle) \in Nat
  BY MultiAssumption, FS_CardinalityType
<1> QED
  BY <1>1, <1>2, <1>3, MultiAssumption DEF NoHandle, Null, Instance

-----------------------------------------------------------------------------
(* Instances and their references. *)
LEMMA ClearType == Clear \in Client /\ NoRoute \in Route
BY Finite DEF Clear, Client, NoRoute, Route

LEMMA SetClient ==
  ASSUME NEW mm \in Context, NEW i \in Instance, NEW c \in Client
  PROVE  LET nn == [mm EXCEPT !.instance[i] = c]
         IN /\ nn \in Context
            /\ nn.instance = [mm.instance EXCEPT ![i] = c]
            /\ nn.created = mm.created /\ nn.hash = mm.hash /\ nn.vhash = mm.vhash
            /\ nn.net_len_refcount = mm.net_len_refcount /\ nn.pool = mm.pool
            /\ nn.pending = mm.pending /\ nn.mbuf = mm.mbuf /\ nn.n_clients = mm.n_clients
            /\ nn.failed = mm.failed /\ nn.home = mm.home
BY DEF Context

LEMMA IncIs ==
  ASSUME NEW mm \in Context, NEW i \in Instance
  PROVE  inc_refcount(mm, i) = [mm EXCEPT !.instance[i] = [mm.instance[i] EXCEPT !.refcount = mm.instance[i].refcount + 1]]
BY DEF inc_refcount, Context, Client


(* Of networks, there is a longest. *)
LEMMA LongestIs ==
  ASSUME NEW ns \in SUBSET Net, ns # {}
  PROVE  Longest(ns) \in ns /\ \A o \in ns : NetBits[o] <= NetBits[Longest(ns)]
<1> DEFINE Has(T) == \E n \in T : \A o \in T : NetBits[o] <= NetBits[n]
           U == {T \in FiniteSubsetsOf(ns) : T # {} /\ ~ Has(T)}
<1>1. \A n \in ns : NetBits[n] \in Nat
  BY MultiAssumption
<1>2. U = {}
  <2> SUFFICES ASSUME U # {} PROVE FALSE
    OBVIOUS
  <2>1. U \subseteq FiniteSubsetsOf(ns)
    OBVIOUS
  <2>2. PICK T \in U : \A V \in U : ~ (<<V, T>> \in StrictSubsetOrdering(ns))
    <3> HIDE DEF U
    <3> QED
      BY <2>1, FS_StrictSubsetOrderingWellFounded, WFMin
  <2>3. T \subseteq ns /\ T # {} /\ IsFiniteSet(T) /\ ~ Has(T)
    BY DEF FiniteSubsetsOf
  <2>4. PICK x \in T : TRUE
    BY <2>3
  <2>5. T \ {x} \in FiniteSubsetsOf(ns) /\ <<T \ {x}, T>> \in StrictSubsetOrdering(ns)
    BY <2>3, FS_RemoveElement DEF FiniteSubsetsOf, StrictSubsetOrdering
  <2>6. T \ {x} = {} \/ Has(T \ {x})
    BY <2>2, <2>5
  <2>7. CASE T \ {x} = {}
    <3>1. \A o \in T : o = x
      BY <2>7
    <3>2. \A o \in T : NetBits[o] <= NetBits[x]
      BY <3>1, <2>3, <1>1
    <3> QED
      BY <3>2, <2>3
  <2>8. CASE Has(T \ {x})
    <3>1. PICK y \in T \ {x} : \A o \in T \ {x} : NetBits[o] <= NetBits[y]
      BY <2>8
    <3>2. NetBits[x] \in Nat /\ NetBits[y] \in Nat /\ \A o \in T : NetBits[o] \in Nat
      BY <2>3, <1>1
    <3>3. CASE NetBits[x] <= NetBits[y]
      <4>1. \A o \in T : NetBits[o] <= NetBits[y]
        BY <3>1, <3>3
      <4> QED
        BY <4>1, <2>3
    <3>4. CASE ~ (NetBits[x] <= NetBits[y])
      <4>1. \A o \in T : NetBits[o] <= NetBits[x]
        BY <3>1, <3>2, <3>4
      <4> QED
        BY <4>1, <2>3
    <3> QED
      BY <3>3, <3>4
  <2> QED
    BY <2>6, <2>7, <2>8
<1>3. ns \in FiniteSubsetsOf(ns)
  BY MultiAssumption, FS_Subset DEF FiniteSubsetsOf
<1>4. Has(ns)
  BY <1>2, <1>3
<1> QED
  BY <1>4 DEF Longest

-----------------------------------------------------------------------------
(* Routes.  What learning and deleting routes leaves as it is: all of a
   client but the counts of what refers to it. *)
SameClient(c, d) ==
  /\ d.halt = c.halt /\ d.vaddr_handle = c.vaddr_handle /\ d.addr = c.addr /\ d.cn = c.cn
  /\ d.connection_established = c.connection_established /\ d.context_auth = c.context_auth
  /\ d.did_iroutes = c.did_iroutes /\ d.n_clients_delta = c.n_clients_delta /\ d.out = c.out

SameClients(mm, nn) ==
  /\ nn \in Context
  /\ nn.created = mm.created /\ nn.hash = mm.hash /\ nn.pool = mm.pool /\ nn.pending = mm.pending
  /\ nn.mbuf = mm.mbuf /\ nn.n_clients = mm.n_clients /\ nn.failed = mm.failed /\ nn.home = mm.home
  /\ Live(nn) = Live(mm)
  /\ \A i \in Instance : /\ SameClient(mm.instance[i], nn.instance[i])
                         /\ mm.instance[i] = Clear => nn.instance[i] = Clear

(* Client j has d references more than routes. *)
CountedBut(mm, j, d) ==
  \A i \in Instance :
    LET mi == mm.instance[i]
    IN /\ mi.route_count = Cardinality(RoutesTo(mm, i)) + (IF i = j THEN d ELSE 0)
       /\ mi.refcount = mi.route_count + (IF i \in Live(mm) THEN 1 ELSE 0)
       /\ mi.allocated <=> mi.refcount > 0
       /\ mi.route_count <= MaxRoutes

LEMMA CountedButNone ==
  ASSUME NEW mm \in Context, NEW j
  PROVE  Counted(mm) <=> CountedBut(mm, j, 0)
<1>1. \A i \in Instance : Cardinality(RoutesTo(mm, i)) \in Nat
  BY Finite, FS_Subset, FS_CardinalityType DEF RoutesTo
<1>2. \A i \in Instance : Cardinality(RoutesTo(mm, i)) + (IF i = j THEN 0 ELSE 0) = Cardinality(RoutesTo(mm, i))
  BY <1>1
<1> QED
  BY <1>2, Zenon DEF Counted, CountedBut

LEMMA RoutesFinite ==
  ASSUME NEW mm, NEW i
  PROVE  /\ IsFiniteSet(RoutesTo(mm, i)) /\ Cardinality(RoutesTo(mm, i)) \in Nat
         /\ RoutesTo(mm, i) \subseteq Key /\ Cardinality(RoutesTo(mm, i)) <= Cardinality(Key)
BY Finite, FS_Subset, FS_CardinalityType DEF RoutesTo

LEMMA SameTransitive ==
  ASSUME NEW mm, NEW nn, NEW oo, SameClients(mm, nn), SameClients(nn, oo)
  PROVE  SameClients(mm, oo)
<1>1. \A i \in Instance : SameClient(mm.instance[i], oo.instance[i])
  BY DEF SameClients, SameClient
<1> QED
  BY <1>1 DEF SameClients

LEMMA SameReflexive ==
  ASSUME NEW mm \in Context
  PROVE  SameClients(mm, mm)
BY DEF SameClients, SameClient

(* Client c with a reference less, and with a route less. *)
Less(c) == IF c.refcount <= 1 THEN [c EXCEPT !.refcount = 0, !.allocated = FALSE]
           ELSE [c EXCEPT !.refcount = c.refcount - 1]
Unrouted(c) == [c EXCEPT !.route_count = c.route_count - 1]

LEMMA LessIs ==
  ASSUME NEW c \in Client
  PROVE  /\ Less(c) \in Client /\ SameClient(c, Less(c)) /\ Less(c).route_count = c.route_count
         /\ c.refcount <= 1 => Less(c).refcount = 0 /\ ~ Less(c).allocated
         /\ ~ (c.refcount <= 1) => Less(c).refcount = c.refcount - 1 /\ Less(c).allocated = c.allocated
<1>1. CASE c.refcount <= 1
  <2>1. Less(c) = [c EXCEPT !.refcount = 0, !.allocated = FALSE]
    BY <1>1 DEF Less
  <2> DEFINE b == [c EXCEPT !.refcount = 0]
  <2>2. b \in Client /\ SameClient(c, b) /\ b.route_count = c.route_count /\ b.refcount = 0
    BY DEF Client, SameClient
  <2>3. Less(c) = [b EXCEPT !.allocated = FALSE]
    BY <2>1 DEF Client
  <2> HIDE DEF b
  <2>4. LET d == [b EXCEPT !.allocated = FALSE]
        IN /\ d \in Client /\ SameClient(b, d) /\ d.route_count = b.route_count
           /\ d.refcount = b.refcount /\ ~ d.allocated
    BY <2>2 DEF Client, SameClient
  <2>5. /\ Less(c) \in Client /\ SameClient(b, Less(c)) /\ Less(c).route_count = b.route_count
        /\ Less(c).refcount = b.refcount /\ ~ Less(c).allocated
    BY <2>3, <2>4, Zenon
  <2> QED
    BY <1>1, <2>2, <2>5 DEF SameClient
<1>2. CASE ~ (c.refcount <= 1)
  <2>1. Less(c) = [c EXCEPT !.refcount = c.refcount - 1]
    BY <1>2 DEF Less
  <2> QED
    BY <1>2, <2>1 DEF Client, SameClient
<1> QED
  BY <1>1, <1>2

LEMMA UnroutedIs ==
  ASSUME NEW c \in Client
  PROVE  /\ Unrouted(c) \in Client /\ SameClient(c, Unrouted(c))
         /\ Unrouted(c).route_count = c.route_count - 1
         /\ Unrouted(c).refcount = c.refcount /\ Unrouted(c).allocated = c.allocated
BY DEF Client, Unrouted, SameClient

LEMMA DecIs ==
  ASSUME NEW mm \in Context, NEW i \in Instance
  PROVE  dec_refcount(mm, i) = [mm EXCEPT !.instance[i] = Less(mm.instance[i])]
BY DEF dec_refcount, Context, Client, Less

LEMMA DelIs ==
  ASSUME NEW mm \in Context, NEW key \in Key, NEW o \in Instance, mm.vhash[key].instance = o
  PROVE  multi_route_del(mm, key) =
           [mm EXCEPT !.instance = [mm.instance EXCEPT ![o] = Less(Unrouted(mm.instance[o]))],
                      !.vhash = [mm.vhash EXCEPT ![key] = NoRoute]]
<1> DEFINE e == Unrouted(mm.instance[o])
           aa == [mm EXCEPT !.instance[o] = e]
<1>1. mm.instance[o] \in Client
  BY DEF Context
<1>2. e \in Client /\ Less(e) \in Client
  BY <1>1, UnroutedIs, LessIs
<1>3. [mm EXCEPT !.instance[o].route_count = mm.instance[o].route_count - 1] = aa
  BY DEF Context, Client, Unrouted
<1> HIDE DEF e
<1>4. aa \in Context /\ aa.instance[o] = e
  BY <1>2 DEF Context
<1>5. dec_refcount(aa, o) = [aa EXCEPT !.instance[o] = Less(e)]
  <2>1. dec_refcount(aa, o) = [aa EXCEPT !.instance[o] = Less(aa.instance[o])]
    BY <1>4, DecIs, Zenon
  <2> QED
    BY <2>1, <1>4, Zenon
<1>6. [[aa EXCEPT !.instance[o] = Less(e)] EXCEPT !.vhash[key] = NoRoute]
        = [mm EXCEPT !.instance = [mm.instance EXCEPT ![o] = Less(e)],
                     !.vhash = [mm.vhash EXCEPT ![key] = NoRoute]]
  BY <1>2 DEF Context
<1>7. multi_route_del(mm, key) = [dec_refcount(aa, o) EXCEPT !.vhash[key] = NoRoute]
  BY <1>3, Zenon DEF multi_route_del
<1> QED
  BY <1>5, <1>6, <1>7 DEF e

LEMMA DelType ==
  ASSUME NEW mm \in Context, NEW key \in Key, NEW o \in Instance, mm.vhash[key].instance = o
  PROVE  LET nn == multi_route_del(mm, key)
         IN /\ nn \in Context
            /\ nn.instance = [mm.instance EXCEPT ![o] = Less(Unrouted(mm.instance[o]))]
            /\ nn.vhash = [mm.vhash EXCEPT ![key] = NoRoute]
            /\ nn.net_len_refcount = mm.net_len_refcount
            /\ nn.created = mm.created /\ nn.hash = mm.hash /\ nn.pool = mm.pool /\ nn.pending = mm.pending
            /\ nn.mbuf = mm.mbuf /\ nn.n_clients = mm.n_clients /\ nn.failed = mm.failed /\ nn.home = mm.home
<1> DEFINE l == Less(Unrouted(mm.instance[o]))
           f == [mm.instance EXCEPT ![o] = l]
           v == [mm.vhash EXCEPT ![key] = NoRoute]
<1>1. l \in Client
  BY UnroutedIs, LessIs DEF Context
<1>2. multi_route_del(mm, key) = [mm EXCEPT !.instance = f, !.vhash = v]
  BY DelIs
<1> HIDE DEF l
<1>3. f \in [Instance -> Client] /\ v \in [Key -> Route]
  BY <1>1, ClearType DEF Context
<1> HIDE DEF f, v
<1>4. LET nn == [mm EXCEPT !.instance = f, !.vhash = v]
      IN /\ nn \in Context
         /\ nn.instance = f /\ nn.vhash = v
         /\ nn.net_len_refcount = mm.net_len_refcount
         /\ nn.created = mm.created /\ nn.hash = mm.hash /\ nn.pool = mm.pool /\ nn.pending = mm.pending
         /\ nn.mbuf = mm.mbuf /\ nn.n_clients = mm.n_clients /\ nn.failed = mm.failed /\ nn.home = mm.home
  BY <1>3 DEF Context
<1> QED
  BY <1>2, <1>4, Zenon DEF f, v, l

(* Deleting a route keeps the counts. *)
LEMMA CountWithout ==
  ASSUME NEW mm \in Context, NEW nn \in Context, NEW key \in Key,
         nn.vhash = [mm.vhash EXCEPT ![key] = NoRoute]
  PROVE  \A i \in Instance :
           Cardinality(RoutesTo(nn, i)) =
             Cardinality(RoutesTo(mm, i)) - (IF mm.vhash[key].instance = i THEN 1 ELSE 0)
<1> SUFFICES ASSUME NEW i \in Instance
             PROVE  Cardinality(RoutesTo(nn, i)) =
                      Cardinality(RoutesTo(mm, i)) - (IF mm.vhash[key].instance = i THEN 1 ELSE 0)
  OBVIOUS
<1>1. NoRoute.instance # i
  BY Finite DEF NoRoute
<1>2. RoutesTo(nn, i) = RoutesTo(mm, i) \ {key}
  BY <1>1 DEF RoutesTo, Context
<1>3. key \in RoutesTo(mm, i) <=> mm.vhash[key].instance = i
  BY DEF RoutesTo
<1> QED
  <2>1. IsFiniteSet(RoutesTo(mm, i)) /\ Cardinality(RoutesTo(mm, i)) \in Nat
    BY RoutesFinite
  <2>2. CASE mm.vhash[key].instance = i
    BY <2>1, <2>2, <1>2, <1>3, FS_RemoveElement
  <2>3. CASE mm.vhash[key].instance # i
    <3>1. RoutesTo(nn, i) = RoutesTo(mm, i)
      BY <2>3, <1>2, <1>3
    <3> QED
      BY <3>1, <2>1, <2>3
  <2> QED
    BY <2>2, <2>3

LEMMA CountWith ==
  ASSUME NEW mm \in Context, NEW nn \in Context, NEW key \in Key, NEW r \in Route,
         \A k \in Key : nn.vhash[k] = (IF k = key THEN r ELSE mm.vhash[k]), mm.vhash[key].instance = Null
  PROVE  \A i \in Instance :
           Cardinality(RoutesTo(nn, i)) =
             Cardinality(RoutesTo(mm, i)) + (IF r.instance = i THEN 1 ELSE 0)
<1> SUFFICES ASSUME NEW i \in Instance
             PROVE  Cardinality(RoutesTo(nn, i)) =
                      Cardinality(RoutesTo(mm, i)) + (IF r.instance = i THEN 1 ELSE 0)
  OBVIOUS
<1>1. mm.vhash[key].instance # i
  BY Finite
<1>2. RoutesTo(nn, i) = IF r.instance = i THEN RoutesTo(mm, i) \cup {key} ELSE RoutesTo(mm, i)
  BY <1>1 DEF RoutesTo
<1>3. key \notin RoutesTo(mm, i)
  BY <1>1 DEF RoutesTo
<1> QED
  <2>1. IsFiniteSet(RoutesTo(mm, i)) /\ Cardinality(RoutesTo(mm, i)) \in Nat
    BY RoutesFinite
  <2>2. CASE r.instance = i
    BY <2>1, <2>2, <1>2, <1>3, FS_AddElement
  <2>3. CASE r.instance # i
    BY <2>1, <2>3, <1>2
  <2> QED
    BY <2>2, <2>3

LEMMA DelCounts ==
  ASSUME NEW mm \in Context, NEW key \in Key, NEW o \in Instance, mm.vhash[key].instance = o,
         NEW j, NEW d \in Nat, CountedBut(mm, j, d)
  PROVE  CountedBut(multi_route_del(mm, key), j, d) /\ SameClients(mm, multi_route_del(mm, key))
<1> DEFINE nn == multi_route_del(mm, key)
           c == mm.instance[o]
           e == Less(Unrouted(c))
<1>1. /\ nn \in Context /\ nn.vhash = [mm.vhash EXCEPT ![key] = NoRoute]
      /\ nn.instance = [mm.instance EXCEPT ![o] = e]
      /\ nn.created = mm.created /\ nn.hash = mm.hash /\ nn.pool = mm.pool /\ nn.pending = mm.pending
      /\ nn.mbuf = mm.mbuf /\ nn.n_clients = mm.n_clients /\ nn.failed = mm.failed /\ nn.home = mm.home
  BY DelType
<1> HIDE DEF nn
<1>2. c \in Client
  BY DEF Context
<1>3. \A i \in Instance :
         Cardinality(RoutesTo(nn, i)) = Cardinality(RoutesTo(mm, i)) - (IF o = i THEN 1 ELSE 0)
  BY <1>1, CountWithout
<1>4. /\ c.route_count = Cardinality(RoutesTo(mm, o)) + (IF o = j THEN d ELSE 0)
      /\ c.refcount = c.route_count + (IF o \in Live(mm) THEN 1 ELSE 0)
      /\ c.allocated <=> c.refcount > 0
      /\ c.route_count <= MaxRoutes
      /\ Cardinality(RoutesTo(mm, o)) \in Nat /\ Cardinality(RoutesTo(mm, o)) >= 1
  <2>1. Cardinality(RoutesTo(nn, o)) \in Nat /\ Cardinality(RoutesTo(mm, o)) \in Nat
    BY RoutesFinite
  <2>2. Cardinality(RoutesTo(nn, o)) = Cardinality(RoutesTo(mm, o)) - 1
    BY <1>3
  <2> QED
    BY <2>1, <2>2 DEF CountedBut
<1>5. /\ e \in Client /\ SameClient(c, e) /\ e.route_count = c.route_count - 1
      /\ c.refcount <= 1 => e.refcount = 0 /\ ~ e.allocated
      /\ ~ (c.refcount <= 1) => e.refcount = c.refcount - 1 /\ e.allocated = c.allocated
  <2>1. /\ Unrouted(c) \in Client /\ SameClient(c, Unrouted(c)) /\ Unrouted(c).route_count = c.route_count - 1
        /\ Unrouted(c).refcount = c.refcount /\ Unrouted(c).allocated = c.allocated
    BY <1>2, UnroutedIs
  <2> QED
    BY <2>1, LessIs DEF SameClient
<1>6. e.refcount = c.refcount - 1 /\ (e.allocated <=> e.refcount > 0)
  BY <1>2, <1>4, <1>5 DEF Client
<1> HIDE DEF e
<1>7. o \in Live(mm) <=> (e.allocated /\ ~ e.halt)
  BY <1>2, <1>4, <1>5, <1>6 DEF Live, SameClient, Client
<1>8. Live(nn) = Live(mm)
  BY <1>1, <1>7 DEF Live, Context
<1>9. c # Clear
  BY <1>2, <1>4 DEF Clear
<1>10. SameClients(mm, nn)
  <2>1. \A i \in Instance : SameClient(mm.instance[i], nn.instance[i])
    BY <1>1, <1>5 DEF Context, SameClient
  <2>2. \A i \in Instance : mm.instance[i] = Clear => nn.instance[i] = Clear
    BY <1>1, <1>9 DEF Context
  <2> QED
    BY <1>1, <1>8, <2>1, <2>2 DEF SameClients
<1>11. CountedBut(nn, j, d)
  <2> SUFFICES ASSUME NEW i \in Instance
               PROVE  /\ nn.instance[i].route_count = Cardinality(RoutesTo(nn, i)) + (IF i = j THEN d ELSE 0)
                      /\ nn.instance[i].refcount = nn.instance[i].route_count + (IF i \in Live(nn) THEN 1 ELSE 0)
                      /\ nn.instance[i].allocated <=> nn.instance[i].refcount > 0
                      /\ nn.instance[i].route_count <= MaxRoutes
    BY DEF CountedBut
  <2>1. CASE i = o
    BY <2>1, <1>1, <1>3, <1>4, <1>5, <1>6, <1>8, MultiAssumption DEF Context
  <2>2. CASE i # o
    <3>1. nn.instance[i] = mm.instance[i] /\ Cardinality(RoutesTo(nn, i)) = Cardinality(RoutesTo(mm, i))
      BY <2>2, <1>1, <1>3, RoutesFinite DEF Context
    <3> QED
      BY <3>1, <1>8 DEF CountedBut
  <2> QED
    BY <2>1, <2>2
<1> QED
  BY <1>10, <1>11 DEF nn

(* Learning a route. *)
More(c) == [c EXCEPT !.refcount = c.refcount + 1, !.route_count = c.route_count + 1]
Leading(i, cache) == [instance |-> i, cache |-> cache, fresh |-> TRUE]
Learns(mm, i, key) ==
  /\ ~ (multi_route_defined(mm, mm.vhash[key]) /\ mm.vhash[key].instance = i)
  /\ mm.instance[i].route_count < MaxRoutes
NoneIsNull(mm) == \A k \in Key : mm.vhash[k].instance = Null => mm.vhash[k] = NoRoute

LEMMA MoreIs ==
  ASSUME NEW c \in Client
  PROVE  /\ More(c) \in Client /\ SameClient(c, More(c))
         /\ More(c).route_count = c.route_count + 1 /\ More(c).refcount = c.refcount + 1
         /\ More(c).allocated = c.allocated
<1> DEFINE d == [c EXCEPT !.refcount = c.refcount + 1]
<1>1. d \in Client /\ SameClient(c, d) /\ d.refcount = c.refcount + 1
      /\ d.route_count = c.route_count /\ d.allocated = c.allocated
  BY DEF Client, SameClient
<1>2. More(c) = [d EXCEPT !.route_count = d.route_count + 1]
  BY DEF Client, More
<1> HIDE DEF d
<1>3. More(c) \in Client /\ SameClient(d, More(c)) /\ More(c).refcount = d.refcount
      /\ More(c).route_count = d.route_count + 1 /\ More(c).allocated = d.allocated
  BY <1>1, <1>2 DEF Client, SameClient
<1> QED
  BY <1>1, <1>3 DEF SameClient

LEMMA LiveIs ==
  ASSUME NEW mm \in Context, NEW i \in Live(mm)
  PROVE  i \in Instance /\ mm.instance[i] \in Client /\ mm.instance[i].allocated /\ ~ mm.instance[i].halt
         /\ mm.instance[i] # Clear
BY DEF Live, Context, Clear

LEMMA SetInstances ==
  ASSUME NEW mm \in Context, NEW f \in [Instance -> Client], NEW nn, nn = [mm EXCEPT !.instance = f]
  PROVE  /\ nn \in Context
         /\ nn.instance = f
         /\ nn.vhash = mm.vhash /\ nn.net_len_refcount = mm.net_len_refcount
         /\ nn.created = mm.created /\ nn.hash = mm.hash /\ nn.pool = mm.pool /\ nn.pending = mm.pending
         /\ nn.mbuf = mm.mbuf /\ nn.n_clients = mm.n_clients /\ nn.failed = mm.failed /\ nn.home = mm.home
BY DEF Context

LEMMA SetRoutes ==
  ASSUME NEW mm \in Context, NEW v \in [Key -> Route], NEW nn, nn = [mm EXCEPT !.vhash = v]
  PROVE  /\ nn \in Context
         /\ nn.instance = mm.instance
         /\ nn.vhash = v /\ nn.net_len_refcount = mm.net_len_refcount
         /\ nn.created = mm.created /\ nn.hash = mm.hash /\ nn.pool = mm.pool /\ nn.pending = mm.pending
         /\ nn.mbuf = mm.mbuf /\ nn.n_clients = mm.n_clients /\ nn.failed = mm.failed /\ nn.home = mm.home
BY DEF Context

LEMMA MoreCounts ==
  ASSUME NEW mm \in Context, NEW i \in Live(mm), Counted(mm), mm.instance[i].route_count < MaxRoutes,
         NEW nn, nn = [mm EXCEPT !.instance = [mm.instance EXCEPT ![i] = More(mm.instance[i])]]
  PROVE  /\ SameClients(mm, nn) /\ CountedBut(nn, i, 1)
         /\ nn.vhash = mm.vhash /\ nn.net_len_refcount = mm.net_len_refcount
<1> DEFINE c == mm.instance[i]
           e == More(c)
           f == [mm.instance EXCEPT ![i] = e]
<1>1. i \in Instance /\ c \in Client /\ c.allocated /\ ~ c.halt /\ c # Clear
  BY LiveIs
<1>2. e \in Client /\ SameClient(c, e) /\ e.route_count = c.route_count + 1
      /\ e.refcount = c.refcount + 1 /\ e.allocated = c.allocated
  BY <1>1, MoreIs
<1>3. nn = [mm EXCEPT !.instance = f]
  OBVIOUS
<1> HIDE DEF e
<1>4. f \in [Instance -> Client]
  BY <1>1, <1>2 DEF Context
<1> HIDE DEF f
<1>5. /\ nn \in Context /\ nn.instance = f /\ nn.vhash = mm.vhash /\ nn.net_len_refcount = mm.net_len_refcount
      /\ nn.created = mm.created /\ nn.hash = mm.hash /\ nn.pool = mm.pool /\ nn.pending = mm.pending
      /\ nn.mbuf = mm.mbuf /\ nn.n_clients = mm.n_clients /\ nn.failed = mm.failed /\ nn.home = mm.home
  BY <1>3, <1>4 DEF Context
<1>6. \A x \in Instance : nn.instance[x] = IF x = i THEN e ELSE mm.instance[x]
  BY <1>1, <1>5 DEF f, Context
<1>7. Live(nn) = Live(mm)
  BY <1>1, <1>2, <1>6 DEF Live, SameClient
<1>8. SameClients(mm, nn)
  <2>1. \A x \in Instance : SameClient(mm.instance[x], nn.instance[x])
    BY <1>2, <1>6 DEF SameClient
  <2>2. \A x \in Instance : mm.instance[x] = Clear => nn.instance[x] = Clear
    BY <1>1, <1>6
  <2> QED
    BY <1>5, <1>7, <2>1, <2>2 DEF SameClients
<1>9. CountedBut(nn, i, 1)
  <2> SUFFICES ASSUME NEW x \in Instance
               PROVE  /\ nn.instance[x].route_count = Cardinality(RoutesTo(nn, x)) + (IF x = i THEN 1 ELSE 0)
                      /\ nn.instance[x].refcount = nn.instance[x].route_count + (IF x \in Live(nn) THEN 1 ELSE 0)
                      /\ nn.instance[x].allocated <=> nn.instance[x].refcount > 0
                      /\ nn.instance[x].route_count <= MaxRoutes
    BY DEF CountedBut
  <2>1. RoutesTo(nn, x) = RoutesTo(mm, x) /\ Cardinality(RoutesTo(mm, x)) \in Nat
    BY <1>5, RoutesFinite DEF RoutesTo
  <2>2. mm.instance[x] \in Client
    BY DEF Context
  <2>3. /\ mm.instance[x].route_count = Cardinality(RoutesTo(mm, x))
        /\ mm.instance[x].refcount = mm.instance[x].route_count + (IF x \in Live(mm) THEN 1 ELSE 0)
        /\ mm.instance[x].allocated <=> mm.instance[x].refcount > 0
        /\ mm.instance[x].route_count <= MaxRoutes
    BY DEF Counted
  <2>4. CASE x = i
    <3>1. nn.instance[x] = e /\ x \in Live(nn) /\ x \in Live(mm)
      BY <2>4, <1>6, <1>7
    <3>2. c.route_count \in Int /\ c.refcount \in Int /\ e.route_count = c.route_count + 1
          /\ e.refcount = c.refcount + 1 /\ (e.allocated <=> c.allocated)
      BY <1>1, <1>2 DEF Client
    <3>3. /\ c.route_count = Cardinality(RoutesTo(mm, x)) /\ c.refcount = c.route_count + 1
          /\ c.allocated /\ c.route_count < MaxRoutes
      BY <2>3, <2>4, <3>1, <1>1
    <3> HIDE DEF c
    <3>4. /\ e.route_count = Cardinality(RoutesTo(nn, x)) + 1
          /\ e.refcount = e.route_count + 1 /\ e.allocated /\ e.refcount > 0
          /\ e.route_count <= MaxRoutes
      BY <2>1, <3>2, <3>3, MultiAssumption
    <3> QED
      BY <3>1, <3>4, <2>4
  <2>5. CASE x # i
    BY <2>5, <2>1, <2>2, <2>3, <1>6, <1>7 DEF Client
  <2> QED
    BY <2>4, <2>5
<1> QED
  BY <1>5, <1>8, <1>9

SetRoute(mm, key, r) == [mm EXCEPT !.vhash[key] = r]

LEMMA WithRoute ==
  ASSUME NEW mm \in Context, NEW i \in Live(mm), NEW key \in Key, NEW cache \in BOOLEAN,
         CountedBut(mm, i, 1), mm.vhash[key].instance = Null,
         NEW nn, nn = SetRoute(mm, key, Leading(i, cache))
  PROVE  /\ SameClients(mm, nn) /\ Counted(nn)
         /\ nn.vhash = [mm.vhash EXCEPT ![key] = Leading(i, cache)]
         /\ nn.net_len_refcount = mm.net_len_refcount
<1> DEFINE v == [mm.vhash EXCEPT ![key] = Leading(i, cache)]
<1>1. i \in Instance /\ Leading(i, cache) \in Route /\ Leading(i, cache).instance = i
  BY LiveIs DEF Leading, Route
<1>2. v \in [Key -> Route]
  BY <1>1 DEF Context
<1>3. nn = [mm EXCEPT !.vhash = v]
  BY DEF SetRoute
<1>4. nn.vhash = v
  BY <1>2, <1>3, SetRoutes
<1> HIDE DEF v
<1>5. /\ nn \in Context /\ nn.instance = mm.instance /\ nn.net_len_refcount = mm.net_len_refcount
      /\ nn.created = mm.created /\ nn.hash = mm.hash /\ nn.pool = mm.pool /\ nn.pending = mm.pending
      /\ nn.mbuf = mm.mbuf /\ nn.n_clients = mm.n_clients /\ nn.failed = mm.failed /\ nn.home = mm.home
  BY <1>2, <1>3, SetRoutes
<1>6. Live(nn) = Live(mm)
  BY <1>5 DEF Live
<1>7. SameClients(mm, nn)
  BY <1>5, <1>6 DEF SameClients, SameClient
<1>8. \A x \in Instance :
         Cardinality(RoutesTo(nn, x)) = Cardinality(RoutesTo(mm, x)) + (IF i = x THEN 1 ELSE 0)
  <2>1. nn.vhash = [mm.vhash EXCEPT ![key] = Leading(i, cache)]
    BY <1>4 DEF v
  <2>3. \A k \in Key : nn.vhash[k] = IF k = key THEN Leading(i, cache) ELSE mm.vhash[k]
    BY <2>1 DEF Context
  <2>2. \A x \in Instance :
         Cardinality(RoutesTo(nn, x)) = Cardinality(RoutesTo(mm, x)) + (IF Leading(i, cache).instance = x THEN 1 ELSE 0)
    BY <1>1, <1>5, <2>3, CountWith
  <2> QED
    BY <1>1, <2>2
<1>9. Counted(nn)
  <2> SUFFICES ASSUME NEW x \in Instance
               PROVE  /\ nn.instance[x].route_count = Cardinality(RoutesTo(nn, x))
                      /\ nn.instance[x].refcount = nn.instance[x].route_count + (IF x \in Live(nn) THEN 1 ELSE 0)
                      /\ nn.instance[x].allocated <=> nn.instance[x].refcount > 0
                      /\ nn.instance[x].route_count <= MaxRoutes
    BY DEF Counted
  <2> QED
    BY <1>5, <1>6, <1>8 DEF CountedBut
<1> QED
  BY <1>4, <1>5, <1>7, <1>9 DEF v

(* nn is mm after learning. *)
Learnt(mm, nn, i, key, cache) ==
  /\ SameClients(mm, nn) /\ Counted(nn) /\ nn.net_len_refcount = mm.net_len_refcount
  /\ Learns(mm, i, key) => nn.vhash = [mm.vhash EXCEPT ![key] = Leading(i, cache)]
  /\ ~ Learns(mm, i, key) => nn = mm

LEMMA LearnKeeps ==
  ASSUME NEW mm \in Context, NEW i \in Live(mm), NEW key \in Key, NEW cache \in BOOLEAN,
         Counted(mm), NoneIsNull(mm)
  PROVE  Learnt(mm, multi_learn_addr(mm, i, key, cache), i, key, cache)
<1> DEFINE nn == multi_learn_addr(mm, i, key, cache)
           old == mm.vhash[key]
           f == [mm.instance EXCEPT ![i] = More(mm.instance[i])]
           aa == [mm EXCEPT !.instance = f]
           bb == IF old # NoRoute THEN multi_route_del(aa, key) ELSE aa
<1>1. CASE ~ Learns(mm, i, key)
  BY <1>1, SameReflexive DEF Learns, multi_learn_addr, Learnt
<1>2. CASE Learns(mm, i, key)
  <2>1. nn = SetRoute(bb, key, Leading(i, cache))
    <3>1. [inc_refcount(mm, i) EXCEPT !.instance[i].route_count = inc_refcount(mm, i).instance[i].route_count + 1] = aa
      <4> DEFINE c == mm.instance[i]
                 d == [c EXCEPT !.refcount = c.refcount + 1]
      <4>1. i \in Instance /\ c \in Client
        BY LiveIs
      <4>2. d \in Client /\ [d EXCEPT !.route_count = d.route_count + 1] = More(c)
        BY <4>1 DEF Client, More
      <4>3. inc_refcount(mm, i) = [mm EXCEPT !.instance[i] = d]
        BY <4>1, IncIs
      <4> HIDE DEF d
      <4>4. LET xx == [mm EXCEPT !.instance[i] = d]
            IN [xx EXCEPT !.instance[i].route_count = xx.instance[i].route_count + 1]
                 = [mm EXCEPT !.instance = [mm.instance EXCEPT ![i] = [d EXCEPT !.route_count = d.route_count + 1]]]
        BY <4>1, <4>2 DEF Context
      <4> QED
        BY <4>2, <4>3, <4>4, Zenon
    <3> HIDE DEF aa
    <3> QED
      BY <1>2, <3>1 DEF Learns, multi_learn_addr, Leading, SetRoute
  <2> HIDE DEF nn
  <2>2. /\ SameClients(mm, aa) /\ CountedBut(aa, i, 1)
        /\ aa.vhash = mm.vhash /\ aa.net_len_refcount = mm.net_len_refcount
    BY <1>2, MoreCounts DEF Learns
  <2> HIDE DEF aa
  <2>3. aa \in Context /\ Live(aa) = Live(mm)
    BY <2>2 DEF SameClients
  <2>4. /\ SameClients(mm, bb) /\ CountedBut(bb, i, 1)
        /\ bb.net_len_refcount = mm.net_len_refcount
        /\ bb.vhash[key].instance = Null
        /\ \A r : [bb.vhash EXCEPT ![key] = r] = [mm.vhash EXCEPT ![key] = r]
    <3>1. CASE old = NoRoute
      BY <3>1, <2>2 DEF NoRoute
    <3>2. CASE old # NoRoute
      <4>1. old.instance \in Instance /\ aa.vhash[key].instance = old.instance
        BY <3>2, <2>2 DEF NoneIsNull, Context, Route
      <4>2. /\ CountedBut(multi_route_del(aa, key), i, 1)
            /\ SameClients(aa, multi_route_del(aa, key))
        BY <4>1, <2>2, <2>3, DelCounts
      <4>3. /\ multi_route_del(aa, key).vhash = [aa.vhash EXCEPT ![key] = NoRoute]
            /\ multi_route_del(aa, key).net_len_refcount = aa.net_len_refcount
        BY <4>1, <2>3, DelType
      <4>4. bb = multi_route_del(aa, key)
        BY <3>2
      <4> HIDE DEF bb
      <4>5. SameClients(mm, bb)
        BY <4>2, <4>4, <2>2, SameTransitive
      <4>6. bb.vhash = [mm.vhash EXCEPT ![key] = NoRoute]
        BY <4>3, <4>4, <2>2
      <4>7. bb.vhash[key].instance = Null /\ \A r : [bb.vhash EXCEPT ![key] = r] = [mm.vhash EXCEPT ![key] = r]
        BY <4>6 DEF Context, NoRoute
      <4> QED
        BY <4>2, <4>3, <4>4, <4>5, <4>7, <2>2
    <3> QED
      BY <3>1, <3>2
  <2> HIDE DEF bb
  <2>5. bb \in Context /\ i \in Live(bb)
    BY <2>4 DEF SameClients
  <2>6. /\ SameClients(bb, nn) /\ Counted(nn)
        /\ nn.vhash = [bb.vhash EXCEPT ![key] = Leading(i, cache)]
        /\ nn.net_len_refcount = bb.net_len_refcount
    <3>1. CountedBut(bb, i, 1) /\ bb.vhash[key].instance = Null
      BY <2>4
    <3> QED
      BY <2>1, <2>5, <3>1, WithRoute
  <2> QED
    BY <1>2, <2>4, <2>6, SameTransitive DEF Learnt, nn
<1> QED
  BY <1>1, <1>2

(* A route leads to a client that is not closed exactly if it is defined and,
   if cached, fresh. *)
LEMMA Leads ==
  ASSUME NEW mm \in Context, Counted(mm), NoneIsNull(mm), NEW k \in Key
  PROVE  /\ mm.vhash[k] # NoRoute => mm.vhash[k].instance \in Instance
         /\ mm.vhash[k] = NoRoute => mm.vhash[k].instance \notin Instance
         /\ multi_route_defined(mm, mm.vhash[k]) <=>
              mm.vhash[k].instance \in Live(mm) /\ (mm.vhash[k].cache => mm.vhash[k].fresh)
<1> DEFINE r == mm.vhash[k]
<1>1. r \in Route
  BY DEF Context
<1>2. r # NoRoute => r.instance \in Instance
  BY <1>1 DEF NoneIsNull, Route
<1>3. NoRoute.instance \notin Instance
  BY Finite DEF NoRoute
<1>4. ASSUME r.instance \in Instance PROVE mm.instance[r.instance].allocated
  <2>1. k \in RoutesTo(mm, r.instance)
    BY DEF RoutesTo
  <2>2. Cardinality(RoutesTo(mm, r.instance)) # 0
    BY <2>1, RoutesFinite, FS_EmptySet
  <2>3. /\ mm.instance[r.instance].route_count = Cardinality(RoutesTo(mm, r.instance))
        /\ mm.instance[r.instance].refcount = mm.instance[r.instance].route_count
                                                + (IF r.instance \in Live(mm) THEN 1 ELSE 0)
        /\ mm.instance[r.instance].allocated <=> mm.instance[r.instance].refcount > 0
    BY <1>4 DEF Counted
  <2> QED
    BY <2>2, <2>3, RoutesFinite
<1>5. r.instance \in Instance => (r.instance \in Live(mm) <=> ~ mm.instance[r.instance].halt)
  BY <1>4 DEF Live
<1>6. r.instance \in Live(mm) => r.instance \in Instance
  BY DEF Live
<1> QED
  BY <1>2, <1>3, <1>5, <1>6 DEF multi_route_defined

LEMMA SameDefined ==
  ASSUME NEW mm \in Context, NEW nn, SameClients(mm, nn), Counted(mm), NoneIsNull(mm),
         NEW k \in Key
  PROVE  multi_route_defined(nn, mm.vhash[k]) <=> multi_route_defined(mm, mm.vhash[k])
<1>1. mm.vhash[k] # NoRoute => mm.vhash[k].instance \in Instance
  BY Leads
<1>2. mm.vhash[k] # NoRoute =>
        (nn.instance[mm.vhash[k].instance].halt <=> mm.instance[mm.vhash[k].instance].halt)
  BY <1>1 DEF SameClients, SameClient
<1> QED
  BY <1>2 DEF multi_route_defined

LEMMA SameRouted ==
  ASSUME NEW mm \in Context, NEW nn, SameClients(mm, nn), Counted(mm), NoneIsNull(mm),
         nn.net_len_refcount = mm.net_len_refcount, \A n \in Net : nn.vhash[n] = mm.vhash[n],
         NEW a
  PROVE  /\ Routed(nn, a) = Routed(mm, a)
         /\ Routed(mm, a) # {} => Longest(Routed(mm, a)) \in Routed(mm, a)
<1>1. \A n \in Net : multi_route_defined(nn, nn.vhash[n]) <=> multi_route_defined(mm, mm.vhash[n])
  <2> SUFFICES ASSUME NEW n \in Net
               PROVE  multi_route_defined(nn, nn.vhash[n]) <=> multi_route_defined(mm, mm.vhash[n])
    OBVIOUS
  <2>1. n \in Key
    BY DEF Key
  <2> QED
    BY <2>1, SameDefined
<1>2. Routed(nn, a) = Routed(mm, a)
  BY <1>1 DEF Routed
<1>3. Routed(mm, a) \in SUBSET Net
  BY DEF Routed
<1> QED
  BY <1>2, <1>3, LongestIs

LEMMA SameHolding ==
  ASSUME NEW mm \in Context, NEW nn, SameClients(mm, nn), NEW b
  PROVE  Holding(nn, b) = Holding(mm, b)
<1>1. Live(nn) = Live(mm) /\ Live(mm) \subseteq Instance
  BY DEF SameClients, Live
<1>2. \A i \in Live(mm) : nn.instance[i].cn = mm.instance[i].cn
                            /\ (nn.instance[i].did_iroutes <=> mm.instance[i].did_iroutes)
  BY <1>1 DEF SameClients, SameClient
<1> QED
  BY <1>1, <1>2 DEF Holding

LEMMA SameLengths ==
  ASSUME NEW mm \in Context, NEW nn, SameClients(mm, nn),
         nn.net_len_refcount = mm.net_len_refcount, NEW j \in Instance \cup {Null}, NEW n,
         LengthsOk(mm, j, n)
  PROVE  LengthsOk(nn, j, n)
<1>1. \A b : Holding(nn, b) = Holding(mm, b)
  BY SameHolding
<1>2. j # Null => nn.instance[j].cn = mm.instance[j].cn
  BY DEF SameClients, SameClient
<1>3. Named(nn)
  BY DEF SameClients, SameClient, LengthsOk, Named, Live
<1> QED
  BY <1>1, <1>2, <1>3 DEF LengthsOk

-----------------------------------------------------------------------------
(* A route to an address. *)
LEMMA OkIsNull ==
  ASSUME NEW mm, NEW j, NEW n, RouteOk(mm, j, n)
  PROVE  NoneIsNull(mm)
BY DEF RouteOk, NoneIsNull

LEMMA KeyIs == Addr \subseteq Key /\ Net \subseteq Key /\ Addr \cap Net = {} /\ Handle \subseteq Addr /\ Host \subseteq Addr
BY MultiAssumption DEF Key, Addr

LEMMA SameNets ==
  ASSUME NEW mm \in Context, NEW nn, SameClients(mm, nn), NEW j, NEW n, NEW i \in Instance
  PROVE  Nets(nn, i, j, n) = Nets(mm, i, j, n)
<1>1. nn.instance[i].cn = mm.instance[i].cn /\ (nn.instance[i].did_iroutes <=> mm.instance[i].did_iroutes)
  BY DEF SameClients, SameClient
<1> QED
  BY <1>1 DEF Nets

LEMMA AddrRouteOk ==
  ASSUME NEW mm \in Context, NEW nn, SameClients(mm, nn), Counted(mm), Counted(nn),
         NEW j \in Instance \cup {Null}, NEW n, RouteInv(mm, j, n),
         NEW i \in Live(mm), NEW a \in Addr, NEW cache \in BOOLEAN,
         i = j \/ mm.instance[i].context_auth,
         cache => Routed(mm, a) # {} /\ i = mm.vhash[Longest(Routed(mm, a))].instance,
         nn.net_len_refcount = mm.net_len_refcount,
         nn.vhash = [mm.vhash EXCEPT ![a] = Leading(i, cache)]
  PROVE  RouteInv(nn, j, n)
<1>1. /\ NoneIsNull(mm) /\ RouteOk(mm, j, n) /\ LengthsOk(mm, j, n) /\ CacheOk(mm)
  BY OkIsNull DEF RouteInv
<1>2. /\ Live(nn) = Live(mm) /\ i \in Instance /\ nn \in Context
      /\ \A x \in Instance : nn.instance[x].context_auth <=> mm.instance[x].context_auth
  BY DEF SameClients, SameClient, Live
<1>3. \A k \in Key : nn.vhash[k] = IF k = a THEN Leading(i, cache) ELSE mm.vhash[k]
  BY KeyIs DEF Context
<1>4. Leading(i, cache).instance = i /\ Leading(i, cache).cache = cache /\ i # Null
  BY <1>2, Finite DEF Leading
<1>5. RouteOk(nn, j, n)
  <2> SUFFICES ASSUME NEW k \in Key
               PROVE  /\ nn.vhash[k].instance = Null => nn.vhash[k] = NoRoute
                      /\ nn.vhash[k].instance \in Live(nn) =>
                           nn.vhash[k].instance = j \/ nn.instance[nn.vhash[k].instance].context_auth
                      /\ k \in Net => ~ nn.vhash[k].cache
                      /\ k \in Net /\ nn.vhash[k].instance \in Live(nn) => k \in Nets(nn, nn.vhash[k].instance, j, n)
    BY DEF RouteOk
  <2>1. CASE k = a
    <3>1. k \notin Net
      BY <2>1, KeyIs
    <3> QED
      BY <2>1, <3>1, <1>2, <1>3, <1>4
  <2>2. CASE k # a
    <3>1. nn.vhash[k] = mm.vhash[k]
      BY <2>2, <1>3
    <3>2. mm.vhash[k].instance \in Live(mm) =>
            /\ mm.vhash[k].instance \in Instance
            /\ Nets(nn, mm.vhash[k].instance, j, n) = Nets(mm, mm.vhash[k].instance, j, n)
      BY SameNets DEF Live
    <3> QED
      BY <3>1, <3>2, <1>1, <1>2 DEF RouteOk
  <2> QED
    BY <2>1, <2>2
<1>6. LengthsOk(nn, j, n)
  BY <1>1, SameLengths
<1>7. CacheOk(nn)
  <2>1. \A k \in Net : nn.vhash[k] = mm.vhash[k]
    BY <1>3, KeyIs
  <2> SUFFICES ASSUME NEW b \in Addr, nn.vhash[b].cache, multi_route_defined(nn, nn.vhash[b])
               PROVE  /\ Routed(nn, b) # {}
                      /\ nn.vhash[b].instance = nn.vhash[Longest(Routed(nn, b))].instance
    BY DEF CacheOk
  <2>2. Routed(nn, b) = Routed(mm, b) /\ (Routed(mm, b) # {} => Longest(Routed(mm, b)) \in Routed(mm, b))
    BY <2>1, <1>1, SameRouted
  <2>3. Routed(mm, b) # {} => nn.vhash[Longest(Routed(mm, b))] = mm.vhash[Longest(Routed(mm, b))]
    BY <2>1, <2>2 DEF Routed
  <2>4. CASE b = a
    BY <2>2, <2>3, <2>4, <1>3, <1>4, KeyIs
  <2>5. CASE b # a
    <3>1. b \in Key /\ nn.vhash[b] = mm.vhash[b]
      BY <2>5, <1>3, KeyIs
    <3>2. multi_route_defined(mm, mm.vhash[b])
      BY <3>1, <1>1, SameDefined
    <3> QED
      BY <3>1, <3>2, <2>2, <2>3, <1>1 DEF CacheOk
  <2> QED
    BY <2>4, <2>5
<1> QED
  BY <1>5, <1>6, <1>7 DEF RouteInv

(* multi_get_instance_by_virtual_addr finds a client that is not closed, and
   what it caches is current. *)
LEMMA LookupKeeps ==
  ASSUME NEW mm \in Context, RouteInv(mm, Null, 0), NEW a \in Addr
  PROVE  /\ Lookup(mm, a).instance \in Live(mm) \cup {Null}
         /\ SameClients(mm, Lookup(mm, a).m) /\ RouteInv(Lookup(mm, a).m, Null, 0)
         /\ Addressed(mm) => Addressed(Lookup(mm, a).m)
<1> DEFINE i == mm.vhash[Longest(Routed(mm, a))].instance
           nn == multi_learn_addr(mm, i, a, TRUE)
<1>1. Counted(mm) /\ NoneIsNull(mm) /\ RouteOk(mm, Null, 0) /\ a \in Key
  BY OkIsNull, KeyIs DEF RouteInv
<1>2. CASE multi_route_defined(mm, mm.vhash[a])
  <2>1. Lookup(mm, a).instance = mm.vhash[a].instance /\ Lookup(mm, a).m = mm
    BY <1>2 DEF Lookup
  <2>2. mm.vhash[a].instance \in Live(mm)
    BY <1>1, <1>2, Leads
  <2> QED
    BY <2>1, <2>2, SameReflexive
<1>3. CASE ~ multi_route_defined(mm, mm.vhash[a]) /\ Routed(mm, a) = {}
  <2>1. Lookup(mm, a).instance = Null /\ Lookup(mm, a).m = mm
    BY <1>3 DEF Lookup
  <2> QED
    BY <2>1, SameReflexive
<1>4. CASE ~ multi_route_defined(mm, mm.vhash[a]) /\ Routed(mm, a) # {}
  <2>1. Lookup(mm, a).instance = i /\ Lookup(mm, a).m = nn
    BY <1>4 DEF Lookup
  <2>2. Longest(Routed(mm, a)) \in Net /\ multi_route_defined(mm, mm.vhash[Longest(Routed(mm, a))])
    BY <1>4, LongestIs DEF Routed
  <2>3. i \in Live(mm) /\ mm.instance[i].context_auth
    <3>1. Longest(Routed(mm, a)) \in Key
      BY <2>2, KeyIs
    <3>2. i \in Live(mm)
      BY <1>1, <2>2, <3>1, Leads
    <3>3. i # Null
      BY <3>2, Finite DEF Live
    <3> QED
      BY <3>1, <3>2, <3>3, <1>1 DEF RouteOk
  <2> DEFINE l == Longest(Routed(mm, a))
  <2>4. i = mm.vhash[l].instance
    OBVIOUS
  <2> HIDE DEF i, nn, l
  <2>5. nn = multi_learn_addr(mm, i, a, TRUE)
    BY DEF nn
  <2>6. /\ SameClients(mm, nn) /\ Counted(nn) /\ nn.net_len_refcount = mm.net_len_refcount
        /\ Learns(mm, i, a) => nn.vhash = [mm.vhash EXCEPT ![a] = Leading(i, TRUE)]
        /\ ~ Learns(mm, i, a) => nn = mm
    <3>1. \A c \in BOOLEAN : Learnt(mm, multi_learn_addr(mm, i, a, c), i, a, c)
      BY <1>1, <2>3, LearnKeeps
    <3>2. Learnt(mm, nn, i, a, TRUE)
      BY <2>5, <3>1
    <3> QED
      BY <3>2 DEF Learnt
  <2>7. CASE ~ Learns(mm, i, a)
    BY <2>1, <2>3, <2>6, <2>7
  <2>8. CASE Learns(mm, i, a)
    <3>1. RouteInv(nn, Null, 0)
      BY <1>1, <1>4, <2>3, <2>4, <2>6, <2>8, AddrRouteOk DEF l
    <3>2. ASSUME Addressed(mm) PROVE Addressed(nn)
      <4> SUFFICES ASSUME NEW x \in Live(nn), nn.instance[x].context_auth, nn.instance[x].addr # NoAddr
                   PROVE  nn.vhash[nn.instance[x].addr].instance = x /\ ~ nn.vhash[nn.instance[x].addr].cache
        BY DEF Addressed
      <4>1. /\ x \in Instance /\ x \in Live(mm)
            /\ mm.instance[x].context_auth /\ mm.instance[x].addr # NoAddr
            /\ nn.instance[x].addr = mm.instance[x].addr
        BY <2>6 DEF SameClients, SameClient, Live
      <4>2. mm.vhash[mm.instance[x].addr].instance = x /\ ~ mm.vhash[mm.instance[x].addr].cache
        BY <3>2, <4>1 DEF Addressed
      <4>3. mm.instance[x].addr \in Addr
        BY <4>1 DEF Context, Client
      <4>4. mm.instance[x].addr # a
        BY <4>1, <4>2, <4>3, <1>1, <1>4, KeyIs, Leads
      <4>5. nn.vhash[mm.instance[x].addr] = mm.vhash[mm.instance[x].addr]
        BY <4>3, <4>4, <2>6, <2>8, KeyIs DEF Context
      <4> QED
        BY <4>1, <4>2, <4>5
    <3> QED
      BY <2>1, <2>3, <2>6, <3>1, <3>2
  <2> QED
    BY <2>7, <2>8
<1> QED
  BY <1>2, <1>3, <1>4

-----------------------------------------------------------------------------
(* Routes to networks. *)
Stale(r) == [r EXCEPT !.fresh = FALSE]
NoneFresh(mm) == \A k \in Key : mm.vhash[k].cache => ~ mm.vhash[k].fresh

LEMMA StaleIs ==
  ASSUME NEW r \in Route
  PROVE  /\ Stale(r) \in Route /\ Stale(r).instance = r.instance /\ Stale(r).cache = r.cache
         /\ ~ Stale(r).fresh /\ (r = NoRoute => Stale(r) = NoRoute)
<1>1. Stale(r) \in Route
  BY DEF Route, Stale
<1>2. Stale(r).instance = r.instance /\ (Stale(r).cache <=> r.cache) /\ ~ Stale(r).fresh
  BY DEF Route, Stale
<1>3. r = NoRoute => Stale(r) = NoRoute
  <2>1. ASSUME NEW s \in Route, s.instance = Null, s.cache = FALSE, s.fresh = FALSE PROVE s = NoRoute
    BY <2>1 DEF Route, NoRoute
  <2>2. NoRoute.instance = Null /\ ~ NoRoute.cache
    BY DEF NoRoute
  <2> QED
    BY <2>1, <2>2, <1>1, <1>2 DEF Route
<1> QED
  BY <1>1, <1>2, <1>3 DEF Route

LEMMA InvalidatedIs ==
  ASSUME NEW mm \in Context
  PROVE  /\ Invalidated(mm) = [mm EXCEPT !.vhash = [k \in Key |-> Stale(mm.vhash[k])]]
         /\ [k \in Key |-> Stale(mm.vhash[k])] \in [Key -> Route]
<1>1. \A k \in Key : Stale(mm.vhash[k]) \in Route
  BY StaleIs DEF Context
<1> QED
  BY <1>1 DEF Invalidated, Stale

(* Routes, all stale, with the networks' lengths counted by f. *)
Recounted(mm, f) == [Invalidated(mm) EXCEPT !.net_len_refcount = f]

SameButRoutes(mm, nn) ==
  /\ nn \in Context /\ nn.instance = mm.instance
  /\ nn.created = mm.created /\ nn.hash = mm.hash /\ nn.pool = mm.pool /\ nn.pending = mm.pending
  /\ nn.mbuf = mm.mbuf /\ nn.n_clients = mm.n_clients /\ nn.failed = mm.failed /\ nn.home = mm.home

LEMMA RecountedIs ==
  ASSUME NEW mm \in Context, NEW f \in [Length -> Int], NEW nn, nn = Recounted(mm, f)
  PROVE  /\ SameButRoutes(mm, nn) /\ NoneFresh(nn) /\ nn.net_len_refcount = f
         /\ \A k \in Key : /\ nn.vhash[k].instance = mm.vhash[k].instance
                           /\ nn.vhash[k].cache = mm.vhash[k].cache
                           /\ mm.vhash[k] = NoRoute => nn.vhash[k] = NoRoute
<1> DEFINE v == [k \in Key |-> Stale(mm.vhash[k])]
<1>1. nn = [[mm EXCEPT !.vhash = v] EXCEPT !.net_len_refcount = f] /\ v \in [Key -> Route]
  BY InvalidatedIs DEF Recounted
<1>2. \A k \in Key : mm.vhash[k] \in Route /\ v[k] = Stale(mm.vhash[k])
  BY DEF Context
<1> HIDE DEF v
<1>3. /\ nn \in Context /\ nn.instance = mm.instance /\ nn.vhash = v /\ nn.net_len_refcount = f
      /\ nn.created = mm.created /\ nn.hash = mm.hash /\ nn.pool = mm.pool /\ nn.pending = mm.pending
      /\ nn.mbuf = mm.mbuf /\ nn.n_clients = mm.n_clients /\ nn.failed = mm.failed /\ nn.home = mm.home
  BY <1>1 DEF Context
<1>4. \A k \in Key : /\ nn.vhash[k].instance = mm.vhash[k].instance
                     /\ nn.vhash[k].cache = mm.vhash[k].cache
                     /\ ~ nn.vhash[k].fresh
                     /\ mm.vhash[k] = NoRoute => nn.vhash[k] = NoRoute
  BY <1>2, <1>3, StaleIs
<1> QED
  BY <1>3, <1>4 DEF SameButRoutes, NoneFresh

LEMMA Invalidates ==
  ASSUME NEW mm \in Context, Counted(mm), NoneIsNull(mm), NEW f \in [Length -> Int],
         NEW nn, nn = Recounted(mm, f)
  PROVE  /\ SameClients(mm, nn) /\ Counted(nn) /\ NoneIsNull(nn) /\ NoneFresh(nn)
         /\ nn.net_len_refcount = f /\ nn.instance = mm.instance
         /\ \A k \in Key : /\ nn.vhash[k].instance = mm.vhash[k].instance
                           /\ nn.vhash[k].cache = mm.vhash[k].cache
<1>1. /\ SameButRoutes(mm, nn) /\ NoneFresh(nn) /\ nn.net_len_refcount = f
      /\ \A k \in Key : /\ nn.vhash[k].instance = mm.vhash[k].instance
                        /\ nn.vhash[k].cache = mm.vhash[k].cache
                        /\ mm.vhash[k] = NoRoute => nn.vhash[k] = NoRoute
  BY RecountedIs
<1>2. Live(nn) = Live(mm)
  BY <1>1 DEF Live, SameButRoutes
<1>3. SameClients(mm, nn)
  BY <1>1, <1>2 DEF SameClients, SameClient, SameButRoutes
<1>4. NoneIsNull(nn)
  BY <1>1 DEF NoneIsNull
<1>5. \A i : RoutesTo(nn, i) = RoutesTo(mm, i)
  BY <1>1 DEF RoutesTo
<1>6. Counted(nn)
  BY <1>1, <1>2, <1>5 DEF Counted, SameButRoutes
<1> QED
  BY <1>1, <1>3, <1>4, <1>6 DEF SameButRoutes

LEMMA CacheStale ==
  ASSUME NEW mm, NoneFresh(mm)
  PROVE  CacheOk(mm)
<1>1. \A a \in Addr : mm.vhash[a].cache /\ multi_route_defined(mm, mm.vhash[a]) => FALSE
  BY KeyIs DEF NoneFresh, multi_route_defined
<1> QED
  BY <1>1 DEF CacheOk

LEMMA FirstGrows ==
  ASSUME NEW nets, NEW k \in Nat, k > 0, NEW b
  PROVE  /\ Cardinality(First(nets, k, b)) \in Nat /\ Cardinality(First(nets, k - 1, b)) \in Nat
         /\ Cardinality(First(nets, k, b))
              = Cardinality(First(nets, k - 1, b)) + (IF NetBits[nets[k]] = b THEN 1 ELSE 0)
<1>1. IsFiniteSet(First(nets, k - 1, b)) /\ IsFiniteSet(First(nets, k, b))
  <2>1. IsFiniteSet(1 .. k) /\ IsFiniteSet(1 .. k - 1)
    BY FS_Interval
  <2> QED
    BY <2>1, FS_Subset DEF First
<1>2. k \notin First(nets, k - 1, b)
  BY DEF First
<1>3. 1 .. k = (1 .. k - 1) \cup {k}
  BY SMT
<1>4. CASE NetBits[nets[k]] = b
  <2>1. First(nets, k, b) = First(nets, k - 1, b) \cup {k}
    BY <1>3, <1>4 DEF First
  <2> QED
    BY <1>1, <1>2, <1>4, <2>1, FS_AddElement, FS_CardinalityType
<1>5. CASE NetBits[nets[k]] # b
  <2>1. First(nets, k, b) = First(nets, k - 1, b)
    BY <1>3, <1>5 DEF First
  <2> QED
    BY <1>1, <1>5, <2>1, FS_CardinalityType
<1> QED
  BY <1>4, <1>5

LEMMA LengthOfFinite ==
  ASSUME NEW nets \in Seq(Net), NEW b
  PROVE  IsFiniteSet(OfLength(nets, b)) /\ Number(nets, b) \in Nat
<1>1. DOMAIN nets = 1 .. Len(nets) /\ IsFiniteSet(1 .. Len(nets))
  BY FS_Interval
<1>2. OfLength(nets, b) \in SUBSET (1 .. Len(nets))
  BY <1>1 DEF OfLength
<1> QED
  BY <1>1, <1>2, FS_Subset, FS_CardinalityType DEF Number

LEMMA HoldingFinite ==
  ASSUME NEW mm \in Context, Named(mm), NEW b
  PROVE  IsFiniteSet(Holding(mm, b)) /\ Cardinality(Holding(mm, b)) \in Nat
<1> DEFINE I == {i \in Live(mm) : mm.instance[i].did_iroutes}
           P(i) == {i} \X OfLength(Iroutes[mm.instance[i].cn], b)
           Q == {P(i) : i \in I}
<1>1. \A i \in I : IsFiniteSet(P(i))
  <2> SUFFICES ASSUME NEW i \in I PROVE IsFiniteSet(P(i))
    OBVIOUS
  <2>1. Iroutes[mm.instance[i].cn] \in Seq(Net)
    BY MultiAssumption DEF Named
  <2> QED
    BY <2>1, LengthOfFinite, FS_Singleton, FS_Product
<1>2. IsFiniteSet(I)
  BY Finite, FS_Subset DEF Live
<1> HIDE DEF I, P
<1>3. IsFiniteSet(Q)
  <2> DEFINE f == [i \in I |-> P(i)]
  <2>1. f \in Surjection(I, Q)
    BY DEF Surjection, Q
  <2> QED
    BY <1>2, <2>1, FS_Surjection
<1>4. IsFiniteSet(UNION Q)
  BY <1>1, <1>3, FS_UNION
<1>5. Holding(mm, b) = UNION Q
  BY DEF Holding, I, P
<1> QED
  BY <1>4, <1>5, FS_CardinalityType

(* Client i gets the k-th of its networks. *)
WithIroute(mm, i, n) == multi_learn_addr(mroute_helper_add_iroute(mm, n), i, n, FALSE)

SameHosts(mm, nn) ==
  \A a \in Addr : nn.vhash[a].instance = mm.vhash[a].instance /\ (nn.vhash[a].cache <=> mm.vhash[a].cache)

Grown(c, b) == [c EXCEPT ![b] = c[b] + 1]

LEMMA AddIrouteIs ==
  ASSUME NEW mm \in Context, NEW n \in Net
  PROVE  LET f == Grown(mm.net_len_refcount, NetBits[n])
         IN /\ mroute_helper_add_iroute(mm, n) = Recounted(mm, f)
            /\ f \in [Length -> Int]
            /\ \A b \in Length : f[b] = mm.net_len_refcount[b] + (IF NetBits[n] = b THEN 1 ELSE 0)
<1>1. NetBits[n] \in Length
  BY DEF Length
<1> DEFINE v == [k \in Key |-> Stale(mm.vhash[k])]
<1>2. Invalidated(mm) = [mm EXCEPT !.vhash = v] /\ v \in [Key -> Route]
  BY InvalidatedIs
<1> HIDE DEF v
<1>3. Invalidated(mm) \in Context /\ Invalidated(mm).net_len_refcount = mm.net_len_refcount
  BY <1>2 DEF Context
<1> QED
  BY <1>1, <1>3 DEF mroute_helper_add_iroute, Context, Grown, Recounted

LEMMA IrouteKeeps ==
  ASSUME NEW mm \in Context, NEW i \in Live(mm), mm.instance[i].cn \in CN, NEW k \in Nat, k > 0,
         k <= Len(Iroutes[mm.instance[i].cn]), RouteInv(mm, i, k - 1),
         NEW nn, nn = WithIroute(mm, i, Iroutes[mm.instance[i].cn][k])
  PROVE  SameClients(mm, nn) /\ RouteInv(nn, i, k) /\ SameHosts(mm, nn)
<1> DEFINE nets == Iroutes[mm.instance[i].cn]
           n == nets[k]
           f == Grown(mm.net_len_refcount, NetBits[n])
           oo == mroute_helper_add_iroute(mm, n)
<1>1. nets \in Seq(Net) /\ n \in Net /\ n \in Key /\ i \in Instance
  BY MultiAssumption, KeyIs, LiveIs
<1>2. /\ oo = Recounted(mm, f) /\ f \in [Length -> Int]
      /\ \A b \in Length : f[b] = mm.net_len_refcount[b] + (IF NetBits[n] = b THEN 1 ELSE 0)
  BY <1>1, AddIrouteIs
<1> HIDE DEF f, oo
<1>3. Counted(mm) /\ NoneIsNull(mm) /\ RouteOk(mm, i, k - 1) /\ LengthsOk(mm, i, k - 1)
  BY OkIsNull DEF RouteInv
<1>4. /\ SameClients(mm, oo) /\ Counted(oo) /\ NoneIsNull(oo) /\ NoneFresh(oo)
      /\ oo.net_len_refcount = f
      /\ \A key \in Key : oo.vhash[key].instance = mm.vhash[key].instance
                            /\ (oo.vhash[key].cache <=> mm.vhash[key].cache)
  BY <1>2, <1>3, Invalidates
<1>5. oo \in Context /\ Live(oo) = Live(mm)
  BY <1>4 DEF SameClients
<1>6. Learnt(oo, nn, i, n, FALSE)
  <2>1. \A c \in BOOLEAN : Learnt(oo, multi_learn_addr(oo, i, n, c), i, n, c)
    BY <1>1, <1>4, <1>5, LearnKeeps
  <2>2. nn = multi_learn_addr(oo, i, n, FALSE)
    BY DEF WithIroute, oo
  <2> QED
    BY <2>1, <2>2
<1>7. SameClients(oo, nn) /\ Counted(nn) /\ nn.net_len_refcount = f /\ SameClients(mm, nn)
  BY <1>4, <1>6, SameTransitive, SameReflexive DEF Learnt
<1>8. \A key \in Key : \/ nn.vhash[key] = oo.vhash[key]
                       \/ key = n /\ nn.vhash[key] = Leading(i, FALSE)
  BY <1>1, <1>5, <1>6 DEF Learnt, Context
<1>9. Leading(i, FALSE).instance = i /\ ~ Leading(i, FALSE).cache /\ i # Null
  BY <1>1, Finite DEF Leading
<1>10. NoneFresh(nn) /\ NoneIsNull(nn)
  BY <1>4, <1>8, <1>9 DEF NoneFresh, NoneIsNull
<1>11. SameHosts(mm, nn)
  BY <1>1, <1>4, <1>8, KeyIs DEF SameHosts
<1>12. /\ Live(nn) = Live(mm)
       /\ \A x \in Instance : nn.instance[x].context_auth <=> mm.instance[x].context_auth
  BY <1>7 DEF SameClients, SameClient
<1>13. RouteOk(nn, i, k)
  <2> SUFFICES ASSUME NEW key \in Key
               PROVE  /\ nn.vhash[key].instance \in Live(nn) =>
                           nn.vhash[key].instance = i \/ nn.instance[nn.vhash[key].instance].context_auth
                      /\ key \in Net => ~ nn.vhash[key].cache
                      /\ key \in Net /\ nn.vhash[key].instance \in Live(nn) => key \in Nets(nn, nn.vhash[key].instance, i, k)
    BY <1>10 DEF RouteOk, NoneIsNull
  <2>1. \A x \in Instance : Nets(mm, x, i, k - 1) \subseteq Nets(nn, x, i, k)
    <3> SUFFICES ASSUME NEW x \in Instance PROVE Nets(mm, x, i, k - 1) \subseteq Nets(nn, x, i, k)
      OBVIOUS
    <3>1. Nets(nn, x, i, k) = Nets(mm, x, i, k)
      BY <1>7, SameNets
    <3>2. Nets(mm, x, i, k - 1) \subseteq Nets(mm, x, i, k)
      BY DEF Nets, Beginning
    <3> QED
      BY <3>1, <3>2
  <2>2. n \in Nets(nn, i, i, k)
    <3>1. nn.instance[i].cn = mm.instance[i].cn
      BY <1>1, <1>7 DEF SameClients, SameClient
    <3> QED
      BY <3>1 DEF Nets, Beginning
  <2>3. CASE key = n /\ nn.vhash[key] = Leading(i, FALSE)
    BY <2>2, <2>3, <1>9
  <2>4. CASE nn.vhash[key] = oo.vhash[key]
    <3>1. nn.vhash[key].instance = mm.vhash[key].instance /\ (nn.vhash[key].cache <=> mm.vhash[key].cache)
      BY <2>4, <1>4
    <3>2. nn.vhash[key].instance \in Live(nn) => nn.vhash[key].instance \in Instance
      BY DEF Live
    <3> QED
      BY <3>1, <3>2, <1>3, <1>12, <2>1 DEF RouteOk
  <2> QED
    BY <2>3, <2>4, <1>8
<1>14. LengthsOk(nn, i, k)
  <2>1. nn.instance[i].cn = mm.instance[i].cn /\ Named(mm)
    BY <1>1, <1>3, <1>7 DEF SameClients, SameClient, LengthsOk
  <2>2. Named(nn)
    BY <1>12, <1>7, <2>1 DEF Named, SameClients, SameClient, Live
  <2>3. ASSUME NEW b \in Length
        PROVE  nn.net_len_refcount[b] = Cardinality(Holding(nn, b)) + Cardinality(First(nets, k, b))
    <3>1. Holding(nn, b) = Holding(mm, b) /\ Cardinality(Holding(mm, b)) \in Nat
      BY <1>7, <2>1, SameHolding, HoldingFinite
    <3>2. mm.net_len_refcount[b] = Cardinality(Holding(mm, b)) + Cardinality(First(nets, k - 1, b))
      BY <1>3, <1>9 DEF LengthsOk
    <3>3. /\ Cardinality(First(nets, k, b)) \in Nat /\ Cardinality(First(nets, k - 1, b)) \in Nat
          /\ Cardinality(First(nets, k, b))
               = Cardinality(First(nets, k - 1, b)) + (IF NetBits[n] = b THEN 1 ELSE 0)
      BY FirstGrows
    <3>4. nn.net_len_refcount[b] = mm.net_len_refcount[b] + (IF NetBits[n] = b THEN 1 ELSE 0)
      BY <1>2, <1>7
    <3> HIDE DEF n, nets
    <3> QED
      BY <3>1, <3>2, <3>3, <3>4
  <2> QED
    BY <1>9, <2>1, <2>2, <2>3 DEF LengthsOk
<1> QED
  BY <1>7, <1>10, <1>11, <1>13, <1>14, CacheStale DEF RouteInv

-----------------------------------------------------------------------------
(* Loops: a sequence g of contexts, each from the one before. *)
LEMMA UpTo ==
  ASSUME NEW n \in Nat, NEW T, 0 \in T, \A k \in Nat : k \in T /\ k < n => k + 1 \in T
  PROVE  \A k \in 0 .. n : k \in T
<1> DEFINE U == {k \in 0 .. n : k \notin T}
<1> SUFFICES ASSUME U # {} PROVE FALSE
  OBVIOUS
<1>1. PICK k \in U : \A l \in U : k <= l
  <2>1. U \subseteq Nat
    OBVIOUS
  <2> QED
    BY <2>1, LeastNat
<1>2. k \in 0 .. n /\ k \notin T /\ k # 0
  OBVIOUS
<1>3. k - 1 \in 0 .. n /\ k - 1 \notin U
  BY <1>1, <1>2
<1>4. k - 1 \in Nat /\ k - 1 < n /\ (k - 1) + 1 = k
  BY <1>2
<1> QED
  BY <1>2, <1>3, <1>4

(* Of the k-th network of a client, of client k in a set, of a packet to it. *)
WithItem(mm, k, is) == IF k \in is THEN mbuf_add_item(mm, k) ELSE mm
Without(mm, k, is, now) == IF k \in is THEN multi_close_instance(mm, k, now) ELSE mm
Step(what, a, b, mm, k) ==
  IF what = "iroutes" THEN WithIroute(mm, a, b[k])
  ELSE IF what = "close" THEN Without(mm, k, a, b) ELSE WithItem(mm, k, a)
Iterating(what, a, b, mm, n, g) ==
  g = [k \in 0 .. n |-> IF k = 0 THEN mm ELSE Step(what, a, b, g[k - 1], k)]

LEMMA IteratingIs ==
  ASSUME NEW what, NEW a, NEW b, NEW mm, NEW n \in Nat, NEW g, Iterating(what, a, b, mm, n, g)
  PROVE  g[0] = mm /\ \A k \in Nat : k < n => g[k + 1] = Step(what, a, b, g[k], k + 1)
<1> DEFINE R(k) == IF k = 0 THEN mm ELSE Step(what, a, b, g[k - 1], k)
<1>1. \A k \in 0 .. n : g[k] = R(k)
  BY DEF Iterating
<1>2. 0 \in 0 .. n /\ \A k \in Nat : k < n => k + 1 \in 0 .. n /\ k + 1 # 0 /\ (k + 1) - 1 = k
  OBVIOUS
<1> QED
  BY <1>1, <1>2

LEMMA IteratingExists ==
  ASSUME NEW what, NEW a, NEW b, NEW mm, NEW N \in Nat
  PROVE  \E g : Iterating(what, a, b, mm, N, g)
<1> DEFINE T == {n \in Nat : \E g : Iterating(what, a, b, mm, n, g)}
<1>1. 0 \in T
  <2> DEFINE h == [k \in 0 .. 0 |-> mm]
             hh == [k \in 0 .. 0 |-> IF k = 0 THEN mm ELSE Step(what, a, b, h[k - 1], k)]
  <2>1. \A k \in 0 .. 0 : k = 0
    OBVIOUS
  <2>2. h = hh
    BY <2>1
  <2> QED
    BY <2>2 DEF Iterating
<1>2. ASSUME NEW n \in Nat, n \in T PROVE n + 1 \in T
  <2>1. PICK g : Iterating(what, a, b, mm, n, g)
    BY <1>2
  <2>2. g[0] = mm /\ \A k \in Nat : k < n => g[k + 1] = Step(what, a, b, g[k], k + 1)
    BY <2>1, IteratingIs
  <2> DEFINE N1 == n + 1
             h == [k \in 0 .. N1 |-> IF k = N1 THEN Step(what, a, b, g[n], N1) ELSE g[k]]
             R(k) == IF k = 0 THEN mm ELSE Step(what, a, b, h[k - 1], k)
             hh == [k \in 0 .. N1 |-> R(k)]
  <2>3. N1 \in Nat /\ N1 # 0 /\ n \in 0 .. N1 /\ n # N1 /\ N1 - 1 = n
    OBVIOUS
  <2>4. \A k \in 0 .. N1 : h[k] = R(k)
    <3> SUFFICES ASSUME NEW k \in 0 .. N1 PROVE h[k] = R(k)
      OBVIOUS
    <3>1. CASE k = 0
      BY <2>2, <2>3, <3>1
    <3>2. CASE k # 0 /\ k # N1
      <4>1. k - 1 \in 0 .. N1 /\ k - 1 # N1 /\ k - 1 \in Nat /\ k - 1 < n /\ (k - 1) + 1 = k
        BY <2>3, <3>2
      <4>2. h[k - 1] = g[k - 1] /\ h[k] = g[k]
        BY <4>1, <3>2
      <4>3. R(k) = Step(what, a, b, h[k - 1], k)
        BY <3>2
      <4>4. g[(k - 1) + 1] = Step(what, a, b, g[k - 1], (k - 1) + 1)
        BY <4>1, <2>2
      <4> HIDE DEF h, R
      <4> QED
        BY <4>1, <4>2, <4>3, <4>4
    <3>3. CASE k = N1
      <4>1. h[n] = g[n] /\ h[N1] = Step(what, a, b, g[n], N1)
        BY <2>3
      <4>2. R(N1) = Step(what, a, b, h[n], N1)
        BY <2>3
      <4> HIDE DEF h, R
      <4> QED
        BY <4>1, <4>2, <3>3
    <3> QED
      BY <3>1, <3>2, <3>3
  <2>5. h = hh
    <3>1. h = [k \in 0 .. N1 |-> h[k]]
      OBVIOUS
    <3> HIDE DEF h, N1
    <3> QED
      BY <2>4, <3>1
  <2>6. Iterating(what, a, b, mm, N1, h)
    BY <2>5 DEF Iterating
  <2> QED
    BY <2>3, <2>6
<1>3. \A k \in 0 .. N : k \in T
  <2> HIDE DEF T
  <2> QED
    BY <1>1, <1>2, UpTo
<1> QED
  BY <1>3

LEMMA AddIroutesIs ==
  ASSUME NEW mm, NEW i, Len(Iroutes[mm.instance[i].cn]) \in Nat
  PROVE  \E g : /\ Iterating("iroutes", i, Iroutes[mm.instance[i].cn], mm, Len(Iroutes[mm.instance[i].cn]), g)
                /\ multi_add_iroutes(mm, i) =
                     [g[Len(Iroutes[mm.instance[i].cn])] EXCEPT !.instance[i].did_iroutes = TRUE]
<1> DEFINE nets == Iroutes[mm.instance[i].cn]
           Is(g) == g = [k \in 0 .. Len(nets) |-> IF k = 0 THEN mm ELSE WithIroute(g[k - 1], i, nets[k])]
           h == CHOOSE g : Is(g)
<1>1. \A g : Is(g) <=> Iterating("iroutes", i, nets, mm, Len(nets), g)
  BY DEF Iterating, Step
<1>2. Is(h)
  <2>1. \E g : Is(g)
    <3> HIDE DEF Is
    <3> QED
      BY <1>1, IteratingExists
  <2> QED
    BY <2>1
<1>3. multi_add_iroutes(mm, i) = [h[Len(nets)] EXCEPT !.instance[i].did_iroutes = TRUE]
  BY DEF multi_add_iroutes, WithIroute
<1> HIDE DEF h, Is
<1> QED
  BY <1>1, <1>2, <1>3

LEMMA CloseAllIs ==
  ASSUME NEW mm, NEW is, NEW now
  PROVE  \E g : /\ Iterating("close", is, now, mm, MaxInstances, g)
                /\ CloseAll(mm, is, now) = g[MaxInstances]
<1> DEFINE Is(g) == g = [k \in 0 .. MaxInstances |->
                           IF k = 0 THEN mm
                           ELSE IF k \in is THEN multi_close_instance(g[k - 1], k, now) ELSE g[k - 1]]
           h == CHOOSE g : Is(g)
<1>1. \A g : Is(g) <=> Iterating("close", is, now, mm, MaxInstances, g)
  BY DEF Iterating, Step, Without
<1>2. Is(h)
  <2>1. \E g : Is(g)
    <3> HIDE DEF Is
    <3> QED
      BY <1>1, IteratingExists, MultiAssumption
  <2> QED
    BY <2>1
<1>3. CloseAll(mm, is, now) = h[MaxInstances]
  BY DEF CloseAll
<1> HIDE DEF h, Is
<1> QED
  BY <1>1, <1>2, <1>3

LEMMA BcastIs ==
  ASSUME NEW mm, NEW sender
  PROVE  \E g : /\ Iterating("bcast", Live(mm) \ {sender}, Null, mm, MaxInstances, g)
                /\ multi_bcast(mm, sender) = g[MaxInstances]
<1> DEFINE Is(g) == g = [i \in 0 .. MaxInstances |->
                           IF i = 0 THEN mm
                           ELSE IF i \in Live(mm) \ {sender} THEN mbuf_add_item(g[i - 1], i) ELSE g[i - 1]]
           h == CHOOSE g : Is(g)
<1>1. \A g : Is(g) <=> Iterating("bcast", Live(mm) \ {sender}, Null, mm, MaxInstances, g)
  BY DEF Iterating, Step, WithItem
<1>2. Is(h)
  <2>1. \E g : Is(g)
    <3> HIDE DEF Is
    <3> QED
      BY <1>1, IteratingExists, MultiAssumption
  <2> QED
    BY <2>1
<1>3. multi_bcast(mm, sender) = h[MaxInstances]
  BY DEF multi_bcast
<1> HIDE DEF h, Is
<1> QED
  BY <1>1, <1>2, <1>3

-----------------------------------------------------------------------------
(* The iroutes of a client, all of them. *)
Did(mm) == {i \in Live(mm) : mm.instance[i].did_iroutes}

LEMMA HoldingSplit ==
  ASSUME NEW mm \in Context, Named(mm), NEW i \in Live(mm), NEW nn \in Context, NEW b,
         Did(nn) = Did(mm) \ {i}, \A x \in Did(nn) : nn.instance[x].cn = mm.instance[x].cn
  PROVE  /\ Cardinality(Holding(nn, b)) \in Nat
         /\ Cardinality(Holding(mm, b)) = Cardinality(Holding(nn, b))
              + (IF mm.instance[i].did_iroutes THEN Number(Iroutes[mm.instance[i].cn], b) ELSE 0)
<1> DEFINE S == OfLength(Iroutes[mm.instance[i].cn], b)
           P(x) == {x} \X OfLength(Iroutes[mm.instance[x].cn], b)
<1>1. Named(nn)
  BY DEF Named, Did
<1>2. /\ IsFiniteSet(Holding(nn, b)) /\ Cardinality(Holding(nn, b)) \in Nat
      /\ IsFiniteSet(Holding(mm, b)) /\ Cardinality(Holding(mm, b)) \in Nat
  BY <1>1, HoldingFinite
<1>3. Holding(mm, b) = UNION {P(x) : x \in Did(mm)}
  BY DEF Holding, Did
<1>4. Holding(nn, b) = UNION {P(x) : x \in Did(nn)}
  <2>1. Holding(nn, b) = UNION {{x} \X OfLength(Iroutes[nn.instance[x].cn], b) : x \in Did(nn)}
    BY DEF Holding, Did
  <2> QED
    BY <2>1
<1>5. CASE ~ mm.instance[i].did_iroutes
  <2>1. Did(nn) = Did(mm)
    BY <1>5 DEF Did
  <2> QED
    BY <2>1, <1>2, <1>3, <1>4, <1>5
<1>6. CASE mm.instance[i].did_iroutes
  <2>1. i \in Did(mm)
    BY <1>6 DEF Did
  <2>2. Iroutes[mm.instance[i].cn] \in Seq(Net)
    BY <1>6, MultiAssumption DEF Named
  <2>3. IsFiniteSet(S) /\ Cardinality(S) \in Nat /\ Cardinality(S) = Number(Iroutes[mm.instance[i].cn], b)
    BY <2>2, LengthOfFinite DEF Number
  <2>4. IsFiniteSet({i} \X S) /\ Cardinality({i} \X S) = Cardinality(S)
    <3>1. IsFiniteSet({i}) /\ Cardinality({i}) = 1
      BY FS_Singleton
    <3>2. IsFiniteSet({i} \X S) /\ Cardinality({i} \X S) = Cardinality({i}) * Cardinality(S)
      BY <2>3, <3>1, FS_Product
    <3> HIDE DEF S
    <3> QED
      BY <2>3, <3>1, <3>2
  <2>5. P(i) = {i} \X S
    OBVIOUS
  <2>20. IsFiniteSet(P(i)) /\ Cardinality(P(i)) = Number(Iroutes[mm.instance[i].cn], b)
    BY <2>3, <2>4, <2>5
  <2> HIDE DEF S
  <2>6. Holding(mm, b) = Holding(nn, b) \cup P(i)
    <3> HIDE DEF P
    <3> QED
      BY <1>3, <1>4, <2>1
  <2>7. Holding(nn, b) \cap P(i) = {}
    <3> SUFFICES ASSUME NEW p \in Holding(nn, b), p \in P(i) PROVE FALSE
      OBVIOUS
    <3>1. PICK x \in Did(nn) : p \in P(x)
      BY <1>4
    <3>2. p[1] = x /\ p[1] = i
      BY <3>1
    <3> QED
      BY <3>1, <3>2
  <2> DEFINE H == Holding(nn, b)
             Q == P(i)
  <2>8. Cardinality(H \cup Q) = Cardinality(H) + Cardinality(Q) - Cardinality(H \cap Q)
    <3> HIDE DEF H, Q
    <3>1. IsFiniteSet(H) /\ IsFiniteSet(Q)
      BY <1>2, <2>20 DEF H, Q
    <3> QED
      BY <3>1, FS_Union
  <2>9. Cardinality(H \cap Q) = 0
    BY <2>7, FS_EmptySet
  <2>10. Cardinality(Holding(mm, b)) = Cardinality(Holding(nn, b)) + Number(Iroutes[mm.instance[i].cn], b)
    <3>1. Cardinality(Q) = Number(Iroutes[mm.instance[i].cn], b) /\ Cardinality(Q) \in Nat
      BY <2>20, <2>3
    <3>2. Cardinality(H) \in Nat /\ Cardinality(H) = Cardinality(Holding(nn, b))
      BY <1>2
    <3>3. Cardinality(Holding(mm, b)) = Cardinality(H \cup Q)
      BY <2>6
    <3> HIDE DEF H, Q
    <3> QED
      BY <3>1, <3>2, <3>3, <2>8, <2>9
  <2> QED
    BY <2>10, <1>2, <1>6
<1> QED
  BY <1>5, <1>6, <1>2

LEMMA AllIroutes ==
  ASSUME NEW mm \in Context, NEW i \in Live(mm), mm.instance[i].cn \in CN, RouteInv(mm, i, 0)
  PROVE  LET nets == Iroutes[mm.instance[i].cn]
         IN \E nn : /\ SameClients(mm, nn) /\ RouteInv(nn, i, Len(nets)) /\ SameHosts(mm, nn)
                    /\ multi_add_iroutes(mm, i) = [nn EXCEPT !.instance[i].did_iroutes = TRUE]
<1> DEFINE nets == Iroutes[mm.instance[i].cn]
<1>1. nets \in Seq(Net) /\ Len(nets) \in Nat
  BY MultiAssumption
<1>2. PICK g : /\ Iterating("iroutes", i, nets, mm, Len(nets), g)
               /\ multi_add_iroutes(mm, i) = [g[Len(nets)] EXCEPT !.instance[i].did_iroutes = TRUE]
  BY <1>1, AddIroutesIs
<1>3. /\ g[0] = mm
      /\ \A k \in Nat : k < Len(nets) => g[k + 1] = WithIroute(g[k], i, nets[k + 1])
  <2>1. g[0] = mm /\ \A k \in Nat : k < Len(nets) => g[k + 1] = Step("iroutes", i, nets, g[k], k + 1)
    <3>1. Iterating("iroutes", i, nets, mm, Len(nets), g)
      BY <1>2
    <3>2. \A n \in Nat : Iterating("iroutes", i, nets, mm, n, g) =>
            g[0] = mm /\ \A k \in Nat : k < n => g[k + 1] = Step("iroutes", i, nets, g[k], k + 1)
      BY IteratingIs
    <3> QED
      BY <1>1, <3>1, <3>2, Zenon
  <2>2. \A x, k : Step("iroutes", i, nets, x, k) = WithIroute(x, i, nets[k])
    BY DEF Step
  <2> QED
    BY <2>1, <2>2, Zenon
<1> DEFINE T == {k \in Nat : SameClients(mm, g[k]) /\ RouteInv(g[k], i, k) /\ SameHosts(mm, g[k])}
<1>4. 0 \in T
  BY <1>3, SameReflexive DEF SameHosts
<1>5. ASSUME NEW k \in Nat, k \in T, k < Len(nets) PROVE k + 1 \in T
  <2> DEFINE aa == g[k]
             bb == g[k + 1]
  <2>1. SameClients(mm, aa) /\ RouteInv(aa, i, k) /\ SameHosts(mm, aa)
    BY <1>5
  <2>2. aa \in Context /\ i \in Live(aa) /\ aa.instance[i].cn = mm.instance[i].cn
    BY <2>1, LiveIs DEF SameClients, SameClient
  <2>3. bb = WithIroute(aa, i, nets[k + 1])
    BY <1>3, <1>5
  <2> HIDE DEF aa, bb
  <2>4. k + 1 \in Nat /\ k + 1 > 0 /\ k + 1 <= Len(nets) /\ (k + 1) - 1 = k
    BY <1>1, <1>5
  <2>5. SameClients(aa, bb) /\ RouteInv(bb, i, k + 1) /\ SameHosts(aa, bb)
    BY <2>1, <2>2, <2>3, <2>4, IrouteKeeps
  <2>6. SameClients(mm, bb)
    BY <2>1, <2>5, SameTransitive
  <2>7. SameHosts(mm, bb)
    BY <2>1, <2>5 DEF SameHosts
  <2> QED
    BY <2>5, <2>6, <2>7 DEF bb
<1>6. Len(nets) \in T
  <2> HIDE DEF T
  <2>1. \A k \in 0 .. Len(nets) : k \in T
    BY <1>1, <1>4, <1>5, UpTo
  <2> QED
    BY <2>1, <1>1
<1> QED
  BY <1>2, <1>6

(* Client i is authorized. *)
Authorized(c) == [c EXCEPT !.did_iroutes = TRUE, !.context_auth = TRUE]
Joined(mm, i) == [multi_add_iroutes(mm, i) EXCEPT !.instance[i].context_auth = TRUE]
SameAround(mm, nn) ==
  /\ nn \in Context
  /\ nn.created = mm.created /\ nn.hash = mm.hash /\ nn.pool = mm.pool /\ nn.pending = mm.pending
  /\ nn.mbuf = mm.mbuf /\ nn.n_clients = mm.n_clients /\ nn.failed = mm.failed /\ nn.home = mm.home
  /\ Live(nn) = Live(mm)

LEMMA AuthorizedIs ==
  ASSUME NEW c \in Client
  PROVE  LET d == Authorized(c)
         IN /\ d \in Client /\ d.allocated = c.allocated /\ d.halt = c.halt /\ d.refcount = c.refcount
            /\ d.route_count = c.route_count /\ d.vaddr_handle = c.vaddr_handle /\ d.addr = c.addr
            /\ d.cn = c.cn /\ d.connection_established = c.connection_established
            /\ d.n_clients_delta = c.n_clients_delta /\ d.out = c.out /\ d.context_auth /\ d.did_iroutes
BY DEF Client, Authorized

LEMMA Joins ==
  ASSUME NEW mm \in Context, NEW i \in Live(mm), mm.instance[i].cn \in CN, RouteInv(mm, i, 0),
         ~ mm.instance[i].did_iroutes, NEW nn, nn = Joined(mm, i)
  PROVE  /\ SameAround(mm, nn) /\ RouteInv(nn, Null, 0) /\ SameHosts(mm, nn)
         /\ \A x \in Instance \ {i} : SameClient(mm.instance[x], nn.instance[x])
                                        /\ (mm.instance[x] = Clear => nn.instance[x] = Clear)
         /\ SameClient(Authorized(mm.instance[i]), nn.instance[i])
<1> DEFINE nets == Iroutes[mm.instance[i].cn]
<1>1. PICK oo : /\ SameClients(mm, oo) /\ RouteInv(oo, i, Len(nets)) /\ SameHosts(mm, oo)
                /\ multi_add_iroutes(mm, i) = [oo EXCEPT !.instance[i].did_iroutes = TRUE]
  BY AllIroutes
<1> DEFINE c == oo.instance[i]
           d == Authorized(c)
           f == [oo.instance EXCEPT ![i] = d]
<1>2. /\ nets \in Seq(Net) /\ Len(nets) \in Nat /\ DOMAIN nets = 1 .. Len(nets)
      /\ i \in Instance /\ i # Null /\ oo \in Context /\ Live(oo) = Live(mm)
      /\ c \in Client /\ c.cn = mm.instance[i].cn
  <2>1. nets \in Seq(Net) /\ i \in Instance
    BY MultiAssumption, LiveIs
  <2>2. oo \in Context /\ Live(oo) = Live(mm) /\ c.cn = mm.instance[i].cn
    BY <1>1, <2>1 DEF SameClients, SameClient
  <2>3. c \in Client
    BY <2>1, <2>2 DEF Context
  <2>4. i # Null
    BY <2>1, Finite
  <2>5. Len(nets) \in Nat /\ DOMAIN nets = 1 .. Len(nets)
    <3> HIDE DEF nets
    <3> QED
      BY <2>1
  <2> QED
    BY <2>1, <2>2, <2>3, <2>4, <2>5
<1>3. /\ d \in Client /\ d.allocated = c.allocated /\ d.halt = c.halt /\ d.refcount = c.refcount
      /\ d.route_count = c.route_count /\ d.vaddr_handle = c.vaddr_handle /\ d.addr = c.addr
      /\ d.cn = c.cn /\ d.connection_established = c.connection_established
      /\ d.n_clients_delta = c.n_clients_delta /\ d.out = c.out /\ d.context_auth /\ d.did_iroutes
  BY <1>2, AuthorizedIs
<1>4. nn = [oo EXCEPT !.instance = f]
  <2>1. [c EXCEPT !.did_iroutes = TRUE] \in Client
    BY <1>2 DEF Client
  <2>2. d = [[c EXCEPT !.did_iroutes = TRUE] EXCEPT !.context_auth = TRUE]
    BY <1>2 DEF Client, Authorized
  <2>3. nn = [multi_add_iroutes(mm, i) EXCEPT !.instance[i].context_auth = TRUE]
    BY DEF Joined
  <2> DEFINE e == [c EXCEPT !.did_iroutes = TRUE]
             aa == [oo EXCEPT !.instance[i] = e]
  <2>4. multi_add_iroutes(mm, i) = aa
    BY <1>1, <1>2 DEF Context
  <2> HIDE DEF c, e
  <2>5. [aa EXCEPT !.instance[i].context_auth = TRUE]
          = [oo EXCEPT !.instance = [oo.instance EXCEPT ![i] = [e EXCEPT !.context_auth = TRUE]]]
    BY <1>2 DEF Context
  <2>6. [e EXCEPT !.context_auth = TRUE] = d
    BY <2>2 DEF e
  <2> QED
    BY <2>3, <2>4, <2>5, <2>6, Zenon DEF c
<1> HIDE DEF d
<1>5. f \in [Instance -> Client] /\ \A x \in Instance : f[x] = IF x = i THEN d ELSE oo.instance[x]
  BY <1>2, <1>3 DEF Context
<1> HIDE DEF f
<1>6. /\ nn \in Context /\ nn.instance = f /\ nn.vhash = oo.vhash /\ nn.net_len_refcount = oo.net_len_refcount
      /\ nn.created = oo.created /\ nn.hash = oo.hash /\ nn.pool = oo.pool /\ nn.pending = oo.pending
      /\ nn.mbuf = oo.mbuf /\ nn.n_clients = oo.n_clients /\ nn.failed = oo.failed /\ nn.home = oo.home
  BY <1>2, <1>4, <1>5, SetInstances
<1>7. Live(nn) = Live(mm)
  BY <1>2, <1>3, <1>5, <1>6 DEF Live
<1>8. SameAround(mm, nn)
  BY <1>1, <1>6, <1>7 DEF SameAround, SameClients
<1>9. SameHosts(mm, nn)
  BY <1>1, <1>6 DEF SameHosts
<1>10. \A x \in Instance \ {i} : SameClient(mm.instance[x], nn.instance[x])
                                   /\ (mm.instance[x] = Clear => nn.instance[x] = Clear)
  BY <1>1, <1>5, <1>6 DEF SameClients
<1>11. SameClient(Authorized(mm.instance[i]), nn.instance[i])
  <2>1. SameClient(mm.instance[i], c)
    BY <1>1, <1>2 DEF SameClients
  <2>2. mm.instance[i] \in Client
    BY LiveIs
  <2>3. nn.instance[i] = d
    BY <1>2, <1>5, <1>6
  <2> QED
    <3> DEFINE p == Authorized(mm.instance[i])
    <3>1. /\ p.halt = mm.instance[i].halt /\ p.vaddr_handle = mm.instance[i].vaddr_handle
          /\ p.addr = mm.instance[i].addr /\ p.cn = mm.instance[i].cn
          /\ p.connection_established = mm.instance[i].connection_established
          /\ p.n_clients_delta = mm.instance[i].n_clients_delta /\ p.out = mm.instance[i].out
          /\ p.context_auth /\ p.did_iroutes /\ p \in Client
      BY <2>2, AuthorizedIs
    <3> HIDE DEF p
    <3>2. SameClient(p, d)
      BY <3>1, <2>1, <1>3 DEF SameClient, Client
    <3> QED
      BY <3>2, <2>3 DEF p
<1>12. \A x \in Instance :
          /\ nn.instance[x].halt = oo.instance[x].halt /\ nn.instance[x].cn = oo.instance[x].cn
          /\ nn.instance[x].refcount = oo.instance[x].refcount
          /\ nn.instance[x].route_count = oo.instance[x].route_count
          /\ nn.instance[x].allocated = oo.instance[x].allocated
          /\ x # i => nn.instance[x] = oo.instance[x]
  BY <1>3, <1>5, <1>6
<1>13. Counted(nn)
  <2>1. \A x : RoutesTo(nn, x) = RoutesTo(oo, x)
    BY <1>6 DEF RoutesTo
  <2>2. Counted(oo)
    BY <1>1 DEF RouteInv
  <2> QED
    BY <2>1, <2>2, <1>2, <1>7, <1>12 DEF Counted
<1>14. RouteOk(nn, Null, 0)
  <2>1. RouteOk(oo, i, Len(nets))
    BY <1>1 DEF RouteInv
  <2>2. \A x \in Instance : Nets(oo, x, i, Len(nets)) = Nets(nn, x, Null, 0)
    <3> SUFFICES ASSUME NEW x \in Instance PROVE Nets(oo, x, i, Len(nets)) = Nets(nn, x, Null, 0)
      OBVIOUS
    <3>1. x # Null
      BY Finite
    <3>2. CASE x # i
      BY <3>1, <3>2, <1>12 DEF Nets
    <3>3. CASE x = i
      <4>1. Nets(oo, x, i, Len(nets)) = {nets[k] : k \in 1 .. Len(nets)}
        BY <1>2, <3>3 DEF Nets, Beginning
      <4>2. Nets(nn, x, Null, 0) = ToSet(nets)
        BY <1>2, <1>3, <1>5, <1>6, <3>1, <3>3 DEF Nets
      <4> QED
        BY <4>1, <4>2, <1>2 DEF ToSet
    <3> QED
      BY <3>2, <3>3
  <2>3. nn.instance[i].context_auth
    BY <1>2, <1>3, <1>5, <1>6
  <2>4. \A x \in Live(nn) : x \in Instance
    BY DEF Live
  <2> QED
    BY <1>2, <1>6, <1>7, <1>12, <2>1, <2>2, <2>3, <2>4 DEF RouteOk
<1>15. LengthsOk(nn, Null, 0)
  <2>1. LengthsOk(oo, i, Len(nets))
    BY <1>1 DEF RouteInv
  <2>2. Named(nn)
    BY <2>1, <1>2, <1>7, <1>12, <1>3 DEF Named, LengthsOk, Live
  <2>3. ~ c.did_iroutes /\ nn.instance[i].did_iroutes
    BY <1>1, <1>2, <1>3, <1>5, <1>6 DEF SameClients, SameClient
  <2>4. Did(oo) = Did(nn) \ {i}
    BY <2>3, <1>2, <1>7, <1>12 DEF Did, Live
  <2>5. \A x \in Did(oo) : oo.instance[x].cn = nn.instance[x].cn
    BY <1>12 DEF Did, Live
  <2>6. ASSUME NEW b \in Length PROVE nn.net_len_refcount[b] = Cardinality(Holding(nn, b)) + 0
    <3>1. Cardinality(Holding(nn, b)) = Cardinality(Holding(oo, b)) + Number(nets, b)
          /\ Cardinality(Holding(oo, b)) \in Nat
      <4>1. nn.instance[i].cn = mm.instance[i].cn /\ i \in Live(nn)
        BY <1>2, <1>7, <1>12
      <4> QED
        BY <4>1, <1>2, <1>6, <2>2, <2>3, <2>4, <2>5, HoldingSplit
    <3>2. oo.net_len_refcount[b] = Cardinality(Holding(oo, b)) + Cardinality(First(nets, Len(nets), b))
      BY <2>1, <1>2 DEF LengthsOk
    <3>3. First(nets, Len(nets), b) = OfLength(nets, b)
      BY <1>2 DEF First, OfLength
    <3>4. Number(nets, b) \in Nat
      BY <1>2, LengthOfFinite
    <3> QED
      BY <3>1, <3>2, <3>3, <3>4, <1>6 DEF Number
  <2> QED
    BY <2>2, <2>6 DEF LengthsOk
<1>16. CacheOk(nn)
  <2>1. NoneIsNull(oo) /\ Counted(oo) /\ CacheOk(oo)
    BY <1>1, OkIsNull DEF RouteInv
  <2>2. \A k \in Key : multi_route_defined(nn, nn.vhash[k]) <=> multi_route_defined(oo, oo.vhash[k])
    <3> SUFFICES ASSUME NEW k \in Key
                 PROVE  multi_route_defined(nn, nn.vhash[k]) <=> multi_route_defined(oo, oo.vhash[k])
      OBVIOUS
    <3>1. oo.vhash[k] # NoRoute => oo.vhash[k].instance \in Instance
      BY <2>1, <1>2, Leads
    <3> QED
      BY <3>1, <1>6, <1>12 DEF multi_route_defined
  <2>3. \A a : Routed(nn, a) = Routed(oo, a)
    BY <2>2, <1>6, KeyIs DEF Routed
  <2> QED
    BY <2>1, <2>2, <2>3, <1>6, KeyIs DEF CacheOk
<1> QED
  BY <1>8, <1>9, <1>10, <1>11, <1>13, <1>14, <1>15, <1>16 DEF RouteInv

-----------------------------------------------------------------------------
(* Closing client i. *)
Halted(mm, i) ==
  [mm EXCEPT !.instance[i].halt = TRUE,
             !.n_clients = @ - mm.instance[i].n_clients_delta,
             !.pending = IF @ = i THEN Null ELSE @,
             !.hash = [r \in Real |-> IF @[r] = i THEN Null ELSE @[r]],
             !.mbuf = Dereferenced(@, i)]
Halting(c) == [c EXCEPT !.halt = TRUE]

LEMMA HaltingIs ==
  ASSUME NEW c \in Client
  PROVE  /\ Halting(c) \in Client /\ Halting(c).refcount = c.refcount /\ Halting(c).halt
         /\ Halting(c).route_count = c.route_count /\ Halting(c).allocated = c.allocated
         /\ Halting(c).vaddr_handle = c.vaddr_handle /\ Halting(c).cn = c.cn
BY DEF Client, Halting

LEMMA DereferencedIs ==
  ASSUME NEW q \in Seq(Instance \cup {Null}), NEW i
  PROVE  /\ Dereferenced(q, i) \in Seq(Instance \cup {Null})
         /\ Len(Dereferenced(q, i)) = Len(q) /\ DOMAIN Dereferenced(q, i) = DOMAIN q
         /\ \A k \in DOMAIN q : Dereferenced(q, i)[k] = IF q[k] = i THEN Null ELSE q[k]
<1>1. Len(q) \in Nat /\ q \in [1 .. Len(q) -> Instance \cup {Null}]
  OBVIOUS
<1>2. Dereferenced(q, i) \in [1 .. Len(q) -> Instance \cup {Null}]
  BY <1>1 DEF Dereferenced
<1>3. Dereferenced(q, i) \in Seq(Instance \cup {Null}) /\ Len(Dereferenced(q, i)) = Len(q)
  BY <1>1, <1>2
<1> QED
  BY <1>1, <1>3 DEF Dereferenced

LEMMA HaltedIs ==
  ASSUME NEW mm \in Context, NEW i \in Instance
  PROVE  LET nn == Halted(mm, i)
         IN /\ nn \in Context
            /\ \A x \in Instance : nn.instance[x] = IF x = i THEN Halting(mm.instance[i]) ELSE mm.instance[x]
            /\ nn.created = mm.created /\ nn.vhash = mm.vhash /\ nn.net_len_refcount = mm.net_len_refcount
            /\ nn.pool = mm.pool /\ nn.failed = mm.failed /\ nn.home = mm.home
            /\ nn.hash = [r \in Real |-> IF mm.hash[r] = i THEN Null ELSE mm.hash[r]]
            /\ nn.pending = (IF mm.pending = i THEN Null ELSE mm.pending)
            /\ nn.mbuf = Dereferenced(mm.mbuf, i)
            /\ nn.n_clients = mm.n_clients - mm.instance[i].n_clients_delta
<1> DEFINE c == mm.instance[i]
           f == [mm.instance EXCEPT ![i] = Halting(c)]
           h == [r \in Real |-> IF mm.hash[r] = i THEN Null ELSE mm.hash[r]]
           p == IF mm.pending = i THEN Null ELSE mm.pending
           q == Dereferenced(mm.mbuf, i)
           n == mm.n_clients - c.n_clients_delta
<1>1. c \in Client /\ mm.mbuf \in Seq(Instance \cup {Null})
  BY DEF Context
<1>2. f \in [Instance -> Client]
      /\ \A x \in Instance : f[x] = IF x = i THEN Halting(c) ELSE mm.instance[x]
  BY <1>1, HaltingIs DEF Context
<1>3. h \in [Real -> Instance \cup {Null}] /\ p \in Instance \cup {Null} /\ n \in Int
  BY <1>1 DEF Context, Client
<1>4. q \in Seq(Instance \cup {Null})
  BY <1>1, DereferencedIs
<1>5. Halted(mm, i) = [mm EXCEPT !.instance = f, !.n_clients = n, !.pending = p, !.hash = h, !.mbuf = q]
  BY DEF Halted, Halting, Context
<1> HIDE DEF f, h, p, q, n
<1>6. LET nn == [mm EXCEPT !.instance = f, !.n_clients = n, !.pending = p, !.hash = h, !.mbuf = q]
      IN /\ nn \in Context /\ nn.instance = f
         /\ nn.created = mm.created /\ nn.vhash = mm.vhash /\ nn.net_len_refcount = mm.net_len_refcount
         /\ nn.pool = mm.pool /\ nn.failed = mm.failed /\ nn.home = mm.home
         /\ nn.hash = h /\ nn.pending = p /\ nn.mbuf = q /\ nn.n_clients = n
  BY <1>2, <1>3, <1>4 DEF Context
<1> DEFINE nn == Halted(mm, i)
<1>7. /\ nn \in Context /\ nn.instance = f
      /\ nn.created = mm.created /\ nn.vhash = mm.vhash /\ nn.net_len_refcount = mm.net_len_refcount
      /\ nn.pool = mm.pool /\ nn.failed = mm.failed /\ nn.home = mm.home
      /\ nn.hash = h /\ nn.pending = p /\ nn.mbuf = q /\ nn.n_clients = n
  BY <1>5, <1>6, Zenon
<1> HIDE DEF nn
<1>8. \A x \in Instance : nn.instance[x] = IF x = i THEN Halting(c) ELSE mm.instance[x]
  BY <1>2, <1>7
<1> QED
  BY <1>7, <1>8 DEF nn, h, p, q, n

(* The pool's part of closing and of selecting an address. *)
SameButPool(mm, nn) ==
  /\ nn \in Context /\ nn.instance = mm.instance /\ nn.created = mm.created /\ nn.hash = mm.hash
  /\ nn.vhash = mm.vhash /\ nn.net_len_refcount = mm.net_len_refcount /\ nn.pending = mm.pending
  /\ nn.mbuf = mm.mbuf /\ nn.n_clients = mm.n_clients /\ nn.failed = mm.failed

Releases(mm, nn, i, hard) ==
  LET v == mm.instance[i].vaddr_handle
  IN /\ SameButPool(mm, nn)
     /\ v = NoHandle => nn = mm
     /\ v # NoHandle =>
          /\ \A h \in Handle :
               /\ nn.pool[h].in_use = (IF h = v THEN FALSE ELSE mm.pool[h].in_use)
               /\ nn.pool[h].common_name = (IF h = v /\ hard THEN NoName ELSE mm.pool[h].common_name)
          /\ \A d \in CN : nn.home[d] = IF d = mm.instance[i].cn /\ hard THEN NoHandle ELSE mm.home[d]

LEMMA ReleaseIs ==
  ASSUME NEW mm \in Context, NEW i \in Instance, NEW hard \in BOOLEAN, NEW now \in Nat,
         NEW nn, nn = ifconfig_pool_release(mm, i, hard, now)
  PROVE  Releases(mm, nn, i, hard)
<1> DEFINE v == mm.instance[i].vaddr_handle
           cn == mm.instance[i].cn
           entry == [in_use |-> FALSE, common_name |-> IF hard THEN NoName ELSE mm.pool[v].common_name,
                     last_release |-> IF hard THEN 0 ELSE now]
           po == [mm.pool EXCEPT ![v] = entry]
           ho == [mm.home EXCEPT ![cn] = IF hard THEN NoHandle ELSE mm.home[cn]]
<1>1. v \in Handle \cup {NoHandle}
  BY DEF Context, Client
<1>2. CASE v = NoHandle
  <2>1. nn = mm
    BY <1>2 DEF ifconfig_pool_release
  <2> QED
    BY <2>1, <1>2 DEF SameButPool, Releases
<1>3. CASE v # NoHandle
  <2>1. nn = [mm EXCEPT !.pool = po, !.home = ho]
    BY <1>3 DEF ifconfig_pool_release
  <2>2. v \in Handle /\ mm.pool[v] \in Entry
    BY <1>1, <1>3 DEF Context
  <2>3. entry \in Entry
    BY <2>2 DEF Entry
  <2>4. ~ entry.in_use /\ entry.common_name = IF hard THEN NoName ELSE mm.pool[v].common_name
    OBVIOUS
  <2> HIDE DEF entry
  <2>5. po \in [Handle -> Entry] /\ \A h \in Handle : po[h] = IF h = v THEN entry ELSE mm.pool[h]
    BY <2>2, <2>3 DEF Context
  <2>6. ho \in [CN -> Handle \cup {NoHandle}]
        /\ \A d \in CN : ho[d] = IF d = cn /\ hard THEN NoHandle ELSE mm.home[d]
    <3> HIDE DEF cn
    <3> QED
      BY DEF Context
  <2> HIDE DEF po, ho
  <2>7. SameButPool(mm, nn) /\ nn.pool = po /\ nn.home = ho
    BY <2>1, <2>5, <2>6 DEF Context, SameButPool
  <2>8. \A h \in Handle :
          /\ nn.pool[h].in_use = (IF h = v THEN FALSE ELSE mm.pool[h].in_use)
          /\ nn.pool[h].common_name = (IF h = v /\ hard THEN NoName ELSE mm.pool[h].common_name)
    <3> SUFFICES ASSUME NEW h \in Handle
                 PROVE  /\ nn.pool[h].in_use = (IF h = v THEN FALSE ELSE mm.pool[h].in_use)
                        /\ nn.pool[h].common_name = (IF h = v /\ hard THEN NoName ELSE mm.pool[h].common_name)
      OBVIOUS
    <3>1. entry.in_use = FALSE
      BY <2>4, <2>3 DEF Entry
    <3>2. CASE h = v
      BY <3>2, <3>1, <2>4, <2>5, <2>7
    <3>3. CASE h # v
      BY <3>3, <2>5, <2>7
    <3> QED
      BY <3>2, <3>3
  <2> QED
    BY <1>3, <2>6, <2>7, <2>8 DEF Releases
<1> QED
  BY <1>2, <1>3

LEMMA DelIroutesIs ==
  ASSUME NEW mm \in Context, NEW nets \in Seq(Net),
         \A b \in Length : Number(nets, b) <= mm.net_len_refcount[b]
  PROVE  /\ nets = << >> => multi_del_iroutes(mm, nets) = mm
         /\ nets # << >> =>
              \E f \in [Length -> Int] :
                /\ multi_del_iroutes(mm, nets) = Recounted(mm, f)
                /\ \A b \in Length : f[b] = mm.net_len_refcount[b] - Number(nets, b)
<1>1. CASE nets = << >>
  BY <1>1 DEF multi_del_iroutes
<1>2. CASE nets # << >>
  <2> DEFINE f == [b \in Length |-> mm.net_len_refcount[b] - Number(nets, b)]
             v == [k \in Key |-> Stale(mm.vhash[k])]
  <2>1. Invalidated(mm) = [mm EXCEPT !.vhash = v] /\ v \in [Key -> Route]
    BY InvalidatedIs
  <2> HIDE DEF v
  <2>2. Invalidated(mm).net_len_refcount = mm.net_len_refcount /\ Invalidated(mm) \in Context
    BY <2>1 DEF Context
  <2>3. DOMAIN mm.net_len_refcount = Length /\ \A b \in Length : mm.net_len_refcount[b] \in Int
    BY DEF Context
  <2>4. f \in [Length -> Int]
    BY <2>3, LengthOfFinite
  <2>5. multi_del_iroutes(mm, nets) = [Invalidated(mm) EXCEPT !.net_len_refcount = f]
    <3> DEFINE I == Invalidated(mm)
    <3>1. [I EXCEPT !.net_len_refcount = [b \in DOMAIN @ |-> @[b] - Number(nets, b)]]
            = [I EXCEPT !.net_len_refcount =
                 [b \in DOMAIN I.net_len_refcount |-> I.net_len_refcount[b] - Number(nets, b)]]
      BY <2>2 DEF Context
    <3>2. [b \in DOMAIN I.net_len_refcount |-> I.net_len_refcount[b] - Number(nets, b)] = f
      BY <2>2, <2>3
    <3> HIDE DEF I, f
    <3> QED
      BY <1>2, <3>1, <3>2, <2>3 DEF multi_del_iroutes, Asserted, I
  <2>6. \A b \in Length : f[b] = mm.net_len_refcount[b] - Number(nets, b)
    OBVIOUS
  <2> HIDE DEF f
  <2> QED
    BY <1>2, <2>4, <2>5, <2>6 DEF Recounted
<1> QED
  BY <1>1, <1>2

(* nn is mm after client i has been closed. *)
Rest(c) == [Clear EXCEPT !.halt = TRUE, !.allocated = Less(c).allocated,
                         !.refcount = Less(c).refcount, !.route_count = c.route_count]
Held(mm, i) == IF mm.instance[i].did_iroutes THEN Iroutes[mm.instance[i].cn] ELSE << >>
Closes(mm, nn, i) ==
  /\ nn \in Context
  /\ \A x \in Instance : nn.instance[x] = IF x = i THEN Rest(mm.instance[i]) ELSE mm.instance[x]
  /\ nn.created = mm.created /\ nn.failed = mm.failed /\ \A d \in CN : nn.home[d] = mm.home[d]
  /\ nn.hash = [r \in Real |-> IF mm.hash[r] = i THEN Null ELSE mm.hash[r]]
  /\ nn.pending = (IF mm.pending = i THEN Null ELSE mm.pending)
  /\ nn.mbuf = Dereferenced(mm.mbuf, i)
  /\ nn.n_clients = mm.n_clients - mm.instance[i].n_clients_delta
  /\ \A h \in Handle :
       /\ nn.pool[h].in_use = (IF h = mm.instance[i].vaddr_handle THEN FALSE ELSE mm.pool[h].in_use)
       /\ nn.pool[h].common_name = mm.pool[h].common_name
  /\ \A k \in Key : /\ nn.vhash[k].instance = mm.vhash[k].instance
                    /\ nn.vhash[k].cache = mm.vhash[k].cache
                    /\ mm.vhash[k] = NoRoute => nn.vhash[k] = NoRoute
  /\ \A b \in Length : nn.net_len_refcount[b] = mm.net_len_refcount[b] - Number(Held(mm, i), b)
  /\ \/ NoneFresh(nn)
     \/ Held(mm, i) = << >> /\ nn.vhash = mm.vhash /\ nn.net_len_refcount = mm.net_len_refcount

LEMMA RestIs ==
  ASSUME NEW c \in Client
  PROVE  /\ Rest(c) \in Client /\ Rest(c).halt /\ Rest(c).vaddr_handle = NoHandle
         /\ Rest(c).allocated = Less(c).allocated /\ Rest(c).refcount = Less(c).refcount
         /\ Rest(c).route_count = c.route_count
<1> DEFINE a == Less(c).allocated
           r == Less(c).refcount
           n == c.route_count
           d == [Clear EXCEPT !.refcount = r, !.route_count = n]
           e == [Clear EXCEPT !.halt = TRUE, !.allocated = a]
<1>1. a \in BOOLEAN /\ r \in Int /\ n \in Int
  BY LessIs DEF Client
<1> HIDE DEF a, r, n
<1>2. d \in Client /\ d.refcount = r /\ d.route_count = n /\ d.vaddr_handle = NoHandle
  BY <1>1, ClearType DEF Client, Clear
<1>3. [Clear EXCEPT !.halt = TRUE, !.allocated = a, !.refcount = r, !.route_count = n]
        = [d EXCEPT !.halt = TRUE, !.allocated = a]
  BY DEF Clear
<1> HIDE DEF d
<1>4. LET x == [d EXCEPT !.halt = TRUE, !.allocated = a]
      IN /\ x \in Client /\ x.halt /\ x.vaddr_handle = d.vaddr_handle
         /\ (x.allocated <=> a) /\ x.refcount = d.refcount /\ x.route_count = d.route_count
  BY <1>1, <1>2 DEF Client
<1>5. Rest(c) = [d EXCEPT !.halt = TRUE, !.allocated = a]
  BY <1>3 DEF Rest, a, r, n
<1> DEFINE y == Rest(c)
<1>6. /\ y \in Client /\ y.halt /\ y.vaddr_handle = d.vaddr_handle
      /\ (y.allocated <=> a) /\ y.refcount = d.refcount /\ y.route_count = d.route_count
  BY <1>4, <1>5, Zenon
<1> HIDE DEF y
<1>7. y.allocated \in BOOLEAN
  BY <1>6 DEF Client
<1> QED
  BY <1>1, <1>2, <1>6, <1>7 DEF y, a, r, n

LEMMA CloseIs ==
  ASSUME NEW mm \in Context, NEW i \in Live(mm), NEW now \in Nat, LengthsOk(mm, Null, 0)
  PROVE  Closes(mm, multi_close_instance(mm, i, now), i)
<1> DEFINE c == mm.instance[i]
           nets == Held(mm, i)
           aa == Halted(mm, i)
           bb == ifconfig_pool_release(aa, i, FALSE, now)
           cc == multi_del_iroutes(bb, nets)
           dd == dec_refcount(cc, i)
           nn == multi_close_instance(mm, i, now)
<1>1. i \in Instance /\ c \in Client /\ ~ c.halt
  BY LiveIs
<1>2. nets \in Seq(Net)
  <2>1. c.did_iroutes => c.cn \in CN
    BY DEF LengthsOk, Named
  <2>2. << >> \in Seq(Net)
    OBVIOUS
  <2> QED
    BY <2>1, <2>2, MultiAssumption DEF Held
<1>3. nn = [dd EXCEPT !.instance[i] =
               [Clear EXCEPT !.halt = TRUE, !.allocated = dd.instance[i].allocated,
                             !.refcount = dd.instance[i].refcount, !.route_count = dd.instance[i].route_count]]
  BY <1>1, Zenon DEF multi_close_instance, Asserted, Halted, Held
<1> HIDE DEF nn
<1>4. /\ aa \in Context
      /\ \A x \in Instance : aa.instance[x] = IF x = i THEN Halting(c) ELSE mm.instance[x]
      /\ aa.created = mm.created /\ aa.vhash = mm.vhash /\ aa.net_len_refcount = mm.net_len_refcount
      /\ aa.pool = mm.pool /\ aa.failed = mm.failed /\ aa.home = mm.home
      /\ aa.hash = [r \in Real |-> IF mm.hash[r] = i THEN Null ELSE mm.hash[r]]
      /\ aa.pending = (IF mm.pending = i THEN Null ELSE mm.pending)
      /\ aa.mbuf = Dereferenced(mm.mbuf, i)
      /\ aa.n_clients = mm.n_clients - c.n_clients_delta
  BY <1>1, HaltedIs
<1> HIDE DEF aa
<1> DEFINE h == Halting(c)
<1>5. h \in Client /\ h.refcount = c.refcount /\ h.route_count = c.route_count /\ h.allocated = c.allocated
      /\ h.vaddr_handle = c.vaddr_handle /\ h.cn = c.cn /\ aa.instance[i] = h
  BY <1>1, <1>4, HaltingIs
<1> HIDE DEF h
<1>6. SameButPool(aa, bb) /\ (\A d \in CN : bb.home[d] = mm.home[d])
      /\ \A x \in Handle :
           /\ bb.pool[x].in_use = (IF x = c.vaddr_handle THEN FALSE ELSE mm.pool[x].in_use)
           /\ bb.pool[x].common_name = mm.pool[x].common_name
  <2>1. /\ SameButPool(aa, bb)
        /\ c.vaddr_handle = NoHandle => bb = aa
        /\ c.vaddr_handle # NoHandle =>
             /\ \A x \in Handle :
                  /\ bb.pool[x].in_use = (IF x = c.vaddr_handle THEN FALSE ELSE aa.pool[x].in_use)
                  /\ bb.pool[x].common_name = (IF x = c.vaddr_handle /\ FALSE THEN NoName ELSE aa.pool[x].common_name)
             /\ \A d \in CN : bb.home[d] = IF d = c.cn /\ FALSE THEN NoHandle ELSE aa.home[d]
    <3>1. Releases(aa, bb, i, FALSE)
      <4>1. \A hh \in BOOLEAN : Releases(aa, ifconfig_pool_release(aa, i, hh, now), i, hh)
        BY <1>1, <1>4, ReleaseIs
      <4> QED
        BY <4>1
    <3>2. aa.instance[i].vaddr_handle = c.vaddr_handle /\ aa.instance[i].cn = c.cn
      BY <1>5
    <3> HIDE DEF bb, c
    <3> QED
      BY <3>1, <3>2 DEF Releases
  <2> HIDE DEF bb
  <2>2. CASE c.vaddr_handle = NoHandle
    <3>1. \A x \in Handle : x # c.vaddr_handle
      BY <2>2, Finite
    <3> QED
      BY <3>1, <2>1, <2>2, <1>4
  <2>3. CASE c.vaddr_handle # NoHandle
    BY <2>1, <2>3, <1>4
  <2> QED
    BY <2>1, <2>2, <2>3
<1> HIDE DEF bb
<1>7. bb \in Context /\ bb.net_len_refcount = mm.net_len_refcount /\ bb.vhash = mm.vhash
      /\ bb.instance = aa.instance
  BY <1>4, <1>6 DEF SameButPool
<1>8. \A b \in Length : Number(nets, b) <= mm.net_len_refcount[b] /\ Number(nets, b) \in Nat
  <2> SUFFICES ASSUME NEW b \in Length
               PROVE  Number(nets, b) <= mm.net_len_refcount[b] /\ Number(nets, b) \in Nat
    OBVIOUS
  <2>1. Named(mm) /\ mm.net_len_refcount[b] = Cardinality(Holding(mm, b)) + 0
    BY DEF LengthsOk
  <2>2. IsFiniteSet(Holding(mm, b)) /\ Cardinality(Holding(mm, b)) \in Nat
    BY <2>1, HoldingFinite
  <2>3. IsFiniteSet(OfLength(nets, b)) /\ Number(nets, b) \in Nat
    BY <1>2, LengthOfFinite
  <2>4. Number(nets, b) <= Cardinality(Holding(mm, b))
    <3>1. CASE ~ c.did_iroutes
      <4>1. OfLength(nets, b) = {}
        BY <3>1 DEF Held, OfLength
      <4> QED
        BY <4>1, <2>2, FS_EmptySet DEF Number
    <3>2. CASE c.did_iroutes
      <4>1. {i} \X OfLength(nets, b) \subseteq Holding(mm, b)
        BY <3>2 DEF Held, Holding
      <4> DEFINE S == OfLength(nets, b)
                 H == Holding(mm, b)
      <4>2. IsFiniteSet({i}) /\ Cardinality({i}) = 1
        BY FS_Singleton
      <4>3. Cardinality({i} \X S) = Cardinality({i}) * Cardinality(S) /\ Cardinality(S) \in Nat
        BY <2>3, <4>2, FS_Product DEF Number
      <4>4. Cardinality({i} \X S) <= Cardinality(H)
        BY <4>1, <2>2, FS_Subset
      <4> HIDE DEF S, H
      <4>5. Cardinality(S) <= Cardinality(H)
        BY <4>2, <4>3, <4>4, <2>2 DEF H
      <4> QED
        BY <4>5 DEF S, H, Number
    <3> QED
      BY <3>1, <3>2
  <2> QED
    BY <2>1, <2>2, <2>3, <2>4
<1>9. /\ SameButRoutes(bb, cc)
      /\ \A k \in Key : /\ cc.vhash[k].instance = mm.vhash[k].instance
                        /\ cc.vhash[k].cache = mm.vhash[k].cache
                        /\ mm.vhash[k] = NoRoute => cc.vhash[k] = NoRoute
      /\ \A b \in Length : cc.net_len_refcount[b] = mm.net_len_refcount[b] - Number(nets, b)
      /\ \/ NoneFresh(cc)
         \/ nets = << >> /\ cc.vhash = mm.vhash /\ cc.net_len_refcount = mm.net_len_refcount
  <2>1. /\ nets = << >> => cc = bb
        /\ nets # << >> =>
             \E f \in [Length -> Int] :
               /\ cc = Recounted(bb, f)
               /\ \A b \in Length : f[b] = bb.net_len_refcount[b] - Number(nets, b)
    BY <1>2, <1>7, <1>8, DelIroutesIs
  <2> HIDE DEF cc
  <2>2. CASE nets = << >>
    <3>1. \A b \in Length : Number(nets, b) = 0 /\ mm.net_len_refcount[b] \in Int
      <4>1. \A b : OfLength(nets, b) = {}
        BY <2>2 DEF OfLength
      <4> QED
        BY <4>1, FS_EmptySet DEF Number, Context
    <3> QED
      BY <2>1, <2>2, <3>1, <1>7 DEF SameButRoutes
  <2>3. CASE nets # << >>
    <3> HIDE DEF nets
    <3>1. PICK f \in [Length -> Int] : /\ cc = Recounted(bb, f)
                                       /\ \A b \in Length : f[b] = bb.net_len_refcount[b] - Number(nets, b)
      BY <2>1, <2>3
    <3> QED
      BY <3>1, <1>7, RecountedIs
  <2> QED
    BY <2>2, <2>3
<1> HIDE DEF cc, nets
<1>10. cc \in Context /\ cc.instance[i] = h /\ cc.instance = aa.instance
  BY <1>5, <1>7, <1>9 DEF SameButRoutes
<1>11. dd = [cc EXCEPT !.instance[i] = Less(h)]
  BY <1>1, <1>10, DecIs, Zenon
<1>12. Less(h) \in Client /\ Less(h).refcount = Less(c).refcount /\ Less(h).route_count = c.route_count
       /\ Less(h).allocated = Less(c).allocated
  BY <1>1, <1>5, LessIs DEF Client
<1>13. nn = [cc EXCEPT !.instance[i] = Rest(c)]
  <2> DEFINE l == Less(h)
  <2>1. dd.instance[i] = l
    BY <1>1, <1>10, <1>11 DEF Context
  <2>2. [Clear EXCEPT !.halt = TRUE, !.allocated = dd.instance[i].allocated,
                      !.refcount = dd.instance[i].refcount, !.route_count = dd.instance[i].route_count] = Rest(c)
    BY <2>1, <1>12, Zenon DEF Rest
  <2>3. nn = [[cc EXCEPT !.instance[i] = l] EXCEPT !.instance[i] = Rest(c)]
    BY <1>3, <1>11, <2>2, Zenon
  <2> HIDE DEF l, c
  <2> QED
    BY <2>3, <1>1, <1>10 DEF Context
<1> HIDE DEF dd
<1>14. Rest(c) \in Client
  BY <1>1, RestIs
<1> DEFINE r == Rest(c)
<1>15. /\ nn \in Context /\ nn.instance = [cc.instance EXCEPT ![i] = r]
       /\ nn.created = cc.created /\ nn.hash = cc.hash /\ nn.vhash = cc.vhash
       /\ nn.net_len_refcount = cc.net_len_refcount /\ nn.pool = cc.pool
       /\ nn.pending = cc.pending /\ nn.mbuf = cc.mbuf /\ nn.n_clients = cc.n_clients
       /\ nn.failed = cc.failed /\ nn.home = cc.home
  <2> HIDE DEF r
  <2>1. r \in Client /\ nn = [cc EXCEPT !.instance[i] = r]
    BY <1>13, <1>14 DEF r
  <2> QED
    BY <2>1, <1>1, <1>10, SetClient
<1>16. \A x \in Instance : nn.instance[x] = IF x = i THEN r ELSE mm.instance[x]
  BY <1>4, <1>10, <1>15 DEF Context
<1>17. /\ nn.created = mm.created /\ nn.failed = mm.failed /\ \A d \in CN : nn.home[d] = mm.home[d]
       /\ nn.hash = [x \in Real |-> IF mm.hash[x] = i THEN Null ELSE mm.hash[x]]
       /\ nn.pending = (IF mm.pending = i THEN Null ELSE mm.pending)
       /\ nn.mbuf = Dereferenced(mm.mbuf, i)
       /\ nn.n_clients = mm.n_clients - c.n_clients_delta
  BY <1>4, <1>6, <1>9, <1>15 DEF SameButPool, SameButRoutes
<1>18. \A x \in Handle :
         /\ nn.pool[x].in_use = (IF x = c.vaddr_handle THEN FALSE ELSE mm.pool[x].in_use)
         /\ nn.pool[x].common_name = mm.pool[x].common_name
  <2>1. nn.pool = bb.pool
    BY <1>9, <1>15 DEF SameButRoutes
  <2> QED
    BY <2>1, <1>6, Zenon
<1>19. NoneFresh(cc) => NoneFresh(nn)
  BY <1>15 DEF NoneFresh
<1>20. /\ \A k \in Key : /\ nn.vhash[k].instance = mm.vhash[k].instance
                         /\ nn.vhash[k].cache = mm.vhash[k].cache
                         /\ mm.vhash[k] = NoRoute => nn.vhash[k] = NoRoute
       /\ \A b \in Length : nn.net_len_refcount[b] = mm.net_len_refcount[b] - Number(nets, b)
       /\ \/ NoneFresh(nn)
          \/ nets = << >> /\ nn.vhash = mm.vhash /\ nn.net_len_refcount = mm.net_len_refcount
  <2>1. nn.vhash = cc.vhash /\ nn.net_len_refcount = cc.net_len_refcount
    BY <1>15
  <2> QED
    BY <2>1, <1>9, <1>19, Zenon
<1>21. Closes(mm, nn, i)
  BY <1>15, <1>16, <1>17, <1>18, <1>20, Zenon DEF Closes, nets
<1> QED
  BY <1>21 DEF nn

LEMMA LessAllocated ==
  ASSUME NEW c \in Client, c.refcount = c.route_count + 1, c.route_count \in Nat,
         c.allocated <=> c.refcount > 0
  PROVE  Less(c).refcount = c.route_count /\ (Less(c).allocated <=> Less(c).refcount > 0)
<1>1. /\ c.refcount <= 1 => Less(c).refcount = 0 /\ ~ Less(c).allocated
      /\ ~ (c.refcount <= 1) => Less(c).refcount = c.refcount - 1 /\ Less(c).allocated = c.allocated
  BY LessIs
<1>2. CASE c.refcount <= 1
  BY <1>1, <1>2
<1>3. CASE ~ (c.refcount <= 1)
  <2>1. Less(c).refcount = c.route_count /\ Less(c).allocated = c.allocated
    BY <1>1, <1>3 DEF Client
  <2> QED
    BY <2>1, <1>3
<1> QED
  BY <1>2, <1>3

LEMMA ClosedRoutes ==
  ASSUME NEW mm \in Context, NEW i \in Live(mm), RouteInv(mm, Null, 0), NEW nn, Closes(mm, nn, i)
  PROVE  Live(nn) = Live(mm) \ {i} /\ RouteInv(nn, Null, 0)
<1> DEFINE c == mm.instance[i]
           r == Rest(c)
<1>1. i \in Instance /\ c \in Client /\ c.allocated /\ ~ c.halt /\ nn \in Context
  BY LiveIs DEF Closes
<1>2. /\ r \in Client /\ r.halt /\ r.allocated = Less(c).allocated /\ r.refcount = Less(c).refcount
      /\ r.route_count = c.route_count
  BY <1>1, RestIs
<1> HIDE DEF r
<1>3. \A x \in Instance : nn.instance[x] = IF x = i THEN r ELSE mm.instance[x]
  BY DEF Closes, r
<1>4. Live(nn) = Live(mm) \ {i}
  BY <1>1, <1>2, <1>3 DEF Live
<1>5. Counted(mm) /\ NoneIsNull(mm) /\ RouteOk(mm, Null, 0) /\ LengthsOk(mm, Null, 0) /\ CacheOk(mm)
  BY OkIsNull DEF RouteInv
<1>6. \A k \in Key : /\ nn.vhash[k].instance = mm.vhash[k].instance
                     /\ nn.vhash[k].cache = mm.vhash[k].cache
                     /\ mm.vhash[k] = NoRoute => nn.vhash[k] = NoRoute
  BY DEF Closes
<1>7. Counted(nn)
  <2> SUFFICES ASSUME NEW x \in Instance
               PROVE  /\ nn.instance[x].route_count = Cardinality(RoutesTo(nn, x))
                      /\ nn.instance[x].refcount = nn.instance[x].route_count + (IF x \in Live(nn) THEN 1 ELSE 0)
                      /\ nn.instance[x].allocated <=> nn.instance[x].refcount > 0
                      /\ nn.instance[x].route_count <= MaxRoutes
    BY DEF Counted
  <2>1. RoutesTo(nn, x) = RoutesTo(mm, x) /\ Cardinality(RoutesTo(mm, x)) \in Nat
    BY <1>6, RoutesFinite DEF RoutesTo
  <2>2. /\ mm.instance[x].route_count = Cardinality(RoutesTo(mm, x))
        /\ mm.instance[x].refcount = mm.instance[x].route_count + (IF x \in Live(mm) THEN 1 ELSE 0)
        /\ mm.instance[x].allocated <=> mm.instance[x].refcount > 0
        /\ mm.instance[x].route_count <= MaxRoutes
    BY <1>5 DEF Counted
  <2>3. CASE x # i
    BY <2>1, <2>2, <2>3, <1>3, <1>4
  <2>4. CASE x = i
    <3>1. c.refcount = c.route_count + 1 /\ c.route_count \in Nat /\ (c.allocated <=> c.refcount > 0)
          /\ c.route_count = Cardinality(RoutesTo(mm, x)) /\ c.route_count <= MaxRoutes
      BY <2>1, <2>2, <2>4
    <3>2. Less(c).refcount = c.route_count /\ (Less(c).allocated <=> Less(c).refcount > 0)
      <4> HIDE DEF c
      <4> QED
        BY <3>1, <1>1, LessAllocated
    <3>3. nn.instance[x] = r /\ x \notin Live(nn)
      BY <2>4, <1>3, <1>4
    <3> HIDE DEF c
    <3>4. /\ r.route_count = Cardinality(RoutesTo(nn, x)) /\ r.refcount = r.route_count + 0
          /\ r.allocated <=> r.refcount > 0
          /\ r.route_count <= MaxRoutes
      BY <3>1, <3>2, <1>2, <2>1
    <3> QED
      BY <3>3, <3>4
  <2> QED
    BY <2>3, <2>4
<1>8. \A x \in Instance : Nets(nn, x, Null, 0) = IF x = i THEN Nets(nn, x, Null, 0) ELSE Nets(mm, x, Null, 0)
  BY <1>3, Finite DEF Nets
<1>9. RouteOk(nn, Null, 0)
  <2> SUFFICES ASSUME NEW k \in Key
               PROVE  /\ nn.vhash[k].instance = Null => nn.vhash[k] = NoRoute
                      /\ nn.vhash[k].instance \in Live(nn) =>
                           nn.vhash[k].instance = Null \/ nn.instance[nn.vhash[k].instance].context_auth
                      /\ k \in Net => ~ nn.vhash[k].cache
                      /\ k \in Net /\ nn.vhash[k].instance \in Live(nn) => k \in Nets(nn, nn.vhash[k].instance, Null, 0)
    BY DEF RouteOk
  <2>1. /\ mm.vhash[k].instance = Null => mm.vhash[k] = NoRoute
        /\ mm.vhash[k].instance \in Live(mm) =>
             mm.vhash[k].instance = Null \/ mm.instance[mm.vhash[k].instance].context_auth
        /\ k \in Net => ~ mm.vhash[k].cache
        /\ k \in Net /\ mm.vhash[k].instance \in Live(mm) => k \in Nets(mm, mm.vhash[k].instance, Null, 0)
    BY <1>5 DEF RouteOk
  <2>2. mm.vhash[k].instance \in Live(nn) =>
          /\ mm.vhash[k].instance \in Live(mm) /\ mm.vhash[k].instance \in Instance /\ mm.vhash[k].instance # i
    BY <1>4 DEF Live
  <2> DEFINE x == mm.vhash[k].instance
  <2>3. x \in Live(nn) => nn.instance[x] = mm.instance[x] /\ Nets(nn, x, Null, 0) = Nets(mm, x, Null, 0)
    BY <2>2, <1>3, <1>8
  <2> QED
    BY <2>1, <2>2, <2>3, <1>6
<1>10. LengthsOk(nn, Null, 0)
  <2>1. Named(mm) /\ \A b \in Length : mm.net_len_refcount[b] = Cardinality(Holding(mm, b)) + 0
    BY <1>5 DEF LengthsOk
  <2>2. Named(nn)
    BY <2>1, <1>3, <1>4 DEF Named, Live
  <2>3. Did(nn) = Did(mm) \ {i} /\ \A x \in Did(nn) : nn.instance[x].cn = mm.instance[x].cn
    BY <1>3, <1>4 DEF Did, Live
  <2>4. ASSUME NEW b \in Length PROVE nn.net_len_refcount[b] = Cardinality(Holding(nn, b)) + 0
    <3> DEFINE held == IF c.did_iroutes THEN Number(Iroutes[c.cn], b) ELSE 0
    <3>1. Cardinality(Holding(nn, b)) \in Nat /\ Cardinality(Holding(mm, b)) = Cardinality(Holding(nn, b)) + held
      BY <2>1, <2>3, <1>1, HoldingSplit
    <3>2. nn.net_len_refcount[b] = mm.net_len_refcount[b] - Number(Held(mm, i), b)
      BY DEF Closes
    <3>3. Number(Held(mm, i), b) = held
      <4>1. CASE c.did_iroutes
        BY <4>1 DEF Held
      <4>2. CASE ~ c.did_iroutes
        <5>1. OfLength(Held(mm, i), b) = {}
          BY <4>2 DEF Held, OfLength
        <5> QED
          BY <4>2, <5>1, FS_EmptySet DEF Number
      <4> QED
        BY <4>1, <4>2
    <3>4. held \in Nat
      BY <2>1, LengthOfFinite, MultiAssumption DEF Named
    <3> HIDE DEF held
    <3> QED
      BY <2>1, <3>1, <3>2, <3>3, <3>4
  <2> QED
    BY <2>2, <2>4 DEF LengthsOk
<1>11. CacheOk(nn)
  <2>1. CASE NoneFresh(nn)
    BY <2>1, CacheStale
  <2>2. CASE Held(mm, i) = << >> /\ nn.vhash = mm.vhash /\ nn.net_len_refcount = mm.net_len_refcount
    <3>1. \A n \in Net : n \in Key /\ mm.vhash[n].instance # i
      <4> SUFFICES ASSUME NEW n \in Net, mm.vhash[n].instance = i PROVE FALSE
        BY KeyIs
      <4>1. n \in Nets(mm, i, Null, 0)
        BY <1>5, KeyIs DEF RouteOk
      <4>2. i # Null
        BY <1>1, Finite
      <4>3. n \in ToSet(<< >>)
        BY <2>2, <4>1, <4>2 DEF Nets, Held
      <4> QED
        BY <4>3 DEF ToSet
    <3>2. \A k \in Key : multi_route_defined(nn, nn.vhash[k]) <=>
                           multi_route_defined(mm, mm.vhash[k]) /\ mm.vhash[k].instance # i
      <4> SUFFICES ASSUME NEW k \in Key
                   PROVE  multi_route_defined(nn, nn.vhash[k]) <=>
                            multi_route_defined(mm, mm.vhash[k]) /\ mm.vhash[k].instance # i
        OBVIOUS
      <4>1. multi_route_defined(mm, mm.vhash[k]) <=>
              mm.vhash[k].instance \in Live(mm) /\ (mm.vhash[k].cache => mm.vhash[k].fresh)
        BY <1>5, Leads
      <4>2. NoneIsNull(nn)
        BY <1>9, OkIsNull
      <4>3. multi_route_defined(nn, nn.vhash[k]) <=>
              nn.vhash[k].instance \in Live(nn) /\ (nn.vhash[k].cache => nn.vhash[k].fresh)
        BY <1>1, <1>7, <4>2, Leads
      <4> QED
        BY <4>1, <4>3, <2>2, <1>4
    <3>3. \A a : Routed(nn, a) = Routed(mm, a)
      BY <3>1, <3>2, <2>2 DEF Routed
    <3> SUFFICES ASSUME NEW a \in Addr, nn.vhash[a].cache, multi_route_defined(nn, nn.vhash[a])
                 PROVE  /\ Routed(nn, a) # {}
                        /\ nn.vhash[a].instance = nn.vhash[Longest(Routed(nn, a))].instance
      BY DEF CacheOk
    <3>4. mm.vhash[a].cache /\ multi_route_defined(mm, mm.vhash[a])
      BY <2>2, <3>2, KeyIs
    <3> QED
      BY <3>3, <3>4, <2>2, <1>5 DEF CacheOk
  <2> QED
    BY <2>1, <2>2 DEF Closes
<1> QED
  BY <1>4, <1>7, <1>9, <1>10, <1>11 DEF RouteInv

LEMMA ClosedClients ==
  ASSUME NEW mm \in Context, NEW i \in Live(mm), ClientInv(mm), NEW nn, Closes(mm, nn, i),
         Live(nn) = Live(mm) \ {i}
  PROVE  ClientInv(nn)
<1> DEFINE c == mm.instance[i]
<1>1. i \in Instance /\ c \in Client /\ nn \in Context /\ c # Clear /\ i # Null
  BY LiveIs, Finite DEF Closes
<1>2. \A x \in Live(nn) : x \in Live(mm) /\ x \in Instance /\ x # i /\ nn.instance[x] = mm.instance[x]
  BY DEF Closes, Live
<1>3. Found(nn)
  <2>1. Found(mm)
    BY DEF ClientInv
  <2>2. nn.pending \in Live(nn) \cup {Null}
    BY <2>1 DEF Found, Closes
  <2>3. /\ DOMAIN nn.mbuf = DOMAIN mm.mbuf /\ Len(nn.mbuf) = Len(mm.mbuf)
        /\ \A k \in DOMAIN mm.mbuf : nn.mbuf[k] = IF mm.mbuf[k] = i THEN Null ELSE mm.mbuf[k]
    <3>1. nn.mbuf = Dereferenced(mm.mbuf, i) /\ mm.mbuf \in Seq(Instance \cup {Null})
      BY DEF Closes, Context
    <3> QED
      BY <3>1, DereferencedIs
  <2>4. \A k \in DOMAIN nn.mbuf : nn.mbuf[k] \in Live(nn) \cup {Null}
    BY <2>1, <2>3 DEF Found
  <2>5. \A r \in Real : nn.hash[r] = IF mm.hash[r] = i THEN Null ELSE mm.hash[r]
    BY DEF Closes
  <2>6. \A r \in Real : nn.hash[r] \in Live(nn) \cup {Null}
    BY <2>1, <2>5 DEF Found
  <2>7. \A x \in Live(nn) : \E r \in Real : nn.hash[r] = x
    BY <2>1, <2>5, <1>2 DEF Found
  <2>8. \A r, s \in Real : nn.hash[r] = nn.hash[s] /\ nn.hash[r] # Null => r = s
    BY <2>1, <2>5 DEF Found
  <2> QED
    BY <2>1, <2>2, <2>3, <2>4, <2>6, <2>7, <2>8 DEF Found
<1>4. Progress(mm) /\ Leases(mm)
  BY DEF ClientInv
<1>5. Progress(nn)
  <2>1. nn.n_clients = Cardinality(Connected(nn))
    <3>1. Connected(nn) = Connected(mm) \ {i}
      BY <1>2 DEF Connected
    <3>2. IsFiniteSet(Connected(mm)) /\ Cardinality(Connected(mm)) \in Nat
      BY Finite, FS_Subset, FS_CardinalityType DEF Connected, Live
    <3>3. mm.n_clients = Cardinality(Connected(mm))
          /\ c.n_clients_delta = (IF c.connection_established THEN 1 ELSE 0)
      BY <1>4 DEF Progress
    <3>4. nn.n_clients = mm.n_clients - c.n_clients_delta
      BY DEF Closes
    <3>5. i \in Connected(mm) <=> c.connection_established
      BY DEF Connected
    <3>6. CASE c.connection_established
      BY <3>1, <3>2, <3>3, <3>4, <3>5, <3>6, FS_RemoveElement
    <3>7. CASE ~ c.connection_established
      <4>1. Connected(nn) = Connected(mm)
        BY <3>1, <3>5, <3>7
      <4> QED
        BY <4>1, <3>2, <3>3, <3>4, <3>7
    <3> QED
      BY <3>6, <3>7
  <2>2. \A x \in Instance : nn.created < x => nn.instance[x] = Clear
    BY <1>1, <1>4 DEF Progress, Closes
  <2>3. \A x, y \in Connected(nn) : nn.instance[x].cn = nn.instance[y].cn => x = y
    BY <1>2, <1>4 DEF Progress, Connected
  <2>4. \A x \in Live(nn) :
          LET mi == nn.instance[x]
          IN /\ mi.n_clients_delta = (IF mi.connection_established THEN 1 ELSE 0)
             /\ mi.connection_established => mi.cn \in CN
             /\ ~ mi.connection_established =>
                  /\ mi.vaddr_handle = NoHandle /\ mi.addr = NoAddr
                  /\ ~ mi.context_auth
             /\ mi.did_iroutes = mi.context_auth
    <3> SUFFICES ASSUME NEW x \in Live(nn)
                 PROVE  LET mi == mm.instance[x]
                        IN /\ mi.n_clients_delta = (IF mi.connection_established THEN 1 ELSE 0)
                           /\ mi.connection_established => mi.cn \in CN
                           /\ ~ mi.connection_established =>
                                /\ mi.vaddr_handle = NoHandle /\ mi.addr = NoAddr
                                /\ ~ mi.context_auth
                           /\ mi.did_iroutes = mi.context_auth
      BY <1>2, Zenon
    <3> QED
      BY <1>2, <1>4 DEF Progress
  <2> QED
    BY <2>1, <2>2, <2>3, <2>4 DEF Progress
<1>6. Leases(nn)
  <2>1. \A h \in Handle :
          /\ nn.pool[h].in_use = (IF h = c.vaddr_handle THEN FALSE ELSE mm.pool[h].in_use)
          /\ nn.pool[h].common_name = mm.pool[h].common_name
    BY DEF Closes
  <2>2. \A d \in CN : nn.home[d] = mm.home[d]
    BY DEF Closes
  <2>3. ASSUME NEW x \in Live(nn), nn.instance[x].vaddr_handle # NoHandle
        PROVE  /\ nn.pool[nn.instance[x].vaddr_handle].in_use
               /\ nn.pool[nn.instance[x].vaddr_handle].common_name = nn.instance[x].cn
               /\ nn.instance[x].addr = nn.instance[x].vaddr_handle
    <3> DEFINE v == mm.instance[x].vaddr_handle
    <3>1. x \in Live(mm) /\ x \in Instance /\ x # i /\ nn.instance[x] = mm.instance[x]
      BY <1>2
    <3>2. /\ v # NoHandle /\ mm.pool[v].in_use /\ mm.pool[v].common_name = mm.instance[x].cn
          /\ mm.instance[x].addr = v
      BY <3>1, <2>3, <1>4 DEF Leases
    <3>3. v \in Handle
      BY <3>1, <3>2 DEF Context, Client
    <3>4. v # c.vaddr_handle
      <4> SUFFICES ASSUME v = c.vaddr_handle PROVE FALSE
        OBVIOUS
      <4>1. c.cn = mm.pool[v].common_name
        BY <3>2, <1>4 DEF Leases
      <4>2. x \in Connected(mm) /\ i \in Connected(mm)
        BY <3>1, <3>2, <1>4 DEF Progress, Connected
      <4> QED
        BY <4>1, <4>2, <3>1, <3>2, <1>4 DEF Progress
    <3> QED
      BY <3>1, <3>2, <3>3, <3>4, <2>1
  <2>4. \A x \in Live(nn) :
          /\ nn.instance[x].addr \in Handle => nn.instance[x].vaddr_handle = nn.instance[x].addr
          /\ nn.instance[x].addr \in Host => nn.instance[x].addr \in Push[nn.instance[x].cn]
    BY <1>2, <1>4 DEF Leases
  <2>5. \A h \in Handle : nn.pool[h].in_use => \E x \in Live(nn) : nn.instance[x].vaddr_handle = h
    <3> SUFFICES ASSUME NEW h \in Handle, nn.pool[h].in_use
                 PROVE  \E x \in Live(nn) : nn.instance[x].vaddr_handle = h
      OBVIOUS
    <3>1. h # c.vaddr_handle /\ mm.pool[h].in_use
      BY <2>1
    <3>2. PICK x \in Live(mm) : mm.instance[x].vaddr_handle = h
      BY <3>1, <1>4 DEF Leases
    <3>3. x \in Live(nn)
      BY <3>1, <3>2
    <3> QED
      BY <3>2, <3>3, <1>2
  <2>6. \A h \in Handle : nn.pool[h].common_name \in CN => nn.home[nn.pool[h].common_name] = h
    <3>1. \A h \in Handle : mm.pool[h].common_name \in CN => mm.home[mm.pool[h].common_name] = h
      BY <1>4 DEF Leases
    <3>2. \A h \in Handle : nn.pool[h].common_name = mm.pool[h].common_name
      BY <2>1
    <3> QED
      BY <3>1, <3>2, <2>2
  <2>7. \A d \in CN : nn.home[d] # NoHandle => nn.pool[nn.home[d]].common_name = d
    <3>1. \A d \in CN : mm.home[d] # NoHandle => mm.pool[mm.home[d]].common_name = d
      BY <1>4 DEF Leases
    <3>2. \A h \in Handle : nn.pool[h].common_name = mm.pool[h].common_name
      BY <2>1
    <3>3. \A d \in CN : mm.home[d] \in Handle \cup {NoHandle}
      BY DEF Context
    <3> QED
      BY <3>1, <3>2, <3>3, <2>2
  <2> QED
    BY <2>3, <2>4, <2>5, <2>6, <2>7 DEF Leases
<1> QED
  BY <1>3, <1>5, <1>6 DEF ClientInv

(* multi_close_instance of a client that is not closed. *)
LEMMA CloseKeeps ==
  ASSUME NEW mm, Inv(mm), NEW i \in Live(mm), NEW now \in Nat,
         NEW nn, nn = multi_close_instance(mm, i, now)
  PROVE  /\ Inv(nn) /\ Closes(mm, nn, i) /\ Live(nn) = Live(mm) \ {i}
         /\ Addressed(mm) => Addressed(nn)
<1>1. mm \in Context /\ LengthsOk(mm, Null, 0)
  BY DEF Inv, RouteInv
<1>2. Closes(mm, nn, i)
  BY <1>1, CloseIs
<1>3. Live(nn) = Live(mm) \ {i} /\ RouteInv(nn, Null, 0)
  BY <1>1, <1>2, ClosedRoutes DEF Inv
<1>4. ClientInv(nn)
  BY <1>1, <1>2, <1>3, ClosedClients DEF Inv
<1>5. nn \in Context /\ nn.failed \subseteq {"mi"}
  BY <1>2 DEF Inv, Closes
<1>6. ASSUME Addressed(mm) PROVE Addressed(nn)
  <2> SUFFICES ASSUME NEW x \in Live(nn), nn.instance[x].context_auth, nn.instance[x].addr # NoAddr
               PROVE  nn.vhash[nn.instance[x].addr].instance = x /\ ~ nn.vhash[nn.instance[x].addr].cache
    BY DEF Addressed
  <2>1. x \in Live(mm) /\ x \in Instance /\ nn.instance[x] = mm.instance[x]
    BY <1>2, <1>3 DEF Closes, Live
  <2>2. nn.instance[x].addr \in Key
    BY <2>1, <1>1, KeyIs DEF Context, Client
  <2>3. /\ nn.vhash[nn.instance[x].addr].instance = mm.vhash[nn.instance[x].addr].instance
        /\ nn.vhash[nn.instance[x].addr].cache = mm.vhash[nn.instance[x].addr].cache
    BY <2>2, <1>2 DEF Closes
  <2>4. mm.vhash[mm.instance[x].addr].instance = x /\ ~ mm.vhash[mm.instance[x].addr].cache
    BY <2>1, <1>6 DEF Addressed
  <2> QED
    BY <2>1, <2>3, <2>4
<1> QED
  BY <1>2, <1>3, <1>4, <1>5, <1>6 DEF Inv

(* Each of a set of clients is closed. *)
ClosedAll(mm, nn, is) ==
  /\ Inv(nn) /\ Live(nn) = Live(mm) \ is
  /\ \A x \in Instance : IF x \in is THEN nn.instance[x].vaddr_handle = NoHandle
                         ELSE nn.instance[x] = mm.instance[x]
  /\ nn.created = mm.created /\ nn.failed = mm.failed /\ \A d \in CN : nn.home[d] = mm.home[d]
  /\ nn.pending = (IF mm.pending \in is THEN Null ELSE mm.pending)
  /\ Addressed(mm) => Addressed(nn)

LEMMA CloseAllKeeps ==
  ASSUME NEW mm, Inv(mm), NEW is \in SUBSET Live(mm), NEW now \in Nat,
         NEW nn, nn = CloseAll(mm, is, now)
  PROVE  ClosedAll(mm, nn, is)
<1>1. PICK g : /\ Iterating("close", is, now, mm, MaxInstances, g)
               /\ nn = g[MaxInstances]
  BY CloseAllIs
<1>2. g[0] = mm /\ \A k \in Nat : k < MaxInstances => g[k + 1] = Without(g[k], k + 1, is, now)
  <2> DEFINE w == "close"
  <2>1. Iterating(w, is, now, mm, MaxInstances, g) /\ MaxInstances \in Nat
    BY <1>1, MultiAssumption
  <2>2. \A x, k : Step(w, is, now, x, k) = Without(x, k, is, now)
    BY DEF Step
  <2> HIDE DEF w
  <2>3. g[0] = mm /\ \A k \in Nat : k < MaxInstances => g[k + 1] = Step(w, is, now, g[k], k + 1)
    BY <2>1, IteratingIs
  <2> QED
    BY <2>2, <2>3
<1> DEFINE To(k) == is \cap (1 .. k)
           T == {k \in Nat : ClosedAll(mm, g[k], To(k))}
<1>3. 0 \in T
  <2>1. To(0) = {}
    OBVIOUS
  <2>2. mm.pending \notin {} /\ Live(mm) \ {} = Live(mm)
    OBVIOUS
  <2> QED
    BY <2>1, <2>2, <1>2 DEF ClosedAll
<1>4. ASSUME NEW k \in Nat, k \in T, k < MaxInstances PROVE k + 1 \in T
  <2> DEFINE aa == g[k]
             bb == g[k + 1]
  <2>1. ClosedAll(mm, aa, To(k))
    BY <1>4
  <2>2. bb = Without(aa, k + 1, is, now)
    BY <1>2, <1>4
  <2> HIDE DEF aa, bb
  <2>3. k + 1 \in Nat /\ k + 1 \notin To(k)
    OBVIOUS
  <2>4. CASE k + 1 \notin is
    <3>1. To(k + 1) = To(k)
      <4>1. 1 .. (k + 1) = (1 .. k) \cup {k + 1}
        BY SMT
      <4> QED
        BY <4>1, <2>4
    <3>2. bb = aa
      BY <2>2, <2>4 DEF Without
    <3> QED
      BY <2>1, <2>3, <3>1, <3>2 DEF bb
  <2>5. CASE k + 1 \in is
    <3> DEFINE i == k + 1
    <3>1. To(i) = To(k) \cup {i}
      <4>1. 1 .. (k + 1) = (1 .. k) \cup {k + 1}
        BY SMT
      <4> QED
        BY <4>1, <2>5
    <3>2. bb = multi_close_instance(aa, i, now)
      BY <2>2, <2>5 DEF Without
    <3>3. i \in Live(aa) /\ i \in Instance /\ Inv(aa)
      BY <2>1, <2>3, <2>5 DEF ClosedAll, Live
    <3> HIDE DEF i, To
    <3>4. /\ Inv(bb) /\ Closes(aa, bb, i) /\ Live(bb) = Live(aa) \ {i}
          /\ Addressed(aa) => Addressed(bb)
      BY <3>2, <3>3, CloseKeeps
    <3>5. aa.instance[i] \in Client
      BY <3>3 DEF Inv, Context
    <3>6. Rest(aa.instance[i]).vaddr_handle = NoHandle
      BY <3>5, RestIs
    <3>7. ClosedAll(mm, bb, To(i))
      <4>1. Live(bb) = Live(mm) \ To(i)
        BY <3>1, <3>4, <2>1 DEF ClosedAll
      <4>2. \A x \in Instance : IF x \in To(i) THEN bb.instance[x].vaddr_handle = NoHandle
                                ELSE bb.instance[x] = mm.instance[x]
        <5> SUFFICES ASSUME NEW x \in Instance
                     PROVE  IF x \in To(i) THEN bb.instance[x].vaddr_handle = NoHandle
                            ELSE bb.instance[x] = mm.instance[x]
          OBVIOUS
        <5>1. bb.instance[x] = IF x = i THEN Rest(aa.instance[i]) ELSE aa.instance[x]
          BY <3>4 DEF Closes
        <5>2. IF x \in To(k) THEN aa.instance[x].vaddr_handle = NoHandle ELSE aa.instance[x] = mm.instance[x]
          BY <2>1 DEF ClosedAll
        <5> QED
          BY <5>1, <5>2, <3>1, <3>6
      <4>3. bb.created = mm.created /\ bb.failed = mm.failed /\ \A d \in CN : bb.home[d] = mm.home[d]
        BY <3>4, <2>1 DEF ClosedAll, Closes
      <4>4. bb.pending = (IF mm.pending \in To(i) THEN Null ELSE mm.pending)
        <5>1. aa.pending = (IF mm.pending \in To(k) THEN Null ELSE mm.pending)
          BY <2>1 DEF ClosedAll
        <5>2. bb.pending = (IF aa.pending = i THEN Null ELSE aa.pending)
          BY <3>4 DEF Closes
        <5>3. Null # i
          BY <3>3, Finite
        <5> QED
          BY <5>1, <5>2, <5>3, <3>1
      <4> QED
        BY <4>1, <4>2, <4>3, <4>4, <3>4, <2>1 DEF ClosedAll
    <3> QED
      BY <3>7, <2>3 DEF bb, i, To
  <2> QED
    BY <2>4, <2>5
<1>5. MaxInstances \in T
  <2> HIDE DEF T
  <2>1. MaxInstances \in Nat
    BY MultiAssumption
  <2>2. \A k \in 0 .. MaxInstances : k \in T
    BY <2>1, <1>3, <1>4, UpTo
  <2> QED
    BY <2>1, <2>2
<1>6. To(MaxInstances) = is
  BY DEF Live, Instance
<1> QED
  BY <1>1, <1>5, <1>6

-----------------------------------------------------------------------------
(* What the routes depend on. *)
SameRouting(mm, nn) ==
  /\ nn \in Context /\ nn.vhash = mm.vhash /\ nn.net_len_refcount = mm.net_len_refcount
  /\ \A x \in Instance :
       LET c == mm.instance[x]
           d == nn.instance[x]
       IN /\ d.allocated = c.allocated /\ d.halt = c.halt
          /\ d.refcount = c.refcount /\ d.route_count = c.route_count
          /\ d.context_auth = c.context_auth /\ d.did_iroutes = c.did_iroutes
          /\ c.did_iroutes => d.cn = c.cn

LEMMA SameLive ==
  ASSUME NEW mm, NEW nn, SameRouting(mm, nn)
  PROVE  Live(nn) = Live(mm)
BY DEF SameRouting, Live

LEMMA RoutingKeeps ==
  ASSUME NEW mm \in Context, NEW nn, SameRouting(mm, nn), RouteInv(mm, Null, 0)
  PROVE  RouteInv(nn, Null, 0)
<1>1. nn \in Context /\ nn.vhash = mm.vhash /\ nn.net_len_refcount = mm.net_len_refcount /\ Live(nn) = Live(mm)
  BY SameLive DEF SameRouting
<1>2. \A x \in Instance :
         LET c == mm.instance[x]
             d == nn.instance[x]
         IN /\ d.allocated = c.allocated /\ d.halt = c.halt
            /\ d.refcount = c.refcount /\ d.route_count = c.route_count
            /\ d.context_auth = c.context_auth /\ d.did_iroutes = c.did_iroutes
            /\ c.did_iroutes => d.cn = c.cn
  BY DEF SameRouting
<1>3. Counted(mm) /\ NoneIsNull(mm) /\ RouteOk(mm, Null, 0) /\ LengthsOk(mm, Null, 0) /\ CacheOk(mm)
  BY OkIsNull DEF RouteInv
<1>4. Counted(nn)
  <2>1. \A x : RoutesTo(nn, x) = RoutesTo(mm, x)
    BY <1>1 DEF RoutesTo
  <2> QED
    BY <1>1, <1>2, <1>3, <2>1 DEF Counted
<1>5. \A x \in Live(mm) : x \in Instance /\ x # Null
  BY Finite DEF Live
<1>6. RouteOk(nn, Null, 0)
  <2>1. \A x \in Live(mm) : Nets(nn, x, Null, 0) = Nets(mm, x, Null, 0)
    BY <1>2, <1>5 DEF Nets
  <2>2. \A x \in Live(mm) : nn.instance[x].context_auth = mm.instance[x].context_auth
    BY <1>2, <1>5
  <2> QED
    BY <2>1, <2>2, <1>1, <1>3 DEF RouteOk
<1>7. LengthsOk(nn, Null, 0)
  <2>1. Named(nn)
    BY <1>1, <1>2, <1>3, <1>5 DEF Named, LengthsOk
  <2>2. ASSUME NEW b PROVE Holding(nn, b) = Holding(mm, b)
    <3> DEFINE I == {i \in Live(mm) : mm.instance[i].did_iroutes}
    <3>1. {i \in Live(nn) : nn.instance[i].did_iroutes} = I
      BY <1>1, <1>2, <1>5
    <3>2. \A i \in I : nn.instance[i].cn = mm.instance[i].cn
      BY <1>2, <1>5
    <3>3. Holding(mm, b) = UNION {{i} \X OfLength(Iroutes[mm.instance[i].cn], b) : i \in I}
      BY DEF Holding
    <3>4. Holding(nn, b) = UNION {{i} \X OfLength(Iroutes[nn.instance[i].cn], b) : i \in I}
      BY <3>1, Zenon DEF Holding
    <3> HIDE DEF I
    <3> QED
      BY <3>2, <3>3, <3>4
  <2> QED
    BY <2>1, <2>2, <1>1, <1>3 DEF LengthsOk
<1>8. CacheOk(nn)
  <2>1. \A k \in Key : multi_route_defined(nn, nn.vhash[k]) <=> multi_route_defined(mm, mm.vhash[k])
    <3> SUFFICES ASSUME NEW k \in Key
                 PROVE  multi_route_defined(nn, nn.vhash[k]) <=> multi_route_defined(mm, mm.vhash[k])
      OBVIOUS
    <3>1. mm.vhash[k] # NoRoute => mm.vhash[k].instance \in Instance
      BY <1>3, Leads
    <3>2. mm.vhash[k].instance \in Instance =>
            nn.instance[mm.vhash[k].instance].halt = mm.instance[mm.vhash[k].instance].halt
      BY <1>2
    <3> QED
      BY <3>1, <3>2, <1>1 DEF multi_route_defined
  <2>2. \A a : Routed(nn, a) = Routed(mm, a)
    BY <2>1, <1>1, KeyIs DEF Routed
  <2> QED
    BY <2>1, <2>2, <1>1, <1>3, KeyIs DEF CacheOk
<1> QED
  BY <1>4, <1>6, <1>7, <1>8 DEF RouteInv

(* A client that is not authorized has no routes. *)
LEMMA Starts ==
  ASSUME NEW mm \in Context, RouteInv(mm, Null, 0), NEW i \in Live(mm),
         ~ mm.instance[i].context_auth
  PROVE  /\ \A k \in Key : mm.vhash[k].instance # i
         /\ mm.instance[i].route_count = 0
         /\ RouteInv(mm, i, 0)
<1>1. Counted(mm) /\ NoneIsNull(mm) /\ RouteOk(mm, Null, 0) /\ LengthsOk(mm, Null, 0) /\ CacheOk(mm)
  BY OkIsNull DEF RouteInv
<1>2. i \in Instance /\ i # Null
  BY Finite DEF Live
<1>3. \A k \in Key : mm.vhash[k].instance # i
  BY <1>1, <1>2 DEF RouteOk
<1>4. mm.instance[i].route_count = 0
  <2>1. RoutesTo(mm, i) = {}
    BY <1>3 DEF RoutesTo
  <2> QED
    BY <2>1, <1>1, <1>2, FS_EmptySet DEF Counted
<1>5. RouteOk(mm, i, 0)
  <2>1. \A x \in Instance : x # i => Nets(mm, x, i, 0) = Nets(mm, x, Null, 0)
    BY Finite DEF Nets
  <2> SUFFICES ASSUME NEW k \in Key
               PROVE  /\ mm.vhash[k].instance = Null => mm.vhash[k] = NoRoute
                      /\ mm.vhash[k].instance \in Live(mm) =>
                           mm.vhash[k].instance = i \/ mm.instance[mm.vhash[k].instance].context_auth
                      /\ k \in Net => ~ mm.vhash[k].cache
                      /\ k \in Net /\ mm.vhash[k].instance \in Live(mm) => k \in Nets(mm, mm.vhash[k].instance, i, 0)
    BY DEF RouteOk
  <2>2. mm.vhash[k].instance \in Live(mm) => mm.vhash[k].instance \in Instance /\ mm.vhash[k].instance # Null
    BY Finite DEF Live
  <2> QED
    BY <1>1, <1>3, <2>1, <2>2 DEF RouteOk
<1>6. LengthsOk(mm, i, 0)
  <2>1. \A nets, b : First(nets, 0, b) = {}
    BY DEF First
  <2> QED
    BY <2>1, <1>1, <1>2, FS_EmptySet DEF LengthsOk
<1> QED
  BY <1>1, <1>3, <1>4, <1>5, <1>6 DEF RouteInv

-----------------------------------------------------------------------------
(* The pool. *)
Alone(mm, i) == \A x \in Live(mm) \ {i} : mm.instance[x].cn # mm.instance[i].cn

LEMMA FindIs ==
  ASSUME NEW mm \in Context, NEW cn, NEW h, h = ifconfig_pool_find(mm.pool, cn)
  PROVE  /\ h \in Handle \cup {NoHandle}
         /\ h = NoHandle => \A g \in Handle : mm.pool[g].in_use
         /\ h # NoHandle => ~ mm.pool[h].in_use
         /\ \A g \in Handle : mm.pool[g].common_name = cn /\ ~ mm.pool[g].in_use =>
              h # NoHandle /\ mm.pool[h].common_name = cn
<1> DEFINE free == {g \in Handle : ~ mm.pool[g].in_use}
           previous == {g \in free : mm.pool[g].common_name = cn}
           earliest == {g \in free : \A k \in free : mm.pool[g].last_release <= mm.pool[k].last_release}
<1>1. h = IF free = {} THEN NoHandle ELSE IF previous # {} THEN Min(previous) ELSE Min(earliest)
  BY DEF ifconfig_pool_find
<1>2. free \subseteq Nat /\ free \subseteq Handle /\ NoHandle \notin Handle
  BY Finite
<1>3. previous \subseteq free /\ earliest \subseteq free
  OBVIOUS
<1>4. free # {} => earliest # {}
  <2> SUFFICES ASSUME free # {} PROVE earliest # {}
    OBVIOUS
  <2> DEFINE T == {mm.pool[g].last_release : g \in free}
  <2>1. \A g \in free : mm.pool[g].last_release \in Nat
    BY <1>2 DEF Context, Entry
  <2>2. T \subseteq Nat /\ T # {}
    <3> HIDE DEF free
    <3> QED
      BY <2>1
  <2>3. PICK t \in T : \A u \in T : t <= u
    <3> HIDE DEF T
    <3> QED
      BY <2>2, LeastNat
  <2>4. PICK g \in free : mm.pool[g].last_release = t
    OBVIOUS
  <2>5. \A k \in free : mm.pool[k].last_release \in T
    OBVIOUS
  <2>6. g \in earliest
    <3> HIDE DEF T, free
    <3> QED
      BY <2>3, <2>4, <2>5
  <2> QED
    BY <2>6
<1>5. \A g \in Handle : g \in free <=> ~ mm.pool[g].in_use
  OBVIOUS
<1>6. \A g \in free : g \in previous <=> mm.pool[g].common_name = cn
  OBVIOUS
<1> HIDE DEF free, previous, earliest
<1>7. /\ previous # {} => Min(previous) \in previous
      /\ earliest # {} => Min(earliest) \in earliest
  BY <1>2, <1>3, MinIs
<1>8. CASE free = {}
  BY <1>1, <1>2, <1>5, <1>8
<1>9. CASE free # {} /\ previous # {}
  BY <1>1, <1>2, <1>3, <1>5, <1>6, <1>7, <1>9
<1>10. CASE free # {} /\ previous = {}
  BY <1>1, <1>2, <1>3, <1>4, <1>5, <1>6, <1>7, <1>10
<1> QED
  BY <1>8, <1>9, <1>10

(* nn is mm but for the address of client i, the pool and the homes. *)
Placed(c, v, a) == [c EXCEPT !.vaddr_handle = v, !.addr = a]
Selects(mm, nn, i, v, a) ==
  /\ nn \in Context
  /\ \A x \in Instance : nn.instance[x] = IF x = i THEN Placed(mm.instance[i], v, a) ELSE mm.instance[x]
  /\ nn.created = mm.created /\ nn.hash = mm.hash /\ nn.vhash = mm.vhash
  /\ nn.net_len_refcount = mm.net_len_refcount /\ nn.pending = mm.pending
  /\ nn.mbuf = mm.mbuf /\ nn.n_clients = mm.n_clients /\ nn.failed = mm.failed

LEMMA PlacedIs ==
  ASSUME NEW c \in Client, NEW v \in Handle \cup {NoHandle}, NEW a \in Addr \cup {NoAddr}
  PROVE  LET d == Placed(c, v, a)
         IN /\ d \in Client /\ d.vaddr_handle = v /\ d.addr = a
            /\ d.allocated = c.allocated /\ d.halt = c.halt /\ d.refcount = c.refcount
            /\ d.route_count = c.route_count /\ d.cn = c.cn
            /\ d.connection_established = c.connection_established
            /\ d.context_auth = c.context_auth /\ d.did_iroutes = c.did_iroutes
            /\ d.n_clients_delta = c.n_clients_delta /\ d.out = c.out
BY DEF Client, Placed

LEMMA PlacedTwice ==
  ASSUME NEW c \in Client, NEW v, NEW a, NEW w, NEW b
  PROVE  /\ Placed(Placed(c, v, a), w, b) = Placed(c, w, b)
         /\ Placed(c, c.vaddr_handle, c.addr) = c
BY DEF Client, Placed

(* A client alone of its name gets the entry it had. *)
LEMMA Homes ==
  ASSUME NEW mm \in Context, Leases(mm), NEW i \in Live(mm), mm.instance[i].vaddr_handle = NoHandle,
         mm.instance[i].cn \in CN, Alone(mm, i),
         NEW g \in Handle, mm.pool[g].common_name = mm.instance[i].cn
  PROVE  ~ mm.pool[g].in_use
<1> SUFFICES ASSUME mm.pool[g].in_use PROVE FALSE
  OBVIOUS
<1>1. PICK x \in Live(mm) : mm.instance[x].vaddr_handle = g
  BY DEF Leases
<1>2. mm.instance[x].cn = mm.pool[g].common_name /\ x # i
  BY <1>1, Finite DEF Leases
<1> QED
  BY <1>2 DEF Alone

LEMMA AcquireIs ==
  ASSUME NEW mm \in Context, Leases(mm), NEW i \in Live(mm), mm.instance[i].vaddr_handle = NoHandle,
         mm.instance[i].addr = NoAddr, mm.instance[i].cn \in CN, Alone(mm, i),
         NEW nn, nn = ifconfig_pool_acquire(mm, i)
  PROVE  LET v == ifconfig_pool_find(mm.pool, mm.instance[i].cn)
         IN /\ v = NoHandle => nn = mm
            /\ v # NoHandle =>
                 /\ v \in Handle /\ Selects(mm, nn, i, v, v) /\ Leases(nn)
                 /\ mm.home[mm.instance[i].cn] \in {v, NoHandle}
<1> DEFINE c == mm.instance[i]
           cn == c.cn
           v == ifconfig_pool_find(mm.pool, cn)
<1>1. i \in Instance /\ c \in Client
  BY LiveIs
<1>2. /\ v \in Handle \cup {NoHandle}
      /\ v # NoHandle => ~ mm.pool[v].in_use
      /\ \A g \in Handle : mm.pool[g].common_name = cn /\ ~ mm.pool[g].in_use =>
           v # NoHandle /\ mm.pool[v].common_name = cn
  BY FindIs
<1>3. CASE v = NoHandle
  BY <1>3 DEF ifconfig_pool_acquire
<1>4. CASE v # NoHandle
  <2> DEFINE entry == [in_use |-> TRUE, common_name |-> cn, last_release |-> 0]
             po == [mm.pool EXCEPT ![v] = entry]
             ho == [d \in CN |-> IF d = cn THEN v ELSE IF mm.home[d] = v THEN NoHandle ELSE mm.home[d]]
             p == Placed(c, v, v)
             f == [mm.instance EXCEPT ![i] = p]
  <2>1. nn = [mm EXCEPT !.instance[i].vaddr_handle = v, !.instance[i].addr = v, !.pool[v] = entry, !.home = ho]
    BY <1>4 DEF ifconfig_pool_acquire, Context
  <2>2. v \in Handle /\ v \in Addr /\ entry \in Entry
    BY <1>2, <1>4, KeyIs DEF Entry
  <2>3. p \in Client
    BY <1>1, <2>2, PlacedIs
  <2>4. nn = [mm EXCEPT !.instance = f, !.pool = po, !.home = ho]
    <3> DEFINE c1 == [c EXCEPT !.vaddr_handle = v]
               f1 == [mm.instance EXCEPT ![i] = c1]
    <3>1. p = [c1 EXCEPT !.addr = v] /\ c1 = [mm.instance[i] EXCEPT !.vaddr_handle = v]
      BY <1>1 DEF Client, Placed, p
    <3> HIDE DEF c1
    <3>2. f = [f1 EXCEPT ![i].addr = v]
      BY <1>1, <3>1 DEF Context
    <3>3. f1 = [mm.instance EXCEPT ![i].vaddr_handle = v]
      BY <1>1, <3>1 DEF Context
    <3> HIDE DEF f1, f, po, ho
    <3>4. [mm EXCEPT !.instance[i].vaddr_handle = v, !.instance[i].addr = v, !.pool[v] = entry, !.home = ho]
            = [mm EXCEPT !.instance = f, !.pool = po, !.home = ho]
      BY <3>2, <3>3, <1>1 DEF Context, po
    <3> QED
      BY <2>1, <3>4
  <2>5. entry.in_use = TRUE /\ entry.common_name = cn
    OBVIOUS
  <2> HIDE DEF entry, p, v
  <2>6. /\ po \in [Handle -> Entry] /\ \A h \in Handle : po[h] = IF h = v THEN entry ELSE mm.pool[h]
        /\ f \in [Instance -> Client] /\ \A x \in Instance : f[x] = IF x = i THEN p ELSE mm.instance[x]
    BY <2>2, <2>3, <1>1 DEF Context
  <2>7. /\ ho \in [CN -> Handle \cup {NoHandle}]
        /\ \A d \in CN : ho[d] = IF d = cn THEN v ELSE IF mm.home[d] = v THEN NoHandle ELSE mm.home[d]
    <3> HIDE DEF cn
    <3> QED
      BY <2>2 DEF Context
  <2> HIDE DEF po, f, ho
  <2>8. /\ nn \in Context /\ nn.instance = f /\ nn.pool = po /\ nn.home = ho
        /\ nn.created = mm.created /\ nn.hash = mm.hash /\ nn.vhash = mm.vhash
        /\ nn.net_len_refcount = mm.net_len_refcount /\ nn.pending = mm.pending
        /\ nn.mbuf = mm.mbuf /\ nn.n_clients = mm.n_clients /\ nn.failed = mm.failed
    BY <2>4, <2>6, <2>7 DEF Context
  <2>9. Selects(mm, nn, i, v, v)
    BY <2>6, <2>8 DEF Selects, p
  <2>10. /\ p.vaddr_handle = v /\ p.addr = v /\ p.cn = cn /\ p.allocated = c.allocated /\ p.halt = c.halt
    BY <1>1, <2>2, PlacedIs DEF p
  <2>11. Live(nn) = Live(mm)
    BY <2>6, <2>8, <2>10, <1>1 DEF Live
  <2>12. \A g \in Handle : mm.pool[g].common_name = cn => ~ mm.pool[g].in_use
    BY Homes
  <2>13. \A g \in Handle : mm.pool[g].common_name = cn => mm.home[cn] = g
    BY DEF Leases
  <2>14. \A g \in Handle : mm.pool[g].common_name = cn => g = v
    BY <2>2, <2>12, <2>13, <1>2
  <2>15. mm.home[cn] \in {v, NoHandle}
    <3>1. mm.home[cn] # NoHandle => mm.pool[mm.home[cn]].common_name = cn /\ mm.home[cn] \in Handle
      BY DEF Leases, Context
    <3> QED
      BY <3>1, <2>14
  <2>16. \A x \in Live(mm) : x \in Instance /\ (x # i => mm.instance[x].vaddr_handle # v)
    <3> SUFFICES ASSUME NEW x \in Live(mm), mm.instance[x].vaddr_handle = v PROVE FALSE
      BY DEF Live
    <3>1. mm.pool[v].in_use
      BY <1>4 DEF Leases
    <3> QED
      BY <3>1, <1>2, <1>4
  <2>17. \A x \in Live(nn) : nn.instance[x].vaddr_handle # NoHandle =>
           /\ nn.pool[nn.instance[x].vaddr_handle].in_use
           /\ nn.pool[nn.instance[x].vaddr_handle].common_name = nn.instance[x].cn
           /\ nn.instance[x].addr = nn.instance[x].vaddr_handle
    <3> SUFFICES ASSUME NEW x \in Live(nn), nn.instance[x].vaddr_handle # NoHandle
                 PROVE  /\ nn.pool[nn.instance[x].vaddr_handle].in_use
                        /\ nn.pool[nn.instance[x].vaddr_handle].common_name = nn.instance[x].cn
                        /\ nn.instance[x].addr = nn.instance[x].vaddr_handle
      OBVIOUS
    <3>1. CASE x = i
      BY <3>1, <2>2, <2>5, <2>6, <2>8, <2>10, <1>1
    <3>2. CASE x # i
      <4>1. x \in Live(mm) /\ nn.instance[x] = mm.instance[x] /\ mm.instance[x].vaddr_handle # v
        BY <3>2, <2>6, <2>8, <2>11, <2>16
      <4>2. mm.instance[x].vaddr_handle \in Handle
        BY <4>1, <2>16 DEF Context, Client
      <4>3. nn.pool[mm.instance[x].vaddr_handle] = mm.pool[mm.instance[x].vaddr_handle]
        BY <4>1, <4>2, <2>6, <2>8
      <4> QED
        BY <4>1, <4>3 DEF Leases
    <3> QED
      BY <3>1, <3>2
  <2>18. \A x \in Live(nn) :
           /\ nn.instance[x].addr \in Handle => nn.instance[x].vaddr_handle = nn.instance[x].addr
           /\ nn.instance[x].addr \in Host => nn.instance[x].addr \in Push[nn.instance[x].cn]
    <3> SUFFICES ASSUME NEW x \in Live(nn)
                 PROVE  /\ nn.instance[x].addr \in Handle => nn.instance[x].vaddr_handle = nn.instance[x].addr
                        /\ nn.instance[x].addr \in Host => nn.instance[x].addr \in Push[nn.instance[x].cn]
      OBVIOUS
    <3>1. CASE x = i
      BY <3>1, <2>2, <2>6, <2>8, <2>10, <1>1, MultiAssumption
    <3>2. CASE x # i
      <4>1. x \in Live(mm) /\ nn.instance[x] = mm.instance[x]
        BY <3>2, <2>6, <2>8, <2>11, <2>16
      <4> QED
        BY <4>1 DEF Leases
    <3> QED
      BY <3>1, <3>2
  <2>19. \A h \in Handle : nn.pool[h].in_use => \E x \in Live(nn) : nn.instance[x].vaddr_handle = h
    <3> SUFFICES ASSUME NEW h \in Handle, nn.pool[h].in_use
                 PROVE  \E x \in Live(nn) : nn.instance[x].vaddr_handle = h
      OBVIOUS
    <3>1. CASE h = v
      <4>1. i \in Live(nn) /\ nn.instance[i].vaddr_handle = v
        BY <2>6, <2>8, <2>10, <2>11, <1>1
      <4> QED
        BY <3>1, <4>1
    <3>2. CASE h # v
      <4>1. mm.pool[h].in_use
        BY <3>2, <2>6, <2>8
      <4>2. PICK x \in Live(mm) : mm.instance[x].vaddr_handle = h
        BY <4>1 DEF Leases
      <4>3. x # i /\ x \in Live(nn) /\ nn.instance[x] = mm.instance[x]
        BY <4>2, <2>6, <2>8, <2>11, <2>16, Finite
      <4> QED
        BY <4>2, <4>3
    <3> QED
      BY <3>1, <3>2
  <2>20. \A h \in Handle : nn.pool[h].common_name = IF h = v THEN cn ELSE mm.pool[h].common_name
    BY <2>5, <2>6, <2>8
  <2>21. \A h \in Handle : nn.pool[h].common_name \in CN => nn.home[nn.pool[h].common_name] = h
    <3> SUFFICES ASSUME NEW h \in Handle, nn.pool[h].common_name \in CN
                 PROVE  nn.home[nn.pool[h].common_name] = h
      OBVIOUS
    <3>1. CASE h = v
      BY <3>1, <2>7, <2>8, <2>20
    <3>2. CASE h # v
      <4>1. nn.pool[h].common_name = mm.pool[h].common_name
        BY <3>2, <2>20
      <4>2. mm.home[mm.pool[h].common_name] = h
        BY <4>1 DEF Leases
      <4>3. mm.pool[h].common_name # cn
        BY <3>2, <2>14
      <4> QED
        BY <3>2, <4>1, <4>2, <4>3, <2>7, <2>8
    <3> QED
      BY <3>1, <3>2
  <2>22. \A d \in CN : nn.home[d] # NoHandle => nn.pool[nn.home[d]].common_name = d
    <3> SUFFICES ASSUME NEW d \in CN, nn.home[d] # NoHandle
                 PROVE  nn.pool[nn.home[d]].common_name = d
      OBVIOUS
    <3>1. CASE d = cn
      BY <3>1, <2>2, <2>7, <2>8, <2>20
    <3>2. CASE d # cn
      <4>1. nn.home[d] = mm.home[d] /\ mm.home[d] # v /\ mm.home[d] # NoHandle
        BY <3>2, <2>7, <2>8
      <4>2. mm.home[d] \in Handle /\ mm.pool[mm.home[d]].common_name = d
        BY <4>1 DEF Leases, Context
      <4> QED
        BY <4>1, <4>2, <2>20
    <3> QED
      BY <3>1, <3>2
  <2>23. Leases(nn)
    BY <2>17, <2>18, <2>19, <2>21, <2>22 DEF Leases
  <2> QED
    BY <1>4, <2>2, <2>9, <2>15, <2>23 DEF v
<1> QED
  BY <1>3, <1>4

LEMMA PushIs ==
  ASSUME NEW mm \in Context, Leases(mm), NEW i \in Live(mm), mm.instance[i].cn \in CN, Alone(mm, i),
         NEW push \in Push[mm.instance[i].cn], push # NoAddr,
         NEW nn, nn = multi_select_virtual_addr(mm, i, push)
  PROVE  Selects(mm, nn, i, NoHandle, push) /\ Leases(nn)
<1> DEFINE c == mm.instance[i]
           cn == c.cn
           v == c.vaddr_handle
           rr == ifconfig_pool_release(mm, i, TRUE, 0)
           p == Placed(c, NoHandle, push)
           f == [mm.instance EXCEPT ![i] = p]
<1>1. i \in Instance /\ c \in Client /\ push \in Host /\ push \in Addr
  BY LiveIs, MultiAssumption, KeyIs
<1>2. Releases(mm, rr, i, TRUE)
  <2>1. \A hh \in BOOLEAN, n \in Nat : Releases(mm, ifconfig_pool_release(mm, i, hh, n), i, hh)
    BY <1>1, ReleaseIs
  <2> QED
    BY <2>1
<1>3. SameButPool(mm, rr)
  BY <1>2 DEF Releases
<1>4. nn = [rr EXCEPT !.instance[i].vaddr_handle = NoHandle, !.instance[i].addr = push]
  BY DEF multi_select_virtual_addr
<1> HIDE DEF rr
<1>5. p \in Client /\ p.vaddr_handle = NoHandle /\ p.addr = push /\ p.cn = cn
      /\ p.allocated = c.allocated /\ p.halt = c.halt
  BY <1>1, PlacedIs
<1>6. rr \in Context /\ rr.instance = mm.instance
  BY <1>3 DEF SameButPool
<1>7. nn = [rr EXCEPT !.instance = f]
  <2> DEFINE c1 == [c EXCEPT !.vaddr_handle = NoHandle]
             f1 == [mm.instance EXCEPT ![i] = c1]
  <2>1. p = [c1 EXCEPT !.addr = push] /\ c1 = [mm.instance[i] EXCEPT !.vaddr_handle = NoHandle]
    BY <1>1 DEF Client, Placed
  <2> HIDE DEF c1, p
  <2>2. f = [f1 EXCEPT ![i].addr = push]
    BY <1>1, <2>1 DEF Context
  <2>3. f1 = [mm.instance EXCEPT ![i].vaddr_handle = NoHandle]
    BY <1>1, <2>1 DEF Context
  <2> HIDE DEF f1, f
  <2>4. [rr EXCEPT !.instance[i].vaddr_handle = NoHandle, !.instance[i].addr = push] = [rr EXCEPT !.instance = f]
    BY <2>2, <2>3, <1>1, <1>6 DEF Context
  <2> QED
    BY <1>4, <2>4
<1> HIDE DEF p
<1>8. f \in [Instance -> Client] /\ \A x \in Instance : f[x] = IF x = i THEN p ELSE mm.instance[x]
  BY <1>1, <1>5 DEF Context
<1> HIDE DEF f
<1>9. /\ nn \in Context /\ nn.instance = f /\ nn.pool = rr.pool /\ nn.home = rr.home
      /\ nn.created = rr.created /\ nn.hash = rr.hash /\ nn.vhash = rr.vhash
      /\ nn.net_len_refcount = rr.net_len_refcount /\ nn.pending = rr.pending
      /\ nn.mbuf = rr.mbuf /\ nn.n_clients = rr.n_clients /\ nn.failed = rr.failed
  BY <1>6, <1>7, <1>8, SetInstances
<1>10. Selects(mm, nn, i, NoHandle, push)
  BY <1>3, <1>8, <1>9 DEF Selects, SameButPool, p
<1>11. Live(nn) = Live(mm)
  BY <1>1, <1>5, <1>8, <1>9 DEF Live
<1>12. /\ \A h \in Handle :
            /\ nn.pool[h].in_use <=> (IF h = v THEN FALSE ELSE mm.pool[h].in_use)
            /\ nn.pool[h].common_name = (IF h = v THEN NoName ELSE mm.pool[h].common_name)
       /\ \A d \in CN : nn.home[d] = IF d = cn /\ v # NoHandle THEN NoHandle ELSE mm.home[d]
  <2>1. CASE v = NoHandle
    <3>1. rr = mm /\ \A h \in Handle : h # v
      BY <1>2, <2>1, Finite DEF Releases
    <3> QED
      BY <3>1, <2>1, <1>9
  <2>2. CASE v # NoHandle
    <3>1. /\ \A h \in Handle :
               /\ rr.pool[h].in_use = (IF h = v THEN FALSE ELSE mm.pool[h].in_use)
               /\ rr.pool[h].common_name = (IF h = v /\ TRUE THEN NoName ELSE mm.pool[h].common_name)
          /\ \A d \in CN : rr.home[d] = IF d = cn /\ TRUE THEN NoHandle ELSE mm.home[d]
      BY <1>2, <2>2, Zenon DEF Releases
    <3> HIDE DEF v, cn
    <3>2. \A d \in CN : nn.home[d] = IF d = cn /\ v # NoHandle THEN NoHandle ELSE mm.home[d]
      BY <3>1, <1>9, <2>2
    <3>3. \A h \in Handle : nn.pool[h].common_name = (IF h = v THEN NoName ELSE mm.pool[h].common_name)
      BY <3>1, <1>9
    <3>4. \A h \in Handle : nn.pool[h].in_use <=> (IF h = v THEN FALSE ELSE mm.pool[h].in_use)
      <4> SUFFICES ASSUME NEW h \in Handle
                   PROVE  nn.pool[h].in_use <=> (IF h = v THEN FALSE ELSE mm.pool[h].in_use)
        OBVIOUS
      <4>1. nn.pool[h].in_use = (IF h = v THEN FALSE ELSE mm.pool[h].in_use)
        BY <3>1, <1>9
      <4>2. CASE h = v
        <5>1. nn.pool[h].in_use = FALSE
          BY <4>1, <4>2
        <5> QED
          BY <5>1, <4>2
      <4>3. CASE h # v
        <5>1. nn.pool[h].in_use = mm.pool[h].in_use
          BY <4>1, <4>3
        <5> QED
          BY <5>1, <4>3
      <4> QED
        BY <4>2, <4>3
    <3> QED
      BY <3>2, <3>3, <3>4
  <2> QED
    BY <2>1, <2>2
<1>13. \A x \in Live(mm) : /\ x \in Instance
                           /\ x # i /\ mm.instance[x].vaddr_handle # NoHandle => mm.instance[x].vaddr_handle # v
  <2> SUFFICES ASSUME NEW x \in Live(mm), x # i, mm.instance[x].vaddr_handle # NoHandle,
                      mm.instance[x].vaddr_handle = v
               PROVE  FALSE
    BY DEF Live
  <2>1. mm.pool[v].common_name = mm.instance[x].cn /\ mm.pool[v].common_name = cn
    BY DEF Leases
  <2> QED
    BY <2>1 DEF Alone
<1>14. \A x \in Live(nn) : nn.instance[x].vaddr_handle # NoHandle =>
         /\ nn.pool[nn.instance[x].vaddr_handle].in_use
         /\ nn.pool[nn.instance[x].vaddr_handle].common_name = nn.instance[x].cn
         /\ nn.instance[x].addr = nn.instance[x].vaddr_handle
  <2> SUFFICES ASSUME NEW x \in Live(nn), nn.instance[x].vaddr_handle # NoHandle
               PROVE  /\ nn.pool[nn.instance[x].vaddr_handle].in_use
                      /\ nn.pool[nn.instance[x].vaddr_handle].common_name = nn.instance[x].cn
                      /\ nn.instance[x].addr = nn.instance[x].vaddr_handle
    OBVIOUS
  <2>1. x # i /\ x \in Live(mm) /\ nn.instance[x] = mm.instance[x]
    BY <1>1, <1>5, <1>8, <1>9, <1>11, <1>13
  <2>2. mm.instance[x].vaddr_handle \in Handle /\ mm.instance[x].vaddr_handle # v
    BY <2>1, <1>13 DEF Context, Client
  <2>3. /\ mm.pool[mm.instance[x].vaddr_handle].in_use
        /\ mm.pool[mm.instance[x].vaddr_handle].common_name = mm.instance[x].cn
        /\ mm.instance[x].addr = mm.instance[x].vaddr_handle
    BY <2>1 DEF Leases
  <2> QED
    BY <2>1, <2>2, <2>3, <1>12
<1>15. \A x \in Live(nn) :
         /\ nn.instance[x].addr \in Handle => nn.instance[x].vaddr_handle = nn.instance[x].addr
         /\ nn.instance[x].addr \in Host => nn.instance[x].addr \in Push[nn.instance[x].cn]
  <2> SUFFICES ASSUME NEW x \in Live(nn)
               PROVE  /\ nn.instance[x].addr \in Handle => nn.instance[x].vaddr_handle = nn.instance[x].addr
                      /\ nn.instance[x].addr \in Host => nn.instance[x].addr \in Push[nn.instance[x].cn]
    OBVIOUS
  <2>1. CASE x = i
    BY <2>1, <1>1, <1>5, <1>8, <1>9, MultiAssumption
  <2>2. CASE x # i
    <3>1. x \in Live(mm) /\ nn.instance[x] = mm.instance[x]
      BY <2>2, <1>8, <1>9, <1>11, <1>13
    <3> QED
      BY <3>1 DEF Leases
  <2> QED
    BY <2>1, <2>2
<1>16. \A h \in Handle : nn.pool[h].in_use => \E x \in Live(nn) : nn.instance[x].vaddr_handle = h
  <2> SUFFICES ASSUME NEW h \in Handle, nn.pool[h].in_use
               PROVE  \E x \in Live(nn) : nn.instance[x].vaddr_handle = h
    OBVIOUS
  <2>1. h # v /\ mm.pool[h].in_use
    BY <1>12
  <2>2. PICK x \in Live(mm) : mm.instance[x].vaddr_handle = h
    BY <2>1 DEF Leases
  <2>3. x # i /\ x \in Live(nn) /\ nn.instance[x] = mm.instance[x]
    BY <2>1, <2>2, <1>8, <1>9, <1>11, <1>13
  <2> QED
    BY <2>2, <2>3
<1>17. \A h \in Handle : nn.pool[h].common_name \in CN => nn.home[nn.pool[h].common_name] = h
  <2> SUFFICES ASSUME NEW h \in Handle, nn.pool[h].common_name \in CN
               PROVE  nn.home[nn.pool[h].common_name] = h
    OBVIOUS
  <2>1. h # v /\ nn.pool[h].common_name = mm.pool[h].common_name
    BY <1>12, MultiAssumption
  <2>2. mm.home[mm.pool[h].common_name] = h
    BY <2>1 DEF Leases
  <2>3. v # NoHandle => mm.pool[v].common_name = cn /\ v \in Handle
    BY <1>1 DEF Leases, Client
  <2>4. v # NoHandle => mm.home[cn] = v
    BY <2>3 DEF Leases
  <2> QED
    BY <2>1, <2>2, <2>4, <1>12
<1>18. \A d \in CN : nn.home[d] # NoHandle => nn.pool[nn.home[d]].common_name = d
  <2> SUFFICES ASSUME NEW d \in CN, nn.home[d] # NoHandle
               PROVE  nn.pool[nn.home[d]].common_name = d
    OBVIOUS
  <2>1. nn.home[d] = mm.home[d] /\ ~ (d = cn /\ v # NoHandle)
    BY <1>12
  <2>2. mm.home[d] \in Handle /\ mm.pool[mm.home[d]].common_name = d
    BY <2>1 DEF Leases, Context
  <2>3. v # NoHandle => mm.pool[v].common_name = cn
    BY DEF Leases
  <2>4. mm.home[d] # v
    BY <2>1, <2>2, <2>3, Finite
  <2> QED
    BY <2>1, <2>2, <2>4, <1>12
<1> QED
  BY <1>10, <1>14, <1>15, <1>16, <1>17, <1>18 DEF Leases

(* Both times multi_select_virtual_addr is called. *)
LEMMA SelectIs ==
  ASSUME NEW mm \in Context, Leases(mm), NEW i \in Live(mm), mm.instance[i].vaddr_handle = NoHandle,
         mm.instance[i].addr = NoAddr, mm.instance[i].cn \in CN, Alone(mm, i),
         NEW push \in Push[mm.instance[i].cn] \cup {NoAddr},
         NEW nn, nn = multi_select_virtual_addr(multi_select_virtual_addr(mm, i, NoAddr), i, push)
  PROVE  \E v \in Handle \cup {NoHandle}, a \in Addr \cup {NoAddr} :
           /\ Selects(mm, nn, i, v, a) /\ Leases(nn)
           /\ v # NoHandle => mm.home[mm.instance[i].cn] \in {v, NoHandle}
<1> DEFINE c == mm.instance[i]
           cn == c.cn
           v == ifconfig_pool_find(mm.pool, cn)
           yy == ifconfig_pool_acquire(mm, i)
<1>1. i \in Instance /\ c \in Client
  BY LiveIs
<1>2. multi_select_virtual_addr(mm, i, NoAddr) = yy
  BY DEF multi_select_virtual_addr
<1>3. /\ v = NoHandle => yy = mm
      /\ v # NoHandle =>
           /\ v \in Handle /\ Selects(mm, yy, i, v, v) /\ Leases(yy)
           /\ mm.home[cn] \in {v, NoHandle}
  BY AcquireIs
<1>4. \A x \in Instance : mm.instance[x] = IF x = i THEN Placed(c, NoHandle, NoAddr) ELSE mm.instance[x]
  <2>1. Placed(c, NoHandle, NoAddr) = c
    BY <1>1, PlacedTwice
  <2> QED
    BY <2>1
<1>5. Selects(mm, mm, i, NoHandle, NoAddr)
  BY <1>4 DEF Selects
<1> HIDE DEF v
<1>6. nn = multi_select_virtual_addr(yy, i, push)
  BY <1>2
<1>7. push # NoAddr => push \in Host /\ push \in Addr /\ push \in Push[cn]
  BY MultiAssumption, KeyIs
<1>8. CASE v = NoHandle
  <2>1. yy = mm
    BY <1>3, <1>8
  <2>2. CASE push = NoAddr
    <3>1. nn = mm
      BY <1>6, <2>1, <2>2 DEF multi_select_virtual_addr
    <3> QED
      BY <3>1, <1>5
  <2>3. CASE push # NoAddr
    <3>1. Selects(mm, nn, i, NoHandle, push) /\ Leases(nn)
      BY <1>6, <1>7, <2>1, <2>3, PushIs
    <3> QED
      BY <3>1, <1>7, <2>3
  <2> QED
    BY <2>2, <2>3
<1>9. CASE v # NoHandle
  <2>1. v \in Handle /\ v \in Addr /\ Selects(mm, yy, i, v, v) /\ Leases(yy) /\ mm.home[cn] \in {v, NoHandle}
    BY <1>3, <1>9, KeyIs
  <2> HIDE DEF yy
  <2> DEFINE p == Placed(c, v, v)
  <2>2. yy \in Context /\ yy.instance[i] = p
    BY <1>1, <2>1 DEF Selects
  <2>3. p \in Client /\ p.vaddr_handle = v /\ p.cn = cn /\ p.allocated = c.allocated /\ p.halt = c.halt
    BY <1>1, <2>1, PlacedIs
  <2>4. \A x \in Instance : yy.instance[x] = IF x = i THEN p ELSE mm.instance[x]
    BY <2>1 DEF Selects
  <2> HIDE DEF p
  <2>5. CASE push = NoAddr
    <3>1. nn = yy
      BY <1>6, <1>9, <2>2, <2>3, <2>5 DEF multi_select_virtual_addr
    <3> QED
      BY <3>1, <2>1
  <2>6. CASE push # NoAddr
    <3>1. Live(yy) = Live(mm)
      BY <1>1, <2>3, <2>4 DEF Live
    <3>2. Alone(yy, i)
      BY <3>1, <1>1, <2>3, <2>4 DEF Alone, Live
    <3>3. Selects(yy, nn, i, NoHandle, push) /\ Leases(nn)
      BY <1>6, <1>7, <2>1, <2>2, <2>3, <2>6, <3>1, <3>2, PushIs
    <3>4. Placed(p, NoHandle, push) = Placed(c, NoHandle, push)
      BY <1>1, PlacedTwice DEF p
    <3>5. Selects(mm, nn, i, NoHandle, push)
      <4>1. \A x \in Instance : nn.instance[x] = IF x = i THEN Placed(c, NoHandle, push) ELSE mm.instance[x]
        BY <3>3, <3>4, <2>2, <2>4 DEF Selects
      <4> QED
        BY <4>1, <3>3, <2>1 DEF Selects
    <3> QED
      BY <3>3, <3>5, <1>7, <2>6
  <2> QED
    BY <2>5, <2>6
<1> QED
  BY <1>8, <1>9

-----------------------------------------------------------------------------
(* multi_connection_established. *)
LEMMA LeasesSame ==
  ASSUME NEW mm, Leases(mm), NEW nn, Live(nn) = Live(mm), nn.pool = mm.pool, nn.home = mm.home,
         \A x \in Live(mm) : /\ nn.instance[x].vaddr_handle = mm.instance[x].vaddr_handle
                             /\ nn.instance[x].cn = mm.instance[x].cn
                             /\ nn.instance[x].addr = mm.instance[x].addr
  PROVE  Leases(nn)
BY DEF Leases

HasAddress(mm, nn, i, a) ==
  /\ SameClients(mm, nn) /\ RouteInv(nn, i, 0)
  /\ \A k \in Key : k # a => nn.vhash[k] = mm.vhash[k]
  /\ MaxRoutes > 0 => nn.vhash[a].instance = i /\ ~ nn.vhash[a].cache

LEMMA LearnsAddress ==
  ASSUME NEW mm \in Context, RouteInv(mm, Null, 0), NEW i \in Live(mm), ~ mm.instance[i].context_auth,
         NEW a \in Addr, NEW cache \in BOOLEAN, ~ cache, NEW nn, nn = multi_learn_addr(mm, i, a, cache)
  PROVE  HasAddress(mm, nn, i, a)
<1>1. /\ \A k \in Key : mm.vhash[k].instance # i
      /\ mm.instance[i].route_count = 0
      /\ RouteInv(mm, i, 0)
  BY Starts
<1>2. Counted(mm) /\ NoneIsNull(mm) /\ a \in Key /\ i \in Instance
  BY OkIsNull, KeyIs DEF RouteInv, Live
<1>3. Learnt(mm, nn, i, a, FALSE) /\ cache = FALSE
  <2>1. \A c \in BOOLEAN : Learnt(mm, multi_learn_addr(mm, i, a, c), i, a, c)
    BY <1>2, LearnKeeps
  <2> QED
    BY <2>1
<1>4. CASE ~ Learns(mm, i, a)
  <2>1. nn = mm
    BY <1>3, <1>4 DEF Learnt
  <2>2. ~ (MaxRoutes > 0)
    BY <1>1, <1>2, <1>4 DEF Learns
  <2> QED
    BY <2>1, <2>2, <1>1, SameReflexive DEF HasAddress
<1>5. CASE Learns(mm, i, a)
  <2>1. /\ SameClients(mm, nn) /\ Counted(nn) /\ nn.net_len_refcount = mm.net_len_refcount
        /\ nn.vhash = [mm.vhash EXCEPT ![a] = Leading(i, FALSE)]
    BY <1>3, <1>5 DEF Learnt
  <2>2. RouteInv(nn, i, 0)
    <3>1. \A c \in BOOLEAN : nn.vhash = [mm.vhash EXCEPT ![a] = Leading(i, c)] /\ ~ c => RouteInv(nn, i, 0)
      BY <2>1, <1>1, <1>2, AddrRouteOk
    <3> QED
      BY <3>1, <2>1
  <2>3. \A k \in Key : nn.vhash[k] = IF k = a THEN Leading(i, FALSE) ELSE mm.vhash[k]
    BY <2>1 DEF Context
  <2>4. Leading(i, FALSE).instance = i /\ ~ Leading(i, FALSE).cache
    BY DEF Leading
  <2> QED
    BY <2>1, <2>2, <2>3, <2>4, <1>2 DEF HasAddress
<1> QED
  BY <1>4, <1>5

(* nn is mm with client i's connection about to be found established. *)
Bases(mm, nn, i, v, a, succeeded) ==
  /\ nn \in Context /\ RouteInv(nn, Null, 0) /\ Leases(nn) /\ Live(nn) = Live(mm)
  /\ nn.created = mm.created /\ nn.hash = mm.hash /\ nn.pending = mm.pending
  /\ nn.mbuf = mm.mbuf /\ nn.n_clients = mm.n_clients /\ nn.failed = mm.failed
  /\ \A x \in Instance \ {i} : SameClient(mm.instance[x], nn.instance[x])
                                 /\ (mm.instance[x] = Clear => nn.instance[x] = Clear)
  /\ LET c == mm.instance[i]
         d == nn.instance[i]
     IN /\ d.vaddr_handle = v /\ d.addr = a /\ d.cn = c.cn /\ d.halt = c.halt /\ d.out = c.out
        /\ (d.context_auth <=> succeeded) /\ (d.did_iroutes <=> succeeded)
        /\ d.connection_established = c.connection_established

LEMMA FailsIs ==
  ASSUME NEW mm \in Context, RouteInv(mm, Null, 0), NEW i \in Live(mm),
         ~ mm.instance[i].context_auth, ~ mm.instance[i].did_iroutes,
         NEW v \in Handle \cup {NoHandle}, NEW a \in Addr \cup {NoAddr},
         NEW ss, Selects(mm, ss, i, v, a), Leases(ss)
  PROVE  Bases(mm, ss, i, v, a, FALSE) /\ ss.vhash = mm.vhash
<1> DEFINE c == mm.instance[i]
           d == Placed(c, v, a)
<1>1. i \in Instance /\ c \in Client
  BY LiveIs
<1>2. /\ d \in Client /\ d.vaddr_handle = v /\ d.addr = a
      /\ d.allocated = c.allocated /\ d.halt = c.halt /\ d.refcount = c.refcount
      /\ d.route_count = c.route_count /\ d.cn = c.cn
      /\ d.connection_established = c.connection_established
      /\ d.context_auth = c.context_auth /\ d.did_iroutes = c.did_iroutes
      /\ d.n_clients_delta = c.n_clients_delta /\ d.out = c.out
  BY <1>1, PlacedIs
<1>3. \A x \in Instance : ss.instance[x] = IF x = i THEN d ELSE mm.instance[x]
  BY DEF Selects
<1> HIDE DEF d
<1>4. SameRouting(mm, ss)
  BY <1>2, <1>3 DEF SameRouting, Selects
<1>5. RouteInv(ss, Null, 0) /\ Live(ss) = Live(mm)
  BY <1>4, RoutingKeeps, SameLive
<1>6. \A x \in Instance \ {i} : SameClient(mm.instance[x], ss.instance[x])
                                  /\ (mm.instance[x] = Clear => ss.instance[x] = Clear)
  BY <1>3 DEF SameClient
<1>7. ss.instance[i] = d
  BY <1>1, <1>3
<1> QED
  BY <1>2, <1>5, <1>6, <1>7 DEF Bases, Selects

Succeeds(mm, ss, nn, i, v, a) ==
  /\ Bases(mm, nn, i, v, a, TRUE)
  /\ \A k \in Addr : k # a => /\ nn.vhash[k].instance = ss.vhash[k].instance
                              /\ nn.vhash[k].cache <=> ss.vhash[k].cache
  /\ MaxRoutes > 0 /\ a # NoAddr => nn.vhash[a].instance = i /\ ~ nn.vhash[a].cache

LEMMA SucceedsIs ==
  ASSUME NEW mm \in Context, NEW i \in Live(mm), mm.instance[i].cn \in CN,
         NEW v, NEW a \in Addr \cup {NoAddr}, NEW ss, Bases(mm, ss, i, v, a, FALSE),
         NEW ll, ll = (IF a # NoAddr THEN multi_learn_addr(ss, i, a, FALSE) ELSE ss),
         NEW nn, nn = Joined(ll, i)
  PROVE  Succeeds(mm, ss, nn, i, v, a)
<1>1. /\ ss \in Context /\ RouteInv(ss, Null, 0) /\ Leases(ss) /\ Live(ss) = Live(mm)
      /\ ~ ss.instance[i].context_auth /\ ~ ss.instance[i].did_iroutes
      /\ ss.instance[i].cn = mm.instance[i].cn /\ i \in Instance
      /\ ss.instance[i].vaddr_handle = v /\ ss.instance[i].addr = a
  BY DEF Bases, Live
<1>2. /\ SameClients(ss, ll) /\ RouteInv(ll, i, 0)
      /\ \A k \in Key : k # a => ll.vhash[k] = ss.vhash[k]
      /\ MaxRoutes > 0 /\ a # NoAddr => ll.vhash[a].instance = i /\ ~ ll.vhash[a].cache
  <2>1. CASE a = NoAddr
    <3>1. ll = ss
      BY <2>1
    <3> QED
      BY <3>1, <2>1, <1>1, Starts, SameReflexive
  <2>2. CASE a # NoAddr
    <3>1. ll = multi_learn_addr(ss, i, a, FALSE) /\ a \in Addr
      BY <2>2
    <3> QED
      <4>1. /\ SameClients(ss, ll) /\ RouteInv(ll, i, 0)
            /\ \A k \in Key : k # a => ll.vhash[k] = ss.vhash[k]
            /\ MaxRoutes > 0 => ll.vhash[a].instance = i /\ ~ ll.vhash[a].cache
        <5>1. i \in Live(ss) /\ ss \in Context /\ RouteInv(ss, Null, 0) /\ ~ ss.instance[i].context_auth
          BY <1>1
        <5> QED
          <6>1. \A c \in BOOLEAN : ~ c => HasAddress(ss, multi_learn_addr(ss, i, a, c), i, a)
            BY <5>1, <3>1, LearnsAddress
          <6>2. HasAddress(ss, ll, i, a)
            BY <6>1, <3>1
          <6> QED
            BY <6>2 DEF HasAddress
      <4> QED
        BY <4>1
  <2> QED
    BY <2>1, <2>2
<1>3. /\ ll \in Context /\ i \in Live(ll) /\ ll.instance[i].cn \in CN /\ ~ ll.instance[i].did_iroutes
      /\ Live(ll) = Live(mm)
  BY <1>1, <1>2 DEF SameClients, SameClient
<1>4. /\ SameAround(ll, nn) /\ RouteInv(nn, Null, 0) /\ SameHosts(ll, nn)
      /\ \A x \in Instance \ {i} : SameClient(ll.instance[x], nn.instance[x])
                                     /\ (ll.instance[x] = Clear => nn.instance[x] = Clear)
      /\ SameClient(Authorized(ll.instance[i]), nn.instance[i])
  BY <1>2, <1>3, Joins
<1>5. /\ nn.created = ss.created /\ nn.hash = ss.hash /\ nn.pool = ss.pool /\ nn.pending = ss.pending
      /\ nn.mbuf = ss.mbuf /\ nn.n_clients = ss.n_clients /\ nn.failed = ss.failed /\ nn.home = ss.home
      /\ nn \in Context /\ Live(nn) = Live(mm)
  BY <1>2, <1>3, <1>4 DEF SameAround, SameClients
<1>6. \A x \in Instance \ {i} : SameClient(ss.instance[x], nn.instance[x])
                                  /\ (ss.instance[x] = Clear => nn.instance[x] = Clear)
  <2> SUFFICES ASSUME NEW x \in Instance \ {i}
               PROVE  SameClient(ss.instance[x], nn.instance[x])
                        /\ (ss.instance[x] = Clear => nn.instance[x] = Clear)
    OBVIOUS
  <2>1. SameClient(ss.instance[x], ll.instance[x]) /\ (ss.instance[x] = Clear => ll.instance[x] = Clear)
    BY <1>2 DEF SameClients
  <2>2. SameClient(ll.instance[x], nn.instance[x]) /\ (ll.instance[x] = Clear => nn.instance[x] = Clear)
    BY <1>4
  <2> QED
    BY <2>1, <2>2 DEF SameClient
<1>7. LET c == ss.instance[i]
          d == nn.instance[i]
      IN /\ d.vaddr_handle = v /\ d.addr = a /\ d.cn = c.cn /\ d.halt = c.halt /\ d.out = c.out
         /\ d.context_auth /\ d.did_iroutes
         /\ d.connection_established = c.connection_established
  <2> DEFINE b == ll.instance[i]
             e == Authorized(b)
             d == nn.instance[i]
  <2>1. b \in Client
    BY <1>3, LiveIs
  <2>2. /\ e.halt = b.halt /\ e.vaddr_handle = b.vaddr_handle /\ e.addr = b.addr
        /\ e.cn = b.cn /\ e.connection_established = b.connection_established
        /\ e.out = b.out /\ e.context_auth /\ e.did_iroutes
    BY <2>1, AuthorizedIs
  <2>3. SameClient(ss.instance[i], b)
    BY <1>1, <1>2 DEF SameClients
  <2> HIDE DEF b, e, d
  <2>4. SameClient(e, d)
    BY <1>4 DEF e, b, d
  <2>5. /\ d.vaddr_handle = v /\ d.addr = a /\ d.cn = ss.instance[i].cn /\ d.halt = ss.instance[i].halt
        /\ d.out = ss.instance[i].out /\ d.context_auth /\ d.did_iroutes
        /\ d.connection_established = ss.instance[i].connection_established
    BY <2>2, <2>3, <2>4, <1>1 DEF SameClient
  <2> QED
    BY <2>5 DEF d
<1>8. Leases(nn)
  <2>1. \A x \in Live(ss) : /\ nn.instance[x].vaddr_handle = ss.instance[x].vaddr_handle
                            /\ nn.instance[x].cn = ss.instance[x].cn
                            /\ nn.instance[x].addr = ss.instance[x].addr
    <3> SUFFICES ASSUME NEW x \in Live(ss)
                 PROVE  /\ nn.instance[x].vaddr_handle = ss.instance[x].vaddr_handle
                        /\ nn.instance[x].cn = ss.instance[x].cn
                        /\ nn.instance[x].addr = ss.instance[x].addr
      OBVIOUS
    <3>1. CASE x = i
      BY <3>1, <1>1, <1>7
    <3>2. CASE x # i
      <4>1. x \in Instance \ {i}
        BY <3>2 DEF Live
      <4> QED
        BY <4>1, <1>6 DEF SameClient
    <3> QED
      BY <3>1, <3>2
  <2> QED
    <3>1. Live(nn) = Live(ss) /\ nn.pool = ss.pool /\ nn.home = ss.home /\ Leases(ss)
      BY <1>1, <1>5
    <3> QED
      BY <2>1, <3>1, LeasesSame, Zenon
<1>9. Bases(mm, nn, i, v, a, TRUE)
  <2>1. \A x \in Instance \ {i} : SameClient(mm.instance[x], nn.instance[x])
                                    /\ (mm.instance[x] = Clear => nn.instance[x] = Clear)
    <3> SUFFICES ASSUME NEW x \in Instance \ {i}
                 PROVE  SameClient(mm.instance[x], nn.instance[x])
                          /\ (mm.instance[x] = Clear => nn.instance[x] = Clear)
      OBVIOUS
    <3>1. SameClient(mm.instance[x], ss.instance[x]) /\ (mm.instance[x] = Clear => ss.instance[x] = Clear)
      BY DEF Bases
    <3> QED
      BY <3>1, <1>6 DEF SameClient
  <2>2. /\ nn.created = mm.created /\ nn.hash = mm.hash /\ nn.pending = mm.pending
        /\ nn.mbuf = mm.mbuf /\ nn.n_clients = mm.n_clients /\ nn.failed = mm.failed
    BY <1>5 DEF Bases
  <2>3. LET c == mm.instance[i]
            d == nn.instance[i]
        IN /\ d.vaddr_handle = v /\ d.addr = a /\ d.cn = c.cn /\ d.halt = c.halt /\ d.out = c.out
           /\ (d.context_auth <=> TRUE) /\ (d.did_iroutes <=> TRUE)
           /\ d.connection_established = c.connection_established
    BY <1>7 DEF Bases
  <2> QED
    BY <2>1, <2>2, <2>3, <1>4, <1>5, <1>8 DEF Bases
<1>10. \A k \in Addr : k # a => /\ nn.vhash[k].instance = ss.vhash[k].instance
                                /\ nn.vhash[k].cache <=> ss.vhash[k].cache
  BY <1>2, <1>4, KeyIs DEF SameHosts
<1>11. MaxRoutes > 0 /\ a # NoAddr => nn.vhash[a].instance = i /\ ~ nn.vhash[a].cache
  BY <1>2, <1>4 DEF SameHosts
<1> QED
  BY <1>9, <1>10, <1>11 DEF Succeeds

LEMMA FoundSame ==
  ASSUME NEW mm, Found(mm), NEW nn, Live(nn) = Live(mm), nn.hash = mm.hash, nn.pending = mm.pending,
         nn.mbuf = mm.mbuf
  PROVE  Found(nn)
BY DEF Found

(* What a step keeps, and what it does to the addresses of the pool. *)
HomeStep(mm, nn) ==
  \A x \in Instance :
    LET h == nn.instance[x].vaddr_handle
    IN h # NoHandle /\ mm.instance[x].vaddr_handle = NoHandle =>
         mm.home[nn.instance[x].cn] \in {h, NoHandle}
Keeps(mm, nn) == Inv(nn) /\ HomeStep(mm, nn) /\ (OwnPushes /\ Addressed(mm) => Addressed(nn))

Finding(c) == [c EXCEPT !.connection_established = TRUE, !.n_clients_delta = 1]
Finds(mm, i) == [mm EXCEPT !.instance[i].connection_established = TRUE,
                           !.n_clients = @ + 1, !.instance[i].n_clients_delta = 1]

LEMMA FindingIs ==
  ASSUME NEW c \in Client
  PROVE  LET d == Finding(c)
         IN /\ d \in Client /\ d.connection_established /\ d.n_clients_delta = 1
            /\ d.allocated = c.allocated /\ d.halt = c.halt /\ d.refcount = c.refcount
            /\ d.route_count = c.route_count /\ d.cn = c.cn /\ d.vaddr_handle = c.vaddr_handle
            /\ d.addr = c.addr /\ d.context_auth = c.context_auth /\ d.did_iroutes = c.did_iroutes
            /\ d.out = c.out
<1> DEFINE b == [c EXCEPT !.n_clients_delta = 1]
<1>1. /\ b \in Client /\ b.n_clients_delta = 1
      /\ b.allocated = c.allocated /\ b.halt = c.halt /\ b.refcount = c.refcount
      /\ b.route_count = c.route_count /\ b.cn = c.cn /\ b.vaddr_handle = c.vaddr_handle
      /\ b.addr = c.addr /\ b.context_auth = c.context_auth /\ b.did_iroutes = c.did_iroutes
      /\ b.out = c.out
  BY DEF Client
<1>2. Finding(c) = [b EXCEPT !.connection_established = TRUE]
  BY DEF Finding, Client
<1> HIDE DEF b
<1>3. LET d == [b EXCEPT !.connection_established = TRUE]
      IN /\ d \in Client /\ d.connection_established /\ d.n_clients_delta = b.n_clients_delta
         /\ d.allocated = b.allocated /\ d.halt = b.halt /\ d.refcount = b.refcount
         /\ d.route_count = b.route_count /\ d.cn = b.cn /\ d.vaddr_handle = b.vaddr_handle
         /\ d.addr = b.addr /\ d.context_auth = b.context_auth /\ d.did_iroutes = b.did_iroutes
         /\ d.out = b.out
  BY <1>1 DEF Client
<1> DEFINE e == Finding(c)
<1>4. /\ e \in Client /\ e.connection_established /\ e.n_clients_delta = b.n_clients_delta
      /\ e.allocated = b.allocated /\ e.halt = b.halt /\ e.refcount = b.refcount
      /\ e.route_count = b.route_count /\ e.cn = b.cn /\ e.vaddr_handle = b.vaddr_handle
      /\ e.addr = b.addr /\ e.context_auth = b.context_auth /\ e.did_iroutes = b.did_iroutes
      /\ e.out = b.out
  BY <1>2, <1>3, Zenon
<1> HIDE DEF e
<1> QED
  BY <1>1, <1>4 DEF e

LEMMA FindsIs ==
  ASSUME NEW mm \in Context, NEW i \in Instance, NEW nn, nn = Finds(mm, i)
  PROVE  /\ nn \in Context
         /\ \A x \in Instance : nn.instance[x] = IF x = i THEN Finding(mm.instance[i]) ELSE mm.instance[x]
         /\ nn.n_clients = mm.n_clients + 1
         /\ nn.created = mm.created /\ nn.hash = mm.hash /\ nn.vhash = mm.vhash
         /\ nn.net_len_refcount = mm.net_len_refcount /\ nn.pool = mm.pool /\ nn.home = mm.home
         /\ nn.pending = mm.pending /\ nn.mbuf = mm.mbuf /\ nn.failed = mm.failed
<1> DEFINE c == mm.instance[i]
           d == Finding(c)
           f == [mm.instance EXCEPT ![i] = d]
           n == mm.n_clients + 1
<1>1. c \in Client /\ n \in Int
  BY DEF Context
<1>2. d \in Client
  BY <1>1, FindingIs
<1>3. nn = [mm EXCEPT !.instance = f, !.n_clients = n]
  <2> DEFINE c1 == [c EXCEPT !.connection_established = TRUE]
             f1 == [mm.instance EXCEPT ![i] = c1]
  <2>1. d = [c1 EXCEPT !.n_clients_delta = 1] /\ c1 = [mm.instance[i] EXCEPT !.connection_established = TRUE]
    BY <1>1 DEF Client, Finding
  <2> HIDE DEF c1, d
  <2>2. f = [f1 EXCEPT ![i].n_clients_delta = 1]
    BY <2>1 DEF Context
  <2>3. f1 = [mm.instance EXCEPT ![i].connection_established = TRUE]
    BY <2>1 DEF Context
  <2> HIDE DEF f1, f
  <2>4. Finds(mm, i) = [mm EXCEPT !.instance = f, !.n_clients = n]
    BY <2>2, <2>3 DEF Context, Finds
  <2> QED
    BY <2>4
<1> HIDE DEF d
<1>4. f \in [Instance -> Client] /\ \A x \in Instance : f[x] = IF x = i THEN d ELSE mm.instance[x]
  BY <1>2 DEF Context
<1> HIDE DEF f, n
<1>5. /\ nn \in Context /\ nn.instance = f /\ nn.n_clients = n
      /\ nn.created = mm.created /\ nn.hash = mm.hash /\ nn.vhash = mm.vhash
      /\ nn.net_len_refcount = mm.net_len_refcount /\ nn.pool = mm.pool /\ nn.home = mm.home
      /\ nn.pending = mm.pending /\ nn.mbuf = mm.mbuf /\ nn.failed = mm.failed
  BY <1>1, <1>3, <1>4 DEF Context
<1> QED
  BY <1>4, <1>5 DEF d, n

(* From a context as established, all but found so, the invariant follows. *)
LEMMA FoundEstablished ==
  ASSUME NEW mm, Inv(mm), NEW i \in Live(mm), mm.instance[i].cn \in CN, Alone(mm, i),
         ~ mm.instance[i].connection_established,
         NEW v, NEW a \in Addr \cup {NoAddr}, NEW succeeded \in BOOLEAN,
         NEW bb, Bases(mm, bb, i, v, a, succeeded), NEW nn, nn = Finds(bb, i)
  PROVE  Inv(nn) /\ Live(nn) = Live(mm)
<1> DEFINE b == bb.instance[i]
           d == Finding(b)
<1>1. /\ bb \in Context /\ RouteInv(bb, Null, 0) /\ Leases(bb) /\ Live(bb) = Live(mm)
      /\ bb.created = mm.created /\ bb.hash = mm.hash /\ bb.pending = mm.pending
      /\ bb.mbuf = mm.mbuf /\ bb.n_clients = mm.n_clients /\ bb.failed = mm.failed
      /\ \A x \in Instance \ {i} : SameClient(mm.instance[x], bb.instance[x])
                                     /\ (mm.instance[x] = Clear => bb.instance[x] = Clear)
  BY DEF Bases
<1>2. /\ b.vaddr_handle = v /\ b.addr = a /\ b.cn = mm.instance[i].cn
      /\ (b.context_auth <=> succeeded) /\ (b.did_iroutes <=> succeeded)
      /\ b.connection_established = mm.instance[i].connection_established
  BY DEF Bases
<1>3. mm \in Context /\ ClientInv(mm) /\ mm.failed \subseteq {"mi"} /\ i \in Instance /\ b \in Client
  BY <1>1 DEF Inv, Live, Context
<1>4. /\ nn \in Context
      /\ \A x \in Instance : nn.instance[x] = IF x = i THEN d ELSE bb.instance[x]
      /\ nn.n_clients = bb.n_clients + 1
      /\ nn.created = bb.created /\ nn.hash = bb.hash /\ nn.vhash = bb.vhash
      /\ nn.net_len_refcount = bb.net_len_refcount /\ nn.pool = bb.pool /\ nn.home = bb.home
      /\ nn.pending = bb.pending /\ nn.mbuf = bb.mbuf /\ nn.failed = bb.failed
  BY <1>1, <1>3, FindsIs
<1>5. /\ d \in Client /\ d.connection_established /\ d.n_clients_delta = 1
      /\ d.allocated = b.allocated /\ d.halt = b.halt /\ d.refcount = b.refcount
      /\ d.route_count = b.route_count /\ d.cn = b.cn /\ d.vaddr_handle = b.vaddr_handle
      /\ d.addr = b.addr /\ d.context_auth = b.context_auth /\ d.did_iroutes = b.did_iroutes
  BY <1>3, FindingIs
<1> HIDE DEF d
<1>6. SameRouting(bb, nn)
  BY <1>4, <1>5 DEF SameRouting
<1>7. RouteInv(nn, Null, 0) /\ Live(nn) = Live(mm)
  BY <1>1, <1>6, RoutingKeeps, SameLive
<1>8. Found(nn)
  <2>1. Found(mm) /\ nn.hash = mm.hash /\ nn.pending = mm.pending /\ nn.mbuf = mm.mbuf
    BY <1>1, <1>3, <1>4 DEF ClientInv
  <2> QED
    BY <2>1, <1>7, FoundSame, Zenon
<1>9. Leases(nn)
  <2>1. \A x \in Live(bb) : /\ nn.instance[x].vaddr_handle = bb.instance[x].vaddr_handle
                            /\ nn.instance[x].cn = bb.instance[x].cn
                            /\ nn.instance[x].addr = bb.instance[x].addr
    BY <1>4, <1>5 DEF Live
  <2>2. Live(nn) = Live(bb) /\ nn.pool = bb.pool /\ nn.home = bb.home /\ Leases(bb)
    BY <1>1, <1>4, <1>7
  <2> QED
    BY <2>1, <2>2, LeasesSame, Zenon
<1>10. Progress(mm)
  BY <1>3 DEF ClientInv
<1>11. \A x \in Live(mm) : x # i => x \in Instance /\ SameClient(mm.instance[x], nn.instance[x])
  BY <1>1, <1>4 DEF Live
<1>12. Progress(nn)
  <2>1. Connected(nn) = Connected(mm) \cup {i} /\ i \notin Connected(mm)
    <3>1. i \in Connected(nn)
      BY <1>3, <1>4, <1>5, <1>7 DEF Connected
    <3>2. \A x \in Live(mm) : x # i =>
            (nn.instance[x].connection_established <=> mm.instance[x].connection_established)
      BY <1>11 DEF SameClient
    <3> QED
      BY <3>1, <3>2, <1>7 DEF Connected
  <2>2. nn.n_clients = Cardinality(Connected(nn))
    <3>1. IsFiniteSet(Connected(mm)) /\ Cardinality(Connected(mm)) \in Nat
      BY Finite, FS_Subset, FS_CardinalityType DEF Connected, Live
    <3>2. Cardinality(Connected(nn)) = Cardinality(Connected(mm)) + 1
      BY <2>1, <3>1, FS_AddElement
    <3> QED
      BY <3>2, <1>1, <1>4, <1>10 DEF Progress
  <2>3. \A x \in Instance : nn.created < x => nn.instance[x] = Clear
    <3> SUFFICES ASSUME NEW x \in Instance, nn.created < x PROVE nn.instance[x] = Clear
      OBVIOUS
    <3>1. mm.created < x /\ mm.instance[x] = Clear
      BY <1>1, <1>4, <1>10 DEF Progress
    <3>2. x # i
      BY <3>1, <1>3, LiveIs
    <3> QED
      BY <3>1, <3>2, <1>1, <1>4
  <2>4. \A x \in Live(nn) :
          LET mi == nn.instance[x]
          IN /\ mi.n_clients_delta = (IF mi.connection_established THEN 1 ELSE 0)
             /\ mi.connection_established => mi.cn \in CN
             /\ ~ mi.connection_established =>
                  /\ mi.vaddr_handle = NoHandle /\ mi.addr = NoAddr
                  /\ ~ mi.context_auth
             /\ mi.did_iroutes = mi.context_auth
    <3> SUFFICES ASSUME NEW x \in Live(nn), NEW mi, mi = nn.instance[x]
                 PROVE  /\ mi.n_clients_delta = (IF mi.connection_established THEN 1 ELSE 0)
                        /\ mi.connection_established => mi.cn \in CN
                        /\ ~ mi.connection_established =>
                             /\ mi.vaddr_handle = NoHandle /\ mi.addr = NoAddr
                             /\ ~ mi.context_auth
                        /\ mi.did_iroutes = mi.context_auth
      OBVIOUS
    <3>1. CASE x = i
      <4>1. mi = d
        BY <3>1, <1>3, <1>4
      <4>2. mi.did_iroutes \in BOOLEAN /\ mi.context_auth \in BOOLEAN
        BY <4>1, <1>5 DEF Client
      <4>3. (mi.did_iroutes <=> succeeded) /\ (mi.context_auth <=> succeeded)
        BY <4>1, <1>2, <1>5
      <4> QED
        BY <4>1, <4>2, <4>3, <1>2, <1>5
    <3>2. CASE x # i
      <4> DEFINE e == mm.instance[x]
      <4>1. SameClient(e, mi) /\ x \in Live(mm)
        BY <3>2, <1>7, <1>11
      <4>2. /\ e.n_clients_delta = (IF e.connection_established THEN 1 ELSE 0)
            /\ e.connection_established => e.cn \in CN
            /\ ~ e.connection_established =>
                 /\ e.vaddr_handle = NoHandle /\ e.addr = NoAddr
                 /\ ~ e.context_auth
            /\ e.did_iroutes = e.context_auth
        BY <4>1, <1>10 DEF Progress
      <4> HIDE DEF e
      <4> QED
        BY <4>1, <4>2 DEF SameClient
    <3> QED
      BY <3>1, <3>2
  <2>5. \A x, y \in Connected(nn) : nn.instance[x].cn = nn.instance[y].cn => x = y
    <3>1. nn.instance[i].cn = mm.instance[i].cn
      BY <1>2, <1>3, <1>4, <1>5
    <3>2. \A x \in Connected(mm) : x \in Live(mm) /\ x # i /\ nn.instance[x].cn = mm.instance[x].cn
      BY <2>1, <1>11 DEF Connected, SameClient
    <3>3. \A x \in Connected(mm) : nn.instance[x].cn # nn.instance[i].cn
      BY <3>1, <3>2 DEF Alone
    <3>4. \A x, y \in Connected(mm) : nn.instance[x].cn = nn.instance[y].cn => x = y
      BY <3>2, <1>10 DEF Progress
    <3> QED
      BY <2>1, <3>3, <3>4
  <2> QED
    BY <2>2, <2>3, <2>4, <2>5 DEF Progress
<1> QED
  BY <1>1, <1>3, <1>4, <1>7, <1>8, <1>9, <1>12 DEF Inv, ClientInv

(* The connection of client i is found established. *)
LEMMA EstablishedKeeps ==
  ASSUME NEW mm, Inv(mm), NEW i \in Live(mm), mm.instance[i].cn \in CN,
         ~ mm.instance[i].connection_established,
         NEW push \in Push[mm.instance[i].cn] \cup {NoAddr}, NEW succeeded \in BOOLEAN, NEW now \in Nat,
         NEW nn, nn = Established(mm, i, push, succeeded, now)
  PROVE  Keeps(mm, nn) /\ i \in Live(nn) /\ nn.pending \in {mm.pending, Null}
<1> DEFINE cn == mm.instance[i].cn
           is == {j \in Live(mm) \ {i} : mm.instance[j].cn = cn}
           aa == multi_delete_dup(mm, i, now)
           ss == multi_select_virtual_addr(multi_select_virtual_addr(aa, i, NoAddr), i, push)
<1>1. i \in Instance /\ is \in SUBSET Live(mm) /\ i \notin is
  BY LiveIs DEF Live
<1>2. ClosedAll(mm, aa, is)
  BY <1>1, CloseAllKeeps DEF multi_delete_dup
<1> HIDE DEF aa
<1>3. /\ Inv(aa) /\ Live(aa) = Live(mm) \ is /\ aa.instance[i] = mm.instance[i]
      /\ \A d \in CN : aa.home[d] = mm.home[d]
      /\ aa.pending = (IF mm.pending \in is THEN Null ELSE mm.pending)
      /\ Addressed(mm) => Addressed(aa)
  BY <1>1, <1>2 DEF ClosedAll
<1>4. \A x \in Instance : x # i =>
        IF x \in is THEN aa.instance[x].vaddr_handle = NoHandle ELSE aa.instance[x] = mm.instance[x]
  BY <1>2 DEF ClosedAll
<1>5. i \in Live(aa) /\ Alone(aa, i)
  <2>1. i \in Live(aa)
    BY <1>1, <1>3
  <2>2. \A x \in Live(aa) \ {i} : x \in Live(mm) \ {i} /\ x \notin is /\ aa.instance[x].cn = mm.instance[x].cn
    BY <1>3, <1>4 DEF Live
  <2>3. \A x \in Live(aa) \ {i} : aa.instance[x].cn # cn
    BY <2>2
  <2> QED
    BY <2>1, <2>3, <1>3 DEF Alone
<1> HIDE DEF is
<1>6. /\ aa \in Context /\ RouteInv(aa, Null, 0) /\ ClientInv(aa) /\ Leases(aa) /\ Progress(aa)
      /\ aa.instance[i] \in Client
  BY <1>3, <1>1 DEF Inv, ClientInv, Context
<1>7. /\ aa.instance[i].cn = cn /\ ~ aa.instance[i].connection_established
      /\ aa.instance[i].vaddr_handle = NoHandle /\ aa.instance[i].addr = NoAddr
      /\ ~ aa.instance[i].context_auth /\ ~ aa.instance[i].did_iroutes
  BY <1>3, <1>5, <1>6 DEF Progress
<1>8. [aa EXCEPT !.instance[i].vaddr_handle = NoHandle] = aa
  <2> DEFINE c == aa.instance[i]
  <2>1. [c EXCEPT !.vaddr_handle = NoHandle] = c
    BY <1>6, <1>7 DEF Client
  <2>2. [aa.instance EXCEPT ![i].vaddr_handle = NoHandle] = aa.instance
    BY <2>1, <1>1, <1>6 DEF Context
  <2> QED
    BY <2>2, <1>1, <1>6 DEF Context
<1>9. PICK v \in Handle \cup {NoHandle} :
        \E b \in Addr \cup {NoAddr} :
          /\ Selects(aa, ss, i, v, b) /\ Leases(ss)
          /\ v # NoHandle => aa.home[aa.instance[i].cn] \in {v, NoHandle}
  <2>1. push \in Push[aa.instance[i].cn] \cup {NoAddr} /\ aa.instance[i].cn \in CN
    BY <1>7
  <2>2. \E w \in Handle \cup {NoHandle}, b \in Addr \cup {NoAddr} :
           /\ Selects(aa, ss, i, w, b) /\ Leases(ss)
           /\ w # NoHandle => aa.home[aa.instance[i].cn] \in {w, NoHandle}
    BY <2>1, <1>5, <1>6, <1>7, SelectIs
  <2> QED
    BY <2>2, Zenon
<1>10. PICK a \in Addr \cup {NoAddr} :
          /\ Selects(aa, ss, i, v, a) /\ Leases(ss)
          /\ v # NoHandle => aa.home[aa.instance[i].cn] \in {v, NoHandle}
  BY <1>9
<1> DEFINE ll == IF a # NoAddr THEN multi_learn_addr(ss, i, a, FALSE) ELSE ss
           jj == Joined(ll, i)
           bb == IF succeeded THEN jj ELSE ss
<1>11. nn = Finds(bb, i)
  <2>1. ss.instance[i].addr = a
    BY <1>1, <1>6, <1>10, PlacedIs DEF Selects
  <2>2. nn = [(IF succeeded THEN [multi_add_iroutes(IF ss.instance[i].addr # NoAddr THEN multi_learn_addr(ss, i, ss.instance[i].addr, FALSE) ELSE ss, i)
                                   EXCEPT !.instance[i].context_auth = TRUE] ELSE ss)
               EXCEPT !.instance[i].connection_established = TRUE,
                      !.n_clients = @ + 1, !.instance[i].n_clients_delta = 1]
    BY <1>8 DEF Established, aa
  <2> HIDE DEF ss
  <2> QED
    BY <2>1, <2>2 DEF Finds, Joined
<1> HIDE DEF ss
<1>12. Bases(aa, ss, i, v, a, FALSE) /\ ss.vhash = aa.vhash
  BY <1>5, <1>6, <1>7, <1>10, FailsIs
<1>13. /\ Bases(aa, jj, i, v, a, TRUE)
       /\ \A k \in Addr : k # a => /\ jj.vhash[k].instance = ss.vhash[k].instance
                                   /\ jj.vhash[k].cache <=> ss.vhash[k].cache
       /\ MaxRoutes > 0 /\ a # NoAddr => jj.vhash[a].instance = i /\ ~ jj.vhash[a].cache
  <2> SUFFICES Succeeds(aa, ss, jj, i, v, a)
    BY DEF Succeeds
  <2>1. aa \in Context /\ i \in Live(aa) /\ aa.instance[i].cn \in CN /\ a \in Addr \cup {NoAddr}
    BY <1>5, <1>6, <1>7
  <2>2. Bases(aa, ss, i, v, a, FALSE)
    BY <1>12
  <2>3. ll = (IF a # NoAddr THEN multi_learn_addr(ss, i, a, FALSE) ELSE ss) /\ jj = Joined(ll, i)
    OBVIOUS
  <2> HIDE DEF ll, jj
  <2> QED
    BY <2>1, <2>2, <2>3, SucceedsIs, Zenon
<1> HIDE DEF jj
<1>14. Bases(aa, bb, i, v, a, succeeded)
  BY <1>12, <1>13
<1>15. succeeded \/ bb.vhash = aa.vhash
  BY <1>12
<1>16. succeeded => /\ \A k \in Addr : k # a => /\ bb.vhash[k].instance = aa.vhash[k].instance
                                                /\ bb.vhash[k].cache <=> aa.vhash[k].cache
                    /\ MaxRoutes > 0 /\ a # NoAddr => bb.vhash[a].instance = i /\ ~ bb.vhash[a].cache
  BY <1>12, <1>13
<1> HIDE DEF bb
<1>17. Inv(nn) /\ Live(nn) = Live(aa)
  BY <1>3, <1>5, <1>7, <1>11, <1>14, FoundEstablished
<1>18. /\ \A x \in Instance : nn.instance[x] = IF x = i THEN Finding(bb.instance[i]) ELSE bb.instance[x]
       /\ nn.vhash = bb.vhash /\ nn.pending = bb.pending
  <2>1. bb \in Context
    BY <1>14 DEF Bases
  <2> QED
    BY <2>1, <1>1, <1>11, FindsIs
<1>19. LET d == nn.instance[i]
       IN /\ d.vaddr_handle = v /\ d.addr = a /\ d.cn = cn /\ (d.context_auth <=> succeeded)
          /\ d.connection_established
  <2>1. bb.instance[i] \in Client
    BY <1>1, <1>14 DEF Bases, Context
  <2>2. LET b == bb.instance[i]
        IN b.vaddr_handle = v /\ b.addr = a /\ b.cn = cn /\ (b.context_auth <=> succeeded)
    BY <1>7, <1>14 DEF Bases
  <2>3. nn.instance[i] = Finding(bb.instance[i])
    BY <1>1, <1>18
  <2> QED
    BY <2>1, <2>2, <2>3, FindingIs
<1>20. \A x \in Instance \ {i} : SameClient(aa.instance[x], nn.instance[x])
  BY <1>14, <1>18 DEF Bases
<1>21. nn.pending \in {mm.pending, Null}
  BY <1>3, <1>14, <1>18 DEF Bases
<1>22. HomeStep(mm, nn)
  <2> SUFFICES ASSUME NEW x \in Instance, nn.instance[x].vaddr_handle # NoHandle,
                      mm.instance[x].vaddr_handle = NoHandle
               PROVE  mm.home[nn.instance[x].cn] \in {nn.instance[x].vaddr_handle, NoHandle}
    BY DEF HomeStep
  <2>1. CASE x = i
    BY <2>1, <1>3, <1>7, <1>10, <1>19
  <2>2. CASE x # i
    <3>1. nn.instance[x].vaddr_handle = aa.instance[x].vaddr_handle
      BY <2>2, <1>20 DEF SameClient
    <3>2. aa.instance[x].vaddr_handle = NoHandle
      BY <2>2, <1>4
    <3> QED
      BY <3>1, <3>2
  <2> QED
    BY <2>1, <2>2
<1>23. OwnPushes /\ Addressed(mm) => Addressed(nn)
  <2> SUFFICES ASSUME OwnPushes, Addressed(mm), NEW x \in Live(nn),
                      nn.instance[x].context_auth, nn.instance[x].addr # NoAddr
               PROVE  nn.vhash[nn.instance[x].addr].instance = x /\ ~ nn.vhash[nn.instance[x].addr].cache
    BY DEF Addressed
  <2>1. x \in Instance /\ x \in Live(aa) /\ nn \in Context /\ Progress(nn) /\ Leases(nn)
        /\ nn.instance[x] \in Client
    BY <1>17 DEF Live, Inv, ClientInv, Context
  <2>2. CASE x = i
    <3>1. succeeded /\ a # NoAddr /\ nn.instance[x].addr = a
      BY <2>2, <1>19
    <3> QED
      BY <3>1, <2>2, <1>16, <1>18 DEF OwnPushes
  <2>3. CASE x # i
    <3> DEFINE b == nn.instance[x].addr
    <3>1. /\ aa.instance[x].context_auth /\ aa.instance[x].addr = b /\ b \in Addr /\ b # NoAddr
      BY <2>1, <2>3, <1>20 DEF SameClient, Client
    <3>2. aa.vhash[b].instance = x /\ ~ aa.vhash[b].cache
      BY <3>1, <2>1, <1>3 DEF Addressed
    <3>3. nn.instance[x].connection_established /\ nn.instance[x].cn \in CN
      BY <2>1 DEF Progress
    <3>4. x \in Connected(nn) /\ i \in Connected(nn)
      BY <3>3, <2>1, <1>5, <1>17, <1>19 DEF Connected
    <3>5. nn.instance[x].cn # cn
      BY <3>4, <2>1, <2>3, <1>19 DEF Progress
    <3>6. i \in Live(nn)
      BY <1>5, <1>17
    <3>7. b # a
      <4> SUFFICES ASSUME b = a PROVE FALSE
        OBVIOUS
      <4>1. CASE a \in Handle
        <5>1. nn.instance[x].vaddr_handle = a /\ nn.instance[i].vaddr_handle = a
          BY <4>1, <2>1, <3>6, <1>19 DEF Leases
        <5>2. a # NoHandle
          BY <4>1, Finite
        <5>3. nn.pool[a].common_name = nn.instance[x].cn /\ nn.pool[a].common_name = nn.instance[i].cn
          BY <5>1, <5>2, <2>1, <3>6 DEF Leases
        <5> QED
          BY <5>3, <3>5, <1>19
      <4>2. CASE a \in Host
        <5>1. a \in Push[nn.instance[x].cn] /\ a \in Push[nn.instance[i].cn]
          BY <4>2, <2>1, <3>6, <1>19 DEF Leases
        <5> QED
          BY <5>1, <3>1, <3>3, <3>5, <1>19 DEF OwnPushes
      <4> QED
        BY <4>1, <4>2, <3>1 DEF Addr
    <3>8. nn.vhash[b].instance = aa.vhash[b].instance /\ (nn.vhash[b].cache <=> aa.vhash[b].cache)
      BY <3>1, <3>7, <1>15, <1>16, <1>18
    <3> QED
      BY <3>2, <3>8
  <2> QED
    BY <2>2, <2>3
<1> QED
  BY <1>5, <1>17, <1>21, <1>22, <1>23 DEF Keeps

-----------------------------------------------------------------------------
(* Steps that touch neither routes nor addresses: what a client has to write,
   its name before it is connected, what is pending and queued. *)
Quiet(mm, nn) ==
  /\ nn \in Context /\ nn.vhash = mm.vhash /\ nn.net_len_refcount = mm.net_len_refcount
  /\ nn.pool = mm.pool /\ nn.home = mm.home /\ nn.n_clients = mm.n_clients
  /\ nn.created = mm.created /\ nn.hash = mm.hash /\ nn.failed \subseteq {"mi"}
  /\ \A x \in Instance :
       LET c == mm.instance[x]
           d == nn.instance[x]
       IN /\ d.allocated = c.allocated /\ d.halt = c.halt
          /\ d.refcount = c.refcount /\ d.route_count = c.route_count
          /\ d.vaddr_handle = c.vaddr_handle /\ d.addr = c.addr
          /\ d.connection_established = c.connection_established
          /\ d.context_auth = c.context_auth /\ d.did_iroutes = c.did_iroutes
          /\ d.n_clients_delta = c.n_clients_delta
          /\ d.cn = c.cn \/ (x \in Live(mm) /\ ~ c.connection_established /\ c.cn = NoName)
          /\ c = Clear => d = Clear

(* What may come before or after the part of a step that connects or closes. *)
Beside(mm, nn) ==
  /\ Inv(nn) /\ nn.home = mm.home
  /\ \A x \in Instance :
       LET c == mm.instance[x]
           d == nn.instance[x]
       IN /\ d.vaddr_handle = c.vaddr_handle
          /\ c.cn # NoName \/ c.vaddr_handle # NoHandle => d.cn = c.cn
  /\ Addressed(mm) => Addressed(nn)

LEMMA QuietBeside ==
  ASSUME NEW mm, Inv(mm), NEW nn, Quiet(mm, nn), Found(nn)
  PROVE  Beside(mm, nn) /\ Live(nn) = Live(mm)
<1>1. mm \in Context /\ RouteInv(mm, Null, 0) /\ Found(mm) /\ Progress(mm) /\ Leases(mm)
  BY DEF Inv, ClientInv
<1>2. /\ nn \in Context /\ nn.vhash = mm.vhash /\ nn.net_len_refcount = mm.net_len_refcount
      /\ nn.pool = mm.pool /\ nn.home = mm.home /\ nn.n_clients = mm.n_clients
      /\ nn.created = mm.created /\ nn.failed \subseteq {"mi"}
  BY DEF Quiet
<1>3. \A x \in Instance :
        LET c == mm.instance[x]
            d == nn.instance[x]
        IN /\ d.allocated = c.allocated /\ d.halt = c.halt
           /\ d.refcount = c.refcount /\ d.route_count = c.route_count
           /\ d.vaddr_handle = c.vaddr_handle /\ d.addr = c.addr
           /\ d.connection_established = c.connection_established
           /\ d.context_auth = c.context_auth /\ d.did_iroutes = c.did_iroutes
           /\ d.n_clients_delta = c.n_clients_delta
           /\ d.cn = c.cn \/ (x \in Live(mm) /\ ~ c.connection_established /\ c.cn = NoName)
           /\ c = Clear => d = Clear
  BY DEF Quiet
<1>4. \A x \in Live(mm) : x \in Instance /\ mm.instance[x] \in Client /\ nn.instance[x] \in Client
  BY <1>1, <1>2 DEF Live, Context
<1>5. \A x \in Instance :
        LET c == mm.instance[x]
            d == nn.instance[x]
        IN c.cn # NoName \/ c.vaddr_handle # NoHandle \/ c.connection_established \/ c.did_iroutes => d.cn = c.cn
  <2> SUFFICES ASSUME NEW x \in Instance,
                      x \in Live(mm) /\ ~ mm.instance[x].connection_established /\ mm.instance[x].cn = NoName
               PROVE  mm.instance[x].vaddr_handle = NoHandle /\ ~ mm.instance[x].did_iroutes
    BY <1>3
  <2> QED
    BY <1>1 DEF Progress
<1>6. SameRouting(mm, nn)
  <2>1. mm.vhash = nn.vhash /\ nn \in Context /\ nn.net_len_refcount = mm.net_len_refcount
    BY <1>2
  <2>2. \A x \in Instance :
         LET c == mm.instance[x]
             d == nn.instance[x]
         IN /\ d.allocated = c.allocated /\ d.halt = c.halt
            /\ d.refcount = c.refcount /\ d.route_count = c.route_count
            /\ d.context_auth = c.context_auth /\ d.did_iroutes = c.did_iroutes
            /\ c.did_iroutes => d.cn = c.cn
    BY <1>3, <1>5
  <2> QED
    BY <2>1, <2>2 DEF SameRouting
<1>7. RouteInv(nn, Null, 0) /\ Live(nn) = Live(mm)
  BY <1>1, <1>6, RoutingKeeps, SameLive
<1>8. Connected(nn) = Connected(mm)
  BY <1>3, <1>4, <1>7 DEF Connected
<1>9. Progress(nn)
  <2>1. nn.n_clients = Cardinality(Connected(nn))
    BY <1>1, <1>2, <1>8 DEF Progress
  <2>2. \A x \in Instance : nn.created < x => nn.instance[x] = Clear
    BY <1>1, <1>2, <1>3 DEF Progress
  <2>3. \A x, y \in Connected(nn) : nn.instance[x].cn = nn.instance[y].cn => x = y
    <3>1. \A x \in Connected(mm) : nn.instance[x].cn = mm.instance[x].cn
      BY <1>4, <1>5 DEF Connected
    <3> QED
      BY <3>1, <1>1, <1>8 DEF Progress
  <2>4. \A x \in Live(nn) :
          LET mi == nn.instance[x]
          IN /\ mi.n_clients_delta = (IF mi.connection_established THEN 1 ELSE 0)
             /\ mi.connection_established => mi.cn \in CN
             /\ ~ mi.connection_established =>
                  /\ mi.vaddr_handle = NoHandle /\ mi.addr = NoAddr
                  /\ ~ mi.context_auth
             /\ mi.did_iroutes = mi.context_auth
    <3> SUFFICES ASSUME NEW x \in Live(nn), NEW mi, mi = nn.instance[x], NEW c, c = mm.instance[x]
                 PROVE  /\ mi.n_clients_delta = (IF mi.connection_established THEN 1 ELSE 0)
                        /\ mi.connection_established => mi.cn \in CN
                        /\ ~ mi.connection_established =>
                             /\ mi.vaddr_handle = NoHandle /\ mi.addr = NoAddr
                             /\ ~ mi.context_auth
                        /\ mi.did_iroutes = mi.context_auth
      OBVIOUS
    <3>1. /\ mi.vaddr_handle = c.vaddr_handle /\ mi.addr = c.addr
          /\ mi.connection_established = c.connection_established
          /\ mi.context_auth = c.context_auth /\ mi.did_iroutes = c.did_iroutes
          /\ mi.n_clients_delta = c.n_clients_delta
          /\ c.connection_established => mi.cn = c.cn
      BY <1>3, <1>4, <1>5, <1>7
    <3>2. /\ c.n_clients_delta = (IF c.connection_established THEN 1 ELSE 0)
          /\ c.connection_established => c.cn \in CN
          /\ ~ c.connection_established =>
               /\ c.vaddr_handle = NoHandle /\ c.addr = NoAddr
               /\ ~ c.context_auth
          /\ c.did_iroutes = c.context_auth
      BY <1>1, <1>7 DEF Progress
    <3> QED
      BY <3>1, <3>2
  <2> QED
    BY <2>1, <2>2, <2>3, <2>4 DEF Progress
<1>10. Leases(nn)
  <2>1. \A x \in Live(mm) : x \in Instance /\ (mm.instance[x].addr # NoAddr => nn.instance[x].cn = mm.instance[x].cn)
                            /\ (mm.instance[x].vaddr_handle # NoHandle => nn.instance[x].cn = mm.instance[x].cn)
    BY <1>1, <1>4, <1>5 DEF Progress
  <2>2. \A x \in Live(mm) : /\ nn.instance[x].vaddr_handle = mm.instance[x].vaddr_handle
                            /\ nn.instance[x].addr = mm.instance[x].addr
    BY <1>3, <1>4
  <2>3. NoAddr \notin Host
    BY MultiAssumption DEF Addr
  <2> QED
    BY <2>1, <2>2, <2>3, <1>1, <1>2, <1>7 DEF Leases
<1>11. Addressed(mm) => Addressed(nn)
  BY <1>2, <1>3, <1>4, <1>7 DEF Addressed
<1>12. \A x \in Instance :
         LET c == mm.instance[x]
             d == nn.instance[x]
         IN /\ d.vaddr_handle = c.vaddr_handle
            /\ c.cn # NoName \/ c.vaddr_handle # NoHandle => d.cn = c.cn
  BY <1>3, <1>5
<1>13. Inv(nn)
  BY <1>2, <1>7, <1>9, <1>10 DEF Inv, ClientInv
<1> QED
  BY <1>2, <1>7, <1>11, <1>12, <1>13 DEF Beside

LEMMA BesideItself ==
  ASSUME NEW mm, Inv(mm)
  PROVE  Beside(mm, mm)
BY DEF Beside

LEMMA BesideTwice ==
  ASSUME NEW mm, NEW nn, NEW oo, Beside(mm, nn), Beside(nn, oo)
  PROVE  Beside(mm, oo)
<1>1. Inv(oo) /\ oo.home = mm.home /\ (Addressed(mm) => Addressed(oo))
  BY DEF Beside
<1>2. \A x \in Instance :
         LET c == mm.instance[x]
             d == oo.instance[x]
         IN /\ d.vaddr_handle = c.vaddr_handle
            /\ c.cn # NoName \/ c.vaddr_handle # NoHandle => d.cn = c.cn
  <2> SUFFICES ASSUME NEW x \in Instance
               PROVE  LET c == mm.instance[x]
                          d == oo.instance[x]
                      IN /\ d.vaddr_handle = c.vaddr_handle
                         /\ c.cn # NoName \/ c.vaddr_handle # NoHandle => d.cn = c.cn
    OBVIOUS
  <2>1. LET c == mm.instance[x]
            d == nn.instance[x]
        IN /\ d.vaddr_handle = c.vaddr_handle
           /\ c.cn # NoName \/ c.vaddr_handle # NoHandle => d.cn = c.cn
    BY DEF Beside
  <2>2. LET c == nn.instance[x]
            d == oo.instance[x]
        IN /\ d.vaddr_handle = c.vaddr_handle
           /\ c.cn # NoName \/ c.vaddr_handle # NoHandle => d.cn = c.cn
    BY DEF Beside
  <2> QED
    BY <2>1, <2>2
<1> QED
  BY <1>1, <1>2 DEF Beside

LEMMA KeepsAfter ==
  ASSUME NEW mm, NEW nn, NEW oo, Beside(mm, nn), Keeps(nn, oo)
  PROVE  Keeps(mm, oo)
<1>1. HomeStep(mm, oo)
  <2> SUFFICES ASSUME NEW x \in Instance, oo.instance[x].vaddr_handle # NoHandle,
                      mm.instance[x].vaddr_handle = NoHandle
               PROVE  mm.home[oo.instance[x].cn] \in {oo.instance[x].vaddr_handle, NoHandle}
    BY DEF HomeStep
  <2>1. nn.instance[x].vaddr_handle = NoHandle /\ nn.home = mm.home
    BY DEF Beside
  <2> QED
    BY <2>1 DEF Keeps, HomeStep
<1> QED
  BY <1>1 DEF Keeps, Beside

LEMMA KeepsBefore ==
  ASSUME NEW mm, NEW nn, NEW oo, Keeps(mm, nn), Beside(nn, oo)
  PROVE  Keeps(mm, oo)
<1>1. HomeStep(mm, oo)
  <2> SUFFICES ASSUME NEW x \in Instance, oo.instance[x].vaddr_handle # NoHandle,
                      mm.instance[x].vaddr_handle = NoHandle
               PROVE  mm.home[oo.instance[x].cn] \in {oo.instance[x].vaddr_handle, NoHandle}
    BY DEF HomeStep
  <2>1. nn.instance[x].vaddr_handle = oo.instance[x].vaddr_handle /\ nn.instance[x].cn = oo.instance[x].cn
    BY DEF Beside
  <2> QED
    BY <2>1 DEF Keeps, HomeStep
<1> QED
  BY <1>1 DEF Keeps, Beside

LEMMA BesideKeeps ==
  ASSUME NEW mm, NEW nn, Beside(mm, nn)
  PROVE  Keeps(mm, nn)
<1>1. HomeStep(mm, nn)
  BY DEF HomeStep, Beside
<1> QED
  BY <1>1 DEF Keeps, Beside

(* Only routes and references change. *)
LEMMA SameBeside ==
  ASSUME NEW mm, Inv(mm), NEW nn, SameClients(mm, nn), RouteInv(nn, Null, 0),
         Addressed(mm) => Addressed(nn)
  PROVE  Beside(mm, nn) /\ Live(nn) = Live(mm) /\ nn.mbuf = mm.mbuf /\ nn.pending = mm.pending
         /\ nn.hash = mm.hash
<1>1. mm \in Context /\ RouteInv(mm, Null, 0) /\ Found(mm) /\ Progress(mm) /\ Leases(mm)
      /\ mm.failed \subseteq {"mi"}
  BY DEF Inv, ClientInv
<1>2. SameClients(mm, nn) /\ RouteInv(nn, Null, 0) /\ (Addressed(mm) => Addressed(nn))
  OBVIOUS
<1>3. /\ nn \in Context /\ nn.created = mm.created /\ nn.hash = mm.hash /\ nn.pool = mm.pool
      /\ nn.pending = mm.pending /\ nn.mbuf = mm.mbuf /\ nn.n_clients = mm.n_clients
      /\ nn.failed = mm.failed /\ nn.home = mm.home /\ Live(nn) = Live(mm)
      /\ \A i \in Instance : /\ SameClient(mm.instance[i], nn.instance[i])
                             /\ mm.instance[i] = Clear => nn.instance[i] = Clear
  BY <1>2 DEF SameClients
<1>4. Found(nn)
  BY <1>1, <1>3, FoundSame
<1>5. \A x \in Live(mm) : x \in Instance
  BY DEF Live
<1>6. Leases(nn)
  <2>1. \A x \in Live(mm) : /\ nn.instance[x].vaddr_handle = mm.instance[x].vaddr_handle
                            /\ nn.instance[x].cn = mm.instance[x].cn
                            /\ nn.instance[x].addr = mm.instance[x].addr
    BY <1>3, <1>5 DEF SameClient
  <2> QED
    BY <2>1, <1>1, <1>3, LeasesSame, Zenon
<1>7. Progress(nn)
  <2>1. Connected(nn) = Connected(mm)
    BY <1>3, <1>5 DEF Connected, SameClient
  <2>2. \A x \in Instance : nn.created < x => nn.instance[x] = Clear
    BY <1>1, <1>3 DEF Progress
  <2>3. \A x, y \in Connected(nn) : nn.instance[x].cn = nn.instance[y].cn => x = y
    <3>1. \A x \in Connected(mm) : nn.instance[x].cn = mm.instance[x].cn
      BY <1>3, <1>5 DEF Connected, SameClient
    <3> QED
      BY <3>1, <2>1, <1>1 DEF Progress
  <2>4. \A x \in Live(nn) :
          LET mi == nn.instance[x]
          IN /\ mi.n_clients_delta = (IF mi.connection_established THEN 1 ELSE 0)
             /\ mi.connection_established => mi.cn \in CN
             /\ ~ mi.connection_established =>
                  /\ mi.vaddr_handle = NoHandle /\ mi.addr = NoAddr
                  /\ ~ mi.context_auth
             /\ mi.did_iroutes = mi.context_auth
    <3> SUFFICES ASSUME NEW x \in Live(nn), NEW mi, mi = nn.instance[x], NEW c, c = mm.instance[x]
                 PROVE  /\ mi.n_clients_delta = (IF mi.connection_established THEN 1 ELSE 0)
                        /\ mi.connection_established => mi.cn \in CN
                        /\ ~ mi.connection_established =>
                             /\ mi.vaddr_handle = NoHandle /\ mi.addr = NoAddr
                             /\ ~ mi.context_auth
                        /\ mi.did_iroutes = mi.context_auth
      OBVIOUS
    <3>1. SameClient(c, mi)
      BY <1>3, <1>5
    <3>2. /\ c.n_clients_delta = (IF c.connection_established THEN 1 ELSE 0)
          /\ c.connection_established => c.cn \in CN
          /\ ~ c.connection_established =>
               /\ c.vaddr_handle = NoHandle /\ c.addr = NoAddr
               /\ ~ c.context_auth
          /\ c.did_iroutes = c.context_auth
      BY <1>1, <1>3 DEF Progress
    <3> QED
      BY <3>1, <3>2 DEF SameClient
  <2> QED
    BY <2>1, <2>2, <2>3, <2>4, <1>1, <1>3 DEF Progress
<1>8. Inv(nn)
  BY <1>1, <1>2, <1>3, <1>4, <1>6, <1>7 DEF Inv, ClientInv
<1>9. \A x \in Instance :
         LET c == mm.instance[x]
             d == nn.instance[x]
         IN /\ d.vaddr_handle = c.vaddr_handle
            /\ c.cn # NoName \/ c.vaddr_handle # NoHandle => d.cn = c.cn
  BY <1>3 DEF SameClient
<1>10. Beside(mm, nn)
  BY <1>2, <1>3, <1>8, <1>9 DEF Beside
<1> QED
  BY <1>3, <1>10

LEMMA LookupBeside ==
  ASSUME NEW mm, Inv(mm), NEW a \in Addr, NEW nn, nn = Lookup(mm, a).m
  PROVE  /\ Beside(mm, nn) /\ Live(nn) = Live(mm) /\ nn.mbuf = mm.mbuf /\ nn.pending = mm.pending
         /\ nn.hash = mm.hash
         /\ Lookup(mm, a).instance \in Live(mm) \cup {Null}
<1>1. mm \in Context /\ RouteInv(mm, Null, 0)
  BY DEF Inv
<1>2. /\ SameClients(mm, nn) /\ RouteInv(nn, Null, 0) /\ (Addressed(mm) => Addressed(nn))
      /\ Lookup(mm, a).instance \in Live(mm) \cup {Null}
  BY <1>1, LookupKeeps
<1> QED
  BY <1>2, SameBeside

(* What a client has to write, and what is pending. *)
Written(c, put, sent) == [c EXCEPT !.out = (c.out \ sent) \cup put]

LEMMA WrittenIs ==
  ASSUME NEW c \in Client, NEW put \in SUBSET {"TUN", "LINK"}, NEW sent
  PROVE  LET d == Written(c, put, sent)
         IN /\ d \in Client
            /\ d.allocated = c.allocated /\ d.halt = c.halt
            /\ d.refcount = c.refcount /\ d.route_count = c.route_count
            /\ d.vaddr_handle = c.vaddr_handle /\ d.addr = c.addr
            /\ d.connection_established = c.connection_established
            /\ d.context_auth = c.context_auth /\ d.did_iroutes = c.did_iroutes
            /\ d.n_clients_delta = c.n_clients_delta /\ d.cn = c.cn
<1> DEFINE o == (c.out \ sent) \cup put
<1>1. o \in SUBSET {"TUN", "LINK"}
  BY DEF Client
<1>2. Written(c, put, sent) = [c EXCEPT !.out = o]
  BY DEF Written
<1> HIDE DEF o
<1> QED
  BY <1>1, <1>2 DEF Client

Alike(c, e) ==
  /\ e \in Client
  /\ e.allocated = c.allocated /\ e.halt = c.halt
  /\ e.refcount = c.refcount /\ e.route_count = c.route_count
  /\ e.vaddr_handle = c.vaddr_handle /\ e.addr = c.addr
  /\ e.connection_established = c.connection_established
  /\ e.context_auth = c.context_auth /\ e.did_iroutes = c.did_iroutes
  /\ e.n_clients_delta = c.n_clients_delta
  /\ e.cn = c.cn \/ (~ c.connection_established /\ c.cn = NoName)

WithClient(mm, i, e) == [mm EXCEPT !.instance = [mm.instance EXCEPT ![i] = e]]

LEMMA QuietClient ==
  ASSUME NEW mm, Inv(mm), NEW i \in Live(mm), NEW e, Alike(mm.instance[i], e),
         NEW nn, nn = WithClient(mm, i, e)
  PROVE  Beside(mm, nn) /\ Live(nn) = Live(mm) /\ nn.mbuf = mm.mbuf /\ nn.pending = mm.pending
         /\ nn.instance[i] = e /\ nn.hash = mm.hash
<1> DEFINE f == [mm.instance EXCEPT ![i] = e]
<1>1. mm \in Context /\ i \in Instance /\ Found(mm) /\ mm.failed \subseteq {"mi"} /\ mm.instance[i] # Clear
  BY LiveIs DEF Inv, ClientInv
<1>2. f \in [Instance -> Client] /\ \A x \in Instance : f[x] = IF x = i THEN e ELSE mm.instance[x]
  BY <1>1 DEF Context, Alike
<1> HIDE DEF f
<1>3. /\ nn \in Context /\ nn.instance = f
      /\ nn.vhash = mm.vhash /\ nn.net_len_refcount = mm.net_len_refcount
      /\ nn.created = mm.created /\ nn.hash = mm.hash /\ nn.pool = mm.pool /\ nn.pending = mm.pending
      /\ nn.mbuf = mm.mbuf /\ nn.n_clients = mm.n_clients /\ nn.failed = mm.failed /\ nn.home = mm.home
  <2>1. nn = [mm EXCEPT !.instance = f]
    BY DEF f, WithClient
  <2> QED
    BY <1>1, <1>2, <2>1 DEF Context
<1>4. \A x \in Instance :
       LET c == mm.instance[x]
           d == nn.instance[x]
       IN /\ d.allocated = c.allocated /\ d.halt = c.halt
          /\ d.refcount = c.refcount /\ d.route_count = c.route_count
          /\ d.vaddr_handle = c.vaddr_handle /\ d.addr = c.addr
          /\ d.connection_established = c.connection_established
          /\ d.context_auth = c.context_auth /\ d.did_iroutes = c.did_iroutes
          /\ d.n_clients_delta = c.n_clients_delta
          /\ d.cn = c.cn \/ (x \in Live(mm) /\ ~ c.connection_established /\ c.cn = NoName)
          /\ c = Clear => d = Clear
  BY <1>1, <1>2, <1>3 DEF Alike
<1>5. Quiet(mm, nn)
  BY <1>1, <1>3, <1>4 DEF Quiet
<1>6. Live(nn) = Live(mm)
  BY <1>3, <1>4 DEF Live
<1>7. Found(nn)
  BY <1>1, <1>3, <1>6, FoundSame
<1> QED
  BY <1>1, <1>2, <1>3, <1>5, <1>6, <1>7, QuietBeside

LEMMA OutBeside ==
  ASSUME NEW mm, Inv(mm), NEW i \in Live(mm), NEW put \in SUBSET {"TUN", "LINK"}, NEW sent,
         NEW nn, nn = Out(mm, i, put, sent)
  PROVE  /\ Beside(mm, nn) /\ Live(nn) = Live(mm) /\ nn.mbuf = mm.mbuf /\ nn.pending = mm.pending
         /\ nn.instance[i] \in Client /\ nn.instance[i].connection_established = mm.instance[i].connection_established
         /\ nn.instance[i].cn = mm.instance[i].cn
         /\ nn.hash = mm.hash
<1> DEFINE c == mm.instance[i]
           e == Written(c, put, sent)
<1>1. mm \in Context /\ i \in Instance /\ c \in Client
  BY LiveIs DEF Inv
<1>2. /\ e \in Client
      /\ e.allocated = c.allocated /\ e.halt = c.halt
      /\ e.refcount = c.refcount /\ e.route_count = c.route_count
      /\ e.vaddr_handle = c.vaddr_handle /\ e.addr = c.addr
      /\ e.connection_established = c.connection_established
      /\ e.context_auth = c.context_auth /\ e.did_iroutes = c.did_iroutes
      /\ e.n_clients_delta = c.n_clients_delta /\ e.cn = c.cn
  BY <1>1, WrittenIs
<1>3. nn = WithClient(mm, i, e)
  BY <1>1 DEF Out, Written, Context, WithClient
<1> HIDE DEF e
<1>4. Beside(mm, nn) /\ Live(nn) = Live(mm) /\ nn.mbuf = mm.mbuf /\ nn.pending = mm.pending
         /\ nn.instance[i] = e /\ nn.hash = mm.hash
  <2>1. Alike(c, e)
    BY <1>2 DEF Alike
  <2> QED
    BY <2>1, <1>3, QuietClient
<1> QED
  BY <1>2, <1>4

LEMMA NameBeside ==
  ASSUME NEW mm, Inv(mm), NEW i \in Live(mm), mm.instance[i].cn = NoName, NEW c \in CN,
         NEW nn, nn = [mm EXCEPT !.instance[i].cn = c]
  PROVE  Beside(mm, nn) /\ Live(nn) = Live(mm)
<1> DEFINE b == mm.instance[i]
           e == [b EXCEPT !.cn = c]
<1>1. mm \in Context /\ i \in Instance /\ b \in Client /\ Progress(mm)
  BY LiveIs DEF Inv, ClientInv
<1>2. ~ b.connection_established
  BY <1>1, MultiAssumption DEF Progress
<1>3. /\ e \in Client
      /\ e.allocated = b.allocated /\ e.halt = b.halt
      /\ e.refcount = b.refcount /\ e.route_count = b.route_count
      /\ e.vaddr_handle = b.vaddr_handle /\ e.addr = b.addr
      /\ e.connection_established = b.connection_established
      /\ e.context_auth = b.context_auth /\ e.did_iroutes = b.did_iroutes
      /\ e.n_clients_delta = b.n_clients_delta
  BY <1>1 DEF Client
<1>4. nn = WithClient(mm, i, e)
  BY <1>1 DEF Context, WithClient
<1> HIDE DEF e
<1>5. Alike(b, e)
  BY <1>2, <1>3 DEF Alike
<1> QED
  BY <1>4, <1>5, QuietClient

(* Only what is pending, queued or asserted changes. *)
WithQueue(mm, p, q, f) == [mm EXCEPT !.pending = p, !.mbuf = q, !.failed = f]

LEMMA QueueBeside ==
  ASSUME NEW mm, Inv(mm), NEW p \in Live(mm) \cup {Null}, NEW q \in Seq(Live(mm) \cup {Null}), Len(q) <= Capacity,
         NEW f \in SUBSET {"mi"},
         NEW nn, nn = WithQueue(mm, p, q, f)
  PROVE  Beside(mm, nn) /\ Live(nn) = Live(mm) /\ nn.mbuf = q /\ nn.pending = p /\ nn.hash = mm.hash
         /\ nn.instance = mm.instance
<1>1. mm \in Context /\ Found(mm)
  BY DEF Inv, ClientInv
<1>2. p \in Instance \cup {Null} /\ q \in Seq(Instance \cup {Null}) /\ f \in SUBSET {"mi"}
  <2>1. Live(mm) \cup {Null} \subseteq Instance \cup {Null}
    BY DEF Live
  <2>2. Seq(Live(mm) \cup {Null}) \subseteq Seq(Instance \cup {Null})
    BY <2>1
  <2>4. q \in Seq(Instance \cup {Null})
    BY <2>2
  <2> QED
    BY <2>1, <2>4
<1>3. /\ nn \in Context /\ nn.instance = mm.instance
      /\ nn.vhash = mm.vhash /\ nn.net_len_refcount = mm.net_len_refcount
      /\ nn.created = mm.created /\ nn.hash = mm.hash /\ nn.pool = mm.pool /\ nn.pending = p
      /\ nn.mbuf = q /\ nn.n_clients = mm.n_clients /\ nn.failed = f /\ nn.home = mm.home
  BY <1>1, <1>2 DEF Context, WithQueue
<1>4. Live(nn) = Live(mm)
  BY <1>3 DEF Live
<1>5. Quiet(mm, nn)
  BY <1>3 DEF Quiet
<1>6. Found(nn)
  <2>1. \A k \in DOMAIN q : q[k] \in Live(mm) \cup {Null}
    OBVIOUS
  <2> QED
    BY <2>1, <1>1, <1>3, <1>4 DEF Found
<1> QED
  BY <1>3, <1>4, <1>5, <1>6, QuietBeside

-----------------------------------------------------------------------------
(* The clock, which follows the pool's. *)
LEMMA LatestExists ==
  ASSUME NEW mm \in Context, NoHandle > 0
  PROVE  \E h \in Handle : \A g \in Handle : mm.pool[g].last_release <= mm.pool[h].last_release
<1> DEFINE L(g) == mm.pool[g].last_release
           Best(n) == \E h \in 0 .. n - 1 : \A g \in 0 .. n - 1 : L(g) <= L(h)
           T == {n \in Nat : n = 0 \/ n > NoHandle \/ Best(n)}
<1>1. \A g \in 0 .. NoHandle - 1 : L(g) \in Nat
  BY Finite DEF Context, Entry
<1> HIDE DEF L
<1>2. 0 \in T
  OBVIOUS
<1>3. ASSUME NEW n \in Nat, n \in T, n < NoHandle PROVE n + 1 \in T
  <2> SUFFICES Best(n + 1)
    OBVIOUS
  <2>1. 0 .. (n + 1) - 1 = (0 .. n - 1) \cup {n} /\ \A g \in 0 .. n : L(g) \in Nat
    BY <1>1, <1>3, Finite
  <2>2. CASE n = 0
    <3>1. \A g \in 0 .. (n + 1) - 1 : g = n
      BY <2>1, <2>2
    <3> QED
      BY <2>1, <2>2, <3>1
  <2>3. CASE n # 0
    <3>1. PICK h \in 0 .. n - 1 : \A g \in 0 .. n - 1 : L(g) <= L(h)
      BY <1>3, <2>3, Finite
    <3>2. L(h) \in Nat /\ L(n) \in Nat /\ \A g \in 0 .. n - 1 : L(g) \in Nat
      BY <2>1
    <3>3. CASE L(n) <= L(h)
      BY <2>1, <3>1, <3>3
    <3>4. CASE ~ (L(n) <= L(h))
      <4>1. \A g \in 0 .. n - 1 : L(g) <= L(n)
        BY <3>1, <3>2, <3>4
      <4> QED
        BY <2>1, <3>2, <4>1
    <3> QED
      BY <3>3, <3>4
  <2> QED
    BY <2>2, <2>3
<1> HIDE DEF Best
<1>4. \A n \in 0 .. NoHandle : n \in T
  <2> HIDE DEF T
  <2> QED
    BY <1>2, <1>3, Finite, UpTo
<1>5. Best(NoHandle)
  BY <1>4, Finite
<1> QED
  BY <1>5, Finite DEF Best, L

LEMMA ClockIs ==
  ASSUME NEW mm \in Context, NEW is \in SUBSET Instance, NEW now \in Clock(mm, is)
  PROVE  now \in Nat
<1>1. CASE ~ \E i \in is : mm.instance[i].vaddr_handle # NoHandle
  BY <1>1 DEF Clock
<1>2. CASE \E i \in is : mm.instance[i].vaddr_handle # NoHandle
  <2> DEFINE T == {mm.pool[h].last_release : h \in Handle}
  <2>1. PICK i \in is : mm.instance[i].vaddr_handle # NoHandle
    BY <1>2
  <2>2. mm.instance[i].vaddr_handle \in Handle
    BY <2>1 DEF Context, Client
  <2>3. NoHandle > 0
    BY <2>2, Finite
  <2>4. PICK h \in Handle : \A g \in Handle : mm.pool[g].last_release <= mm.pool[h].last_release
    BY <2>3, LatestExists
  <2>5. T \subseteq Nat /\ mm.pool[h].last_release \in T
    BY DEF Context, Entry
  <2>6. \A t \in T : mm.pool[h].last_release >= t
    BY <2>4, <2>5
  <2> HIDE DEF T
  <2>7. Max(T) \in T
    BY <2>5, <2>6 DEF Max
  <2>8. Latest(mm.pool) = Max(T)
    BY DEF Latest, T
  <2>9. now \in {Latest(mm.pool), Latest(mm.pool) + 1}
    BY <1>2 DEF Clock
  <2> QED
    <3>1. Latest(mm.pool) \in Nat
      BY <2>5, <2>7, <2>8
    <3> QED
      BY <2>9, <3>1
<1> QED
  BY <1>1, <1>2

(* The queue. *)
LEMMA ExtractIs ==
  ASSUME NEW S, Null \notin S, NEW q \in Seq(S \cup {Null}), NEW x, x = mbuf_extract(q)
  PROVE  /\ x.instance \in S \cup {Null} /\ x.rest \in Seq(S \cup {Null}) /\ Len(x.rest) <= Len(q)
         /\ q \in Seq(S) /\ q # << >> => x.instance \in S /\ x.rest \in Seq(S) /\ Len(x.rest) < Len(q)
<1> DEFINE live == {k \in DOMAIN q : q[k] # Null}
           n == Min(live)
           r == SubSeq(q, n + 1, Len(q))
<1>1. x = IF live = {} THEN [instance |-> Null, rest |-> << >>] ELSE [instance |-> q[n], rest |-> r]
  BY DEF mbuf_extract
<1>2. Len(q) \in Nat /\ DOMAIN q = 1 .. Len(q) /\ \A k \in DOMAIN q : q[k] \in S \cup {Null}
  OBVIOUS
<1>3. CASE live = {}
  <2>1. x.instance = Null /\ x.rest = << >>
    BY <1>1, <1>3
  <2>2. q \in Seq(S) => q = << >>
    <3> SUFFICES ASSUME q \in Seq(S), q # << >> PROVE FALSE
      OBVIOUS
    <3>1. 1 \in DOMAIN q /\ q[1] \in S
      OBVIOUS
    <3> QED
      BY <3>1, <1>3
  <2> QED
    BY <2>1, <2>2, <1>2
<1>4. CASE live # {}
  <2>1. live \subseteq Nat
    BY <1>2
  <2> HIDE DEF live
  <2>2. n \in live
    BY <2>1, <1>4, MinIs
  <2>3. n \in 1 .. Len(q) /\ q[n] \in S
    BY <2>2, <1>2 DEF live
  <2> HIDE DEF n
  <2>4. r \in Seq(S \cup {Null}) /\ Len(r) = Len(q) - n
    <3>1. n + 1 \in Int /\ Len(q) \in Int /\ \A k \in n + 1 .. Len(q) : q[k] \in S \cup {Null}
      BY <2>3, <1>2
    <3>2. /\ r \in Seq(S \cup {Null})
          /\ Len(r) = IF n + 1 <= Len(q) THEN Len(q) - (n + 1) + 1 ELSE 0
      BY <3>1, SubSeqProperties
    <3> HIDE DEF r
    <3>3. n \in Int /\ n <= Len(q) /\ Len(q) \in Int
      BY <2>3, <1>2
    <3> DEFINE l == Len(q)
               k == Len(r)
    <3>4. k = IF n + 1 <= l THEN l - (n + 1) + 1 ELSE 0
      BY <3>2
    <3>5. n \in Int /\ l \in Int /\ n <= l
      BY <3>3
    <3> HIDE DEF l, k
    <3>6. k = l - n
      BY <3>4, <3>5
    <3> QED
      BY <3>2, <3>6 DEF l, k
  <2>5. q \in Seq(S) => r \in Seq(S)
    <3> SUFFICES ASSUME q \in Seq(S) PROVE r \in Seq(S)
      OBVIOUS
    <3>1. n + 1 \in Int /\ Len(q) \in Int /\ \A k \in n + 1 .. Len(q) : q[k] \in S
      BY <2>3, <1>2
    <3> QED
      BY <3>1, SubSeqProperties
  <2> HIDE DEF r
  <2>6. x.instance = q[n] /\ x.rest = r
    BY <1>1, <1>4
  <2> QED
    BY <2>3, <2>4, <2>5, <2>6, <1>2
<1> QED
  BY <1>3, <1>4

Queued(mm, nn) ==
  \E q \in Seq(Live(mm)) : Len(q) <= Capacity /\ nn = [mm EXCEPT !.mbuf = q]

LEMMA ItemQueued ==
  ASSUME NEW mm \in Context, NEW nn, Queued(mm, nn), NEW i \in Live(mm)
  PROVE  Queued(mm, mbuf_add_item(nn, i))
<1>1. PICK q \in Seq(Live(mm)) : Len(q) <= Capacity /\ nn = [mm EXCEPT !.mbuf = q]
  BY DEF Queued
<1>2. nn.mbuf = q /\ Null \notin Live(mm) /\ Capacity \in Nat /\ Capacity > 0
  BY <1>1, Finite, MultiAssumption DEF Context, Live
<1> DEFINE x == mbuf_extract(q)
           room == IF Len(q) = Capacity THEN x.rest ELSE q
           r == Append(room, i)
<1>3. Len(q) = Capacity => x.instance \in Live(mm) /\ x.rest \in Seq(Live(mm)) /\ Len(x.rest) < Len(q)
  <2>1. q \in Seq(Live(mm) \cup {Null})
    OBVIOUS
  <2>2. Len(q) = Capacity => q # << >>
    BY <1>2
  <2> QED
    BY <1>2, <2>1, <2>2, ExtractIs
<1>4. mbuf_add_item(nn, i) = [nn EXCEPT !.mbuf = r]
  BY <1>2, <1>3 DEF mbuf_add_item, Asserted
<1> HIDE DEF x
<1>5. room \in Seq(Live(mm)) /\ Len(room) \in Nat /\ Len(room) < Capacity
  BY <1>1, <1>2, <1>3
<1> HIDE DEF room
<1>6. r \in Seq(Live(mm)) /\ Len(r) <= Capacity
  BY <1>2, <1>5
<1> HIDE DEF r
<1>7. mbuf_add_item(nn, i) = [mm EXCEPT !.mbuf = r]
  BY <1>1, <1>4 DEF Context
<1> QED
  BY <1>6, <1>7 DEF Queued

LEMMA BcastSteps ==
  ASSUME NEW is, NEW b, NEW mm, NEW g, Iterating("bcast", is, b, mm, MaxInstances, g)
  PROVE  g[0] = mm /\ \A k \in Nat : k < MaxInstances => g[k + 1] = WithItem(g[k], k + 1, is)
<1> DEFINE w == "bcast"
<1>1. Iterating(w, is, b, mm, MaxInstances, g) /\ MaxInstances \in Nat
  BY MultiAssumption
<1>2. \A x, k : Step(w, is, b, x, k) = WithItem(x, k, is)
  BY DEF Step
<1> HIDE DEF w
<1>3. g[0] = mm /\ \A k \in Nat : k < MaxInstances => g[k + 1] = Step(w, is, b, g[k], k + 1)
  BY <1>1, IteratingIs
<1> QED
  BY <1>2, <1>3

LEMMA BcastQueued ==
  ASSUME NEW mm \in Context, mm.mbuf = << >>, NEW sender
  PROVE  Queued(mm, multi_bcast(mm, sender))
<1> DEFINE is == Live(mm) \ {sender}
<1>1. PICK g : /\ Iterating("bcast", is, Null, mm, MaxInstances, g)
               /\ multi_bcast(mm, sender) = g[MaxInstances]
  BY BcastIs
<1>2. g[0] = mm /\ \A k \in Nat : k < MaxInstances => g[k + 1] = WithItem(g[k], k + 1, is)
  BY <1>1, BcastSteps
<1> DEFINE T == {k \in Nat : Queued(mm, g[k])}
<1>3. 0 \in T
  <2>1. << >> \in Seq(Live(mm)) /\ Len(<< >>) <= Capacity /\ mm = [mm EXCEPT !.mbuf = << >>]
    BY MultiAssumption DEF Context
  <2> QED
    BY <2>1, <1>2 DEF Queued
<1>4. ASSUME NEW k \in Nat, k \in T, k < MaxInstances PROVE k + 1 \in T
  <2>1. Queued(mm, g[k]) /\ g[k + 1] = WithItem(g[k], k + 1, is)
    BY <1>2, <1>4
  <2>2. Queued(mm, g[k + 1])
    BY <2>1, ItemQueued DEF WithItem
  <2> QED
    BY <2>2
<1> HIDE DEF T
<1>5. \A k \in 0 .. MaxInstances : k \in T
  BY <1>3, <1>4, MultiAssumption, UpTo
<1> QED
  BY <1>1, <1>5, MultiAssumption DEF T

LEMMA QueuedBeside ==
  ASSUME NEW mm, Inv(mm), NEW nn, Queued(mm, nn)
  PROVE  Beside(mm, nn) /\ Live(nn) = Live(mm)
<1>1. PICK q \in Seq(Live(mm)) : Len(q) <= Capacity /\ nn = [mm EXCEPT !.mbuf = q]
  BY DEF Queued
<1>2. mm \in Context /\ mm.pending \in Live(mm) \cup {Null} /\ mm.failed \in SUBSET {"mi"}
  BY DEF Inv, ClientInv, Found
<1>3. nn = WithQueue(mm, mm.pending, q, mm.failed)
  BY <1>1, <1>2 DEF Context, WithQueue
<1>4. q \in Seq(Live(mm) \cup {Null})
  OBVIOUS
<1> QED
  BY <1>1, <1>2, <1>3, <1>4, QueueBeside

(* multi_reap_range of an undefined route. *)
LEMMA ReapBeside ==
  ASSUME NEW mm, Inv(mm), NEW key \in Key, mm.vhash[key] # NoRoute,
         ~ multi_route_defined(mm, mm.vhash[key]), NEW nn, nn = multi_route_del(mm, key)
  PROVE  Beside(mm, nn)
<1> DEFINE o == mm.vhash[key].instance
<1>1. mm \in Context /\ Counted(mm) /\ NoneIsNull(mm) /\ RouteOk(mm, Null, 0) /\ LengthsOk(mm, Null, 0)
      /\ CacheOk(mm) /\ Null \in Instance \cup {Null}
  BY OkIsNull DEF Inv, RouteInv
<1>2. o \in Instance
  BY <1>1, Leads
<1>3. /\ nn \in Context /\ nn.vhash = [mm.vhash EXCEPT ![key] = NoRoute]
      /\ nn.net_len_refcount = mm.net_len_refcount
  BY <1>1, <1>2, DelType
<1>4. SameClients(mm, nn) /\ Counted(nn)
  <2>1. CountedBut(mm, Null, 0)
    BY <1>1, CountedButNone
  <2>2. CountedBut(nn, Null, 0) /\ SameClients(mm, nn)
    <3>1. 0 \in Nat
      OBVIOUS
    <3> QED
      BY <1>1, <1>2, <2>1, <3>1, DelCounts
  <2> QED
    BY <2>2, <1>3, CountedButNone
<1>5. \A k \in Key : nn.vhash[k] = IF k = key THEN NoRoute ELSE mm.vhash[k]
  BY <1>1, <1>3 DEF Context
<1>6. NoRoute.instance = Null /\ ~ NoRoute.cache /\ Null \notin Live(mm)
  BY Finite DEF NoRoute, Live
<1>7. Live(nn) = Live(mm) /\ \A i \in Live(mm) : i \in Instance /\ (nn.instance[i].context_auth <=> mm.instance[i].context_auth)
                                                 /\ nn.instance[i].addr = mm.instance[i].addr
  BY <1>4 DEF SameClients, SameClient, Live
<1>8. RouteOk(nn, Null, 0)
  <2> SUFFICES ASSUME NEW k \in Key
               PROVE  /\ nn.vhash[k].instance = Null => nn.vhash[k] = NoRoute
                      /\ nn.vhash[k].instance \in Live(nn) =>
                           nn.vhash[k].instance = Null \/ nn.instance[nn.vhash[k].instance].context_auth
                      /\ k \in Net => ~ nn.vhash[k].cache
                      /\ k \in Net /\ nn.vhash[k].instance \in Live(nn) => k \in Nets(nn, nn.vhash[k].instance, Null, 0)
    BY DEF RouteOk
  <2>1. CASE k = key
    BY <2>1, <1>5, <1>6, <1>7
  <2>2. CASE k # key
    <3>1. nn.vhash[k] = mm.vhash[k]
      BY <2>2, <1>5
    <3>2. nn.vhash[k].instance \in Live(mm) => Nets(nn, nn.vhash[k].instance, Null, 0) = Nets(mm, nn.vhash[k].instance, Null, 0)
      BY <1>1, <1>4, <1>7, SameNets
    <3> QED
      BY <3>1, <3>2, <1>1, <1>7 DEF RouteOk
  <2> QED
    BY <2>1, <2>2
<1>9. LengthsOk(nn, Null, 0)
  BY <1>1, <1>3, <1>4, SameLengths
<1>10. \A k \in Key : multi_route_defined(nn, nn.vhash[k]) <=> k # key /\ multi_route_defined(mm, mm.vhash[k])
  <2> SUFFICES ASSUME NEW k \in Key
               PROVE  multi_route_defined(nn, nn.vhash[k]) <=> k # key /\ multi_route_defined(mm, mm.vhash[k])
    OBVIOUS
  <2>1. CASE k = key
    BY <2>1, <1>5 DEF multi_route_defined
  <2>2. CASE k # key
    <3>1. multi_route_defined(nn, mm.vhash[k]) <=> multi_route_defined(mm, mm.vhash[k])
      BY <1>1, <1>4, SameDefined
    <3> QED
      BY <2>2, <3>1, <1>5
  <2> QED
    BY <2>1, <2>2
<1>11. CacheOk(nn)
  <2> SUFFICES ASSUME NEW a \in Addr, nn.vhash[a].cache, multi_route_defined(nn, nn.vhash[a])
               PROVE  Routed(nn, a) # {} /\ nn.vhash[a].instance = nn.vhash[Longest(Routed(nn, a))].instance
    BY DEF CacheOk
  <2>1. a # key /\ nn.vhash[a] = mm.vhash[a] /\ multi_route_defined(mm, mm.vhash[a])
    BY <1>5, <1>10, KeyIs
  <2>2. \A n \in Net : multi_route_defined(nn, nn.vhash[n]) <=> multi_route_defined(mm, mm.vhash[n])
    BY <1>10, KeyIs
  <2>3. Routed(nn, a) = Routed(mm, a)
    BY <2>2, <1>3 DEF Routed
  <2>4. Routed(mm, a) # {} /\ mm.vhash[a].instance = mm.vhash[Longest(Routed(mm, a))].instance
    BY <2>1, <1>1 DEF CacheOk
  <2>5. Longest(Routed(mm, a)) \in Routed(mm, a)
    <3>1. Routed(mm, a) \in SUBSET Net
      BY DEF Routed
    <3> QED
      BY <3>1, <2>4, LongestIs
  <2>6. Longest(Routed(mm, a)) \in Key /\ Longest(Routed(mm, a)) # key
    BY <2>5, KeyIs DEF Routed
  <2> QED
    BY <2>1, <2>3, <2>4, <2>6, <1>5
<1>12. Addressed(mm) => Addressed(nn)
  <2> SUFFICES ASSUME Addressed(mm), NEW i \in Live(nn), nn.instance[i].context_auth, nn.instance[i].addr # NoAddr
               PROVE  nn.vhash[nn.instance[i].addr].instance = i /\ ~ nn.vhash[nn.instance[i].addr].cache
    BY DEF Addressed
  <2> DEFINE a == mm.instance[i].addr
  <2>1. i \in Live(mm) /\ i \in Instance /\ mm.instance[i].context_auth /\ a # NoAddr /\ nn.instance[i].addr = a
    BY <1>7
  <2>2. mm.vhash[a].instance = i /\ ~ mm.vhash[a].cache
    BY <2>1 DEF Addressed
  <2>3. a \in Key
    BY <2>1, <1>1, KeyIs DEF Context, Client
  <2>4. multi_route_defined(mm, mm.vhash[a])
    BY <2>1, <2>2, <2>3, <1>1, Leads
  <2> QED
    BY <2>1, <2>2, <2>3, <2>4, <1>5
<1>13. RouteInv(nn, Null, 0)
  BY <1>4, <1>8, <1>9, <1>11 DEF RouteInv
<1> QED
  BY <1>4, <1>12, <1>13, SameBeside

(* A cached route grows old. *)
LEMMA AgeBeside ==
  ASSUME NEW mm, Inv(mm), NEW key \in Key, mm.vhash[key].cache,
         NEW nn, nn = [mm EXCEPT !.vhash[key].fresh = FALSE]
  PROVE  Beside(mm, nn)
<1> DEFINE r == mm.vhash[key]
           s == Stale(r)
           v == [mm.vhash EXCEPT ![key] = s]
<1>1. mm \in Context /\ Counted(mm) /\ NoneIsNull(mm) /\ RouteOk(mm, Null, 0) /\ LengthsOk(mm, Null, 0)
      /\ CacheOk(mm) /\ Null \in Instance \cup {Null}
  BY OkIsNull DEF Inv, RouteInv
<1>2. r \in Route /\ s \in Route /\ s.instance = r.instance /\ s.cache = r.cache /\ ~ s.fresh
  BY <1>1, StaleIs DEF Context
<1>3. nn = [mm EXCEPT !.vhash = v]
  BY <1>1 DEF Context, Stale
<1> HIDE DEF s
<1>4. v \in [Key -> Route] /\ \A k \in Key : v[k] = IF k = key THEN s ELSE mm.vhash[k]
  BY <1>1, <1>2 DEF Context
<1> HIDE DEF v
<1>5. /\ nn \in Context /\ nn.instance = mm.instance
      /\ nn.vhash = v /\ nn.net_len_refcount = mm.net_len_refcount
      /\ nn.created = mm.created /\ nn.hash = mm.hash /\ nn.pool = mm.pool /\ nn.pending = mm.pending
      /\ nn.mbuf = mm.mbuf /\ nn.n_clients = mm.n_clients /\ nn.failed = mm.failed /\ nn.home = mm.home
  BY <1>1, <1>3, <1>4 DEF Context
<1>6. \A k \in Key : /\ nn.vhash[k].instance = mm.vhash[k].instance
                     /\ nn.vhash[k].cache = mm.vhash[k].cache
                     /\ k # key => nn.vhash[k] = mm.vhash[k]
  BY <1>2, <1>4, <1>5
<1>7. Live(nn) = Live(mm)
  BY <1>5 DEF Live
<1>8. SameClients(mm, nn)
  BY <1>5, <1>7 DEF SameClients, SameClient
<1>9. Counted(nn)
  <2>1. \A i : RoutesTo(nn, i) = RoutesTo(mm, i)
    BY <1>6 DEF RoutesTo
  <2> QED
    BY <2>1, <1>1, <1>5, <1>7 DEF Counted
<1>10. key \notin Net /\ r # NoRoute
  BY <1>1 DEF RouteOk, NoRoute
<1>11. RouteOk(nn, Null, 0)
  <2>1. \A i : Nets(nn, i, Null, 0) = Nets(mm, i, Null, 0)
    BY <1>5 DEF Nets
  <2> SUFFICES ASSUME NEW k \in Key
               PROVE  /\ nn.vhash[k].instance = Null => nn.vhash[k] = NoRoute
                      /\ nn.vhash[k].instance \in Live(nn) =>
                           nn.vhash[k].instance = Null \/ nn.instance[nn.vhash[k].instance].context_auth
                      /\ k \in Net => ~ nn.vhash[k].cache
                      /\ k \in Net /\ nn.vhash[k].instance \in Live(nn) => k \in Nets(nn, nn.vhash[k].instance, Null, 0)
    BY DEF RouteOk
  <2>2. /\ mm.vhash[k].instance = Null => mm.vhash[k] = NoRoute
        /\ mm.vhash[k].instance \in Live(mm) =>
             mm.vhash[k].instance = Null \/ mm.instance[mm.vhash[k].instance].context_auth
        /\ k \in Net => ~ mm.vhash[k].cache
        /\ k \in Net /\ mm.vhash[k].instance \in Live(mm) => k \in Nets(mm, mm.vhash[k].instance, Null, 0)
    BY <1>1 DEF RouteOk
  <2>3. nn.vhash[k].instance = mm.vhash[k].instance /\ nn.vhash[k].cache = mm.vhash[k].cache
    BY <1>6
  <2>4. nn.vhash[k].instance = Null => k # key
    BY <2>2, <2>3, <1>10
  <2> QED
    BY <2>1, <2>2, <2>3, <2>4, <1>5, <1>6, <1>7
<1>12. LengthsOk(nn, Null, 0)
  BY <1>1, <1>5, <1>8, SameLengths
<1>13. CacheOk(nn)
  <2> SUFFICES ASSUME NEW a \in Addr, nn.vhash[a].cache, multi_route_defined(nn, nn.vhash[a])
               PROVE  Routed(nn, a) # {} /\ nn.vhash[a].instance = nn.vhash[Longest(Routed(nn, a))].instance
    BY DEF CacheOk
  <2>1. a # key
    BY <1>2, <1>4, <1>5 DEF multi_route_defined
  <2>2. \A n \in Net : n \in Key /\ nn.vhash[n] = mm.vhash[n]
    BY <1>6, <1>10, KeyIs
  <2>3. Routed(nn, a) = Routed(mm, a) /\ (Routed(mm, a) # {} => Longest(Routed(mm, a)) \in Routed(mm, a))
    BY <2>2, <1>1, <1>5, <1>8, SameRouted
  <2>4. a \in Key /\ nn.vhash[a] = mm.vhash[a]
    BY <2>1, <1>6, KeyIs
  <2>5. multi_route_defined(mm, mm.vhash[a])
    BY <2>4, <1>1, <1>8, SameDefined
  <2>6. Routed(mm, a) # {} /\ mm.vhash[a].instance = mm.vhash[Longest(Routed(mm, a))].instance
    BY <2>4, <2>5, <1>1 DEF CacheOk
  <2>7. Longest(Routed(mm, a)) \in Net
    BY <2>3, <2>6 DEF Routed
  <2> QED
    BY <2>2, <2>3, <2>4, <2>6, <2>7
<1>14. Addressed(mm) => Addressed(nn)
  <2>1. \A i \in Live(mm) : mm.instance[i].addr # NoAddr => mm.instance[i].addr \in Key
    BY <1>1, KeyIs DEF Live, Context, Client
  <2> QED
    BY <2>1, <1>5, <1>6, <1>7 DEF Addressed
<1>15. RouteInv(nn, Null, 0)
  BY <1>9, <1>11, <1>12, <1>13 DEF RouteInv
<1> QED
  BY <1>8, <1>14, <1>15, SameBeside

(* multi_create_instance. *)
LEMMA CreatedBeside ==
  ASSUME NEW mm, Inv(mm), NEW r \in Real, mm.hash[r] = Null, mm.created < MaxInstances,
         NEW nn, nn = Created(mm, r)
  PROVE  /\ Beside(mm, nn) /\ Live(mm) \subseteq Live(nn) /\ nn.hash[r] \in Live(nn)
         /\ nn.mbuf = mm.mbuf /\ nn.pending = mm.pending
<1> DEFINE i == mm.created + 1
           e == [Clear EXCEPT !.allocated = TRUE, !.refcount = 1]
           f == [mm.instance EXCEPT ![i] = e]
           h == [mm.hash EXCEPT ![r] = i]
<1>1. mm \in Context /\ Counted(mm) /\ NoneIsNull(mm) /\ RouteOk(mm, Null, 0) /\ LengthsOk(mm, Null, 0)
      /\ CacheOk(mm) /\ Found(mm) /\ Progress(mm) /\ Leases(mm) /\ mm.failed \subseteq {"mi"}
  BY OkIsNull DEF Inv, RouteInv, ClientInv
<1>2. i \in Instance /\ i # Null /\ mm.created < i /\ i \in 0 .. MaxInstances
  BY <1>1, MultiAssumption DEF Context, Instance, Null
<1>3. mm.instance[i] = Clear
  BY <1>1, <1>2 DEF Progress
<1>4. /\ Clear \in Client /\ ~ Clear.allocated /\ ~ Clear.halt /\ Clear.route_count = 0
      /\ Clear.vaddr_handle = NoHandle /\ Clear.addr = NoAddr /\ Clear.cn = NoName
      /\ ~ Clear.connection_established /\ ~ Clear.context_auth /\ ~ Clear.did_iroutes
      /\ Clear.n_clients_delta = 0
  BY Finite DEF Clear, Client
<1>5. /\ e \in Client /\ e.allocated /\ ~ e.halt /\ e.refcount = 1 /\ e.route_count = 0
      /\ e.vaddr_handle = NoHandle /\ e.addr = NoAddr /\ e.cn = NoName
      /\ ~ e.connection_established /\ ~ e.context_auth /\ ~ e.did_iroutes
      /\ e.n_clients_delta = 0 /\ e.context_auth = e.did_iroutes
  <2> DEFINE b == [Clear EXCEPT !.refcount = 1]
  <2>1. e = [b EXCEPT !.allocated = TRUE]
    BY <1>4 DEF Client
  <2>2. /\ b \in Client /\ ~ b.halt /\ b.refcount = 1 /\ b.route_count = 0
        /\ b.vaddr_handle = NoHandle /\ b.addr = NoAddr /\ b.cn = NoName
        /\ ~ b.connection_established /\ ~ b.context_auth /\ ~ b.did_iroutes
        /\ b.n_clients_delta = 0
    BY <1>4 DEF Client
  <2> HIDE DEF b, e
  <2>3. e \in Client /\ e.allocated /\ (~ e.halt <=> ~ b.halt)
    BY <2>1, <2>2 DEF Client
  <2>4. /\ e.refcount = b.refcount /\ e.route_count = b.route_count
        /\ e.vaddr_handle = b.vaddr_handle /\ e.addr = b.addr /\ e.cn = b.cn
        /\ e.connection_established = b.connection_established
        /\ e.context_auth = b.context_auth /\ e.did_iroutes = b.did_iroutes
        /\ e.n_clients_delta = b.n_clients_delta
    BY <2>1, <2>2 DEF Client
  <2>5. e.context_auth \in BOOLEAN /\ e.did_iroutes \in BOOLEAN /\ ~ e.context_auth /\ ~ e.did_iroutes
    BY <2>2, <2>3, <2>4 DEF Client
  <2>6. e.context_auth = e.did_iroutes
    BY <2>5
  <2> QED
    BY <2>2, <2>3, <2>4, <2>6
<1>6. nn = [mm EXCEPT !.created = i, !.hash = h, !.instance = f]
  BY <1>1 DEF Created, Context
<1> HIDE DEF e
<1>7. f \in [Instance -> Client] /\ \A x \in Instance : f[x] = IF x = i THEN e ELSE mm.instance[x]
  BY <1>1, <1>2, <1>5 DEF Context
<1>8. h \in [Real -> Instance \cup {Null}] /\ \A s \in Real : h[s] = IF s = r THEN i ELSE mm.hash[s]
  BY <1>1, <1>2 DEF Context
<1> HIDE DEF f, h, i
<1>9. /\ nn \in Context /\ nn.instance = f
      /\ nn.vhash = mm.vhash /\ nn.net_len_refcount = mm.net_len_refcount
      /\ nn.created = i /\ nn.hash = h /\ nn.pool = mm.pool /\ nn.pending = mm.pending
      /\ nn.mbuf = mm.mbuf /\ nn.n_clients = mm.n_clients /\ nn.failed = mm.failed /\ nn.home = mm.home
  BY <1>1, <1>2, <1>6, <1>7, <1>8 DEF Context
<1>10. \A x \in Instance : nn.instance[x] = IF x = i THEN e ELSE mm.instance[x]
  BY <1>7, <1>9
<1>11. i \notin Live(mm) /\ Live(nn) = Live(mm) \cup {i}
  BY <1>2, <1>3, <1>4, <1>5, <1>10 DEF Live
<1>12. \A x \in Live(mm) : x \in Instance /\ x # i /\ nn.instance[x] = mm.instance[x]
  BY <1>10, <1>11 DEF Live
<1>13. \A k \in Key : mm.vhash[k].instance # i
  <2>1. Cardinality(RoutesTo(mm, i)) = 0
    BY <1>1, <1>2, <1>3, <1>4 DEF Counted
  <2>2. RoutesTo(mm, i) = {}
    BY <2>1, RoutesFinite, FS_EmptySet
  <2> QED
    BY <2>2 DEF RoutesTo
<1>14. Counted(nn)
  <2>1. \A x : RoutesTo(nn, x) = RoutesTo(mm, x)
    BY <1>9 DEF RoutesTo
  <2> SUFFICES ASSUME NEW x \in Instance
               PROVE  /\ nn.instance[x].route_count = Cardinality(RoutesTo(mm, x))
                      /\ nn.instance[x].refcount = nn.instance[x].route_count + (IF x \in Live(nn) THEN 1 ELSE 0)
                      /\ nn.instance[x].allocated <=> nn.instance[x].refcount > 0
                      /\ nn.instance[x].route_count <= MaxRoutes
    BY <2>1 DEF Counted
  <2>2. CASE x = i
    <3>1. Cardinality(RoutesTo(mm, x)) = 0
      BY <2>2, <1>1, <1>3, <1>4 DEF Counted
    <3> QED
      BY <3>1, <2>2, <1>5, <1>10, <1>11, MultiAssumption
  <2>3. CASE x # i
    <3>1. nn.instance[x] = mm.instance[x] /\ (x \in Live(nn) <=> x \in Live(mm))
      BY <2>3, <1>10, <1>11
    <3> QED
      BY <3>1, <1>1 DEF Counted
  <2> QED
    BY <2>2, <2>3
<1>15. RouteOk(nn, Null, 0)
  <2> SUFFICES ASSUME NEW k \in Key
               PROVE  /\ nn.vhash[k].instance = Null => nn.vhash[k] = NoRoute
                      /\ nn.vhash[k].instance \in Live(nn) =>
                           nn.vhash[k].instance = Null \/ nn.instance[nn.vhash[k].instance].context_auth
                      /\ k \in Net => ~ nn.vhash[k].cache
                      /\ k \in Net /\ nn.vhash[k].instance \in Live(nn) => k \in Nets(nn, nn.vhash[k].instance, Null, 0)
    BY DEF RouteOk
  <2>1. nn.vhash[k] = mm.vhash[k] /\ (nn.vhash[k].instance \in Live(nn) => mm.vhash[k].instance \in Live(mm))
    BY <1>9, <1>11, <1>13
  <2>2. nn.vhash[k].instance \in Live(nn) => nn.instance[mm.vhash[k].instance] = mm.instance[mm.vhash[k].instance]
    BY <2>1, <1>12
  <2>3. nn.vhash[k].instance \in Live(nn) => Nets(nn, mm.vhash[k].instance, Null, 0) = Nets(mm, mm.vhash[k].instance, Null, 0)
    BY <2>2 DEF Nets
  <2> QED
    BY <2>1, <2>2, <2>3, <1>1 DEF RouteOk
<1>16. LengthsOk(nn, Null, 0)
  <2>1. Named(nn)
    BY <1>1, <1>2, <1>5, <1>10, <1>11, <1>12 DEF LengthsOk, Named
  <2>2. ASSUME NEW b PROVE Holding(nn, b) = Holding(mm, b)
    <3> DEFINE I == {x \in Live(mm) : mm.instance[x].did_iroutes}
    <3>1. {x \in Live(nn) : nn.instance[x].did_iroutes} = I
      BY <1>2, <1>5, <1>10, <1>11, <1>12
    <3>2. \A x \in I : nn.instance[x] = mm.instance[x]
      BY <1>12
    <3>3. Holding(mm, b) = UNION {{x} \X OfLength(Iroutes[mm.instance[x].cn], b) : x \in I}
      BY DEF Holding
    <3>4. Holding(nn, b) = UNION {{x} \X OfLength(Iroutes[nn.instance[x].cn], b) : x \in I}
      BY <3>1, Zenon DEF Holding
    <3> HIDE DEF I
    <3> QED
      BY <3>2, <3>3, <3>4
  <2> QED
    BY <2>1, <2>2, <1>1, <1>9 DEF LengthsOk
<1>17. CacheOk(nn)
  <2>1. \A k \in Key : multi_route_defined(nn, nn.vhash[k]) <=> multi_route_defined(mm, mm.vhash[k])
    <3> SUFFICES ASSUME NEW k \in Key
                 PROVE  multi_route_defined(nn, nn.vhash[k]) <=> multi_route_defined(mm, mm.vhash[k])
      OBVIOUS
    <3>1. mm.vhash[k] # NoRoute => mm.vhash[k].instance \in Instance /\ mm.vhash[k].instance # i
      BY <1>1, <1>13, Leads
    <3>2. mm.vhash[k] # NoRoute => nn.instance[mm.vhash[k].instance] = mm.instance[mm.vhash[k].instance]
      BY <3>1, <1>10
    <3> QED
      BY <3>2, <1>9 DEF multi_route_defined
  <2>2. \A a : Routed(nn, a) = Routed(mm, a)
    BY <2>1, <1>9, KeyIs DEF Routed
  <2> QED
    BY <2>1, <2>2, <1>1, <1>9, KeyIs DEF CacheOk
<1>18. Found(nn)
  <2>1. mm.pending \in Live(nn) \cup {Null} /\ \A k \in DOMAIN mm.mbuf : mm.mbuf[k] \in Live(nn) \cup {Null}
    BY <1>1, <1>11 DEF Found
  <2>2. \A s \in Real : h[s] \in Live(nn) \cup {Null}
    BY <1>1, <1>8, <1>11 DEF Found
  <2>3. \A x \in Live(nn) : \E s \in Real : h[s] = x
    <3> SUFFICES ASSUME NEW x \in Live(nn) PROVE \E s \in Real : h[s] = x
      OBVIOUS
    <3>1. CASE x = i
      BY <3>1, <1>8
    <3>2. CASE x # i
      <4>1. x \in Live(mm)
        BY <3>2, <1>11
      <4>2. PICK s \in Real : mm.hash[s] = x
        BY <4>1, <1>1 DEF Found
      <4>3. s # r
        BY <4>1, <4>2, Finite DEF Live
      <4> QED
        BY <4>2, <4>3, <1>8
    <3> QED
      BY <3>1, <3>2
  <2>4. \A s, t \in Real : h[s] = h[t] /\ h[s] # Null => s = t
    <3>1. \A s \in Real : mm.hash[s] # i
      BY <1>1, <1>2, <1>11 DEF Found
    <3>2. \A s, t \in Real : mm.hash[s] = mm.hash[t] /\ mm.hash[s] # Null => s = t
      BY <1>1 DEF Found
    <3> QED
      BY <3>1, <3>2, <1>8
  <2> QED
    BY <2>1, <2>2, <2>3, <2>4, <1>1, <1>9 DEF Found
<1>19. Progress(nn)
  <2>1. Connected(nn) = Connected(mm)
    BY <1>2, <1>5, <1>10, <1>11, <1>12 DEF Connected
  <2>2. \A x \in Instance : nn.created < x => nn.instance[x] = Clear
    <3> SUFFICES ASSUME NEW x \in Instance, i < x PROVE nn.instance[x] = Clear
      BY <1>9
    <3>1. mm.created \in Nat /\ x \in Nat /\ i = mm.created + 1
      BY <1>1, Finite, MultiAssumption DEF Context, i
    <3>2. mm.created < x /\ x # i
      BY <3>1
    <3> QED
      BY <3>2, <1>1, <1>10 DEF Progress
  <2>3. \A x, y \in Connected(nn) : nn.instance[x].cn = nn.instance[y].cn => x = y
    <3>1. \A x \in Connected(mm) : nn.instance[x] = mm.instance[x]
      BY <1>12 DEF Connected
    <3> QED
      BY <3>1, <2>1, <1>1 DEF Progress
  <2>4. \A x \in Live(nn) :
          LET mi == nn.instance[x]
          IN /\ mi.n_clients_delta = (IF mi.connection_established THEN 1 ELSE 0)
             /\ mi.connection_established => mi.cn \in CN
             /\ ~ mi.connection_established =>
                  /\ mi.vaddr_handle = NoHandle /\ mi.addr = NoAddr
                  /\ ~ mi.context_auth
             /\ mi.did_iroutes = mi.context_auth
    <3> SUFFICES ASSUME NEW x \in Live(nn), NEW mi, mi = nn.instance[x]
                 PROVE  /\ mi.n_clients_delta = (IF mi.connection_established THEN 1 ELSE 0)
                        /\ mi.connection_established => mi.cn \in CN
                        /\ ~ mi.connection_established =>
                             /\ mi.vaddr_handle = NoHandle /\ mi.addr = NoAddr
                             /\ ~ mi.context_auth
                        /\ mi.did_iroutes = mi.context_auth
      OBVIOUS
    <3>1. CASE x = i
      <4>1. mi = e
        BY <3>1, <1>2, <1>10
      <4> QED
        BY <4>1, <1>5
    <3>2. CASE x # i
      <4>1. x \in Live(mm) /\ mi = mm.instance[x]
        BY <3>2, <1>11, <1>12
      <4> QED
        BY <4>1, <1>1 DEF Progress
    <3> QED
      BY <3>1, <3>2
  <2> QED
    BY <2>1, <2>2, <2>3, <2>4, <1>1, <1>9 DEF Progress
<1>20. Leases(nn)
  <2>1. NoAddr \notin Handle /\ NoAddr \notin Host
    BY MultiAssumption DEF Addr
  <2>2. nn.instance[i] = e
    BY <1>2, <1>10
  <2>3. \A x \in Live(nn) :
          LET mi == nn.instance[x]
          IN /\ mi.vaddr_handle # NoHandle =>
                  /\ nn.pool[mi.vaddr_handle].in_use
                  /\ nn.pool[mi.vaddr_handle].common_name = mi.cn
                  /\ mi.addr = mi.vaddr_handle
             /\ mi.addr \in Handle => mi.vaddr_handle = mi.addr
             /\ mi.addr \in Host => mi.addr \in Push[mi.cn]
    <3> SUFFICES ASSUME NEW x \in Live(nn)
                 PROVE  LET mi == nn.instance[x]
                        IN /\ mi.vaddr_handle # NoHandle =>
                                /\ nn.pool[mi.vaddr_handle].in_use
                                /\ nn.pool[mi.vaddr_handle].common_name = mi.cn
                                /\ mi.addr = mi.vaddr_handle
                           /\ mi.addr \in Handle => mi.vaddr_handle = mi.addr
                           /\ mi.addr \in Host => mi.addr \in Push[mi.cn]
      OBVIOUS
    <3>1. CASE x = i
      BY <3>1, <2>1, <2>2, <1>5
    <3>2. CASE x # i
      <4>1. x \in Live(mm) /\ nn.instance[x] = mm.instance[x] /\ nn.pool = mm.pool
        BY <3>2, <1>9, <1>11, <1>12
      <4> QED
        BY <4>1, <1>1 DEF Leases
    <3> QED
      BY <3>1, <3>2
  <2>4. \A g \in Handle : nn.pool[g].in_use => \E x \in Live(nn) : nn.instance[x].vaddr_handle = g
    <3> SUFFICES ASSUME NEW g \in Handle, nn.pool[g].in_use
                 PROVE  \E x \in Live(nn) : nn.instance[x].vaddr_handle = g
      OBVIOUS
    <3>1. PICK x \in Live(mm) : mm.instance[x].vaddr_handle = g
      BY <1>1, <1>9 DEF Leases
    <3>2. x \in Live(nn) /\ nn.instance[x] = mm.instance[x]
      BY <1>11, <1>12
    <3> QED
      BY <3>1, <3>2
  <2> QED
    BY <2>3, <2>4, <1>1, <1>9 DEF Leases
<1>21. Addressed(mm) => Addressed(nn)
  <2>1. ~ nn.instance[i].context_auth
    BY <1>2, <1>5, <1>10
  <2> QED
    BY <2>1, <1>9, <1>11, <1>12 DEF Addressed
<1>22. Inv(nn)
  BY <1>1, <1>9, <1>14, <1>15, <1>16, <1>17, <1>18, <1>19, <1>20 DEF Inv, RouteInv, ClientInv
<1>23. \A x \in Instance :
         LET c == mm.instance[x]
             d == nn.instance[x]
         IN /\ d.vaddr_handle = c.vaddr_handle
            /\ c.cn # NoName \/ c.vaddr_handle # NoHandle => d.cn = c.cn
  BY <1>3, <1>4, <1>5, <1>10
<1> QED
  BY <1>8, <1>9, <1>11, <1>21, <1>22, <1>23 DEF Beside

(* The beginning. *)
LEMMA InitInv == Init => Inv(m) /\ Addressed(m)
<1> SUFFICES ASSUME Init PROVE Inv(m) /\ Addressed(m)
  OBVIOUS
<1>1. /\ Clear \in Client /\ ~ Clear.allocated /\ Clear.refcount = 0 /\ Clear.route_count = 0
  BY Finite DEF Clear, Client
<1>2. NoRoute \in Route /\ NoRoute.instance = Null /\ ~ NoRoute.cache /\ Null \notin Instance
  BY Finite DEF NoRoute, Route
<1>3. /\ m.instance = [i \in Instance |-> Clear] /\ m.created = 0 /\ m.hash = [r \in Real |-> Null]
      /\ m.vhash = [k \in Key |-> NoRoute]
      /\ m.net_len_refcount = [b \in Length |-> 0]
      /\ m.pool = [h \in Handle |-> [in_use |-> FALSE, common_name |-> NoName, last_release |-> 0]]
      /\ m.pending = Null /\ m.mbuf = << >> /\ m.n_clients = 0 /\ m.failed = {}
      /\ m.home = [c \in CN |-> NoHandle]
  BY DEF Init, Length
<1>4. m \in Context
  <2>1. [in_use |-> FALSE, common_name |-> NoName, last_release |-> 0] \in Entry
    BY DEF Entry
  <2>2. /\ m.instance \in [Instance -> Client] /\ m.created \in 0 .. MaxInstances
        /\ m.hash \in [Real -> Instance \cup {Null}] /\ m.vhash \in [Key -> Route]
        /\ m.net_len_refcount \in [Length -> Int] /\ m.pool \in [Handle -> Entry]
        /\ m.pending \in Instance \cup {Null} /\ m.mbuf \in Seq(Instance \cup {Null})
        /\ m.n_clients \in Int /\ m.failed \in SUBSET {"mi"} /\ m.home \in [CN -> Handle \cup {NoHandle}]
    BY <2>1, <1>1, <1>2, <1>3, MultiAssumption
  <2>3. m = [instance |-> m.instance, created |-> m.created, hash |-> m.hash, vhash |-> m.vhash,
             net_len_refcount |-> m.net_len_refcount, pool |-> m.pool, pending |-> m.pending,
             mbuf |-> m.mbuf, n_clients |-> m.n_clients, failed |-> m.failed, home |-> m.home]
    BY DEF Init
  <2> QED
    BY <2>2, <2>3 DEF Context
<1>5. Live(m) = {}
  BY <1>1, <1>3 DEF Live
<1>6. Counted(m)
  <2>1. \A i \in Instance : RoutesTo(m, i) = {}
    BY <1>2, <1>3 DEF RoutesTo
  <2>2. Cardinality({}) = 0
    BY FS_EmptySet
  <2>3. \A i \in Instance : m.instance[i] = Clear
    BY <1>3
  <2> SUFFICES ASSUME NEW i \in Instance
               PROVE  /\ m.instance[i].route_count = Cardinality(RoutesTo(m, i))
                      /\ m.instance[i].refcount = m.instance[i].route_count + (IF i \in Live(m) THEN 1 ELSE 0)
                      /\ m.instance[i].allocated <=> m.instance[i].refcount > 0
                      /\ m.instance[i].route_count <= MaxRoutes
    BY DEF Counted
  <2>4. m.instance[i].route_count = 0 /\ m.instance[i].refcount = 0 /\ ~ m.instance[i].allocated
    BY <2>3, <1>1
  <2>5. Cardinality(RoutesTo(m, i)) = 0 /\ i \notin Live(m) /\ 0 <= MaxRoutes
    <3>1. RoutesTo(m, i) = {}
      BY <2>1
    <3>2. Cardinality(RoutesTo(m, i)) = 0
      BY <3>1, FS_EmptySet
    <3>3. i \notin Live(m)
      BY <1>5
    <3>4. 0 <= MaxRoutes
      BY MultiAssumption
    <3> QED
      BY <3>2, <3>3, <3>4
  <2>6. m.instance[i].refcount = m.instance[i].route_count + (IF i \in Live(m) THEN 1 ELSE 0)
    BY <2>4, <2>5
  <2>7. m.instance[i].allocated <=> m.instance[i].refcount > 0
    BY <2>4
  <2> QED
    BY <2>4, <2>5, <2>6, <2>7
<1>7. RouteOk(m, Null, 0) /\ CacheOk(m)
  BY <1>2, <1>3, <1>5, KeyIs DEF RouteOk, CacheOk
<1>8. LengthsOk(m, Null, 0)
  <2>1. \A b : Holding(m, b) = {}
    BY <1>5 DEF Holding
  <2>2. Named(m)
    BY <1>5 DEF Named
  <2>3. Cardinality({}) = 0
    BY FS_EmptySet
  <2>4. \A b \in Length : m.net_len_refcount[b] = 0
    BY <1>3
  <2> QED
    BY <2>1, <2>2, <2>3, <2>4 DEF LengthsOk
<1>9. Found(m)
  BY <1>3, <1>5, MultiAssumption DEF Found
<1>10. Progress(m)
  <2>1. Connected(m) = {}
    BY <1>5 DEF Connected
  <2> QED
    BY <2>1, <1>3, <1>5, FS_EmptySet DEF Progress
<1>11. Leases(m)
  BY <1>3, <1>5, MultiAssumption DEF Leases
<1>12. Addressed(m)
  BY <1>5 DEF Addressed
<1> QED
  BY <1>3, <1>4, <1>6, <1>7, <1>8, <1>9, <1>10, <1>11, <1>12 DEF Inv, RouteInv, ClientInv

-----------------------------------------------------------------------------
(* Parts of the event loop's steps. *)
LEMMA CloseStep ==
  ASSUME NEW mm, Inv(mm), NEW i \in Live(mm), NEW now \in Nat, NEW nn, nn = multi_close_instance(mm, i, now)
  PROVE  Keeps(mm, nn)
<1>1. Inv(nn) /\ Closes(mm, nn, i) /\ (Addressed(mm) => Addressed(nn)) /\ mm \in Context /\ mm.instance[i] \in Client
  <2>1. mm \in Context
    BY DEF Inv
  <2> QED
    BY <2>1, LiveIs, CloseKeeps
<1>2. \A x \in Instance : nn.instance[x] = IF x = i THEN Rest(mm.instance[i]) ELSE mm.instance[x]
  BY <1>1 DEF Closes
<1>3. Rest(mm.instance[i]).vaddr_handle = NoHandle
  BY <1>1, RestIs
<1>4. HomeStep(mm, nn)
  BY <1>2, <1>3 DEF HomeStep
<1> QED
  BY <1>1, <1>4 DEF Keeps

LEMMA CloseAllStep ==
  ASSUME NEW mm, Inv(mm), NEW is \in SUBSET Live(mm), NEW now \in Nat, NEW nn, nn = CloseAll(mm, is, now)
  PROVE  Keeps(mm, nn)
<1>1. ClosedAll(mm, nn, is)
  BY CloseAllKeeps
<1>2. \A x \in Instance : nn.instance[x].vaddr_handle = NoHandle \/ nn.instance[x] = mm.instance[x]
  BY <1>1 DEF ClosedAll
<1>3. HomeStep(mm, nn)
  BY <1>2 DEF HomeStep
<1> QED
  BY <1>1, <1>3 DEF Keeps, ClosedAll

LEMMA QueueIs ==
  ASSUME NEW mm, Inv(mm)
  PROVE  /\ mm.mbuf \in Seq(Live(mm) \cup {Null}) /\ Len(mm.mbuf) <= Capacity /\ Len(mm.mbuf) \in Nat
         /\ mm.pending \in Live(mm) \cup {Null} /\ mm.failed \in SUBSET {"mi"} /\ mm \in Context
<1>1. mm \in Context /\ Found(mm) /\ mm.failed \in SUBSET {"mi"}
  BY DEF Inv, ClientInv
<1>2. mm.mbuf \in Seq(Instance \cup {Null})
  BY <1>1 DEF Context
<1>3. \A k \in 1 .. Len(mm.mbuf) : mm.mbuf[k] \in Live(mm) \cup {Null}
  BY <1>1, <1>2 DEF Found
<1>4. mm.mbuf \in Seq(Live(mm) \cup {Null})
  BY <1>2, <1>3
<1> QED
  BY <1>1, <1>2, <1>4 DEF Found

LEMMA PendingBeside ==
  ASSUME NEW mm, Inv(mm), NEW p \in Live(mm) \cup {Null}, NEW nn, nn = [mm EXCEPT !.pending = p]
  PROVE  Beside(mm, nn) /\ Live(nn) = Live(mm) /\ nn.mbuf = mm.mbuf /\ nn.hash = mm.hash
         /\ nn.instance = mm.instance
<1>1. /\ mm.mbuf \in Seq(Live(mm) \cup {Null}) /\ Len(mm.mbuf) <= Capacity
      /\ mm.failed \in SUBSET {"mi"} /\ mm \in Context
  BY QueueIs
<1> DEFINE w == WithQueue(mm, p, mm.mbuf, mm.failed)
<1>2. nn = w
  BY <1>1 DEF WithQueue, Context
<1>3. Beside(mm, w) /\ Live(w) = Live(mm)
  <2> DEFINE q == mm.mbuf
             f == mm.failed
  <2>1. q \in Seq(Live(mm) \cup {Null}) /\ Len(q) <= Capacity /\ f \in SUBSET {"mi"}
    BY <1>1
  <2>2. w = WithQueue(mm, p, q, f) /\ p \in Live(mm) \cup {Null}
    OBVIOUS
  <2> HIDE DEF q, f, w
  <2> QED
    BY <2>1, <2>2, QueueBeside, SMTT(60)
<1>4. w.mbuf = mm.mbuf /\ w.hash = mm.hash /\ w.instance = mm.instance
  BY <1>1 DEF WithQueue, Context
<1> HIDE DEF w
<1> QED
  BY <1>2, <1>3, <1>4

LEMMA MbufBeside ==
  ASSUME NEW mm, Inv(mm), NEW q \in Seq(Live(mm) \cup {Null}), Len(q) <= Capacity,
         NEW nn, nn = [mm EXCEPT !.mbuf = q]
  PROVE  Beside(mm, nn) /\ Live(nn) = Live(mm)
<1>1. mm.pending \in Live(mm) \cup {Null} /\ mm.failed \in SUBSET {"mi"} /\ mm \in Context
  BY QueueIs
<1> DEFINE w == WithQueue(mm, mm.pending, q, mm.failed)
<1>2. nn = w
  BY <1>1 DEF WithQueue, Context
<1>3. Beside(mm, w) /\ Live(w) = Live(mm)
  BY <1>1, QueueBeside
<1> HIDE DEF w
<1> QED
  BY <1>2, <1>3

LEMMA FailedBeside ==
  ASSUME NEW mm, Inv(mm), NEW nn, nn = Asserted(mm, FALSE, "mi")
  PROVE  Beside(mm, nn)
<1>1. /\ mm.mbuf \in Seq(Live(mm) \cup {Null}) /\ Len(mm.mbuf) <= Capacity
      /\ mm.pending \in Live(mm) \cup {Null} /\ mm.failed \in SUBSET {"mi"} /\ mm \in Context
  BY QueueIs
<1> DEFINE f == mm.failed \cup {"mi"}
<1>2. f \in SUBSET {"mi"}
  BY <1>1
<1> DEFINE w == WithQueue(mm, mm.pending, mm.mbuf, f)
<1>3. nn = w
  BY <1>1 DEF WithQueue, Context, Asserted
<1> HIDE DEF f
<1>4. Beside(mm, w)
  BY <1>1, <1>2, QueueBeside
<1> HIDE DEF w
<1> QED
  BY <1>3, <1>4

Pended(x, i, made) ==
  LET y == Out(x, i, made, {})
  IN [y EXCEPT !.pending = IF y.instance[i].out # {} THEN i ELSE Null]

LEMMA PendedBeside ==
  ASSUME NEW mm, Inv(mm), NEW i \in Live(mm), NEW made \in {{}, {"LINK"}},
         NEW nn, nn = Pended(mm, i, made)
  PROVE  Beside(mm, nn)
<1> DEFINE y == Out(mm, i, made, {})
           p == IF y.instance[i].out # {} THEN i ELSE Null
<1>1. made \in SUBSET {"TUN", "LINK"}
  OBVIOUS
<1>2. Beside(mm, y) /\ Live(y) = Live(mm)
  BY <1>1, OutBeside
<1>3. nn = [y EXCEPT !.pending = p]
  BY DEF Pended
<1> HIDE DEF y
<1>4. p \in Live(y) \cup {Null} /\ Inv(y)
  BY <1>2 DEF Beside
<1> HIDE DEF p
<1>5. Beside(y, nn)
  BY <1>3, <1>4, PendingBeside
<1> QED
  BY <1>2, <1>5, BesideTwice

(* multi_process_post. *)
LEMMA PostKeeps ==
  ASSUME Inv(m), NEW mm, Beside(m, mm), NEW i \in Live(mm), Post(mm, i)
  PROVE  Keeps(m, m')
<1>1. Inv(mm) /\ mm \in Context /\ i \in Instance /\ mm.instance[i] \in Client /\ Live(mm) \in SUBSET Instance
  BY LiveIs DEF Beside, Inv, Live
<1>2. SUFFICES Keeps(mm, m')
  BY KeepsAfter
<1>3. ASSUME NEW now \in Clock(mm, {i}), m' = multi_close_instance(mm, i, now)
      PROVE  Keeps(mm, m')
  <2>1. now \in Nat
    <3>1. {i} \in SUBSET Instance
      BY <1>1
    <3> QED
      BY <1>1, <3>1, ClockIs
  <2> QED
    BY <2>1, <1>1, <1>3, CloseStep
<1>4. ASSUME NEW made \in {{}, {"LINK"}}, m' = Pended(mm, i, made)
      PROVE  Keeps(mm, m')
  BY <1>1, <1>4, PendedBeside, BesideKeeps
<1>5. ASSUME m.instance[i].cn # NoName, ~ mm.instance[i].connection_established,
             NEW now \in Clock(mm, Live(mm)), NEW made \in {{}, {"LINK"}},
             NEW push \in Push[mm.instance[i].cn] \cup {NoAddr}, NEW succeeded \in BOOLEAN,
             m' = Pended(Established(mm, i, push, succeeded, now), i, made)
      PROVE  Keeps(mm, m')
  <2> DEFINE nn == Established(mm, i, push, succeeded, now)
  <2>1. now \in Nat
    BY <1>1, ClockIs
  <2>2. mm.instance[i].cn = m.instance[i].cn
    BY <1>1, <1>5 DEF Beside
  <2>3. mm.instance[i].cn \in CN
    BY <1>1, <1>5, <2>2 DEF Client
  <2>4. Keeps(mm, nn) /\ i \in Live(nn)
    BY <1>1, <1>5, <2>1, <2>3, EstablishedKeeps
  <2> HIDE DEF nn
  <2>5. Inv(nn) /\ m' = Pended(nn, i, made)
    BY <1>5, <2>4 DEF Keeps, nn
  <2>6. Beside(nn, m')
    BY <2>4, <2>5, PendedBeside
  <2> QED
    BY <2>4, <2>6, KeepsBefore
<1>6. \/ \E now \in Clock(mm, {i}) : m' = multi_close_instance(mm, i, now)
      \/ \E made \in {{}, {"LINK"}} : m' = Pended(mm, i, made)
      \/ /\ m.instance[i].cn # NoName /\ ~ mm.instance[i].connection_established
         /\ \E now \in Clock(mm, Live(mm)), made \in {{}, {"LINK"}} :
              \/ \E push \in Push[mm.instance[i].cn] : m' = Pended(Established(mm, i, push, TRUE, now), i, made)
              \/ \E push \in Push[mm.instance[i].cn] \cup {NoAddr} :
                   m' = Pended(Established(mm, i, push, FALSE, now), i, made)
  BY DEF Post, Pended
<1>7. CASE /\ m.instance[i].cn # NoName /\ ~ mm.instance[i].connection_established
           /\ \E now \in Clock(mm, Live(mm)), made \in {{}, {"LINK"}} :
                \/ \E push \in Push[mm.instance[i].cn] : m' = Pended(Established(mm, i, push, TRUE, now), i, made)
                \/ \E push \in Push[mm.instance[i].cn] \cup {NoAddr} :
                     m' = Pended(Established(mm, i, push, FALSE, now), i, made)
  <2>1. PICK now \in Clock(mm, Live(mm)) :
          \E made \in {{}, {"LINK"}} :
            \/ \E push \in Push[mm.instance[i].cn] : m' = Pended(Established(mm, i, push, TRUE, now), i, made)
            \/ \E push \in Push[mm.instance[i].cn] \cup {NoAddr} :
                 m' = Pended(Established(mm, i, push, FALSE, now), i, made)
    BY <1>7
  <2>2. PICK made \in {{}, {"LINK"}} :
          \/ \E push \in Push[mm.instance[i].cn] : m' = Pended(Established(mm, i, push, TRUE, now), i, made)
          \/ \E push \in Push[mm.instance[i].cn] \cup {NoAddr} :
               m' = Pended(Established(mm, i, push, FALSE, now), i, made)
    BY <2>1
  <2>3. CASE \E push \in Push[mm.instance[i].cn] : m' = Pended(Established(mm, i, push, TRUE, now), i, made)
    <3>1. PICK push \in Push[mm.instance[i].cn] : m' = Pended(Established(mm, i, push, TRUE, now), i, made)
      BY <2>3
    <3> QED
      BY <3>1, <1>5, <1>7
  <2>4. CASE \E push \in Push[mm.instance[i].cn] \cup {NoAddr} :
               m' = Pended(Established(mm, i, push, FALSE, now), i, made)
    <3>1. PICK push \in Push[mm.instance[i].cn] \cup {NoAddr} :
            m' = Pended(Established(mm, i, push, FALSE, now), i, made)
      BY <2>4
    <3> QED
      BY <3>1, <1>5, <1>7
  <2> QED
    BY <2>2, <2>3, <2>4
<1> QED
  BY <1>3, <1>4, <1>6, <1>7

LEMMA ForwardedBeside ==
  ASSUME NEW mm, Inv(mm), mm.mbuf = << >>, NEW i \in Live(mm), NEW dest \in Addr \cup {NoAddr, All},
         NEW nn, nn = Forwarded(mm, i, dest)
  PROVE  Beside(mm, nn) /\ i \in Live(nn)
<1> DEFINE to == IF dest \in Addr THEN Lookup(mm, dest) ELSE [instance |-> Null, m |-> mm]
           t == to.instance
           tt == to.m
<1>1. nn = IF dest = All THEN Out(multi_bcast(mm, i), i, {"TUN"}, {})
           ELSE IF t = Null THEN Out(tt, i, {"TUN"}, {})
           ELSE Out(mbuf_add_item(tt, t), i, {}, {"TUN"})
  BY DEF Forwarded
<1>2. Beside(mm, tt) /\ Live(tt) = Live(mm) /\ tt.mbuf = << >> /\ t \in Live(mm) \cup {Null}
  <2>1. CASE dest \in Addr
    <3>1. to = Lookup(mm, dest)
      BY <2>1
    <3> HIDE DEF to
    <3> QED
      BY <2>1, <3>1, LookupBeside
  <2>2. CASE dest \notin Addr
    <3>1. t = Null /\ tt = mm
      BY <2>2
    <3> QED
      BY <3>1, BesideItself
  <2> QED
    BY <2>1, <2>2
<1> HIDE DEF t, tt
<1>3. {} \in SUBSET {"TUN", "LINK"} /\ {"TUN"} \in SUBSET {"TUN", "LINK"}
  OBVIOUS
<1>4. ASSUME NEW x, Beside(mm, x), Live(x) = Live(mm), NEW put \in SUBSET {"TUN", "LINK"}, NEW sent,
             nn = Out(x, i, put, sent)
      PROVE  Beside(mm, nn) /\ i \in Live(nn)
  <2>1. Inv(x) /\ i \in Live(x)
    BY <1>4 DEF Beside
  <2>2. Beside(x, nn) /\ Live(nn) = Live(x)
    BY <1>4, <2>1, OutBeside
  <2> QED
    BY <1>4, <2>1, <2>2, BesideTwice
<1>5. CASE dest = All
  <2>1. Queued(mm, multi_bcast(mm, i))
    BY BcastQueued DEF Inv
  <2>2. Beside(mm, multi_bcast(mm, i)) /\ Live(multi_bcast(mm, i)) = Live(mm)
    BY <2>1, QueuedBeside
  <2> QED
    BY <2>2, <1>1, <1>3, <1>4, <1>5
<1>6. CASE dest # All /\ t = Null
  BY <1>1, <1>2, <1>3, <1>4, <1>6
<1>7. CASE dest # All /\ t # Null
  <2>1. Inv(tt) /\ tt \in Context /\ t \in Live(tt)
    BY <1>2, <1>7 DEF Beside, Inv
  <2>2. Queued(tt, tt)
    <3>1. << >> \in Seq(Live(tt)) /\ Len(<< >>) <= Capacity /\ tt = [tt EXCEPT !.mbuf = << >>]
      BY <1>2, <2>1, MultiAssumption DEF Context
    <3> QED
      BY <3>1 DEF Queued
  <2>3. Queued(tt, mbuf_add_item(tt, t))
    BY <2>1, <2>2, ItemQueued
  <2>4. Beside(tt, mbuf_add_item(tt, t)) /\ Live(mbuf_add_item(tt, t)) = Live(tt)
    BY <2>1, <2>3, QueuedBeside
  <2>5. Beside(mm, mbuf_add_item(tt, t))
    BY <1>2, <2>4, BesideTwice
  <2>6. nn = Out(mbuf_add_item(tt, t), i, {}, {"TUN"})
    BY <1>1, <1>7
  <2> QED
    BY <1>2, <1>3, <1>4, <2>4, <2>5, <2>6
<1> QED
  BY <1>5, <1>6, <1>7

-----------------------------------------------------------------------------
(* Steps. *)
LEMMA KillKeeps ==
  ASSUME Inv(m), NEW c, NEW now \in Clock(m, Live(m))
  PROVE  Keeps(m, Killed(c, now))
<1> DEFINE is == {i \in Live(m) : m.instance[i].cn = c}
<1>1. is \in SUBSET Live(m) /\ Live(m) \in SUBSET Instance /\ m \in Context
  BY DEF Live, Inv
<1>2. now \in Nat
  BY <1>1, ClockIs
<1>3. Killed(c, now) = CloseAll(m, is, now)
  BY DEF Killed
<1> HIDE DEF is
<1> QED
  BY <1>1, <1>2, <1>3, CloseAllStep

LEMMA ServesPending ==
  ASSUME Inv(m), m.pending # Null, NEW sent, NEW mm, mm = Out(m, m.pending, {}, sent), Post(mm, m.pending)
  PROVE  Keeps(m, m')
<1>1. m.pending \in Live(m)
  BY QueueIs
<1>2. Beside(m, mm) /\ Live(mm) = Live(m)
  <2>1. {} \in SUBSET {"TUN", "LINK"}
    OBVIOUS
  <2> QED
    BY <1>1, <2>1, OutBeside
<1> QED
  BY <1>1, <1>2, PostKeeps

LEMMA SocketWriteKeeps == Inv(m) /\ SocketWrite => Keeps(m, m')
<1> SUFFICES ASSUME Inv(m), SocketWrite PROVE Keeps(m, m')
  OBVIOUS
<1>1. CASE m.pending # Null /\ Post(Out(m, m.pending, {}, {"LINK"}), m.pending)
  BY <1>1, ServesPending
<1>2. CASE /\ m.mbuf # <<>>
           /\ LET head == mbuf_extract(m.mbuf)
                  taken == [m EXCEPT !.mbuf = head.rest]
              IN IF head.instance = Null THEN m' = taken
                 ELSE Post(Out(taken, head.instance, {}, {"LINK"}), head.instance)
  <2> DEFINE head == mbuf_extract(m.mbuf)
             i == head.instance
             taken == [m EXCEPT !.mbuf = head.rest]
  <2>1. m.mbuf \in Seq(Live(m) \cup {Null}) /\ Len(m.mbuf) <= Capacity /\ Len(m.mbuf) \in Nat /\ Capacity \in Nat
    BY QueueIs, MultiAssumption
  <2>2. Null \notin Live(m)
    BY Finite DEF Live
  <2>3. i \in Live(m) \cup {Null} /\ head.rest \in Seq(Live(m) \cup {Null}) /\ Len(head.rest) <= Len(m.mbuf)
    BY <2>1, <2>2, ExtractIs
  <2>4. IF i = Null THEN m' = taken ELSE Post(Out(taken, i, {}, {"LINK"}), i)
    BY <1>2
  <2> HIDE DEF head
  <2>5. Len(head.rest) <= Capacity
    <3>1. Len(head.rest) \in Nat
      BY <2>3
    <3> QED
      BY <2>1, <2>3, <3>1
  <2>6. Beside(m, taken) /\ Live(taken) = Live(m)
    BY <2>3, <2>5, MbufBeside
  <2> HIDE DEF taken, i
  <2>7. CASE i = Null
    BY <2>4, <2>6, <2>7, BesideKeeps
  <2>8. CASE i # Null
    <3> DEFINE mm == Out(taken, i, {}, {"LINK"})
    <3>1. i \in Live(taken) /\ Inv(taken) /\ {} \in SUBSET {"TUN", "LINK"}
      BY <2>3, <2>6, <2>8 DEF Beside, i
    <3>2. Beside(taken, mm) /\ Live(mm) = Live(taken)
      BY <3>1, OutBeside
    <3>3. Post(mm, i)
      BY <2>4, <2>8
    <3> HIDE DEF mm
    <3> QED
      BY <2>6, <3>1, <3>2, <3>3, BesideTwice, PostKeeps
  <2> QED
    BY <2>7, <2>8
<1> QED
  BY <1>1, <1>2 DEF SocketWrite

LEMMA TunWriteKeeps == Inv(m) /\ TunWrite => Keeps(m, m')
<1> SUFFICES ASSUME Inv(m), TunWrite PROVE Keeps(m, m')
  OBVIOUS
<1>1. CASE m.pending # Null /\ Post(Out(m, m.pending, {}, {"TUN"}), m.pending)
  BY <1>1, ServesPending
<1>2. ASSUME NEW c \in CN, NEW now \in Clock(m, Live(m)), m' = Asserted(Killed(c, now), FALSE, "mi")
      PROVE  Keeps(m, m')
  <2>1. Keeps(m, Killed(c, now))
    BY KillKeeps
  <2>2. Inv(Killed(c, now))
    BY <2>1 DEF Keeps
  <2>3. Beside(Killed(c, now), m')
    BY <1>2, <2>2, FailedBeside
  <2> QED
    BY <2>1, <2>3, KeepsBefore
<1> QED
  BY <1>1, <1>2 DEF TunWrite

LEMMA SocketReadKeeps ==
  ASSUME Inv(m), NEW r \in Real, SocketRead(r)
  PROVE  Keeps(m, m')
<1> DEFINE known == IF m.hash[r] # Null THEN m ELSE Created(m, r)
           i == known.hash[r]
           read == [known EXCEPT !.pending = i]
           none == Out(read, i, {}, {"TUN"})
<1>1. m.mbuf = << >> /\ (m.hash[r] = Null => m.created < MaxInstances)
  BY DEF SocketRead, Readable
<1>2. \/ Post(none, i)
      \/ /\ none.instance[i].cn = NoName
         /\ \E c \in CN : Post([none EXCEPT !.instance[i].cn = c], i)
      \/ /\ read.instance[i].context_auth
         /\ \E src \in Addr :
              LET from == Lookup(read, src)
              IN IF from.instance # i THEN Post(Out(from.m, i, {}, {"TUN"}), i)
                 ELSE \E dest \in Addr \cup {NoAddr, All} : Post(Forwarded(from.m, i, dest), i)
  BY DEF SocketRead
<1>3. Beside(m, known) /\ i \in Live(known) /\ known.mbuf = << >>
  <2>1. CASE m.hash[r] # Null
    <3>1. known = m
      BY <2>1
    <3>2. m.hash[r] \in Live(m)
      BY <2>1 DEF Inv, ClientInv, Found
    <3> QED
      BY <3>1, <3>2, <1>1, BesideItself
  <2>2. CASE m.hash[r] = Null
    <3>1. known = Created(m, r)
      BY <2>2
    <3> HIDE DEF known
    <3> QED
      BY <2>2, <3>1, <1>1, CreatedBeside
  <2> QED
    BY <2>1, <2>2
<1> HIDE DEF known, i
<1>4. Beside(m, read) /\ i \in Live(read) /\ read.mbuf = << >>
  <2>1. Inv(known) /\ i \in Live(known) \cup {Null}
    BY <1>3 DEF Beside
  <2>2. Beside(known, read) /\ Live(read) = Live(known) /\ read.mbuf = known.mbuf
    BY <2>1, PendingBeside
  <2> HIDE DEF read
  <2> QED
    BY <1>3, <2>2, BesideTwice
<1> HIDE DEF read
<1>5. Inv(read) /\ {} \in SUBSET {"TUN", "LINK"}
  BY <1>4 DEF Beside
<1>6. Beside(m, none) /\ i \in Live(none)
  <2>1. Beside(read, none) /\ Live(none) = Live(read)
    BY <1>4, <1>5, OutBeside
  <2> HIDE DEF none
  <2> QED
    BY <1>4, <2>1, BesideTwice
<1> HIDE DEF none
<1>7. CASE Post(none, i)
  BY <1>6, <1>7, PostKeeps
<1>8. ASSUME none.instance[i].cn = NoName, NEW c \in CN, Post([none EXCEPT !.instance[i].cn = c], i)
      PROVE  Keeps(m, m')
  <2> DEFINE nn == [none EXCEPT !.instance[i].cn = c]
  <2>1. Inv(none)
    BY <1>6 DEF Beside
  <2>2. Beside(none, nn) /\ Live(nn) = Live(none)
    BY <2>1, <1>6, <1>8, NameBeside
  <2>3. Post(nn, i)
    BY <1>8
  <2> HIDE DEF nn
  <2> QED
    BY <1>6, <2>2, <2>3, BesideTwice, PostKeeps
<1>9. ASSUME NEW src \in Addr,
             LET from == Lookup(read, src)
             IN IF from.instance # i THEN Post(Out(from.m, i, {}, {"TUN"}), i)
                ELSE \E dest \in Addr \cup {NoAddr, All} : Post(Forwarded(from.m, i, dest), i)
      PROVE  Keeps(m, m')
  <2> DEFINE from == Lookup(read, src)
             fm == from.m
  <2>1. Beside(read, fm) /\ Live(fm) = Live(read) /\ fm.mbuf = << >>
    BY <1>4, <1>5, LookupBeside
  <2>2. \/ Post(Out(fm, i, {}, {"TUN"}), i)
        \/ \E dest \in Addr \cup {NoAddr, All} : Post(Forwarded(fm, i, dest), i)
    BY <1>9
  <2> HIDE DEF fm
  <2>3. Beside(m, fm) /\ Inv(fm) /\ i \in Live(fm)
    BY <1>4, <2>1, BesideTwice DEF Beside
  <2>4. CASE Post(Out(fm, i, {}, {"TUN"}), i)
    <3> DEFINE nn == Out(fm, i, {}, {"TUN"})
    <3>1. Beside(fm, nn) /\ Live(nn) = Live(fm)
      BY <1>5, <2>3, OutBeside
    <3>2. Post(nn, i)
      BY <2>4
    <3> HIDE DEF nn
    <3> QED
      BY <2>3, <3>1, <3>2, BesideTwice, PostKeeps
  <2>5. ASSUME NEW dest \in Addr \cup {NoAddr, All}, Post(Forwarded(fm, i, dest), i)
        PROVE  Keeps(m, m')
    <3> DEFINE nn == Forwarded(fm, i, dest)
    <3>1. Beside(fm, nn) /\ i \in Live(nn)
      BY <2>1, <2>3, ForwardedBeside
    <3>2. Post(nn, i)
      BY <2>5
    <3> HIDE DEF nn
    <3> QED
      BY <2>3, <3>1, <3>2, BesideTwice, PostKeeps
  <2> QED
    BY <2>2, <2>4, <2>5
<1> QED
  BY <1>2, <1>7, <1>8, <1>9

LEMMA TunReadKeeps == Inv(m) /\ TunRead => Keeps(m, m')
<1> SUFFICES ASSUME Inv(m), TunRead PROVE Keeps(m, m')
  OBVIOUS
<1>1. m.mbuf = << >> /\ m \in Context
  BY DEF TunRead, Readable, Inv
<1>2. CASE m' = multi_bcast(m, Null)
  <2>1. Queued(m, m')
    BY <1>1, <1>2, BcastQueued
  <2> QED
    BY <2>1, QueuedBeside, BesideKeeps
<1>3. ASSUME NEW a \in Addr,
             LET to == Lookup(m, a)
             IN IF to.instance = Null THEN m' = to.m
                ELSE Post(Out(to.m, to.instance, {"LINK"}, {}), to.instance)
      PROVE  Keeps(m, m')
  <2> DEFINE i == Lookup(m, a).instance
             mm == Lookup(m, a).m
  <2>1. Beside(m, mm) /\ Live(mm) = Live(m) /\ i \in Live(m) \cup {Null}
    BY LookupBeside
  <2>2. IF i = Null THEN m' = mm ELSE Post(Out(mm, i, {"LINK"}, {}), i)
    BY <1>3
  <2> HIDE DEF i, mm
  <2>3. CASE i = Null
    BY <2>1, <2>2, <2>3, BesideKeeps
  <2>4. CASE i # Null
    <3> DEFINE nn == Out(mm, i, {"LINK"}, {})
    <3>1. i \in Live(mm) /\ Inv(mm) /\ {"LINK"} \in SUBSET {"TUN", "LINK"}
      BY <2>1, <2>4 DEF Beside
    <3>2. Beside(mm, nn) /\ Live(nn) = Live(mm)
      BY <3>1, OutBeside
    <3>3. Post(nn, i)
      BY <2>2, <2>4
    <3> HIDE DEF nn
    <3> QED
      BY <2>1, <3>1, <3>2, <3>3, BesideTwice, PostKeeps
  <2> QED
    BY <2>3, <2>4
<1> QED
  BY <1>2, <1>3 DEF TunRead

LEMMA NextKeeps == Inv(m) /\ [Next]_m => Keeps(m, m')
<1> SUFFICES ASSUME Inv(m), [Next]_m PROVE Keeps(m, m')
  OBVIOUS
<1>1. CASE UNCHANGED m
  BY <1>1, BesideItself, BesideKeeps
<1>2. CASE SocketWrite
  BY <1>2, SocketWriteKeeps
<1>3. CASE TunWrite
  BY <1>3, TunWriteKeeps
<1>4. CASE TunRead
  BY <1>4, TunReadKeeps
<1>5. CASE Timeout
  <2>1. PICK i \in Live(m) : Post(m, i)
    BY <1>5 DEF Timeout
  <2> QED
    BY <2>1, BesideItself, PostKeeps
<1>6. ASSUME NEW c \in CN, Kill(c) PROVE Keeps(m, m')
  BY <1>6, KillKeeps DEF Kill
<1>7. ASSUME NEW r \in Real, SocketRead(r) PROVE Keeps(m, m')
  BY <1>7, SocketReadKeeps
<1>8. ASSUME NEW k \in Key, Reap(k) PROVE Keeps(m, m')
  BY <1>8, ReapBeside, BesideKeeps DEF Reap
<1>9. ASSUME NEW k \in Key, Age(k) PROVE Keeps(m, m')
  BY <1>9, AgeBeside, BesideKeeps DEF Age
<1> QED
  BY <1>1, <1>2, <1>3, <1>4, <1>5, <1>6, <1>7, <1>8, <1>9 DEF Next

(* The invariant of every behaviour of the server. *)
THEOREM Invariant == Spec => []Inv(m)
<1>1. Init => Inv(m)
  BY InitInv
<1>2. Inv(m) /\ [Next]_m => Inv(m)'
  BY NextKeeps DEF Keeps
<1> QED
  BY <1>1, <1>2, PTL DEF Spec

(* The state has its type: a client's references, routes and address, the
   routes, the queue within the buffers and the number of clients. *)
THEOREM TypeCorrect == Spec => []TypeOK
<1>1. Inv(m) => TypeOK
  <2> SUFFICES ASSUME Inv(m) PROVE TypeOK
    OBVIOUS
  <2>1. m \in Context /\ Counted(m) /\ Found(m) /\ Progress(m)
    BY DEF Inv, RouteInv, ClientInv
  <2>2. ASSUME NEW i \in Instance
        PROVE  /\ m.instance[i].refcount \in 0 .. Cardinality(Key) + 1
               /\ m.instance[i].route_count \in 0 .. MaxRoutes
               /\ m.instance[i].vaddr_handle \in Handle \cup {NoHandle}
               /\ m.instance[i].out \subseteq {"TUN", "LINK"}
    <3> DEFINE n == Cardinality(RoutesTo(m, i))
               k == Cardinality(Key)
               c == m.instance[i]
    <3>1. n \in Nat /\ n <= k /\ k \in Nat
      BY RoutesFinite, Finite, FS_CardinalityType
    <3>2. /\ c.route_count = n /\ c.refcount = c.route_count + (IF i \in Live(m) THEN 1 ELSE 0)
          /\ c.route_count <= MaxRoutes
      BY <2>1 DEF Counted
    <3>3. c \in Client /\ MaxRoutes \in Nat
      BY <2>1, MultiAssumption DEF Context
    <3> HIDE DEF n, k
    <3>4. c.refcount \in 0 .. k + 1 /\ c.route_count \in 0 .. MaxRoutes
      BY <3>1, <3>2, <3>3
    <3> QED
      BY <3>3, <3>4 DEF Client, k
  <2>3. /\ m.hash \in [Real -> Instance \cup {Null}]
        /\ m.vhash \in [Key -> [instance : Instance \cup {Null}, cache : BOOLEAN, fresh : BOOLEAN]]
        /\ m.pending \in Instance \cup {Null}
        /\ m.mbuf \in Seq(Instance \cup {Null}) /\ Len(m.mbuf) <= Capacity
    BY <2>1 DEF Context, Route, Found
  <2>4. m.n_clients \in 0 .. MaxInstances
    <3>1. Connected(m) \subseteq Instance
      BY DEF Connected, Live
    <3>2. Cardinality(Instance) = MaxInstances
      BY MultiAssumption, FS_Interval DEF Instance
    <3>3. Cardinality(Connected(m)) \in Nat /\ Cardinality(Connected(m)) <= MaxInstances
      BY <3>1, <3>2, Finite, FS_Subset, FS_CardinalityType
    <3>4. m.n_clients = Cardinality(Connected(m))
      BY <2>1 DEF Progress
    <3> QED
      BY <3>3, <3>4, MultiAssumption
  <2> QED
    BY <2>2, <2>3, <2>4 DEF TypeOK
<1> QED
  BY <1>1, Invariant, PTL

(* The counts are right: an instance's references are its routes and, until it
   is closed, itself, so that it is freed with the last of them; the clients
   that are connected and the lengths of their iroutes are counted. *)
THEOREM ReferencesCount == Spec => []Accounted
<1>1. Inv(m) => Accounted
  <2> SUFFICES ASSUME Inv(m) PROVE Accounted
    OBVIOUS
  <2>1. m \in Context /\ Counted(m) /\ LengthsOk(m, Null, 0) /\ Progress(m)
    BY DEF Inv, RouteInv, ClientInv
  <2>2. ASSUME NEW i \in Instance PROVE Routes(i) = RoutesTo(m, i)
    BY DEF Routes, RoutesTo
  <2>3. ASSUME NEW i \in Instance
        PROVE  LET mi == m.instance[i]
               IN /\ mi.route_count = Cardinality(Routes(i))
                  /\ mi.refcount = mi.route_count + (IF i \in Live(m) THEN 1 ELSE 0)
                  /\ mi.allocated <=> mi.refcount > 0
    BY <2>1, <2>2 DEF Counted
  <2>4. m.n_clients = Cardinality({i \in Live(m) : m.instance[i].connection_established})
    BY <2>1 DEF Progress, Connected
  <2>5. DOMAIN m.net_len_refcount = Length /\ m.net_len_refcount \in [Length -> Int]
    BY <2>1 DEF Context
  <2>6. ASSUME NEW b \in DOMAIN m.net_len_refcount
        PROVE  m.net_len_refcount[b] = Cardinality(Holding(m, b))
    <3> DEFINE n == m.net_len_refcount[b]
               held == Cardinality(Holding(m, b))
    <3>1. n \in Int /\ n = held + 0
      BY <2>1, <2>5 DEF LengthsOk
    <3>2. held \in Nat
      <4>1. Named(m)
        BY <2>1 DEF LengthsOk
      <4> QED
        BY <2>1, <4>1, HoldingFinite
    <3> HIDE DEF n, held
    <3>3. n = held
      BY <3>1, <3>2
    <3> QED
      BY <3>3 DEF n, held
  <2> QED
    BY <2>3, <2>4, <2>6 DEF Accounted, Holding
<1> QED
  BY <1>1, Invariant, PTL

(* What the event loop serves next is never an instance that is closed: what is
   pending, queued or found by a real address is a client, and every client is
   found by its one address. *)
THEOREM ServesClients == Spec => []NothingDangles
<1>1. Inv(m) => NothingDangles
  <2> SUFFICES ASSUME Inv(m) PROVE NothingDangles
    OBVIOUS
  <2>1. Found(m)
    BY DEF Inv, ClientInv
  <2>2. {m.pending} \cup ToSet(m.mbuf) \cup {m.hash[r] : r \in Real} \subseteq Live(m) \cup {Null}
    BY <2>1 DEF Found, ToSet
  <2>3. ASSUME NEW i \in Live(m) PROVE Cardinality({r \in Real : m.hash[r] = i}) = 1
    <3>1. PICK r \in Real : m.hash[r] = i
      BY <2>1 DEF Found
    <3>2. i # Null
      BY Finite DEF Live
    <3>3. {s \in Real : m.hash[s] = i} = {r}
      BY <2>1, <3>1, <3>2 DEF Found
    <3>4. Cardinality({r}) = 1
      BY FS_Singleton
    <3> QED
      BY <3>3, <3>4
  <2> QED
    BY <2>2, <2>3 DEF NothingDangles
<1> QED
  BY <1>1, Invariant, PTL

(* An address of the pool that is in use is one client's. *)
LEMMA PoolIsOnes ==
  ASSUME Inv(m), NEW h \in Handle
  PROVE  Cardinality({i \in Live(m) : m.instance[i].vaddr_handle = h})
           = (IF m.pool[h].in_use THEN 1 ELSE 0)
<1>1. Progress(m) /\ Leases(m)
  BY DEF Inv, ClientInv
<1>2. h # NoHandle
  BY Finite
<1> DEFINE has == {i \in Live(m) : m.instance[i].vaddr_handle = h}
<1>3. \A i \in has : /\ i \in Connected(m) /\ m.pool[h].in_use
                     /\ m.instance[i].cn = m.pool[h].common_name
  BY <1>1, <1>2 DEF Progress, Leases, Connected
<1>4. CASE m.pool[h].in_use
  <2>1. PICK i \in Live(m) : m.instance[i].vaddr_handle = h
    BY <1>1, <1>4 DEF Leases
  <2>2. has = {i}
    BY <1>1, <1>3, <2>1 DEF Progress
  <2>3. Cardinality({i}) = 1
    BY FS_Singleton
  <2> QED
    BY <1>4, <2>2, <2>3
<1>5. CASE ~ m.pool[h].in_use
  <2>1. has = {}
    BY <1>3, <1>5
  <2>2. Cardinality({}) = 0
    BY FS_EmptySet
  <2> QED
    BY <1>5, <2>1, <2>2
<1> QED
  BY <1>4, <1>5

(* A client's address leads to it. *)
LEMMA AddressLeads ==
  ASSUME Inv(m), Addressed(m), NEW i \in Live(m),
         m.instance[i].context_auth, m.instance[i].addr # NoAddr
  PROVE  Lookup(m, m.instance[i].addr).instance = i
<1> DEFINE a == m.instance[i].addr
<1>1. m.vhash[a].instance = i /\ ~ m.vhash[a].cache
  BY DEF Addressed
<1>2. i # Null /\ ~ m.instance[i].halt
  BY Finite DEF Live
<1>3. m.vhash[a] # NoRoute
  BY <1>1, <1>2 DEF NoRoute
<1>4. multi_route_defined(m, m.vhash[a])
  BY <1>1, <1>2, <1>3 DEF multi_route_defined
<1> QED
  BY <1>1, <1>4 DEF Lookup

(* Where a client may always have a route, and no two names can be pushed the
   same address, an address of the pool is in use as long as the one client that
   has it, and what the server has for a client's address reaches it. *)
THEOREM AddressesAreOnes == ASSUME OwnPushes PROVE Spec => []AddressIsOnes
<1>1. Init => Inv(m) /\ Addressed(m)
  BY InitInv
<1>2. Inv(m) /\ Addressed(m) /\ [Next]_m => Inv(m)' /\ Addressed(m)'
  <2> SUFFICES ASSUME Inv(m), Addressed(m), [Next]_m PROVE Inv(m') /\ Addressed(m')
    OBVIOUS
  <2>1. Keeps(m, m')
    BY NextKeeps
  <2> QED
    BY <2>1, OwnPushes DEF Keeps
<1>3. Inv(m) /\ Addressed(m) => AddressIsOnes
  BY PoolIsOnes, AddressLeads DEF AddressIsOnes
<1> QED
  BY <1>1, <1>2, <1>3, PTL DEF Spec

(* A cached host route goes where the iroutes would send it now: every change
   of the iroutes, and every client that is closed, makes it stale. *)
THEOREM CacheCurrent == Spec => []CacheIsCurrent
<1>1. Inv(m) => CacheIsCurrent
  BY DEF Inv, RouteInv, CacheOk, CacheIsCurrent
<1> QED
  BY <1>1, Invariant, PTL

(* No client is closed twice, there is always a packet to drop when the queue
   is full, and the count of a length is never negative. *)
THEOREM AssertionsKept == Spec => []AssertionsHold
<1>1. Inv(m) => AssertionsHold
  BY DEF Inv, AssertionsHold
<1> QED
  BY <1>1, Invariant, PTL

(* A client that takes an address of the pool takes the one its name had last,
   unless another client has had that one since. *)
THEOREM AddressReturns == Spec => ReturnsHome
<1> DEFINE Home == \A i \in Instance :
       LET h == m'.instance[i].vaddr_handle
       IN h # NoHandle /\ m.instance[i].vaddr_handle = NoHandle =>
            m.home[m'.instance[i].cn] \in {h, NoHandle}
<1>1. Inv(m) /\ [Next]_m => Home
  BY NextKeeps DEF Keeps, HomeStep
<1>2. Inv(m) /\ [Next]_m => [Home]_m
  BY <1>1
<1> HIDE DEF Home
<1>3. Spec => [][Home]_m
  BY <1>2, Invariant, PTL DEF Spec
<1> QED
  BY <1>3 DEF ReturnsHome, Home
====
