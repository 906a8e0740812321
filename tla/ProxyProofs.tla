---------------------------- MODULE ProxyProofs ----------------------------
(***************************************************************************)
(* Theorems about Proxy, for any clients, users, clusters and instances,   *)
(* either router, any number of changes, any capacity of the notify        *)
(* channel, failing dials and shutdown.  The callers of StatusChange, the  *)
(* times a cluster is added and the event loops in the balancer are any    *)
(* number too, except where a theorem says otherwise in its ASSUME.        *)
(***************************************************************************)
EXTENDS Proxy, SequenceTheorems, TLAPS

(* A cluster that user u may use: one of its instances is u's or nobody's.  *)
Owned(u, k) == \E i \in Instance : OwnerOf[i] \in {u, None} /\ KeyOf[i] = k

(* What the manager has stored for a user is a cluster of that user.        *)
KeysOwned ==
  \A u \in Users : clusterKeyMap[u] # None => Owned(u, clusterKeyMap[u])

(* The registry lists an instance under the key it has.                     *)
ListedUnderKey ==
  \A k \in Key : clusters[k] # None =>
    \A j \in 1..Len(clusters[k]) : KeyOf[clusters[k][j].id] = k

(* What a handler has looked up so far belongs to a cluster of the user of  *)
(* its session, and only a connected client has a handler under way.        *)
HandlerOwned(c) ==
  /\ ~conn[c] => h[c].pc \in {"idle", "panic"}
  /\ h[c].pc \in {"load", "tenant"} => h[c].user \in {user[c], None}
  /\ h[c].pc = "select" => h[c].key \in Key /\ Owned(user[c], h[c].key)
  /\ h[c].pc = "pool" => h[c].id \in Instance /\ Owned(user[c], KeyOf[h[c].id])
  /\ h[c].pc = "bind" => h[c].ref \in Ref /\ Owned(user[c], KeyOf[h[c].ref.id])

(* So does what its session is bound to.                                    *)
PairOwned(c) ==
  pair[c] \notin {None, Nil} /\ pair[c].backend # None =>
    Owned(user[c], KeyOf[pair[c].backend.id])

OwnInv ==
  /\ KeysOwned
  /\ ListedUnderKey
  /\ \A c \in Client : HandlerOwned(c) /\ PairOwned(c)


----------------------------------------------------------------------------
(* The registry and the manager                                             *)

MgmtInv == MgmtTypeOK /\ KeysOwned /\ ListedUnderKey

LEMMA MgmtInitInv ==
  ASSUME MgmtInit
  PROVE  MgmtInv
<1>1. notify \in Seq(Info) /\ Len(notify) <= NotifySize
  <2>1. [id |-> Local, status |-> "ready"] \in Info
    BY BackendManagerAssumption DEF Info, Status
  <2>2. CASE router = "static"
    <3>1. notify = <<[id |-> Local, status |-> "ready"]>>
      BY <2>2 DEF MgmtInit
    <3> QED
      BY <2>1, <3>1, BackendManagerAssumption
  <2>3. CASE router # "static"
    BY <2>3, BackendManagerAssumption DEF MgmtInit
  <2> QED
    BY <2>2, <2>3
<1>2. adds \in [Key -> 0..MaxAdds] /\ changes \in 0..MaxChanges
  BY BackendManagerAssumption DEF MgmtInit
<1>3. /\ clusters \in [Key -> Seq(Info) \cup {None}]
      /\ sending \in [Caller -> Info \cup {None}]
      /\ mgr \in [pc: {"receive", "online", "stuck", "done"}, id: Instance \cup {None}]
      /\ instancePool \in [Instance -> {"none", "open", "closed"}]
      /\ clusterKeyMap \in [Users -> Key \cup {None}]
  BY DEF MgmtInit, M
<1>4. KeysOwned /\ ListedUnderKey
  BY DEF MgmtInit, KeysOwned, ListedUnderKey
<1> QED
  BY <1>1, <1>2, <1>3, <1>4 DEF MgmtInv, MgmtTypeOK, MgmtInit

(* Upsert replaces an entry by one for the same instance, or adds one.      *)
LEMMA UpsertInfo ==
  ASSUME NEW list \in Seq(Info), NEW info \in Info, NEW k,
         \A j \in 1..Len(list) : KeyOf[list[j].id] = k, KeyOf[info.id] = k
  PROVE  /\ Upsert(list, info) \in Seq(Info)
         /\ \A j \in 1..Len(Upsert(list, info)) : KeyOf[Upsert(list, info)[j].id] = k
<1>1. CASE \E i \in 1..Len(list) : list[i].id = info.id
  <2> DEFINE new == [i \in 1..Len(list) |-> IF list[i].id = info.id THEN info ELSE list[i]]
  <2>1. Upsert(list, info) = new
    BY <1>1 DEF Upsert
  <2>2. Len(list) \in Nat /\ \A i \in 1..Len(list) : list[i] \in Info
    BY LenProperties, ElementOfSeq
  <2>3. new \in Seq(Info) /\ Len(new) = Len(list)
    <3>1. new \in [1..Len(list) -> Info]
      BY <2>2
    <3> QED
      BY <2>2, <3>1
  <2> QED
    BY <2>1, <2>2, <2>3
<1>2. CASE ~ \E i \in 1..Len(list) : list[i].id = info.id
  <2>1. Upsert(list, info) = Append(list, info)
    BY <1>2 DEF Upsert
  <2>2. /\ Append(list, info) \in Seq(Info)
        /\ Len(Append(list, info)) = Len(list) + 1
        /\ \A j \in 1..Len(list) : Append(list, info)[j] = list[j]
        /\ Append(list, info)[Len(list) + 1] = info
    BY AppendProperties
  <2>3. Len(list) \in Nat
    BY LenProperties
  <2> QED
    BY <2>1, <2>2, <2>3
<1> QED
  BY <1>1, <1>2

LEMMA MgmtAdd ==
  ASSUME MgmtInv, NEW k \in Key, AddTenantHandler(k)
  PROVE  MgmtInv'
<1>1. adds' \in [Key -> 0..MaxAdds]
  BY BackendManagerAssumption DEF MgmtInv, MgmtTypeOK, AddTenantHandler, AddCluster
<1>2. clusters' \in [Key -> Seq(Info) \cup {None}]
  BY DEF MgmtInv, MgmtTypeOK, AddTenantHandler, AddCluster
<1>3. ListedUnderKey'
  BY DEF MgmtInv, MgmtTypeOK, ListedUnderKey, AddTenantHandler, AddCluster
<1> QED
  BY <1>1, <1>2, <1>3
  DEF MgmtInv, MgmtTypeOK, KeysOwned, AddTenantHandler, AddCluster

LEMMA MgmtStatusChange ==
  ASSUME MgmtInv, NEW t \in Caller, NEW info \in Info, StatusChange(t, info)
  PROVE  MgmtInv'
<1> DEFINE k == KeyOf[info.id]
<1>1. k \in Key /\ clusters[k] \in Seq(Info) /\ \A j \in 1..Len(clusters[k]) : KeyOf[clusters[k][j].id] = k
  <2>1. info.id \in Instance /\ KeyOf \in [Instance -> Key]
    BY BackendManagerAssumption DEF Info
  <2> QED
    BY <2>1 DEF MgmtInv, MgmtTypeOK, ListedUnderKey, StatusChange
<1>2. /\ Upsert(clusters[k], info) \in Seq(Info)
      /\ \A j \in 1..Len(Upsert(clusters[k], info)) : KeyOf[Upsert(clusters[k], info)[j].id] = k
  BY <1>1, UpsertInfo
<1>3. clusters' = [clusters EXCEPT ![k] = Upsert(clusters[k], info)]
  BY DEF StatusChange
<1> HIDE DEF k
<1>4. clusters' \in [Key -> Seq(Info) \cup {None}]
  BY <1>1, <1>2, <1>3 DEF MgmtInv, MgmtTypeOK
<1>5. ListedUnderKey'
  BY <1>1, <1>2, <1>3 DEF MgmtInv, MgmtTypeOK, ListedUnderKey
<1>6. changes' \in 0..MaxChanges /\ sending' \in [Caller -> Info \cup {None}]
  BY BackendManagerAssumption DEF MgmtInv, MgmtTypeOK, StatusChange
<1> QED
  BY <1>4, <1>5, <1>6 DEF MgmtInv, MgmtTypeOK, KeysOwned, StatusChange

LEMMA MgmtSend ==
  ASSUME MgmtInv, NEW t \in Caller, StatusChangeSend(t)
  PROVE  MgmtInv'
<1>1. sending[t] \in Info
  BY DEF MgmtInv, MgmtTypeOK, StatusChangeSend
<1>2. notify' \in Seq(Info) /\ Len(notify') = Len(notify) + 1
  BY <1>1, AppendProperties DEF MgmtInv, MgmtTypeOK, StatusChangeSend
<1>3. Len(notify') <= NotifySize
  BY <1>2, LenProperties, BackendManagerAssumption DEF MgmtInv, MgmtTypeOK, StatusChangeSend
<1>4. sending' \in [Caller -> Info \cup {None}]
  BY DEF MgmtInv, MgmtTypeOK, StatusChangeSend
<1> QED
  BY <1>2, <1>3, <1>4 DEF MgmtInv, MgmtTypeOK, KeysOwned, ListedUnderKey, StatusChangeSend

LEMMA MgmtNotify ==
  ASSUME MgmtInv, BackendChangeNotify
  PROVE  MgmtInv'
<1> DEFINE info == Head(notify)
<1>1. info \in Info /\ notify' \in Seq(Info) /\ Len(notify') = Len(notify) - 1
  BY HeadTailProperties DEF MgmtInv, MgmtTypeOK, BackendChangeNotify
<1>2. Len(notify') <= NotifySize
  BY <1>1, LenProperties, BackendManagerAssumption DEF MgmtInv, MgmtTypeOK, BackendChangeNotify
<1>3. info.id \in Instance /\ KeyOf[info.id] \in Key /\ OwnerOf[info.id] \in Users
  BY <1>1, BackendManagerAssumption DEF Info, Users
<1>4. \/ BackendOnline(info.id)
      \/ BackendOffline(info.id)
      \/ UNCHANGED <<mgr, instancePool, clusterKeyMap>>
  BY DEF BackendChangeNotify
<1>5. UNCHANGED <<router, clusters, adds, changes, sending>>
  BY DEF BackendChangeNotify
<1> HIDE DEF info
<1>6. mgr' \in [pc: {"receive", "online", "stuck", "done"}, id: Instance \cup {None}]
  BY <1>3, <1>4 DEF MgmtInv, MgmtTypeOK, BackendOnline, BackendOffline, Receiving, M
<1>7. instancePool' \in [Instance -> {"none", "open", "closed"}]
  BY <1>3, <1>4 DEF MgmtInv, MgmtTypeOK, BackendOnline, BackendOffline
<1>8. clusterKeyMap' \in [Users -> Key \cup {None}]
  BY <1>3, <1>4 DEF MgmtInv, MgmtTypeOK, BackendOnline, BackendOffline
<1>9. KeysOwned'
  <2>1. Owned(OwnerOf[info.id], KeyOf[info.id])
    BY <1>3 DEF Owned
  <2> QED
    BY <1>3, <1>4, <2>1 DEF MgmtInv, MgmtTypeOK, KeysOwned, Owned, BackendOnline, BackendOffline
<1> QED
  BY <1>1, <1>2, <1>5, <1>6, <1>7, <1>8, <1>9 DEF MgmtInv, MgmtTypeOK, ListedUnderKey

LEMMA MgmtRest ==
  ASSUME MgmtInv, PoolOnline \/ Close
  PROVE  MgmtInv'
<1>1. instancePool' \in [Instance -> {"none", "open", "closed"}]
  BY DEF MgmtInv, MgmtTypeOK, PoolOnline, Close
<1>2. mgr' \in [pc: {"receive", "online", "stuck", "done"}, id: Instance \cup {None}]
  BY DEF MgmtInv, MgmtTypeOK, PoolOnline, Close, Receiving, M
<1> QED
  BY <1>1, <1>2 DEF MgmtInv, MgmtTypeOK, KeysOwned, ListedUnderKey, PoolOnline, Close

LEMMA MgmtStepInv ==
  ASSUME MgmtInv, MgmtStep \/ Close
  PROVE  MgmtInv'
  BY MgmtAdd, MgmtStatusChange, MgmtSend, MgmtNotify, MgmtRest DEF MgmtStep

----------------------------------------------------------------------------
(* The handlers                                                             *)

(* Types of what belongs to the clients.                                    *)
HandlerState ==
  [pc: {"idle", "read", "load", "tenant", "select", "pool", "bind", "fail", "panic"},
   user: Users, old: Pairs, key: Key \cup {None}, id: Instance \cup {None},
   ref: Ref \cup {None}]

ClientTypeOK ==
  /\ conn \in [Client -> BOOLEAN]
  /\ user \in [Client -> Users]
  /\ pair \in [Client -> Pairs]
  /\ h \in [Client -> HandlerState]
  /\ shut \in {"pools", "sessions", "done"}

ClientOwned(c) == HandlerOwned(c) /\ PairOwned(c)

ClientInv == ClientTypeOK /\ \A c \in Client : ClientOwned(c)

(* A step of the handler of c leaves the other clients alone.               *)
LEMMA OneClient ==
  ASSUME ClientInv, ClientTypeOK', NEW c \in Client, ClientOwned(c)',
         \A d \in Client \ {c} : /\ conn'[d] = conn[d] /\ user'[d] = user[d]
                                 /\ pair'[d] = pair[d] /\ h'[d] = h[d]
  PROVE  ClientInv'
<1>1. ASSUME NEW d \in Client \ {c}
      PROVE  ClientOwned(d)'
  BY <1>1 DEF ClientInv, ClientOwned, HandlerOwned, PairOwned, Owned
<1> QED
  BY <1>1 DEF ClientInv

(* What a handler is set to.                                                *)
LEMMA HandlerType ==
  ASSUME NEW u \in Users,
         NEW pc \in {"idle", "read", "load", "tenant", "select", "pool", "bind", "fail", "panic"}
  PROVE  H(pc, u) \in HandlerState
  BY DEF HandlerState, H, Users, Pairs

LEMMA HandlerFields ==
  ASSUME NEW s \in HandlerState, NEW old \in Pairs,
         NEW key \in Key \cup {None}, NEW id \in Instance \cup {None}, NEW ref \in Ref \cup {None},
         NEW pc \in {"idle", "read", "load", "tenant", "select", "pool", "bind", "fail", "panic"}
  PROVE  /\ [s EXCEPT !.pc = pc] \in HandlerState
         /\ [s EXCEPT !.old = old, !.key = key, !.user = None, !.pc = pc] \in HandlerState
         /\ [s EXCEPT !.pc = pc, !.key = None, !.id = id] \in HandlerState
         /\ [s EXCEPT !.pc = pc, !.id = None] \in HandlerState
         /\ [s EXCEPT !.pc = pc, !.id = None, !.ref = ref] \in HandlerState
<1>1. None \in Users /\ None \in Pairs
  BY DEF Users, Pairs
<1>2. [s EXCEPT !.pc = pc] \in HandlerState
  BY <1>1 DEF HandlerState
<1>3. [s EXCEPT !.old = old, !.key = key, !.user = None, !.pc = pc] \in HandlerState
  BY <1>1 DEF HandlerState
<1>4. [s EXCEPT !.pc = pc, !.key = None, !.id = id] \in HandlerState
  BY <1>1 DEF HandlerState
<1>5. [s EXCEPT !.pc = pc, !.id = None] \in HandlerState
  BY <1>1 DEF HandlerState
<1>6. [s EXCEPT !.pc = pc, !.id = None, !.ref = ref] \in HandlerState
  BY <1>1 DEF HandlerState
<1> QED
  BY <1>2, <1>3, <1>4, <1>5, <1>6

LEMMA OwnOnOpen ==
  ASSUME ClientInv, NEW c \in Client, h[c].pc # "panic", OnOpen(c)
  PROVE  ClientInv'
<1>1. ClientTypeOK'
  BY DEF ClientInv, ClientTypeOK, OnOpen, Pair, Pairs, Users
<1>2. ClientOwned(c)'
  BY DEF ClientInv, ClientTypeOK, ClientOwned, HandlerOwned, PairOwned, OnOpen, Pair
<1> QED
  BY <1>1, <1>2, OneClient DEF ClientInv, ClientTypeOK, OnOpen

LEMMA OwnOnTraffic ==
  ASSUME ClientInv, NEW c \in Client, OnTraffic(c) \/ EventEnds(c)
  PROVE  ClientInv'
<1>1. PICK pc \in {"panic", "read", "idle"} : h' = [h EXCEPT ![c] = H(pc, None)]
  BY DEF OnTraffic, EventEnds, Goto, Idle
<1>2. UNCHANGED <<conn, user, pair, shut>> /\ conn[c]
  BY DEF OnTraffic, EventEnds, ClientInv, ClientOwned, HandlerOwned
<1>3. H(pc, None) \in HandlerState
  BY HandlerType DEF Users
<1>4. ClientTypeOK'
  BY <1>1, <1>2, <1>3 DEF ClientInv, ClientTypeOK
<1>5. ClientOwned(c)'
  BY <1>1, <1>2 DEF ClientInv, ClientTypeOK, ClientOwned, HandlerOwned, PairOwned, H, Owned
<1> QED
  BY <1>1, <1>2, <1>4, <1>5, OneClient DEF ClientInv, ClientTypeOK

LEMMA OwnDispatchAuth ==
  ASSUME ClientInv, NEW c \in Client, NEW u \in Users, DispatchAuth(c, u)
  PROVE  ClientInv'
<1>1. H("load", u) \in HandlerState
  BY HandlerType
<1>2. ClientTypeOK'
  BY <1>1 DEF ClientInv, ClientTypeOK, DispatchAuth
<1>3. ClientOwned(c)'
  BY DEF ClientInv, ClientTypeOK, ClientOwned, HandlerOwned, PairOwned, DispatchAuth, H, Owned
<1> QED
  BY <1>2, <1>3, OneClient DEF ClientInv, ClientTypeOK, DispatchAuth

LEMMA OwnDispatch ==
  ASSUME ClientInv, NEW c \in Client, Dispatch(c)
  PROVE  ClientInv'
<1>1. H("load", user[c]) \in HandlerState
  BY HandlerType DEF ClientInv, ClientTypeOK
<1>2. ClientTypeOK'
  BY <1>1 DEF ClientInv, ClientTypeOK, Dispatch
<1>3. ClientOwned(c)'
  BY DEF ClientInv, ClientTypeOK, ClientOwned, HandlerOwned, PairOwned, Dispatch, H, Owned
<1> QED
  BY <1>2, <1>3, OneClient DEF ClientInv, ClientTypeOK, Dispatch

LEMMA OwnOnClose ==
  ASSUME ClientInv, NEW c \in Client, OnClose(c)
  PROVE  ClientInv'
<1>1. H("panic", None) \in HandlerState
  BY HandlerType DEF Users
<1>2. ClientTypeOK'
  BY <1>1 DEF ClientInv, ClientTypeOK, OnClose, Goto, Users, Pairs
<1>3. ClientOwned(c)'
  BY DEF ClientInv, ClientTypeOK, ClientOwned, HandlerOwned, PairOwned, OnClose, Goto, H
<1> QED
  BY <1>2, <1>3, OneClient DEF ClientInv, ClientTypeOK, OnClose, Goto

(* ForwardLoad only moves the handler on.                                   *)
LEMMA OwnForwardLoad ==
  ASSUME ClientInv, NEW c \in Client, ForwardLoad(c)
  PROVE  ClientInv'
<1>1. \/ h' = [h EXCEPT ![c] = H("panic", None)]
      \/ h' = [h EXCEPT ![c] = [h[c] EXCEPT !.pc = "tenant"]]
      \/ h' = [h EXCEPT ![c] = H("read", None)]
  BY DEF ForwardLoad, Goto
<1>2. /\ H("panic", None) \in HandlerState /\ H("read", None) \in HandlerState
      /\ [h[c] EXCEPT !.pc = "tenant"] \in HandlerState
  BY HandlerType, HandlerFields DEF ClientInv, ClientTypeOK, Users, Pairs
<1>3. UNCHANGED <<conn, user, pair, shut>> /\ h[c].pc = "load"
  BY DEF ForwardLoad
<1>4. ClientTypeOK'
  BY <1>1, <1>2, <1>3 DEF ClientInv, ClientTypeOK
<1>5. ClientOwned(c)'
  <2>1. HandlerOwned(c)'
    BY <1>1, <1>3 DEF ClientInv, ClientTypeOK, ClientOwned, HandlerOwned, HandlerState, H
  <2> QED
    BY <1>3, <2>1 DEF ClientInv, ClientOwned, PairOwned, Owned
<1> QED
  BY <1>1, <1>3, <1>4, <1>5, OneClient DEF ClientInv, ClientTypeOK

LEMMA OwnKeepBackend ==
  ASSUME ClientInv, NEW c \in Client, KeepBackend(c)
  PROVE  ClientInv'
<1>1. h' = [h EXCEPT ![c] = H("read", None)]
  BY DEF KeepBackend, Goto
<1>2. UNCHANGED <<conn, user, pair, shut>> /\ h[c].pc = "tenant"
  BY DEF KeepBackend
<1>3. H("read", None) \in HandlerState /\ H("read", None).pc = "read"
  BY HandlerType DEF Users, H
<1>4. ClientTypeOK'
  BY <1>1, <1>2, <1>3 DEF ClientInv, ClientTypeOK
<1>5. ClientOwned(c)'
  BY <1>1, <1>2, <1>3 DEF ClientInv, ClientTypeOK, ClientOwned, HandlerOwned, PairOwned, Owned
<1> QED
  BY <1>1, <1>2, <1>4, <1>5, OneClient DEF ClientInv, ClientTypeOK

(* The key found is one of the session's user, or of nobody.                *)
LEMMA OwnGetTenantKey ==
  ASSUME MgmtInv, ClientInv, NEW c \in Client, GetTenantKey(c)
  PROVE  ClientInv'
<1> DEFINE k == clusterKeyMap[h[c].user]
           pc == IF k = None THEN "fail" ELSE "select"
           new == [h[c] EXCEPT !.old = pair[c], !.key = k, !.user = None, !.pc = pc]
<1>1. h' = [h EXCEPT ![c] = new]
  BY DEF GetTenantKey
<1>2. h[c] \in HandlerState /\ pair[c] \in Pairs /\ k \in Key \cup {None}
  BY DEF ClientInv, ClientTypeOK, HandlerState, MgmtInv, MgmtTypeOK
<1>3. new \in HandlerState
  BY <1>2, HandlerFields
<1>4. new.pc = pc /\ new.key = k
  BY <1>2 DEF HandlerState
<1>5. UNCHANGED <<conn, user, pair, shut>> /\ h[c].pc = "tenant"
  BY DEF GetTenantKey
<1>6. ClientTypeOK'
  BY <1>1, <1>3, <1>5 DEF ClientInv, ClientTypeOK
<1>7. k # None => k \in Key /\ Owned(user[c], k)
  BY <1>2, <1>5 DEF ClientInv, ClientOwned, HandlerOwned, HandlerState, MgmtInv, KeysOwned, Owned
<1>8. ClientOwned(c)'
  <2>1. h'[c] = new /\ conn[c]
    BY <1>1, <1>5 DEF ClientInv, ClientTypeOK, ClientOwned, HandlerOwned
  <2> HIDE DEF new, k
  <2>2. HandlerOwned(c)'
    BY <2>1, <1>4, <1>5, <1>7 DEF HandlerOwned, Owned
  <2> QED
    BY <1>5, <2>2 DEF ClientInv, ClientOwned, PairOwned, Owned
<1> QED
  BY <1>1, <1>5, <1>6, <1>8, OneClient DEF ClientInv, ClientTypeOK

(* Selector stays within the cluster, or returns the local instance.        *)
LEMMA SelectorOwned ==
  ASSUME MgmtInv, NEW u, NEW k \in Key, Owned(u, k), NEW i \in Selector(k) \cap Instance
  PROVE  Owned(u, KeyOf[i])
<1>1. CASE router = "static"
  <2>1. i = Local
    BY <1>1 DEF Selector
  <2> QED
    BY <2>1, BackendManagerAssumption DEF Owned
<1>2. CASE router = "sync"
  <2>1. clusters[k] \notin {None, << >>}
    BY <1>2, BackendManagerAssumption DEF Selector
  <2>2. PICK j \in 1..Len(clusters[k]) : i = clusters[k][j].id
    BY <1>2, <2>1 DEF Selector
  <2>3. KeyOf[i] = k
    BY <2>1, <2>2 DEF MgmtInv, ListedUnderKey
  <2> QED
    BY <2>3
<1> QED
  BY <1>1, <1>2, BackendManagerAssumption DEF MgmtInv, MgmtTypeOK

LEMMA OwnSelect ==
  ASSUME MgmtInv, ClientInv, NEW c \in Client, Select(c)
  PROVE  ClientInv'
<1>1. UNCHANGED <<conn, user, pair, shut>> /\ h[c].pc = "select"
  BY DEF Select
<1>2. conn[c] /\ h[c] \in HandlerState /\ h[c].key \in Key /\ Owned(user[c], h[c].key)
  BY <1>1 DEF ClientInv, ClientTypeOK, ClientOwned, HandlerOwned
<1>3. CASE h' = [h EXCEPT ![c] = H("panic", None)]
  <2>1. ClientTypeOK'
    BY <1>1, <1>3, HandlerType DEF ClientInv, ClientTypeOK, Users
  <2>2. ClientOwned(c)'
    BY <1>1, <1>2, <1>3 DEF ClientInv, ClientTypeOK, ClientOwned, HandlerOwned, PairOwned, H, Owned
  <2> QED
    BY <1>1, <1>3, <2>1, <2>2, OneClient DEF ClientInv, ClientTypeOK
<1>4. ASSUME NEW i \in Selector(h[c].key) \cap Instance,
             h' = [h EXCEPT ![c] = [h[c] EXCEPT !.pc = "pool", !.key = None, !.id = i]]
      PROVE  ClientInv'
  <2> DEFINE new == [h[c] EXCEPT !.pc = "pool", !.key = None, !.id = i]
  <2>1. new \in HandlerState /\ new.pc = "pool" /\ new.id = i
    <3>1. new \in HandlerState
      BY <1>2, HandlerFields DEF Pairs
    <3> QED
      BY <1>2, <3>1 DEF HandlerState
  <2>2. Owned(user[c], KeyOf[i])
    BY <1>2, SelectorOwned
  <2>3. ClientTypeOK'
    BY <1>1, <1>4, <2>1 DEF ClientInv, ClientTypeOK
  <2>4. h'[c] = new
    BY <1>4 DEF ClientInv, ClientTypeOK
  <2> HIDE DEF new
  <2>5. HandlerOwned(c)'
    BY <1>1, <1>2, <2>1, <2>2, <2>4 DEF HandlerOwned, Owned
  <2>6. ClientOwned(c)'
    BY <1>1, <2>5 DEF ClientInv, ClientOwned, PairOwned, Owned
  <2> QED
    BY <1>1, <1>4, <2>3, <2>6, OneClient DEF ClientInv, ClientTypeOK
<1> QED
  BY <1>3, <1>4 DEF Select, Goto

LEMMA OwnLoadPool ==
  ASSUME ClientInv, NEW c \in Client, LoadPool(c)
  PROVE  ClientInv'
<1> DEFINE ref == [id |-> h[c].id, open |-> instancePool[h[c].id] = "open"]
           failed == [h[c] EXCEPT !.pc = "fail", !.id = None]
           found == [h[c] EXCEPT !.pc = "bind", !.id = None, !.ref = ref]
<1>1. UNCHANGED <<conn, user, pair, shut>> /\ h[c].pc = "pool"
  BY DEF LoadPool
<1>2. conn[c] /\ h[c] \in HandlerState /\ h[c].id \in Instance /\ Owned(user[c], KeyOf[h[c].id])
  BY <1>1 DEF ClientInv, ClientTypeOK, ClientOwned, HandlerOwned
<1>3. ref \in Ref /\ ref.id = h[c].id
  BY <1>2 DEF Ref
<1>4. failed \in HandlerState /\ failed.pc = "fail"
  <2>1. failed \in HandlerState
    BY <1>2, HandlerFields DEF Pairs
  <2> QED
    BY <1>2, <2>1 DEF HandlerState
<1>5. found \in HandlerState /\ found.pc = "bind" /\ found.ref = ref
  <2> HIDE DEF ref
  <2>1. found \in HandlerState
    BY <1>2, <1>3, HandlerFields DEF Pairs
  <2> QED
    BY <1>2, <2>1 DEF HandlerState
<1>6. h' = [h EXCEPT ![c] = failed] \/ h' = [h EXCEPT ![c] = found]
  BY DEF LoadPool
<1> HIDE DEF ref, failed, found
<1>7. ClientTypeOK'
  BY <1>1, <1>4, <1>5, <1>6 DEF ClientInv, ClientTypeOK
<1>8. HandlerOwned(c)'
  <2>1. h'[c] = failed \/ h'[c] = found
    BY <1>6 DEF ClientInv, ClientTypeOK
  <2> QED
    BY <1>1, <1>2, <1>3, <1>4, <1>5, <2>1 DEF HandlerOwned, Owned
<1>9. ClientOwned(c)'
  BY <1>1, <1>8 DEF ClientInv, ClientOwned, PairOwned, Owned
<1> QED
  BY <1>1, <1>6, <1>7, <1>9, OneClient DEF ClientInv, ClientTypeOK

(* The session is bound to what its own handler has looked up.              *)
LEMMA OwnBind ==
  ASSUME ClientInv, NEW c \in Client, Bind(c)
  PROVE  ClientInv'
<1>1. PICK pc \in {"panic", "read"} : h' = [h EXCEPT ![c] = H(pc, None)]
  BY DEF Bind, Goto
<1>2. UNCHANGED <<conn, user, shut>> /\ h[c].pc = "bind"
  BY DEF Bind
<1>3. pair' = pair \/ pair' = [pair EXCEPT ![c] = Pair(h[c].ref)]
  BY DEF Bind
<1>4. conn[c] /\ h[c].ref \in Ref /\ Owned(user[c], KeyOf[h[c].ref.id])
  BY <1>2 DEF ClientInv, ClientOwned, HandlerOwned
<1>5. Pair(h[c].ref) \in Pairs /\ Pair(h[c].ref).backend = h[c].ref
  BY <1>4 DEF Pair, Pairs
<1>6. H(pc, None) \in HandlerState /\ H(pc, None).pc = pc
  BY HandlerType DEF Users, H
<1>7. ClientTypeOK'
  BY <1>1, <1>2, <1>3, <1>5, <1>6 DEF ClientInv, ClientTypeOK
<1>8. HandlerOwned(c)'
  BY <1>1, <1>2, <1>4, <1>6 DEF ClientInv, ClientTypeOK, HandlerOwned
<1>9. PairOwned(c)'
  BY <1>2, <1>3, <1>4, <1>5 DEF ClientInv, ClientTypeOK, ClientOwned, PairOwned, Owned
<1> QED
  BY <1>1, <1>2, <1>3, <1>7, <1>8, <1>9, OneClient DEF ClientInv, ClientTypeOK, ClientOwned

LEMMA OwnRouteFailed ==
  ASSUME ClientInv, NEW c \in Client, RouteFailed(c)
  PROVE  ClientInv'
<1>1. h' = [h EXCEPT ![c] = H("read", None)]
  BY DEF RouteFailed, Goto
<1>2. UNCHANGED <<conn, user, shut>> /\ h[c].pc = "fail"
  BY DEF RouteFailed
<1>3. pair' = pair \/ pair' = [pair EXCEPT ![c] = Nil]
  BY DEF RouteFailed
<1>4. H("read", None) \in HandlerState /\ H("read", None).pc = "read"
  BY HandlerType DEF Users, H
<1>5. ClientTypeOK'
  BY <1>1, <1>2, <1>3, <1>4 DEF ClientInv, ClientTypeOK, Pairs
<1>6. HandlerOwned(c)'
  BY <1>1, <1>2, <1>4 DEF ClientInv, ClientTypeOK, ClientOwned, HandlerOwned
<1>7. PairOwned(c)'
  BY <1>2, <1>3 DEF ClientInv, ClientTypeOK, ClientOwned, PairOwned, Owned
<1> QED
  BY <1>1, <1>2, <1>3, <1>5, <1>6, <1>7, OneClient DEF ClientInv, ClientTypeOK, ClientOwned

(* Closing pools changes which connections are open, not whose they are.    *)
LEMMA AfterKeeps ==
  ASSUME NEW ref \in Ref \cup {None}
  PROVE  /\ After(ref) \in Ref \cup {None}
         /\ ref \in Ref => After(ref) \in Ref /\ After(ref).id = ref.id
         /\ ref = None => After(ref) = None
  BY DEF After, Ref

LEMMA AfterPairKeeps ==
  ASSUME NEW p \in Pairs
  PROVE  /\ AfterPair(p) \in Pairs
         /\ p \in {None, Nil} => AfterPair(p) = p
         /\ p \notin {None, Nil} => /\ p.backend \in Ref \cup {None}
                                    /\ AfterPair(p).backend = After(p.backend)
  BY AfterKeeps DEF AfterPair, Pair, Pairs

LEMMA OwnCloseConns ==
  ASSUME ClientInv, CloseConns, shut' \in {"pools", "sessions", "done"}
  PROVE  ClientInv'
<1>1. UNCHANGED <<conn, user>>
  BY DEF CloseConns
<1>2. ASSUME NEW c \in Client
      PROVE  /\ h'[c] \in HandlerState
             /\ h'[c].pc = h[c].pc /\ h'[c].user = h[c].user
             /\ h'[c].key = h[c].key /\ h'[c].id = h[c].id
             /\ h'[c].ref = After(h[c].ref)
  <2>1. h[c] \in HandlerState /\ h[c].ref \in Ref \cup {None} /\ h[c].old \in Pairs
    BY DEF ClientInv, ClientTypeOK, HandlerState
  <2>2. After(h[c].ref) \in Ref \cup {None} /\ AfterPair(h[c].old) \in Pairs
    BY <2>1, AfterKeeps, AfterPairKeeps
  <2>3. h'[c] = [h[c] EXCEPT !.ref = After(h[c].ref), !.old = AfterPair(h[c].old)]
    BY DEF CloseConns
  <2> QED
    BY <2>1, <2>2, <2>3 DEF HandlerState
<1>3. ASSUME NEW c \in Client
      PROVE  pair'[c] \in Pairs /\ pair'[c] = AfterPair(pair[c]) /\ pair[c] \in Pairs
  BY AfterPairKeeps DEF ClientInv, ClientTypeOK, CloseConns
<1>4. ClientTypeOK'
  <2>1. h' \in [Client -> HandlerState]
    BY <1>2 DEF CloseConns
  <2>2. pair' \in [Client -> Pairs]
    BY <1>3 DEF CloseConns
  <2> QED
    BY <1>1, <2>1, <2>2 DEF ClientInv, ClientTypeOK
<1>5. ASSUME NEW c \in Client
      PROVE  HandlerOwned(c)'
  <2>1. h[c].pc = "bind" => h[c].ref \in Ref /\ h'[c].ref \in Ref /\ h'[c].ref.id = h[c].ref.id
    BY <1>2, AfterKeeps DEF ClientInv, ClientOwned, HandlerOwned
  <2> QED
    BY <1>1, <1>2, <2>1 DEF ClientInv, ClientOwned, HandlerOwned, Owned
<1>6. ASSUME NEW c \in Client
      PROVE  PairOwned(c)'
  <2> SUFFICES ASSUME pair'[c] \notin {None, Nil}, pair'[c].backend # None
               PROVE  Owned(user[c], KeyOf[pair'[c].backend.id])
    BY <1>1 DEF PairOwned, Owned
  <2>1. /\ pair[c] \notin {None, Nil} /\ pair[c].backend \in Ref \cup {None}
        /\ pair'[c].backend = After(pair[c].backend)
    BY <1>3, AfterPairKeeps
  <2>2. pair[c].backend # None /\ pair'[c].backend.id = pair[c].backend.id
    BY <2>1, AfterKeeps
  <2> QED
    BY <2>1, <2>2 DEF ClientInv, ClientOwned, PairOwned, Owned
<1> QED
  BY <1>4, <1>5, <1>6 DEF ClientInv, ClientOwned

LEMMA OwnClearSessions ==
  ASSUME ClientInv, ClearSessions
  PROVE  ClientInv'
<1>1. ClientTypeOK'
  BY DEF ClientInv, ClientTypeOK, ClearSessions, Pairs
<1>2. ASSUME NEW c \in Client
      PROVE  ClientOwned(c)'
  BY DEF ClientInv, ClientOwned, HandlerOwned, PairOwned, Owned, ClearSessions
<1> QED
  BY <1>1, <1>2 DEF ClientInv

----------------------------------------------------------------------------
(* The proxy                                                                *)

PInv == MgmtInv /\ ClientInv

LEMMA ProxyInitInv ==
  ASSUME ProxyInit
  PROVE  PInv
<1>1. MgmtInv
  BY MgmtInitInv DEF ProxyInit
<1>2. Idle \in HandlerState /\ Idle.pc = "idle"
  BY HandlerType DEF Idle, H, Users
<1>3. ClientTypeOK
  BY <1>2 DEF ProxyInit, ClientTypeOK, Users, Pairs
<1>4. ASSUME NEW c \in Client
      PROVE  ClientOwned(c)
  BY <1>2 DEF ProxyInit, ClientOwned, HandlerOwned, PairOwned
<1> QED
  BY <1>1, <1>3, <1>4 DEF PInv, ClientInv

(* Event handlers leave the registry and the manager alone.                 *)
LEMMA HandlerInv ==
  ASSUME PInv, Running, NEW c \in Client, Handler(c)
  PROVE  PInv'
<1>1. UNCHANGED mgmtVars
  BY DEF Handler, OnOpen, OnTraffic, DispatchAuth, Dispatch, EventEnds, OnClose, ForwardLoad,
         KeepBackend, GetTenantKey, Select, LoadPool, Bind, RouteFailed
<1>2. MgmtInv'
  BY <1>1 DEF PInv, MgmtInv, MgmtTypeOK, KeysOwned, ListedUnderKey, Owned, mgmtVars
<1>3. ClientInv'
  BY OwnOnOpen, OwnOnTraffic, OwnDispatchAuth, OwnDispatch, OwnOnClose, OwnForwardLoad,
     OwnKeepBackend, OwnGetTenantKey, OwnSelect, OwnLoadPool, OwnBind, OwnRouteFailed
  DEF PInv, Running, Handler
<1> QED
  BY <1>2, <1>3 DEF PInv

LEMMA ProxyNextInv ==
  ASSUME PInv, [ProxyNext]_allVars
  PROVE  PInv'
<1>1. CASE Running /\ \E c \in Client : Handler(c)
  BY <1>1, HandlerInv
<1>2. CASE Backends \/ ClearPools
  <2>1. (MgmtStep \/ Close) /\ CloseConns /\ shut' \in {"pools", "sessions", "done"}
    BY <1>2 DEF Backends, ClearPools, PInv, ClientInv, ClientTypeOK
  <2> QED
    BY <2>1, MgmtStepInv, OwnCloseConns DEF PInv
<1>3. CASE ClearSessions
  <2>1. MgmtInv'
    BY <1>3 DEF ClearSessions, PInv, MgmtInv, MgmtTypeOK, KeysOwned, ListedUnderKey, Owned, mgmtVars
  <2> QED
    BY <1>3, <2>1, OwnClearSessions DEF PInv
<1>4. CASE UNCHANGED allVars
  BY <1>4
  DEF PInv, MgmtInv, MgmtTypeOK, KeysOwned, ListedUnderKey, Owned, ClientInv, ClientTypeOK,
      ClientOwned, HandlerOwned, PairOwned, allVars, mgmtVars, proxyVars
<1> QED
  BY <1>1, <1>2, <1>3, <1>4 DEF ProxyNext

LEMMA PInvImplies ==
  ASSUME PInv
  PROVE  ProxyTypeOK /\ BoundToOwnCluster
<1>1. ProxyTypeOK
  BY DEF PInv, MgmtInv, ClientInv, ClientTypeOK, HandlerState, ProxyTypeOK
<1>2. BoundToOwnCluster
  BY DEF PInv, ClientInv, ClientOwned, PairOwned, Owned, BoundToOwnCluster
<1> QED
  BY <1>1, <1>2

----------------------------------------------------------------------------
(* Sessions                                                                 *)

(* The map of sessions follows the client, and a lookup that is under way   *)
(* has found its session there.                                             *)
Kept(c) ==
  /\ conn[c] <=> pair[c] \notin {None, Nil}
  /\ h[c].pc \in {"select", "pool", "bind", "fail"} => h[c].old \notin {None, Nil}

KeptInv == shut # "done" => \A c \in Client : Kept(c)

LEMMA KeptOther ==
  ASSUME NEW c \in Client, \A d \in Client : Kept(d), Kept(c)',
         \A d \in Client \ {c} : conn'[d] = conn[d] /\ pair'[d] = pair[d] /\ h'[d] = h[d]
  PROVE  \A d \in Client : Kept(d)'
  BY DEF Kept

(* A pair is neither None nor nil.                                          *)
LEMMA PairIsPair ==
  ASSUME NEW ref \in Ref \cup {None}
  PROVE  Pair(ref) \notin {None, Nil}
<1>1. Pair(ref) \in [backend: Ref \cup {None}]
  BY DEF Pair
<1> QED
  BY <1>1, ProxyAssumption

LEMMA HandlerKept ==
  ASSUME ClientInv, Running, NEW c \in Client, Handler(c), \A d \in Client : Kept(d)
  PROVE  \A d \in Client : Kept(d)'
<1> USE DEF ClientInv, ClientTypeOK
<1>1. h[c].pc # "panic" /\ (~conn[c] => h[c].pc = "idle") /\ h[c] \in HandlerState
  BY DEF ClientOwned, HandlerOwned, Running
<1>2. CASE OnOpen(c)
  <2>1. Kept(c)'
    BY <1>1, <1>2, PairIsPair DEF OnOpen, Kept
  <2> QED
    BY <1>2, <2>1, KeptOther DEF OnOpen
<1>3. CASE OnTraffic(c) \/ EventEnds(c) \/ Dispatch(c) \/ \E u \in Users : DispatchAuth(c, u)
  <2>1. PICK new : h' = [h EXCEPT ![c] = new] /\ new.pc \in {"panic", "read", "idle", "load"}
    BY <1>3 DEF OnTraffic, EventEnds, Dispatch, DispatchAuth, Goto, Idle, H
  <2>2. UNCHANGED <<conn, pair>>
    BY <1>3 DEF OnTraffic, EventEnds, Dispatch, DispatchAuth
  <2>3. Kept(c)'
    BY <2>1, <2>2 DEF Kept
  <2> QED
    BY <2>1, <2>2, <2>3, KeptOther
<1>4. CASE OnClose(c)
  <2>1. Kept(c)'
    BY <1>4 DEF OnClose, Goto, H, Kept
  <2> QED
    BY <1>4, <2>1, KeptOther DEF OnClose, Goto
<1>5. CASE ForwardLoad(c) \/ KeepBackend(c)
  <2>1. UNCHANGED <<conn, pair>>
    BY <1>5 DEF ForwardLoad, KeepBackend
  <2>2. PICK new : h' = [h EXCEPT ![c] = new] /\ new.pc \in {"panic", "read", "tenant"}
    BY <1>1, <1>5 DEF ForwardLoad, KeepBackend, Goto, H, HandlerState
  <2>3. Kept(c)'
    BY <2>1, <2>2 DEF Kept
  <2> QED
    BY <2>1, <2>2, <2>3, KeptOther
<1>6. CASE GetTenantKey(c)
  <2>1. UNCHANGED <<conn, pair>> /\ conn[c]
    BY <1>1, <1>6 DEF GetTenantKey
  <2>2. h'[c].old = pair[c] /\ \A d \in Client \ {c} : h'[d] = h[d]
    BY <1>1, <1>6 DEF GetTenantKey, HandlerState
  <2>3. Kept(c)'
    BY <2>1, <2>2 DEF Kept
  <2> QED
    BY <2>1, <2>2, <2>3, KeptOther
<1>7. CASE Select(c) \/ LoadPool(c)
  <2>1. UNCHANGED <<conn, pair>> /\ h[c].pc \in {"select", "pool"}
    BY <1>7 DEF Select, LoadPool
  <2>2. PICK new : h' = [h EXCEPT ![c] = new] /\ (new.pc = "panic" \/ new.old = h[c].old)
    <3>1. CASE Select(c)
      BY <1>1, <3>1 DEF Select, Goto, H, HandlerState
    <3>2. CASE LoadPool(c)
      BY <1>1, <3>2 DEF LoadPool, HandlerState
    <3> QED
      BY <1>7, <3>1, <3>2
  <2>3. Kept(c)'
    BY <2>1, <2>2 DEF Kept
  <2> QED
    BY <2>1, <2>2, <2>3, KeptOther
<1>8. CASE Bind(c)
  <2>1. conn' = conn /\ conn[c] /\ pair[c] \notin {None, Nil} /\ h[c].ref \in Ref
    BY <1>1, <1>8 DEF Bind, Kept, ClientOwned, HandlerOwned
  <2>2. PICK new : h' = [h EXCEPT ![c] = new] /\ new.pc \in {"panic", "read"}
    BY <1>8 DEF Bind, Goto, H
  <2>3. pair' = pair \/ pair' = [pair EXCEPT ![c] = Pair(h[c].ref)]
    BY <1>8 DEF Bind
  <2>4. Kept(c)'
    BY <2>1, <2>2, <2>3, PairIsPair DEF Kept
  <2> QED
    BY <2>1, <2>2, <2>3, <2>4, KeptOther
<1>9. CASE RouteFailed(c)
  <2>1. UNCHANGED <<conn, pair>>
    BY <1>9 DEF RouteFailed, Kept
  <2>2. h' = [h EXCEPT ![c] = H("read", None)] /\ H("read", None).pc = "read"
    BY <1>9 DEF RouteFailed, Goto, H
  <2>3. Kept(c)'
    BY <2>1, <2>2 DEF Kept
  <2> QED
    BY <2>1, <2>2, <2>3, KeptOther
<1> QED
  BY <1>2, <1>3, <1>4, <1>5, <1>6, <1>7, <1>8, <1>9 DEF Handler

(* Closing pools keeps pairs pairs.                                         *)
LEMMA AfterPairIsPair ==
  ASSUME NEW p \in Pairs
  PROVE  p \in {None, Nil} <=> AfterPair(p) \in {None, Nil}
<1>1. CASE p \in {None, Nil}
  BY <1>1 DEF AfterPair
<1>2. CASE p \notin {None, Nil}
  <2>1. AfterPair(p) = Pair(After(p.backend)) /\ After(p.backend) \in Ref \cup {None}
    BY <1>2, AfterKeeps, AfterPairKeeps DEF AfterPair
  <2> QED
    BY <1>2, <2>1, PairIsPair
<1> QED
  BY <1>1, <1>2

LEMMA CloseConnsKept ==
  ASSUME ClientInv, CloseConns, \A d \in Client : Kept(d), NEW c \in Client
  PROVE  Kept(c)'
<1>1. pair[c] \in Pairs /\ h[c] \in HandlerState /\ h[c].old \in Pairs
  BY DEF ClientInv, ClientTypeOK, HandlerState
<1>2. conn' = conn /\ pair'[c] = AfterPair(pair[c])
  BY DEF CloseConns
<1>3. h'[c].pc = h[c].pc /\ h'[c].old = AfterPair(h[c].old)
  BY <1>1 DEF CloseConns, HandlerState
<1> QED
  BY <1>1, <1>2, <1>3, AfterPairIsPair DEF Kept

LEMMA KeptNext ==
  ASSUME PInv, KeptInv, [ProxyNext]_allVars
  PROVE  KeptInv'
<1> SUFFICES ASSUME shut' # "done"
             PROVE  \A c \in Client : Kept(c)'
  BY DEF KeptInv
<1>1. CASE Running /\ \E c \in Client : Handler(c)
  <2>1. shut' = shut
    BY <1>1 DEF Handler, OnOpen, OnTraffic, DispatchAuth, Dispatch, EventEnds, OnClose,
       ForwardLoad, KeepBackend, GetTenantKey, Select, LoadPool, Bind, RouteFailed
  <2> QED
    BY <1>1, <2>1, HandlerKept DEF PInv, KeptInv
<1>2. CASE Backends \/ ClearPools
  BY <1>2, CloseConnsKept DEF Backends, ClearPools, PInv, KeptInv
<1>3. CASE ClearSessions
  BY <1>3 DEF ClearSessions
<1>4. CASE UNCHANGED allVars
  BY <1>4 DEF KeptInv, Kept, allVars, proxyVars
<1> QED
  BY <1>1, <1>2, <1>3, <1>4 DEF ProxyNext

LEMMA KeptInit ==
  ASSUME ProxyInit
  PROVE  KeptInv
  BY DEF ProxyInit, KeptInv, Kept, Idle, H

----------------------------------------------------------------------------

(* Tenants are kept apart: with any number of clients on event loops of     *)
(* their own, whatever names they log in with, however instances come and   *)
(* go between the steps of a lookup, also when StatusChange is called       *)
(* concurrently, when clusters are added again and at shutdown, a session   *)
(* is bound only to backends of a cluster that its user may use             *)
(* (doDispatch, RouteRequest, GetBackendFixedPool); and the notify channel  *)
(* stays within its capacity.                                               *)
THEOREM TenantsApart == ProxySpec => [](ProxyTypeOK /\ BoundToOwnCluster)
<1>1. ProxyInit => PInv
  BY ProxyInitInv
<1>2. PInv /\ [ProxyNext]_allVars => PInv'
  BY ProxyNextInv
<1>3. PInv => ProxyTypeOK /\ BoundToOwnCluster
  BY PInvImplies
<1>4. ProxySafety => [](ProxyTypeOK /\ BoundToOwnCluster)
  BY <1>1, <1>2, <1>3, PTL DEF ProxySafety
<1> QED
  BY <1>4, PTL DEF ProxySpec

(* Whatever fails while a request is routed, and whatever happens to the    *)
(* backends, the map has an entry for exactly the connected clients until   *)
(* shutdown clears it: neither Compute in RouteRequest nor CloseSession     *)
(* loses one or leaves one behind, for any number of clients.               *)
THEOREM SessionsKept == ProxySpec => []SessionsFollowClients
<1>1. ProxyInit => PInv /\ KeptInv
  BY ProxyInitInv, KeptInit
<1>2. PInv /\ KeptInv /\ [ProxyNext]_allVars => (PInv /\ KeptInv)'
  BY ProxyNextInv, KeptNext
<1>3. PInv /\ KeptInv => SessionsFollowClients
  BY DEF KeptInv, Kept, SessionsFollowClients
<1>4. ProxySafety => []SessionsFollowClients
  BY <1>1, <1>2, <1>3, PTL DEF ProxySafety
<1> QED
  BY <1>4, PTL DEF ProxySpec

----------------------------------------------------------------------------
(* The registry and the pools                                               *)

(* A step of the proxy is a step of the registry and the manager, or leaves *)
(* them alone.                                                              *)
LEMMA ProxyMgmt ==
  ASSUME [ProxyNext]_allVars
  PROVE  MgmtStep \/ Close \/ UNCHANGED mgmtVars
<1>1. CASE \E c \in Client : Handler(c)
  BY <1>1 DEF Handler, OnOpen, OnTraffic, DispatchAuth, Dispatch, EventEnds, OnClose,
              ForwardLoad, KeepBackend, GetTenantKey, Select, LoadPool, Bind, RouteFailed
<1>2. CASE Backends \/ ClearPools \/ ClearSessions
  BY <1>2 DEF Backends, ClearPools, ClearSessions
<1>3. CASE UNCHANGED allVars
  BY <1>3 DEF allVars
<1> QED BY <1>1, <1>2, <1>3 DEF ProxyNext

(* Upsert leaves the other entries and has one for the instance.            *)
LEMMA UpsertEntries ==
  ASSUME NEW list \in Seq(Info), NEW info \in Info
  PROVE  /\ Upsert(list, info) \in Seq(Info)
         /\ \A j \in 1..Len(Upsert(list, info)) :
              \/ Upsert(list, info)[j] = info
              \/ \E i \in 1..Len(list) :
                   Upsert(list, info)[j] = list[i] /\ list[i].id # info.id
         /\ \E j \in 1..Len(Upsert(list, info)) : Upsert(list, info)[j].id = info.id
         /\ \A i \in 1..Len(list) : \E j \in 1..Len(Upsert(list, info)) :
              Upsert(list, info)[j].id = list[i].id
<1>0. Len(list) \in Nat /\ \A i \in 1..Len(list) : list[i] \in Info
  BY LenProperties, ElementOfSeq
<1>1. CASE \E i \in 1..Len(list) : list[i].id = info.id
  <2> DEFINE new == [i \in 1..Len(list) |-> IF list[i].id = info.id THEN info ELSE list[i]]
  <2>1. Upsert(list, info) = new
    BY <1>1 DEF Upsert
  <2>2. new \in [1..Len(list) -> Info]
    BY <1>0
  <2>3. new \in Seq(Info) /\ Len(new) = Len(list)
    BY <1>0, <2>2
  <2>4. \A j \in 1..Len(list) : /\ list[j].id = info.id => new[j] = info
                                /\ list[j].id # info.id => new[j] = list[j]
    OBVIOUS
  <2> HIDE DEF new
  <2>5. \A j \in 1..Len(new) : new[j] = info \/ \E i \in 1..Len(list) : new[j] = list[i] /\ list[i].id # info.id
    BY <2>3, <2>4
  <2>6. \E j \in 1..Len(new) : new[j].id = info.id
    BY <1>1, <2>3, <2>4
  <2>7. \A i \in 1..Len(list) : new[i].id = list[i].id /\ i \in 1..Len(new)
    BY <2>3, <2>4
  <2>8. \A i \in 1..Len(list) : \E j \in 1..Len(new) : new[j].id = list[i].id
    BY <2>7
  <2> QED BY <2>1, <2>3, <2>5, <2>6, <2>8
<1>2. CASE ~ \E i \in 1..Len(list) : list[i].id = info.id
  <2> DEFINE new == Append(list, info)
  <2>1. Upsert(list, info) = new
    BY <1>2 DEF Upsert
  <2>2. /\ new \in Seq(Info) /\ Len(new) = Len(list) + 1
        /\ \A j \in 1..Len(list) : new[j] = list[j]
        /\ new[Len(list) + 1] = info
    BY AppendProperties
  <2> HIDE DEF new
  <2>3. \A j \in 1..Len(new) : j \in 1..Len(list) \/ j = Len(list) + 1
    BY <2>2, <1>0
  <2>4. Len(list) + 1 \in 1..Len(new) /\ \A j \in 1..Len(list) : j \in 1..Len(new)
    BY <2>2, <1>0
  <2>5. \A j \in 1..Len(new) : new[j] = info \/ \E i \in 1..Len(list) : new[j] = list[i] /\ list[i].id # info.id
    BY <1>2, <2>2, <2>3
  <2>6. \E j \in 1..Len(new) : new[j].id = info.id
    BY <2>2, <2>4
  <2>7. \A i \in 1..Len(list) : \E j \in 1..Len(new) : new[j].id = list[i].id
    BY <2>2, <2>4
  <2> QED BY <2>1, <2>2, <2>5, <2>6, <2>7
<1> QED BY <1>1, <1>2

(* A change of instance id is on its way to the manager.                    *)
Pending(id) ==
  \/ \E t \in Caller : sending[t] # None /\ sending[t].id = id
  \/ \E n \in 1..Len(notify) : notify[n].id = id

Onlining(id) == mgr.pc = "online" /\ mgr.id = id

(* What the registry says of an instance is what was sent of it last, and   *)
(* once that is handled what its pool shows, unless the manager is still    *)
(* filling the pool or is stuck.                                            *)
SentLast(info) ==
  \A t \in Caller : sending[t] # None /\ sending[t].id = info.id => sending[t] = info
QueuedLast(info) ==
  (\A t \in Caller : sending[t] # None => sending[t].id # info.id) =>
    \A n \in 1..Len(notify) :
      notify[n].id = info.id /\ (\A m \in 1..Len(notify) : m > n => notify[m].id # info.id)
        => notify[n] = info
Handled(info) ==
  ~Pending(info.id) /\ mgr.pc # "stuck" =>
    /\ Onlining(info.id) => info.status = "ready"
    /\ ~Onlining(info.id) /\ info.status = "ready" => instancePool[info.id] # "none"
    /\ ~Onlining(info.id) /\ info.status = "offline" => instancePool[info.id] = "none"
Tracked(info) == SentLast(info) /\ QueuedLast(info) /\ Handled(info)

InRegistry(info) ==
  \E k \in Key : clusters[k] # None /\ \E j \in 1..Len(clusters[k]) : clusters[k][j] = info
FollowInv == \A info \in Info : InRegistry(info) => Tracked(info)

OneCaller == \A s, t \in Caller : s = t

(* StatusChange: the new entry is what is sent; the others are not touched. *)
LEMMA TrackedStatusChange ==
  ASSUME OneCaller, MgmtInv, NEW t \in Caller, NEW new \in Info, StatusChange(t, new),
         NEW info \in Info, info = new \/ (info.id # new.id /\ Tracked(info))
  PROVE  Tracked(info)'
<1>1. /\ sending[t] = None /\ sending'[t] = new
      /\ \A s \in Caller : s = t
      /\ new # None
  BY BackendManagerAssumption DEF StatusChange, MgmtInv, MgmtTypeOK, OneCaller
<1>2. UNCHANGED <<notify, mgr, instancePool>>
  BY DEF StatusChange
<1>3. CASE info = new
  <2>1. \E s \in Caller : sending'[s] # None /\ sending'[s].id = info.id
    BY <1>1, <1>3
  <2> QED BY <1>1, <1>3, <2>1 DEF Tracked, SentLast, QueuedLast, Handled, Pending
<1>4. CASE info.id # new.id /\ Tracked(info)
  <2>1. SentLast(info)' /\ QueuedLast(info)'
    BY <1>1, <1>2, <1>4 DEF Tracked, SentLast, QueuedLast
  <2>2. Pending(info.id)' <=> Pending(info.id)
    BY <1>1, <1>2, <1>4 DEF Pending
  <2>3. Handled(info)'
    BY <1>2, <1>4, <2>2 DEF Tracked, Handled, Onlining
  <2> QED BY <2>1, <2>3 DEF Tracked
<1> QED BY <1>3, <1>4

LEMMA TrackedSend ==
  ASSUME OneCaller, MgmtInv, NEW t \in Caller, StatusChangeSend(t),
         NEW info \in Info, Tracked(info)
  PROVE  Tracked(info)'
<1>1. /\ sending[t] # None /\ sending'[t] = None
      /\ \A s \in Caller : s = t
  BY DEF StatusChangeSend, MgmtInv, MgmtTypeOK, OneCaller
<1> DEFINE N == Len(notify)
           x == sending[t]
<1>2. /\ N \in Nat /\ Len(notify') = N + 1 /\ notify'[N + 1] = x
      /\ \A n \in 1..N : notify'[n] = notify[n]
  <2>1. notify \in Seq(Info) /\ x \in Info /\ notify' = Append(notify, x)
    BY <1>1 DEF StatusChangeSend, MgmtInv, MgmtTypeOK
  <2> QED BY <2>1, AppendProperties, LenProperties
<1>3. UNCHANGED <<mgr, instancePool>>
  BY DEF StatusChangeSend
<1>n. N = Len(notify) /\ x = sending[t]
  OBVIOUS
<1> HIDE DEF N, x
<1>4. SentLast(info)'
  BY <1>1 DEF SentLast
<1>5. QueuedLast(info)'
  <2> SUFFICES ASSUME NEW n \in 1..Len(notify'), notify'[n].id = info.id,
                      \A m \in 1..Len(notify') : m > n => notify'[m].id # info.id
               PROVE  notify'[n] = info
    BY DEF QueuedLast
  <2>1. CASE n = N + 1
    BY <2>1, <1>1, <1>2, <1>n DEF Tracked, SentLast
  <2>2. CASE n \in 1..N
    <3>1. N + 1 \in 1..Len(notify') /\ N + 1 > n
      BY <2>2, <1>2
    <3>2. x.id # info.id
      BY <3>1, <1>2
    <3>3. \A m \in 1..N : m > n => notify[m].id # info.id
      <4>1. \A m \in 1..N : m \in 1..Len(notify')
        BY <1>2
      <4> QED BY <4>1, <1>2
    <3>4. \A s \in Caller : sending[s] # None => sending[s].id # info.id
      BY <1>1, <1>n, <3>2
    <3>5. notify[n].id = info.id
      BY <2>2, <1>2
    <3>6. notify[n] = info
      BY <2>2, <3>3, <3>4, <3>5, <1>n DEF Tracked, QueuedLast
    <3> QED BY <2>2, <3>6, <1>2
  <2> QED BY <2>1, <2>2, <1>2
<1>6. Pending(info.id) => Pending(info.id)'
  <2>1. N + 1 \in 1..Len(notify') /\ \A m \in 1..N : m \in 1..Len(notify')
    BY <1>2
  <2>2. CASE x.id = info.id
    BY <2>1, <2>2, <1>2 DEF Pending
  <2>3. CASE \E n \in 1..N : notify[n].id = info.id
    BY <2>1, <2>3, <1>2 DEF Pending
  <2> QED BY <2>2, <2>3, <1>1, <1>n DEF Pending
<1>7. Handled(info)'
  BY <1>3, <1>6 DEF Tracked, Handled, Onlining
<1> QED BY <1>4, <1>5, <1>7 DEF Tracked

(* The manager handles the change that was sent first.                      *)
LEMMA TrackedNotify ==
  ASSUME MgmtInv, BackendChangeNotify, NEW info \in Info, Tracked(info)
  PROVE  Tracked(info)'
<1> DEFINE N == Len(notify)
           x == Head(notify)
<1>0. notify \in Seq(Info) /\ notify # << >> /\ notify' = Tail(notify)
  BY DEF MgmtInv, MgmtTypeOK, BackendChangeNotify
<1>1. /\ N \in Nat /\ N > 0 /\ Len(notify') = N - 1 /\ x = notify[1] /\ x \in Info
      /\ \A n \in 1..(N - 1) : notify'[n] = notify[n + 1]
  BY <1>0, HeadTailProperties, LenProperties, EmptySeq
<1>2. UNCHANGED sending
  BY DEF BackendChangeNotify
<1>3. mgr.pc = "receive"
  BY DEF BackendChangeNotify
<1>4. \/ x.status = "ready" /\ BackendOnline(x.id)
      \/ x.status = "offline" /\ BackendOffline(x.id)
      \/ x.status = "other" /\ UNCHANGED <<mgr, instancePool, clusterKeyMap>>
  BY DEF BackendChangeNotify
<1>i. x.id \in Instance /\ info.id \in Instance
  BY <1>1 DEF Info
<1>p. instancePool \in [Instance -> {"none", "open", "closed"}]
  BY DEF MgmtInv, MgmtTypeOK
<1>n. N = Len(notify)
  OBVIOUS
<1> HIDE DEF N, x
<1>5. SentLast(info)'
  BY <1>2 DEF Tracked, SentLast
<1>6. QueuedLast(info)'
  <2> SUFFICES ASSUME \A t \in Caller : sending[t] # None => sending[t].id # info.id,
                      NEW n \in 1..Len(notify'), notify'[n].id = info.id,
                      \A m \in 1..Len(notify') : m > n => notify'[m].id # info.id
               PROVE  notify'[n] = info
    BY <1>2 DEF QueuedLast
  <2>1. n \in 1..(N - 1) /\ n + 1 \in 1..N /\ notify'[n] = notify[n + 1]
    BY <1>1
  <2>2. ASSUME NEW m \in 1..N, m > n + 1 PROVE notify[m].id # info.id
    <3>1. m - 1 \in 1..(N - 1) /\ m - 1 > n /\ (m - 1) + 1 = m
      BY <2>1, <2>2, <1>1
    <3>2. notify'[m - 1] = notify[m] /\ m - 1 \in 1..Len(notify')
      BY <3>1, <1>1
    <3> QED BY <3>1, <3>2
  <2> QED BY <2>1, <2>2, <1>n DEF Tracked, QueuedLast
<1>7. ASSUME Pending(info.id) PROVE x.id = info.id \/ Pending(info.id)'
  <2>1. CASE \E t \in Caller : sending[t] # None /\ sending[t].id = info.id
    BY <2>1, <1>2 DEF Pending
  <2>2. CASE \E n \in 1..N : notify[n].id = info.id
    <3>1. PICK n \in 1..N : notify[n].id = info.id
      BY <2>2
    <3>2. CASE n = 1
      BY <3>1, <3>2, <1>1
    <3>3. CASE n # 1
      <4>1. n - 1 \in 1..(N - 1) /\ (n - 1) + 1 = n
        BY <3>3, <1>1
      <4>2. notify'[n - 1] = notify[n] /\ n - 1 \in 1..Len(notify')
        BY <4>1, <1>1
      <4> QED BY <3>1, <4>2 DEF Pending
    <3> QED BY <3>2, <3>3
  <2> QED BY <1>7, <2>1, <2>2, <1>n DEF Pending
<1>8. ASSUME x.id = info.id, ~Pending(info.id)' PROVE x = info
  <2>1. \A t \in Caller : sending[t] # None => sending[t].id # info.id
    BY <1>8, <1>2 DEF Pending
  <2>2. ASSUME NEW m \in 1..N, m > 1 PROVE notify[m].id # info.id
    <3>1. m - 1 \in 1..(N - 1) /\ (m - 1) + 1 = m
      BY <2>2, <1>1
    <3>2. notify'[m - 1] = notify[m] /\ m - 1 \in 1..Len(notify')
      BY <3>1, <1>1
    <3> QED BY <1>8, <3>2 DEF Pending
  <2>3. 1 \in 1..N
    BY <1>1
  <2> QED BY <2>1, <2>2, <2>3, <1>1, <1>8, <1>n DEF Tracked, QueuedLast
<1>9. Handled(info)'
  <2> SUFFICES ASSUME ~Pending(info.id)', mgr'.pc # "stuck"
               PROVE  /\ Onlining(info.id)' => info.status = "ready"
                      /\ ~Onlining(info.id)' /\ info.status = "ready" => instancePool'[info.id] # "none"
                      /\ ~Onlining(info.id)' /\ info.status = "offline" => instancePool'[info.id] = "none"
    BY DEF Handled
  <2>1. CASE x.id # info.id
    <3>1. Handled(info) /\ ~Pending(info.id) /\ ~Onlining(info.id)
      BY <2>1, <1>7, <1>3 DEF Tracked, Onlining
    <3>2. instancePool'[info.id] = instancePool[info.id]
      BY <1>4, <1>i, <1>p, <2>1 DEF BackendOnline, BackendOffline
    <3>3. ~Onlining(info.id)'
      BY <1>4, <2>1, <1>3 DEF BackendOnline, BackendOffline, Receiving, M, Onlining
    <3> QED BY <1>3, <3>1, <3>2, <3>3 DEF Handled
  <2>2. CASE x.id = info.id
    <3>1. x = info
      BY <2>2, <1>8
    <3>2. CASE x.status = "ready" /\ BackendOnline(x.id)
      <4>1. CASE instancePool[x.id] # "none"
        BY <3>1, <3>2, <4>1 DEF BackendOnline, Receiving, M, Onlining
      <4>2. CASE instancePool[x.id] = "none"
        BY <3>1, <3>2, <4>2 DEF BackendOnline, M, Onlining
      <4> QED BY <4>1, <4>2
    <3>3. CASE x.status = "offline" /\ BackendOffline(x.id)
      BY <3>1, <3>3, <1>i, <1>p DEF BackendOffline, Receiving, M, Onlining
    <3>4. CASE x.status = "other" /\ UNCHANGED <<mgr, instancePool, clusterKeyMap>>
      BY <3>1, <3>4, <1>3 DEF Onlining
    <3> QED BY <3>2, <3>3, <3>4, <1>4
  <2> QED BY <2>1, <2>2
<1> QED BY <1>5, <1>6, <1>9 DEF Tracked

LEMMA TrackedRest ==
  ASSUME MgmtInv, PoolOnline \/ Close, NEW info \in Info, Tracked(info)
  PROVE  Tracked(info)'
<1>1. UNCHANGED <<notify, sending>>
  BY DEF PoolOnline, Close
<1>2. SentLast(info)' /\ QueuedLast(info)' /\ (Pending(info.id)' <=> Pending(info.id))
  BY <1>1 DEF Tracked, SentLast, QueuedLast, Pending
<1>t. /\ info.id \in Instance
      /\ instancePool \in [Instance -> {"none", "open", "closed"}]
      /\ mgr \in [pc: {"receive", "online", "stuck", "done"}, id: Instance \cup {None}]
  BY DEF Info, MgmtInv, MgmtTypeOK
<1>3. CASE PoolOnline
  <2>1. mgr.pc = "online" /\ mgr'.pc # "stuck" /\ ~Onlining(info.id)'
    BY <1>3 DEF PoolOnline, Receiving, M, Onlining
  <2>2. instancePool'[info.id] = IF info.id = mgr.id THEN "open" ELSE instancePool[info.id]
    BY <1>3, <1>t DEF PoolOnline
  <2>3. Handled(info)'
    BY <1>2, <2>1, <2>2 DEF Tracked, Handled, Onlining
  <2> QED BY <1>2, <2>3 DEF Tracked
<1>4. CASE Close
  <2>1. UNCHANGED mgr /\ (instancePool'[info.id] = "none" <=> instancePool[info.id] = "none")
    BY <1>4, <1>t DEF Close
  <2>2. Handled(info)'
    BY <1>2, <2>1 DEF Tracked, Handled, Onlining
  <2> QED BY <1>2, <2>2 DEF Tracked
<1> QED BY <1>3, <1>4

LEMMA EntryType ==
  ASSUME MgmtInv
  PROVE  \A k \in Key : clusters[k] # None =>
           /\ clusters[k] \in Seq(Info)
           /\ \A j \in 1..Len(clusters[k]) : clusters[k][j] \in Info
<1>1. \A k \in Key : clusters[k] # None => clusters[k] \in Seq(Info)
  BY DEF MgmtInv, MgmtTypeOK
<1> QED BY <1>1, ElementOfSeq

LEMMA FollowStatusChange ==
  ASSUME OneCaller, MgmtInv, FollowInv, NEW t \in Caller, NEW new \in Info, StatusChange(t, new)
  PROVE  FollowInv'
<1> SUFFICES ASSUME NEW info \in Info, InRegistry(info)'
             PROVE  Tracked(info)'
  BY DEF FollowInv
<1> DEFINE l == KeyOf[new.id]
<1>1. l \in Key /\ clusters[l] \in Seq(Info)
  <2>1. new.id \in Instance /\ KeyOf \in [Instance -> Key]
    BY BackendManagerAssumption DEF Info
  <2> QED
    BY <2>1 DEF MgmtInv, MgmtTypeOK, StatusChange
<1>2. /\ clusters'[l] = Upsert(clusters[l], new) /\ clusters[l] # None
      /\ \A k \in Key : k # l => clusters'[k] = clusters[k]
  BY <1>1 DEF StatusChange, MgmtInv, MgmtTypeOK
<1>l. l = KeyOf[new.id]
  OBVIOUS
<1> HIDE DEF l
<1>3. PICK k \in Key : clusters'[k] # None /\ \E j \in 1..Len(clusters'[k]) : clusters'[k][j] = info
  BY DEF InRegistry
<1>4. PICK j \in 1..Len(clusters'[k]) : clusters'[k][j] = info
  BY <1>3
<1>5. info = new \/ (info.id # new.id /\ InRegistry(info))
  <2>1. CASE k = l
    <3>1. \A i \in 1..Len(Upsert(clusters[l], new)) :
            \/ Upsert(clusters[l], new)[i] = new
            \/ \E m \in 1..Len(clusters[l]) :
                 Upsert(clusters[l], new)[i] = clusters[l][m] /\ clusters[l][m].id # new.id
      BY <1>1, UpsertEntries
    <3>2. info = new \/ \E m \in 1..Len(clusters[l]) : info = clusters[l][m] /\ clusters[l][m].id # new.id
      BY <1>2, <1>4, <2>1, <3>1
    <3> QED BY <1>1, <1>2, <3>2 DEF InRegistry
  <2>2. CASE k # l
    <3>1. clusters[k] # None /\ j \in 1..Len(clusters[k]) /\ clusters[k][j] = info
      BY <1>2, <1>3, <1>4, <2>2
    <3>2. KeyOf[info.id] = k
      BY <3>1 DEF MgmtInv, ListedUnderKey
    <3> QED BY <1>l, <2>2, <3>1, <3>2 DEF InRegistry
  <2> QED BY <2>1, <2>2
<1> QED BY <1>5, TrackedStatusChange DEF FollowInv

(* AddCluster empties a list: there is less to follow.                      *)
LEMMA FollowAdd ==
  ASSUME MgmtInv, FollowInv, NEW l \in Key, AddTenantHandler(l)
  PROVE  FollowInv'
<1> SUFFICES ASSUME NEW info \in Info, InRegistry(info)'
             PROVE  Tracked(info)'
  BY DEF FollowInv
<1>1. clusters'[l] = << >> /\ \A k \in Key : k # l => clusters'[k] = clusters[k]
  BY DEF AddTenantHandler, AddCluster, MgmtInv, MgmtTypeOK
<1>2. UNCHANGED <<notify, sending, mgr, instancePool>>
  BY DEF AddTenantHandler, AddCluster
<1>3. 1..Len(<< >>) = {}
  OBVIOUS
<1>4. InRegistry(info)
  BY <1>1, <1>3 DEF InRegistry
<1>5. Tracked(info)
  BY <1>4 DEF FollowInv
<1> QED BY <1>2, <1>5 DEF Tracked, SentLast, QueuedLast, Handled, Pending, Onlining

LEMMA FollowNext ==
  ASSUME OneCaller, MgmtInv, FollowInv, MgmtStep \/ Close \/ UNCHANGED mgmtVars
  PROVE  FollowInv'
<1>1. ASSUME NEW t \in Caller, StatusChangeSend(t) PROVE FollowInv'
  <2>1. clusters' = clusters
    BY <1>1 DEF StatusChangeSend
  <2> QED BY <1>1, <2>1, TrackedSend DEF FollowInv, InRegistry
<1>2. ASSUME BackendChangeNotify PROVE FollowInv'
  <2>1. clusters' = clusters
    BY <1>2 DEF BackendChangeNotify
  <2> QED BY <1>2, <2>1, TrackedNotify DEF FollowInv, InRegistry
<1>3. ASSUME PoolOnline \/ Close PROVE FollowInv'
  <2>1. clusters' = clusters
    BY <1>3 DEF PoolOnline, Close
  <2> QED BY <1>3, <2>1, TrackedRest DEF FollowInv, InRegistry
<1>4. ASSUME UNCHANGED mgmtVars PROVE FollowInv'
  BY <1>4 DEF mgmtVars, FollowInv, InRegistry, Tracked, SentLast, QueuedLast, Handled, Pending,
              Onlining
<1> QED BY <1>1, <1>2, <1>3, <1>4, FollowStatusChange, FollowAdd DEF MgmtStep

LEMMA FollowImplies ==
  ASSUME MgmtInv, FollowInv
  PROVE  PoolsFollowRegistry
<1> SUFFICES ASSUME Quiescent, NEW k \in Key, clusters[k] # None, NEW j \in 1..Len(clusters[k])
             PROVE  LET info == clusters[k][j] IN
                      /\ info.status = "ready" => instancePool[info.id] # "none"
                      /\ info.status = "offline" => instancePool[info.id] = "none"
  BY DEF PoolsFollowRegistry
<1> DEFINE info == clusters[k][j]
<1>1. info \in Info /\ InRegistry(info)
  BY EntryType DEF InRegistry
<1> HIDE DEF info
<1>2. Handled(info)
  BY <1>1 DEF FollowInv, Tracked
<1>3. ~Pending(info.id) /\ ~Onlining(info.id) /\ mgr.pc # "stuck"
  BY DEF Quiescent, Pending, Onlining
<1> QED BY <1>2, <1>3 DEF Handled, info

(* The manager follows the registry when StatusChange is called by one      *)
(* goroutine at a time, for any clusters, instances and users, however      *)
(* often clusters are added and instances change, any capacity of the       *)
(* channel, and whatever the clients and shutdown do (StatusChange,         *)
(* BackendChangeNotify, backendOnline, backendOffline).                     *)
THEOREM ManagerFollows ==
  ASSUME OneCaller
  PROVE  ProxySpec => []PoolsFollowRegistry
<1>1. ProxyInit => PInv /\ FollowInv
  BY ProxyInitInv DEF ProxyInit, MgmtInit, FollowInv, InRegistry
<1>2. PInv /\ FollowInv /\ [ProxyNext]_allVars => (PInv /\ FollowInv)'
  BY ProxyNextInv, ProxyMgmt, FollowNext DEF PInv
<1>3. PInv /\ FollowInv => PoolsFollowRegistry
  BY FollowImplies DEF PInv
<1>4. ProxySafety => []PoolsFollowRegistry
  BY <1>1, <1>2, <1>3, PTL DEF ProxySafety
<1> QED
  BY <1>4, PTL DEF ProxySpec

----------------------------------------------------------------------------
(* Routing to a pool                                                        *)

(* An instance that Selector may return for its cluster: registered, or     *)
(* with the static router the local one.                                    *)
Known(i) ==
  /\ router = "sync" =>
       /\ clusters[KeyOf[i]] # None
       /\ \E j \in 1..Len(clusters[KeyOf[i]]) : clusters[KeyOf[i]][j].id = i
  /\ router = "static" => i = Local

(* Whatever is on its way to the manager, or has a pool, is known, and so   *)
(* is some instance of every cluster a user is routed to.                   *)
Mentioned(i) == Pending(i) \/ Onlining(i) \/ instancePool[i] # "none"
KeyKnown(k) == \E i \in Instance : KeyOf[i] = k /\ Known(i)
KnownInv ==
  /\ \A i \in Instance : Mentioned(i) => Known(i)
  /\ \A u \in Users, k \in Key : clusterKeyMap[u] = k => KeyKnown(k)
AddsCounted == \A k \in Key : clusters[k] # None => adds[k] > 0

AddedOnce == MaxAdds <= 1

(* Nothing that is known is forgotten, if no cluster is added twice.        *)
LEMMA StaysKnown ==
  ASSUME AddedOnce, MgmtInv, AddsCounted, MgmtStep \/ Close \/ UNCHANGED mgmtVars,
         NEW i \in Instance, Known(i)
  PROVE  Known(i)'
<1>k. KeyOf[i] \in Key
  BY BackendManagerAssumption
<1>1. CASE clusters' = clusters /\ router' = router
  BY <1>1 DEF Known
<1>2. ASSUME NEW l \in Key, AddTenantHandler(l) PROVE Known(i)'
  <2>1. clusters[l] = None
    <3>1. adds[l] < MaxAdds /\ adds[l] \in Nat /\ MaxAdds \in Nat
      BY <1>2, BackendManagerAssumption DEF AddTenantHandler, AddCluster, MgmtInv, MgmtTypeOK
    <3>2. ~(adds[l] > 0)
      BY <3>1 DEF AddedOnce
    <3> QED BY <3>2 DEF AddsCounted
  <2>2. router' = router /\ router = "sync"
    BY <1>2 DEF AddTenantHandler, AddCluster
  <2>3. KeyOf[i] # l
    BY <2>1, <2>2 DEF Known
  <2>4. clusters'[KeyOf[i]] = clusters[KeyOf[i]]
    BY <1>2, <1>k, <2>3 DEF AddTenantHandler, AddCluster, MgmtInv, MgmtTypeOK
  <2> QED BY <2>2, <2>4 DEF Known
<1>3. ASSUME NEW t \in Caller, NEW new \in Info, StatusChange(t, new) PROVE Known(i)'
  <2> DEFINE l == KeyOf[new.id]
  <2>1. l \in Key /\ clusters[l] \in Seq(Info)
    <3>1. new.id \in Instance /\ KeyOf \in [Instance -> Key]
      BY BackendManagerAssumption DEF Info
    <3> QED BY <1>3, <3>1 DEF MgmtInv, MgmtTypeOK, StatusChange
  <2>2. /\ clusters'[l] = Upsert(clusters[l], new) /\ router' = router
        /\ \A k \in Key : k # l => clusters'[k] = clusters[k]
    BY <1>3, <2>1 DEF StatusChange, MgmtInv, MgmtTypeOK
  <2> HIDE DEF l
  <2>3. CASE KeyOf[i] # l
    BY <1>k, <2>2, <2>3 DEF Known
  <2>4. CASE KeyOf[i] = l
    <3> DEFINE up == Upsert(clusters[l], new)
    <3>1. up \in Seq(Info) /\ \A m \in 1..Len(clusters[l]) : \E j \in 1..Len(up) : up[j].id = clusters[l][m].id
      BY <2>1, UpsertEntries
    <3>2. up # None
      BY <3>1, BackendManagerAssumption
    <3>3. clusters'[KeyOf[i]] = up
      BY <2>2, <2>4
    <3> HIDE DEF up
    <3> QED BY <2>2, <2>4, <3>1, <3>2, <3>3 DEF Known
  <2> QED BY <2>3, <2>4
<1>4. CASE BackendChangeNotify \/ PoolOnline \/ Close \/ UNCHANGED mgmtVars
           \/ \E t \in Caller : StatusChangeSend(t)
  BY <1>1, <1>4 DEF BackendChangeNotify, PoolOnline, Close, mgmtVars, StatusChangeSend
<1> QED BY <1>2, <1>3, <1>4 DEF MgmtStep

LEMMA AddsCountedNext ==
  ASSUME MgmtInv, AddsCounted, MgmtStep \/ Close \/ UNCHANGED mgmtVars
  PROVE  AddsCounted'
<1>1. ASSUME NEW l \in Key, AddTenantHandler(l) PROVE AddsCounted'
  <2>1. adds'[l] = adds[l] + 1 /\ adds[l] \in Nat
    BY <1>1, BackendManagerAssumption DEF AddTenantHandler, AddCluster, MgmtInv, MgmtTypeOK
  <2>2. \A k \in Key : k # l => adds'[k] = adds[k] /\ clusters'[k] = clusters[k]
    BY <1>1 DEF AddTenantHandler, AddCluster, MgmtInv, MgmtTypeOK
  <2> QED BY <2>1, <2>2 DEF AddsCounted
<1>2. ASSUME NEW t \in Caller, NEW new \in Info, StatusChange(t, new) PROVE AddsCounted'
  <2>1. adds' = adds
    BY <1>2 DEF StatusChange
  <2>2. \A k \in Key : clusters'[k] # None => clusters[k] # None
    BY <1>2 DEF StatusChange, MgmtInv, MgmtTypeOK
  <2> QED BY <2>1, <2>2 DEF AddsCounted
<1>3. CASE BackendChangeNotify \/ PoolOnline \/ Close \/ UNCHANGED mgmtVars
           \/ \E t \in Caller : StatusChangeSend(t)
  BY <1>3 DEF BackendChangeNotify, PoolOnline, Close, mgmtVars, StatusChangeSend, AddsCounted
<1> QED BY <1>1, <1>2, <1>3 DEF MgmtStep

(* StatusChange mentions what it has registered.                            *)
LEMMA StatusChangeKnown ==
  ASSUME MgmtInv, NEW t \in Caller, NEW new \in Info, StatusChange(t, new)
  PROVE  Known(new.id)'
<1> DEFINE l == KeyOf[new.id]
           up == Upsert(clusters[l], new)
<1>1. l \in Key /\ clusters[l] \in Seq(Info)
  <2>1. new.id \in Instance /\ KeyOf \in [Instance -> Key]
    BY BackendManagerAssumption DEF Info
  <2> QED BY <2>1 DEF MgmtInv, MgmtTypeOK, StatusChange
<1>2. clusters'[l] = up /\ router' = "sync"
  BY <1>1 DEF StatusChange, MgmtInv, MgmtTypeOK
<1>3. up \in Seq(Info) /\ \E j \in 1..Len(up) : up[j].id = new.id
  BY <1>1, UpsertEntries
<1>4. up # None
  BY <1>3, BackendManagerAssumption
<1> HIDE DEF up
<1> QED BY <1>2, <1>3, <1>4 DEF Known

(* What is mentioned was mentioned before, or has just been registered.     *)
LEMMA MentionedNext ==
  ASSUME MgmtInv, MgmtStep \/ Close \/ UNCHANGED mgmtVars, NEW i \in Instance, Mentioned(i)'
  PROVE  Mentioned(i) \/ Known(i)'
<1>p. /\ instancePool \in [Instance -> {"none", "open", "closed"}]
      /\ sending \in [Caller -> Info \cup {None}]
      /\ notify \in Seq(Info) /\ Len(notify) \in Nat
  BY LenProperties DEF MgmtInv, MgmtTypeOK
<1>1. ASSUME NEW l \in Key, AddTenantHandler(l) PROVE Mentioned(i)
  BY <1>1 DEF AddTenantHandler, AddCluster, Mentioned, Pending, Onlining
<1>2. ASSUME NEW t \in Caller, NEW new \in Info, StatusChange(t, new)
      PROVE  Mentioned(i) \/ Known(i)'
  <2>1. CASE i = new.id
    <3>1. Known(new.id)'
      BY <1>2, StatusChangeKnown
    <3> QED BY <2>1, <3>1
  <2>2. CASE i # new.id
    <3>1. \A s \in Caller : sending'[s] = sending[s] \/ sending'[s] = new
      BY <1>2, <1>p DEF StatusChange
    <3>2. UNCHANGED <<notify, mgr, instancePool>>
      BY <1>2 DEF StatusChange
    <3> QED BY <2>2, <3>1, <3>2 DEF Mentioned, Pending, Onlining
  <2> QED BY <2>1, <2>2
<1>3. ASSUME NEW t \in Caller, StatusChangeSend(t) PROVE Mentioned(i)
  <2>1. UNCHANGED <<mgr, instancePool>> /\ sending[t] # None
    BY <1>3 DEF StatusChangeSend
  <2>2. \A s \in Caller : sending'[s] # None => sending'[s] = sending[s]
    BY <1>3, <1>p DEF StatusChangeSend
  <2>3. \A n \in 1..Len(notify') : (n \in 1..Len(notify) /\ notify'[n] = notify[n]) \/ notify'[n] = sending[t]
    <3>1. notify' = Append(notify, sending[t]) /\ sending[t] \in Info
      BY <1>3, <1>p DEF StatusChangeSend
    <3>2. /\ Len(notify') = Len(notify) + 1 /\ notify'[Len(notify) + 1] = sending[t]
          /\ \A n \in 1..Len(notify) : notify'[n] = notify[n]
      BY <3>1, <1>p, AppendProperties
    <3> QED BY <3>2, <1>p
  <2> QED BY <2>1, <2>2, <2>3 DEF Mentioned, Pending, Onlining
<1>4. ASSUME BackendChangeNotify PROVE Mentioned(i)
  <2> DEFINE x == Head(notify)
  <2>0. notify # << >> /\ notify' = Tail(notify) /\ UNCHANGED sending
    BY <1>4 DEF BackendChangeNotify
  <2>1. /\ 1 \in 1..Len(notify) /\ x = notify[1]
        /\ Len(notify') = Len(notify) - 1
        /\ \A n \in 1..(Len(notify) - 1) : notify'[n] = notify[n + 1]
    BY <2>0, <1>p, HeadTailProperties, EmptySeq
  <2>2. \A n \in 1..Len(notify') : n + 1 \in 1..Len(notify) /\ notify'[n] = notify[n + 1]
    BY <2>1, <1>p
  <2>3. \/ BackendOnline(x.id) \/ BackendOffline(x.id) \/ UNCHANGED <<mgr, instancePool>>
    BY <1>4 DEF BackendChangeNotify
  <2>4. Pending(x.id)
    BY <2>1 DEF Pending
  <2> HIDE DEF x
  <2>5. Pending(i)' => Pending(i)
    BY <2>0, <2>2 DEF Pending
  <2>6. Onlining(i)' => Onlining(i) \/ i = x.id
    BY <2>3 DEF BackendOnline, BackendOffline, Receiving, M, Onlining
  <2>7. instancePool'[i] # "none" => instancePool[i] # "none"
    BY <2>3, <1>p DEF BackendOnline, BackendOffline
  <2> QED BY <2>4, <2>5, <2>6, <2>7 DEF Mentioned
<1>5. ASSUME PoolOnline PROVE Mentioned(i)
  BY <1>5, <1>p DEF PoolOnline, Receiving, M, Mentioned, Pending, Onlining
<1>6. ASSUME Close PROVE Mentioned(i)
  BY <1>6, <1>p DEF Close, Mentioned, Pending, Onlining
<1>7. ASSUME UNCHANGED mgmtVars PROVE Mentioned(i)
  BY <1>7 DEF mgmtVars, Mentioned, Pending, Onlining
<1> QED BY <1>1, <1>2, <1>3, <1>4, <1>5, <1>6, <1>7 DEF MgmtStep

(* A user is only given the cluster of an instance that goes online.        *)
LEMMA KeyMapNext ==
  ASSUME MgmtInv, MgmtStep \/ Close \/ UNCHANGED mgmtVars
  PROVE  \/ UNCHANGED clusterKeyMap
         \/ \E i \in Instance :
              /\ Pending(i) /\ instancePool[i] = "none" /\ UNCHANGED instancePool
              /\ mgr' \in {M("online", i), M("stuck", i)}
              /\ clusterKeyMap' = [clusterKeyMap EXCEPT ![OwnerOf[i]] = KeyOf[i]]
<1>1. CASE BackendChangeNotify
  <2> DEFINE x == Head(notify)
  <2>1. notify \in Seq(Info) /\ notify # << >>
    BY <1>1 DEF BackendChangeNotify, MgmtInv, MgmtTypeOK
  <2>2. 1 \in 1..Len(notify) /\ x = notify[1] /\ x \in Info
    BY <2>1, HeadTailProperties, EmptySeq, LenProperties
  <2>3. x.id \in Instance /\ Pending(x.id)
    BY <2>2 DEF Info, Pending
  <2>4. BackendOnline(x.id) \/ UNCHANGED clusterKeyMap
    BY <1>1 DEF BackendChangeNotify, BackendOffline
  <2> HIDE DEF x
  <2> QED BY <2>3, <2>4 DEF BackendOnline
<1>2. CASE ~BackendChangeNotify
  BY <1>2 DEF MgmtStep, AddTenantHandler, AddCluster, StatusChange, StatusChangeSend, PoolOnline,
              Close, mgmtVars
<1> QED BY <1>1, <1>2

LEMMA KnownNext ==
  ASSUME AddedOnce, MgmtInv, AddsCounted, KnownInv, MgmtStep \/ Close \/ UNCHANGED mgmtVars
  PROVE  KnownInv'
<1>s. \A i \in Instance : Known(i) => Known(i)'
  BY StaysKnown
<1>1. ASSUME NEW i \in Instance, Mentioned(i)' PROVE Known(i)'
  BY <1>1, <1>s, MentionedNext DEF KnownInv
<1>2. ASSUME NEW k \in Key, KeyKnown(k) PROVE KeyKnown(k)'
  BY <1>2, <1>s DEF KeyKnown
<1>3. ASSUME NEW u \in Users, NEW k \in Key, clusterKeyMap'[u] = k PROVE KeyKnown(k)'
  <2>1. CASE UNCHANGED clusterKeyMap
    BY <1>2, <1>3, <2>1 DEF KnownInv
  <2>2. CASE \E i \in Instance :
               /\ Pending(i)
               /\ clusterKeyMap' = [clusterKeyMap EXCEPT ![OwnerOf[i]] = KeyOf[i]]
    <3>1. PICK i \in Instance : /\ Pending(i)
                                /\ clusterKeyMap' = [clusterKeyMap EXCEPT ![OwnerOf[i]] = KeyOf[i]]
      BY <2>2
    <3>2. Known(i)
      BY <3>1 DEF KnownInv, Mentioned
    <3>3. clusterKeyMap[u] = k \/ KeyOf[i] = k
      BY <1>3, <3>1 DEF MgmtInv, MgmtTypeOK
    <3> QED BY <1>2, <1>s, <3>2, <3>3 DEF KnownInv, KeyKnown
  <2> QED BY <2>1, <2>2, KeyMapNext
<1> QED BY <1>1, <1>3 DEF KnownInv

(* A user has one cluster.                                                  *)
OneClusterEach == \A i, j \in Instance : OwnerOf[i] = OwnerOf[j] => KeyOf[i] = KeyOf[j]

(* The user of an instance that has a pool, or is about to, has its cluster.*)
RoutedInv ==
  \A i \in Instance : Onlining(i) \/ instancePool[i] # "none" =>
    clusterKeyMap[OwnerOf[i]] = KeyOf[i]

LEMMA RoutedNext ==
  ASSUME OneClusterEach, MgmtInv, RoutedInv, MgmtStep \/ Close \/ UNCHANGED mgmtVars
  PROVE  RoutedInv'
<1> SUFFICES ASSUME NEW i \in Instance, Onlining(i)' \/ instancePool'[i] # "none"
             PROVE  clusterKeyMap'[OwnerOf[i]] = KeyOf[i]
  BY DEF RoutedInv
<1>o. \A j \in Instance : OwnerOf[j] \in Users
  BY BackendManagerAssumption DEF Users
<1>p. /\ instancePool \in [Instance -> {"none", "open", "closed"}]
      /\ clusterKeyMap \in [Users -> Key \cup {None}]
  BY DEF MgmtInv, MgmtTypeOK
<1>1. CASE Onlining(i) \/ instancePool[i] # "none"
  <2>1. clusterKeyMap[OwnerOf[i]] = KeyOf[i]
    BY <1>1 DEF RoutedInv
  <2>2. CASE UNCHANGED clusterKeyMap
    BY <2>1, <2>2
  <2>3. CASE \E j \in Instance : clusterKeyMap' = [clusterKeyMap EXCEPT ![OwnerOf[j]] = KeyOf[j]]
    BY <2>1, <2>3, <1>o, <1>p DEF OneClusterEach
  <2> QED BY <2>2, <2>3, KeyMapNext
<1>2. CASE ~Onlining(i) /\ instancePool[i] = "none"
  <2>1. CASE BackendChangeNotify
    <3> DEFINE x == Head(notify)
    <3>1. BackendOnline(x.id) \/ BackendOffline(x.id) \/ UNCHANGED <<mgr, instancePool>>
      BY <2>1 DEF BackendChangeNotify
    <3> HIDE DEF x
    <3>2. Onlining(i)' \/ instancePool'[i] # "none"
      OBVIOUS
    <3>3. BackendOnline(x.id) /\ x.id = i /\ instancePool[x.id] = "none"
      BY <3>1, <3>2, <1>2, <1>p DEF BackendOnline, BackendOffline, Receiving, M, Onlining
    <3>4. clusterKeyMap' = [clusterKeyMap EXCEPT ![OwnerOf[i]] = KeyOf[i]]
      BY <3>3 DEF BackendOnline
    <3> QED BY <3>4, <1>o, <1>p
  <2>2. CASE PoolOnline
    BY <2>2, <1>2, <1>p DEF PoolOnline, Receiving, M, Onlining
  <2>3. CASE ~BackendChangeNotify /\ ~PoolOnline
    BY <2>3, <1>2, <1>p DEF MgmtStep, AddTenantHandler, AddCluster, StatusChange, StatusChangeSend,
                            Close, mgmtVars, Onlining
  <2> QED BY <2>1, <2>2, <2>3
<1> QED BY <1>1, <1>2

LEMMA RoutedImplies ==
  ASSUME MgmtInv, KnownInv, RoutedInv
  PROVE  OwnerRouted
<1> SUFFICES ASSUME NEW i \in Instance, instancePool[i] # "none"
             PROVE  \E r \in GetBackendFixedPool(OwnerOf[i]) : r \in Instance /\ KeyOf[r] = KeyOf[i]
  BY DEF OwnerRouted
<1>1. Known(i) /\ clusterKeyMap[OwnerOf[i]] = KeyOf[i]
  BY DEF KnownInv, Mentioned, RoutedInv
<1>2. KeyOf[i] # None /\ i # "panic" /\ KeyOf[i] \in Key
  BY BackendManagerAssumption
<1>3. i \in Selector(KeyOf[i])
  <2>1. CASE router = "static"
    BY <1>1, <2>1 DEF Known, Selector
  <2>2. CASE router = "sync"
    <3>1. PICK j \in 1..Len(clusters[KeyOf[i]]) : clusters[KeyOf[i]][j].id = i
      BY <1>1, <2>2 DEF Known
    <3>2. clusters[KeyOf[i]] \notin {None, << >>}
      BY <1>1, <2>2, <3>1 DEF Known
    <3>3. Selector(KeyOf[i]) = {clusters[KeyOf[i]][m].id : m \in 1..Len(clusters[KeyOf[i]])}
      BY <2>2, <3>2 DEF Selector
    <3> QED BY <3>1, <3>3
  <2> QED BY <2>1, <2>2, BackendManagerAssumption DEF MgmtInv, MgmtTypeOK
<1>4. i \in GetBackendFixedPool(OwnerOf[i])
  BY <1>1, <1>2, <1>3 DEF GetBackendFixedPool
<1> QED BY <1>4

LEMMA KnownInit ==
  ASSUME ProxyInit
  PROVE  AddsCounted /\ KnownInv /\ RoutedInv
<1>1. /\ \A k \in Key : clusters[k] = None
      /\ \A t \in Caller : sending[t] = None
      /\ mgr.pc = "receive"
      /\ \A i \in Instance : instancePool[i] = "none"
      /\ \A u \in Users : clusterKeyMap[u] = None
  BY DEF ProxyInit, MgmtInit, M
<1>2. ASSUME NEW n \in 1..Len(notify) PROVE notify[n].id = Local /\ router = "static"
  <2>1. CASE router = "static"
    <3>1. notify = <<[id |-> Local, status |-> "ready"]>>
      BY <2>1 DEF ProxyInit, MgmtInit
    <3> QED BY <2>1, <3>1
  <2>2. CASE router # "static"
    <3>1. notify = << >>
      BY <2>2 DEF ProxyInit, MgmtInit
    <3> QED BY <3>1
  <2> QED BY <2>1, <2>2
<1>3. \A i \in Instance : Mentioned(i) => Known(i)
  BY <1>1, <1>2 DEF Mentioned, Pending, Onlining, Known
<1>4. None \notin Key
  BY BackendManagerAssumption
<1> QED BY <1>1, <1>3, <1>4 DEF AddsCounted, KnownInv, RoutedInv, Onlining

(* A user whose instance has a pool finds a pool of its cluster, with any   *)
(* number of clusters, instances, users and callers of StatusChange, if a   *)
(* user has one cluster and a cluster is added once (GetBackendFixedPool,   *)
(* Selector, backendOnline).                                                *)
THEOREM OwnersRouted ==
  ASSUME OneClusterEach, AddedOnce
  PROVE  ProxySpec => []OwnerRouted
<1> DEFINE Inv == PInv /\ AddsCounted /\ KnownInv /\ RoutedInv
<1>1. ProxyInit => Inv
  BY ProxyInitInv, KnownInit
<1>2. Inv /\ [ProxyNext]_allVars => Inv'
  BY ProxyNextInv, ProxyMgmt, AddsCountedNext, KnownNext, RoutedNext DEF PInv
<1>3. Inv => OwnerRouted
  BY RoutedImplies DEF PInv
<1> HIDE DEF Inv
<1>4. ProxySafety => []OwnerRouted
  BY <1>1, <1>2, <1>3, PTL DEF ProxySafety
<1> QED
  BY <1>4, PTL DEF ProxySpec

----------------------------------------------------------------------------
(* Panics                                                                   *)

(* A handler that calls Selector does so for a cluster with an instance.    *)
SelectKnown == \A c \in Client : h[c].pc = "select" => KeyKnown(h[c].key)

(* The balancer is called by one event loop at a time.                      *)
BalancerAlone == (\A c, d \in Client : c = d) \/ "sync" \notin Routers

(* Closing pools leaves a handler where it is.                              *)
LEMMA CloseConnsPc ==
  ASSUME PInv, CloseConns, NEW c \in Client
  PROVE  h'[c].pc = h[c].pc /\ h'[c].key = h[c].key
<1>1. h[c] \in HandlerState
  BY DEF PInv, ClientInv, ClientTypeOK
<1>2. h'[c] = [h[c] EXCEPT !.ref = After(h[c].ref), !.old = AfterPair(h[c].old)]
  BY DEF CloseConns
<1> QED BY <1>1, <1>2 DEF HandlerState

(* Handlers leave the registry, the manager and shutdown alone.             *)
LEMMA HandlerLeaves ==
  ASSUME NEW c \in Client, Handler(c)
  PROVE  UNCHANGED <<mgmtVars, shut>>
  BY DEF Handler, OnOpen, OnTraffic, DispatchAuth, Dispatch, EventEnds, OnClose,
         ForwardLoad, KeepBackend, GetTenantKey, Select, LoadPool, Bind, RouteFailed

(* Selector does not panic for a cluster with an instance.                  *)
LEMMA SelectorFinds ==
  ASSUME MgmtInv, NEW k \in Key, KeyKnown(k)
  PROVE  "panic" \notin Selector(k)
<1>1. PICK i \in Instance : KeyOf[i] = k /\ Known(i)
  BY DEF KeyKnown
<1>2. CASE router = "static"
  BY <1>2, BackendManagerAssumption DEF Selector
<1>3. CASE router = "sync"
  <2>1. clusters[k] # None /\ clusters[k] \in Seq(Info) /\ clusters[k] # << >>
    BY <1>1, <1>3 DEF Known, MgmtInv, MgmtTypeOK
  <2>2. Selector(k) = {clusters[k][m].id : m \in 1..Len(clusters[k])}
    BY <1>3, <2>1 DEF Selector
  <2>3. \A m \in 1..Len(clusters[k]) : clusters[k][m].id \in Instance
    <3>1. \A m \in 1..Len(clusters[k]) : clusters[k][m] \in Info
      BY <2>1, ElementOfSeq
    <3> QED BY <3>1 DEF Info
  <2> QED BY <2>2, <2>3, BackendManagerAssumption
<1> QED BY <1>2, <1>3, BackendManagerAssumption DEF MgmtInv, MgmtTypeOK

LEMMA SelectKnownHandler ==
  ASSUME PInv, KnownInv, SelectKnown, NEW c \in Client, Handler(c)
  PROVE  SelectKnown'
<1>1. UNCHANGED mgmtVars
  BY HandlerLeaves
<1>3. h \in [Client -> HandlerState] /\ h[c] \in HandlerState
  BY DEF PInv, ClientInv, ClientTypeOK
<1>4. \A d \in Client \ {c} : h'[d] = h[d]
  BY <1>3 DEF Handler, OnOpen, OnTraffic, DispatchAuth, Dispatch, EventEnds, OnClose, ForwardLoad,
              KeepBackend, GetTenantKey, Select, LoadPool, Bind, RouteFailed, Goto
<1>5. h'[c].pc = "select" => KeyKnown(h'[c].key)
  <2>1. CASE GetTenantKey(c)
    <3> DEFINE k == clusterKeyMap[h[c].user]
    <3>1. h'[c].key = k /\ (h'[c].pc = "select" => k # None)
      BY <1>3, <2>1 DEF GetTenantKey, HandlerState
    <3>2. h[c].user \in Users /\ k \in Key \cup {None}
      BY <1>3 DEF HandlerState, PInv, MgmtInv, MgmtTypeOK
    <3>3. k \in Key => KeyKnown(k)
      BY <3>2 DEF KnownInv
    <3> QED BY <3>1, <3>2, <3>3
  <2>2. CASE OnOpen(c)
    BY <2>2 DEF OnOpen, SelectKnown
  <2>3. CASE OnClose(c)
    BY <1>3, <2>3 DEF OnClose, Goto, H
  <2>4. CASE ForwardLoad(c) \/ Select(c) \/ LoadPool(c)
    BY <1>3, <2>4 DEF ForwardLoad, Select, LoadPool, Goto, H, HandlerState
  <2>5. CASE \/ OnTraffic(c) \/ Dispatch(c) \/ EventEnds(c) \/ KeepBackend(c) \/ Bind(c) \/ RouteFailed(c)
             \/ \E u \in Users : DispatchAuth(c, u)
    BY <1>3, <2>5 DEF OnTraffic, Dispatch, EventEnds, KeepBackend, Bind, RouteFailed, DispatchAuth,
                      Goto, Idle, H
  <2> QED BY <2>1, <2>2, <2>3, <2>4, <2>5 DEF Handler
<1>6. ASSUME NEW d \in Client, h'[d].pc = "select" PROVE KeyKnown(h'[d].key)
  BY <1>4, <1>5, <1>6 DEF SelectKnown
<1>7. ASSUME NEW d \in Client, h'[d].pc = "select" PROVE KeyKnown(h[d].key)'
  <2> DEFINE k == h'[d].key
  <2>1. KeyKnown(k)
    BY <1>6, <1>7
  <2> HIDE DEF k
  <2>2. \E i \in Instance : KeyOf[i] = k /\ Known(i)'
    BY <1>1, <2>1 DEF KeyKnown, Known, mgmtVars
  <2> QED BY <2>2 DEF KeyKnown, k
<1> QED BY <1>7 DEF SelectKnown

LEMMA SelectKnownNext ==
  ASSUME AddedOnce, PInv, AddsCounted, KnownInv, SelectKnown, [ProxyNext]_allVars
  PROVE  SelectKnown'
<1>1. CASE \E c \in Client : Handler(c)
  BY <1>1, SelectKnownHandler
<1>2. CASE ~ \E c \in Client : Handler(c)
  <2>1. \A c \in Client : h'[c].pc = h[c].pc /\ h'[c].key = h[c].key
    BY <1>2, CloseConnsPc DEF ProxyNext, Backends, ClearPools, ClearSessions, allVars, proxyVars
  <2>2. \A i \in Instance : Known(i) => Known(i)'
    BY ProxyMgmt, StaysKnown DEF PInv
  <2>3. ASSUME NEW c \in Client, h'[c].pc = "select" PROVE KeyKnown(h[c].key)'
    <3>1. KeyKnown(h[c].key)
      BY <2>1, <2>3 DEF SelectKnown
    <3> QED BY <2>1, <2>2, <3>1 DEF KeyKnown
  <2> QED BY <2>3 DEF SelectKnown
<1> QED BY <1>1, <1>2

(* No handler panics while the sessions are in their map.                   *)
LEMMA HandlerRuns ==
  ASSUME BalancerAlone, PInv, \A d \in Client : Kept(d), SelectKnown, Running,
         NEW c \in Client, Handler(c)
  PROVE  h'[c].pc # "panic"
<1>1. /\ h \in [Client -> HandlerState] /\ h[c] \in HandlerState /\ Kept(c)
      /\ h[c].pc # "panic" /\ (h[c].pc # "idle" => conn[c])
  BY DEF PInv, ClientInv, ClientTypeOK, ClientOwned, HandlerOwned, Running
<1>2. CASE OnOpen(c)
  BY <1>1, <1>2 DEF OnOpen
<1>3. CASE OnTraffic(c)
  BY <1>1, <1>3 DEF OnTraffic, Goto, H, Kept
<1>4. CASE OnClose(c)
  BY <1>1, <1>4 DEF OnClose, Kept
<1>5. CASE ForwardLoad(c)
  BY <1>1, <1>5 DEF ForwardLoad, Goto, H, Kept, HandlerState
<1>6. CASE Select(c)
  <2>1. h[c].pc = "select" /\ h[c].key \in Key /\ KeyKnown(h[c].key)
    BY <1>6 DEF Select, PInv, ClientInv, ClientOwned, HandlerOwned, SelectKnown
  <2>2. "panic" \notin Selector(h[c].key)
    BY <2>1, SelectorFinds DEF PInv
  <2>3. ~(InBalancer(c) /\ \E d \in Client \ {c} : InBalancer(d))
    BY DEF BalancerAlone, InBalancer, PInv, MgmtInv, MgmtTypeOK
  <2>4. PICK i \in Instance : h' = [h EXCEPT ![c].pc = "pool", ![c].key = None, ![c].id = i]
    BY <1>6, <2>2, <2>3 DEF Select
  <2> QED BY <1>1, <2>4 DEF HandlerState
<1>7. CASE Bind(c)
  BY <1>1, <1>7 DEF Bind, Goto, H, Kept
<1>8. CASE GetTenantKey(c) \/ LoadPool(c)
  BY <1>1, <1>8 DEF GetTenantKey, LoadPool, HandlerState
<1>9. CASE \/ Dispatch(c) \/ EventEnds(c) \/ KeepBackend(c) \/ RouteFailed(c)
           \/ \E u \in Users : DispatchAuth(c, u)
  BY <1>1, <1>9 DEF Dispatch, EventEnds, KeepBackend, RouteFailed, DispatchAuth, Goto, Idle, H
<1> QED BY <1>2, <1>3, <1>4, <1>5, <1>6, <1>7, <1>8, <1>9 DEF Handler

LEMMA RunsNext ==
  ASSUME BalancerAlone, PInv, KeptInv, SelectKnown, PanicOnlyInShutdown, [ProxyNext]_allVars
  PROVE  PanicOnlyInShutdown'
<1> SUFFICES ASSUME shut' # "done"
             PROVE  \A d \in Client : h'[d].pc # "panic"
  BY DEF PanicOnlyInShutdown, Running
<1>1. CASE Running /\ \E c \in Client : Handler(c)
  <2>1. PICK c \in Client : Handler(c)
    BY <1>1
  <2>2. shut # "done"
    BY <2>1, HandlerLeaves
  <2>3. h'[c].pc # "panic"
    BY <1>1, <2>1, <2>2, HandlerRuns DEF KeptInv
  <2>4. \A d \in Client \ {c} : h'[d] = h[d]
    BY <2>1 DEF Handler, OnOpen, OnTraffic, DispatchAuth, Dispatch, EventEnds, OnClose, ForwardLoad,
                KeepBackend, GetTenantKey, Select, LoadPool, Bind, RouteFailed, Goto,
                PInv, ClientInv, ClientTypeOK
  <2> QED BY <1>1, <2>3, <2>4 DEF Running
<1>2. CASE Running /\ (Backends \/ ClearPools)
  <2>1. \A c \in Client : h'[c].pc = h[c].pc
    BY <1>2, CloseConnsPc DEF Backends, ClearPools
  <2> QED BY <1>2, <2>1 DEF Running
<1>3. CASE ClearSessions
  BY <1>3 DEF ClearSessions
<1>4. CASE UNCHANGED allVars
  BY <1>4 DEF allVars, proxyVars, PanicOnlyInShutdown, Running
<1> QED BY <1>1, <1>2, <1>3, <1>4 DEF ProxyNext

(* Until shutdown has cleared the sessions no event loop panics, whatever   *)
(* clients send and however they leave and come back, and however the       *)
(* instances of any number of clusters change under a lookup, if a cluster  *)
(* is added once and the balancer is called by one event loop at a time:    *)
(* LoadSession and Forward find the session they dereference, and Selector  *)
(* an instance (OnTraffic, Forward, RouteRequest, GetBackendFixedPool).     *)
THEOREM NoEarlyPanic ==
  ASSUME BalancerAlone, AddedOnce
  PROVE  ProxySpec => []PanicOnlyInShutdown
<1> DEFINE Inv == PInv /\ KeptInv /\ AddsCounted /\ KnownInv /\ SelectKnown /\ PanicOnlyInShutdown
<1>1. ProxyInit => Inv
  <2>1. ProxyInit => SelectKnown /\ PanicOnlyInShutdown
    BY DEF ProxyInit, SelectKnown, PanicOnlyInShutdown, Running, Idle, H
  <2> QED BY <2>1, ProxyInitInv, KeptInit, KnownInit
<1>2. Inv /\ [ProxyNext]_allVars => Inv'
  BY ProxyNextInv, KeptNext, ProxyMgmt, AddsCountedNext, KnownNext, SelectKnownNext, RunsNext DEF PInv
<1>3. Inv => PanicOnlyInShutdown
  OBVIOUS
<1> HIDE DEF Inv
<1>4. ProxySafety => []PanicOnlyInShutdown
  BY <1>1, <1>2, <1>3, PTL DEF ProxySafety
<1> QED
  BY <1>4, PTL DEF ProxySpec

============================================================================
