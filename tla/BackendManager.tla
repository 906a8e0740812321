-------------------------- MODULE BackendManager ---------------------------
(***************************************************************************)
(* Which backends there are and who may use them: the cluster registry     *)
(* (pkg/be_cluster/cluster_registry.go), the routers (router.go,           *)
(* sync_router.go, load_balance.go) and the BackendManager                 *)
(* (backend_mgr.go) that keeps a pool for every instance that is ready.    *)
(*                                                                         *)
(* StatusChange updates the registry and then sends the instance on the    *)
(* notify channel; a single goroutine of the manager receives it and puts  *)
(* the instance's pool online or offline.  Requests look a user up in      *)
(* clusterKeyMap, choose an instance and take its pool.                    *)
(***************************************************************************)
EXTENDS Naturals, Sequences, FiniteSets

CONSTANTS
  Key,          \* clusters
  Instance,     \* backend instances, each with an address of its own
  Owner,        \* user names
  Local,        \* the instance that LocalClusterInstance makes
  KeyOf,        \* ClusterInstance.Key
  OwnerOf,      \* ClusterInstance.Owner
  Caller,       \* goroutines that call StatusChange
  Routers,      \* routers the proxy may be started with: "static", "sync"
  MaxAdds,      \* bound: calls of AddCluster for a cluster
  MaxChanges,   \* bound: calls of StatusChange
  NotifySize,   \* capacity of the notify channel (1024 in the code)
  Faults,       \* "dial": a dial of a new pool may fail; "close": shutdown
  None

(* ClusterStatus; "other" stands for online and deleted.                    *)
Status == {"ready", "offline", "other"}
Info == [id: Instance, status: Status]
Users == Owner \cup {None}

ASSUME BackendManagerAssumption ==
  /\ KeyOf \in [Instance -> Key]
  /\ OwnerOf \in [Instance -> Owner \cup {None}]
  /\ Local \in Instance /\ OwnerOf[Local] = None
  /\ "panic" \notin Instance
  /\ Routers \subseteq {"static", "sync"}
  /\ MaxAdds \in Nat /\ MaxChanges \in Nat
  /\ NotifySize \in Nat \ {0}
  /\ Faults \subseteq {"dial", "close"}
  /\ None \notin Key /\ None \notin Info /\ None \notin Seq(Info)

VARIABLES
  router,         \* the router it was started with
  clusters,       \* the registry: each cluster's instances, None if not added
  adds, changes,  \* calls made so far
  notify,         \* the notify channel
  sending,        \* what each caller of StatusChange has still to send
  mgr,            \* the manager's goroutine
  instancePool,   \* is there a pool for the instance, and is it open
  clusterKeyMap   \* the cluster of each user; None is the empty user name

mgmtVars == <<router, clusters, adds, changes, notify, sending, mgr,
              instancePool, clusterKeyMap>>

(* Types; the notify channel stays within its capacity.                     *)
MgmtTypeOK ==
  /\ router \in Routers
  /\ clusters \in [Key -> Seq(Info) \cup {None}]
  /\ adds \in [Key -> 0..MaxAdds] /\ changes \in 0..MaxChanges
  /\ notify \in Seq(Info) /\ Len(notify) <= NotifySize
  /\ sending \in [Caller -> Info \cup {None}]
  /\ mgr \in [pc: {"receive", "online", "stuck", "done"}, id: Instance \cup {None}]
  /\ instancePool \in [Instance -> {"none", "open", "closed"}]
  /\ clusterKeyMap \in [Users -> Key \cup {None}]

M(pc, id) == [pc |-> pc, id |-> id]

(* GetBackendManager and PrepareCluster; the static router notifies of the  *)
(* local instance, once.                                                    *)
MgmtInit ==
  /\ router \in Routers
  /\ clusters = [k \in Key |-> None]
  /\ adds = [k \in Key |-> 0] /\ changes = 0
  /\ notify = IF router = "static" THEN <<[id |-> Local, status |-> "ready"]>> ELSE << >>
  /\ sending = [t \in Caller |-> None]
  /\ mgr = M("receive", None)
  /\ instancePool = [i \in Instance |-> "none"]
  /\ clusterKeyMap = [u \in Users |-> None]

----------------------------------------------------------------------------
(* The registry                                                             *)

(* AddCluster: an empty list, whatever the registry has under that key.     *)
AddCluster(k) ==
  /\ adds[k] < MaxAdds
  /\ adds' = [adds EXCEPT ![k] = @ + 1]
  /\ clusters' = [clusters EXCEPT ![k] = << >>]
  /\ UNCHANGED <<router, changes, notify, sending, mgr, instancePool, clusterKeyMap>>

(* The handler of /add_cluster, which there is for the sync router only.    *)
AddTenantHandler(k) == router = "sync" /\ AddCluster(k)

(* Mutant of Upsert: an instance that is listed is listed again.            *)
UpsertAppends(list, info) == Append(list, info)

(* SharedClusterInstance.Upsert                                             *)
Upsert(list, info) ==
  IF \E i \in 1..Len(list) : list[i].id = info.id
    THEN [i \in 1..Len(list) |-> IF list[i].id = info.id THEN info ELSE list[i]]
    ELSE Append(list, info)

(* StatusChange up to its send; an unknown cluster is an error.  The local  *)
(* instance is none of those that are registered.                           *)
StatusChange(t, info) ==
  /\ router = "sync"
  /\ changes < MaxChanges
  /\ sending[t] = None
  /\ info.id # Local /\ clusters[KeyOf[info.id]] # None
  /\ clusters' = [clusters EXCEPT ![KeyOf[info.id]] = Upsert(@, info)]
  /\ sending' = [sending EXCEPT ![t] = info]
  /\ changes' = changes + 1
  /\ UNCHANGED <<router, adds, notify, mgr, instancePool, clusterKeyMap>>

(* Mutant of StatusChangeSend: the channel has no capacity.                 *)
StatusChangeSendUnbounded(t) ==
  /\ sending[t] # None
  /\ notify' = Append(notify, sending[t])
  /\ sending' = [sending EXCEPT ![t] = None]
  /\ UNCHANGED <<router, clusters, adds, changes, mgr, instancePool, clusterKeyMap>>

(* notify <- instance                                                       *)
StatusChangeSend(t) ==
  /\ sending[t] # None
  /\ Len(notify) < NotifySize
  /\ notify' = Append(notify, sending[t])
  /\ sending' = [sending EXCEPT ![t] = None]
  /\ UNCHANGED <<router, clusters, adds, changes, mgr, instancePool, clusterKeyMap>>

----------------------------------------------------------------------------
(* The manager                                                              *)

(* Back to BackendChangeNotify, which for the static router returns.        *)
Receiving == M(IF router = "static" THEN "done" ELSE "receive", None)

(* backendOffline: LoadAndDelete, Close.                                    *)
BackendOffline(id) ==
  /\ instancePool' = [instancePool EXCEPT ![id] = "none"]
  /\ mgr' = Receiving
  /\ UNCHANGED clusterKeyMap

(* Mutant of BackendOnline: the user is not entered into clusterKeyMap.     *)
BackendOnlineNoKey(id) ==
  /\ UNCHANGED <<instancePool, clusterKeyMap>>
  /\ mgr' = IF instancePool[id] # "none" THEN Receiving ELSE M("online", id)

(* backendOnline up to WaitPoolReady, which does not return if a dial of    *)
(* the new pool fails (module FixedPool).                                   *)
BackendOnline(id) ==
  /\ UNCHANGED instancePool
  /\ \/ /\ instancePool[id] # "none"
        /\ mgr' = Receiving
        /\ UNCHANGED clusterKeyMap
     \/ /\ instancePool[id] = "none"
        /\ clusterKeyMap' = [clusterKeyMap EXCEPT ![OwnerOf[id]] = KeyOf[id]]
        /\ \/ mgr' = M("online", id)
           \/ "dial" \in Faults /\ mgr' = M("stuck", id)

(* Mutant of BackendChangeNotify: returns on a status it does not know.     *)
BackendChangeNotifyReturns ==
  /\ mgr.pc = "receive"
  /\ notify # << >>
  /\ notify' = Tail(notify)
  /\ LET info == Head(notify) IN
       \/ info.status = "ready" /\ BackendOnline(info.id)
       \/ info.status = "offline" /\ BackendOffline(info.id)
       \/ info.status = "other" /\ mgr' = M("done", None) /\ UNCHANGED <<instancePool, clusterKeyMap>>
  /\ UNCHANGED <<router, clusters, adds, changes, sending>>

(* BackendChangeNotify receives an instance and notifies the manager.       *)
BackendChangeNotify ==
  /\ mgr.pc = "receive"
  /\ notify # << >>
  /\ notify' = Tail(notify)
  /\ LET info == Head(notify) IN
       \/ info.status = "ready" /\ BackendOnline(info.id)
       \/ info.status = "offline" /\ BackendOffline(info.id)
       \/ info.status = "other" /\ UNCHANGED <<mgr, instancePool, clusterKeyMap>>
  /\ UNCHANGED <<router, clusters, adds, changes, sending>>

(* The rest of backendOnline: the pool is ready and stored.                 *)
PoolOnline ==
  /\ mgr.pc = "online"
  /\ instancePool' = [instancePool EXCEPT ![mgr.id] = "open"]
  /\ mgr' = Receiving
  /\ UNCHANGED <<router, clusters, adds, changes, notify, sending, clusterKeyMap>>

(* BackendManager.Close, at shutdown: the pools are closed and stay in the  *)
(* map.                                                                     *)
Close ==
  /\ "close" \in Faults
  /\ instancePool' = [i \in Instance |-> IF instancePool[i] = "none" THEN "none" ELSE "closed"]
  /\ UNCHANGED <<router, clusters, adds, changes, notify, sending, mgr, clusterKeyMap>>

(* All but Close; module Proxy says when that is called.                    *)
MgmtStep ==
  \/ \E k \in Key : AddTenantHandler(k)
  \/ \E t \in Caller, info \in Info : StatusChange(t, info)
  \/ \E t \in Caller : StatusChangeSend(t)
  \/ BackendChangeNotify
  \/ PoolOnline

----------------------------------------------------------------------------
(* Lookups                                                                  *)

(* Mutant of Selector: an instance of any cluster.                          *)
SelectorAny(k) ==
  CASE router = "static" -> {Local}
    [] router = "sync" /\ clusters[k] \in {None, << >>} -> {"panic"}
    [] OTHER -> UNION {{clusters[l][i].id : i \in 1..Len(clusters[l])}
                         : l \in {l \in Key : clusters[l] # None}}

(* What Selector may return for a cluster: any of its instances, and a      *)
(* panic (Intn of 0, or the nil instance) when it has none.                 *)
Selector(k) ==
  CASE router = "static" -> {Local}
    [] router = "sync" /\ clusters[k] \in {None, << >>} -> {"panic"}
    [] OTHER -> {clusters[k][i].id : i \in 1..Len(clusters[k])}

(* What GetBackendFixedPool may return: the instance whose pool it is, or   *)
(* what it fails with.                                                      *)
GetBackendFixedPool(u) ==
  IF clusterKeyMap[u] = None THEN {"no tenant key"}
  ELSE {IF i = "panic" THEN "panic"
        ELSE IF instancePool[i] = "none" THEN "no backend" ELSE i
          : i \in Selector(clusterKeyMap[u])}

----------------------------------------------------------------------------
(* Properties                                                               *)

Quiescent ==
  notify = << >> /\ mgr.pc \in {"receive", "done"} /\ \A t \in Caller : sending[t] = None

(* The manager follows the registry: once every change has been handled, an *)
(* instance has a pool exactly if its last status is ready ("StatusChange   *)
(* updates the status of a cluster", cluster_registry.go:199).              *)
PoolsFollowRegistry ==
  Quiescent => \A k \in Key : clusters[k] # None =>
    \A i \in 1..Len(clusters[k]) : LET info == clusters[k][i] IN
      /\ info.status = "ready" => instancePool[info.id] # "none"
      /\ info.status = "offline" => instancePool[info.id] = "none"

(* A user whose instance has a pool is routed to some pool of its cluster.  *)
OwnerRouted ==
  \A i \in Instance : instancePool[i] # "none" =>
    \E r \in GetBackendFixedPool(OwnerOf[i]) : r \in Instance /\ KeyOf[r] = KeyOf[i]

----------------------------------------------------------------------------
(* Statements about the code that it does not keep (README, section 4)      *)

(* If a cluster has a ready instance with a pool, its user is not told that *)
(* there is "no backend avaiable" (backend_mgr.go:86).                      *)
ReadyInstanceUsed ==
  Quiescent => \A i \in Instance :
    instancePool[i] = "open" /\ clusterKeyMap[OwnerOf[i]] = KeyOf[i]
      => "no backend" \notin GetBackendFixedPool(OwnerOf[i])

(* With the static router a client that names a user is routed to the       *)
(* static backend once it is online ("auth yigF5wkxq44.admin admin", "OK",  *)
(* README.md:71-72).                                                        *)
StaticUsersRouted ==
  router = "static" /\ instancePool[Local] = "open" =>
    \A u \in Owner : GetBackendFixedPool(u) = {Local}

============================================================================
