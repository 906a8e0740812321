------------------------------- MODULE Proxy -------------------------------
(***************************************************************************)
(* The proxy as a whole: clients that connect, log in, send commands and   *)
(* leave (pkg/proxy/elika_proxy.go), the map of sessions                   *)
(* (pkg/be_cluster/session_mgr.go), and the backends, which come and go    *)
(* under them (module BackendManager).                                     *)
(*                                                                         *)
(* Every client is served by an event loop, which runs OnOpen, OnTraffic   *)
(* and OnClose one after the other.  A request of a session that has no    *)
(* backend connection looks one up in steps: the user's cluster, one of    *)
(* its instances, that instance's pool.  The registry and the manager may  *)
(* change between any two of them.  At shutdown gnet calls OnShutdown,     *)
(* which closes the pools and clears the sessions, while the event loops   *)
(* are still running.                                                      *)
(*                                                                         *)
(* What happens on a connection is in SessionManager and BackendConn; here *)
(* it is known by its instance and by whether its pool is still open.      *)
(***************************************************************************)
EXTENDS BackendManager

CONSTANTS
  Client,       \* clients, each with an event loop of its own
  Nil           \* a nil *SessionPair

VARIABLES
  conn,         \* is the client connected
  user,         \* the user name in its session's AuthInfo, or None
  pair,         \* its entry in sessions: None, Nil, or the pair's backend
  h,            \* the handler that runs on its event loop
  shut          \* what shutdown does next: "pools", "sessions", or is "done"

proxyVars == <<conn, user, pair, h, shut>>
allVars == <<mgmtVars, proxyVars>>

(* A connection of a pool.                                                  *)
Ref == [id: Instance, open: BOOLEAN]

Pair(backend) == [backend |-> backend]
Pairs == [backend: Ref \cup {None}] \cup {None, Nil}

ASSUME ProxyAssumption == {None, Nil} \cap [backend: Ref \cup {None}] = {}

(* What a handler holds: the user name it routes for, the pair that Compute *)
(* found, and the cluster, the instance and the connection looked up.       *)
H(pc, u) == [pc |-> pc, user |-> u, old |-> None, key |-> None, id |-> None, ref |-> None]
Idle == H("idle", None)

(* Types; the notify channel stays within its capacity.                     *)
ProxyTypeOK ==
  /\ MgmtTypeOK
  /\ conn \in [Client -> BOOLEAN]
  /\ user \in [Client -> Users]
  /\ pair \in [Client -> Pairs]
  /\ h \in [Client -> [pc: {"idle", "read", "load", "tenant", "select", "pool",
                            "bind", "fail", "panic"},
                       user: Users, old: Pairs, key: Key \cup {None},
                       id: Instance \cup {None}, ref: Ref \cup {None}]]
  /\ shut \in {"pools", "sessions", "done"}

ProxyInit ==
  /\ MgmtInit
  /\ conn = [c \in Client |-> FALSE]
  /\ user = [c \in Client |-> None]
  /\ pair = [c \in Client |-> None]
  /\ h = [c \in Client |-> Idle]
  /\ shut = "pools"

(* The handler of c goes on at pc, with nothing looked up.                  *)
Goto(c, pc) == h' = [h EXCEPT ![c] = H(pc, None)]

----------------------------------------------------------------------------
(* Event handlers                                                           *)

(* OnOpen and OpenSession                                                   *)
OnOpen(c) ==
  /\ ~conn[c]
  /\ conn' = [conn EXCEPT ![c] = TRUE]
  /\ pair' = [pair EXCEPT ![c] = Pair(None)]
  /\ user' = [user EXCEPT ![c] = None]
  /\ UNCHANGED <<mgmtVars, h, shut>>

(* OnTraffic: LoadSession, whose result is dereferenced.                    *)
OnTraffic(c) ==
  /\ conn[c] /\ h[c].pc = "idle"
  /\ Goto(c, IF pair[c] \in {None, Nil} THEN "panic" ELSE "read")
  /\ UNCHANGED <<mgmtVars, conn, user, pair, shut>>

(* onEvent reads an AUTH with the name u, or with None a password alone:    *)
(* doDispatch.  A session that has a user keeps it.                         *)
DispatchAuth(c, u) ==
  /\ h[c].pc = "read" /\ user[c] = None
  /\ user' = [user EXCEPT ![c] = u]
  /\ h' = [h EXCEPT ![c] = H("load", u)]
  /\ UNCHANGED <<mgmtVars, conn, pair, shut>>

(* onEvent reads a packet of a session that has a user: doDispatch.         *)
Dispatch(c) ==
  /\ h[c].pc = "read" /\ user[c] # None
  /\ h' = [h EXCEPT ![c] = H("load", user[c])]
  /\ UNCHANGED <<mgmtVars, conn, user, pair, shut>>

(* Nothing more is buffered.                                                *)
EventEnds(c) ==
  /\ h[c].pc = "read"
  /\ h' = [h EXCEPT ![c] = Idle]
  /\ UNCHANGED <<mgmtVars, conn, user, pair, shut>>

(* Mutant of OnClose: the session stays in the map.                         *)
OnCloseKeeps(c) ==
  /\ conn[c] /\ h[c].pc = "idle"
  /\ conn' = [conn EXCEPT ![c] = FALSE]
  /\ UNCHANGED <<mgmtVars, user, pair, h, shut>>

(* OnClose and CloseSession                                                 *)
OnClose(c) ==
  /\ conn[c] /\ h[c].pc = "idle"
  /\ conn' = [conn EXCEPT ![c] = FALSE]
  /\ pair' = [pair EXCEPT ![c] = None]
  /\ user' = [user EXCEPT ![c] = None]
  /\ IF pair[c] = Nil THEN Goto(c, "panic") ELSE UNCHANGED h
  /\ UNCHANGED <<mgmtVars, shut>>

----------------------------------------------------------------------------
(* Forward and RouteRequest                                                 *)

(* Forward loads the pair.  With a backend the request is enqueued there,   *)
(* unless another session's transaction is on that connection.              *)
ForwardLoad(c) ==
  /\ h[c].pc = "load"
  /\ \/ pair[c] \in {None, Nil} /\ Goto(c, "panic")
     \/ pair[c] \notin {None, Nil} /\ h' = [h EXCEPT ![c].pc = "tenant"]
     \/ pair[c] \notin {None, Nil, Pair(None)} /\ Goto(c, "read")
  /\ UNCHANGED <<mgmtVars, conn, user, pair, shut>>

(* RouteRequest finds that the transaction has ended.                       *)
KeepBackend(c) ==
  /\ h[c].pc = "tenant" /\ pair[c] \notin {None, Nil, Pair(None)}
  /\ Goto(c, "read")
  /\ UNCHANGED <<mgmtVars, conn, user, pair, shut>>

(* RouteRequest up to GetTenantKey                                          *)
GetTenantKey(c) ==
  /\ h[c].pc = "tenant"
  /\ LET k == clusterKeyMap[h[c].user] IN
       h' = [h EXCEPT ![c].old = pair[c], ![c].key = k, ![c].user = None,
                      ![c].pc = IF k = None THEN "fail" ELSE "select"]
  /\ UNCHANGED <<mgmtVars, conn, user, pair, shut>>

(* Selector calls the balancer, whose random source is not meant for        *)
(* concurrent use: with two loops in it, it may be left with an index out   *)
(* of its range.                                                            *)
InBalancer(c) ==
  /\ h[c].pc = "select" /\ router = "sync"
  /\ clusters[h[c].key] # None /\ Len(clusters[h[c].key]) # 1

Select(c) ==
  /\ h[c].pc = "select"
  /\ \/ \E i \in Selector(h[c].key) \cap Instance :
          h' = [h EXCEPT ![c].pc = "pool", ![c].key = None, ![c].id = i]
     \/ /\ \/ "panic" \in Selector(h[c].key)
           \/ InBalancer(c) /\ \E d \in Client \ {c} : InBalancer(d)
        /\ Goto(c, "panic")
  /\ UNCHANGED <<mgmtVars, conn, user, pair, shut>>

(* The rest of GetBackendFixedPool, and a connection of that pool:          *)
(* GetConnByKey or, if that one is in a transaction, GetNoTxConn, which may *)
(* find none.                                                               *)
LoadPool(c) ==
  /\ h[c].pc = "pool"
  /\ LET p == instancePool[h[c].id] IN
       \/ h' = [h EXCEPT ![c].pc = "fail", ![c].id = None]
       \/ /\ p # "none"
          /\ h' = [h EXCEPT ![c].pc = "bind", ![c].id = None,
                            ![c].ref = [id |-> h[c].id, open |-> p = "open"]]
  /\ UNCHANGED <<mgmtVars, conn, user, pair, shut>>

(* The rest of RouteRequest and of Forward.  Compute stores the new pair,   *)
(* unless the map was cleared since; without an old one there is a panic.   *)
Bind(c) ==
  /\ h[c].pc = "bind"
  /\ IF h[c].old \in {None, Nil}
       THEN Goto(c, "panic") /\ UNCHANGED pair
       ELSE /\ Goto(c, "read")
            /\ pair' = IF pair[c] = None THEN pair ELSE [pair EXCEPT ![c] = Pair(h[c].ref)]
  /\ UNCHANGED <<mgmtVars, conn, user, shut>>

(* Mutant of RouteFailed: Compute is told to delete the entry.              *)
RouteFailedDeletes(c) ==
  /\ h[c].pc = "fail"
  /\ Goto(c, "read")
  /\ pair' = [pair EXCEPT ![c] = None]
  /\ UNCHANGED <<mgmtVars, conn, user, shut>>

(* RouteRequest returns an error, which doForward answers.  Compute stores  *)
(* what it found, which is nil if there was nothing.                        *)
RouteFailed(c) ==
  /\ h[c].pc = "fail"
  /\ Goto(c, "read")
  /\ pair' = IF h[c].old \in {None, Nil} THEN [pair EXCEPT ![c] = Nil] ELSE pair
  /\ UNCHANGED <<mgmtVars, conn, user, shut>>

----------------------------------------------------------------------------
(* Backends and shutdown                                                    *)

(* The connections of a pool are closed with it, whoever refers to them.    *)
Closing(i) == instancePool[i] = "open" /\ instancePool'[i] # "open"
After(ref) ==
  IF ref # None /\ Closing(ref.id) THEN [ref EXCEPT !.open = FALSE] ELSE ref
AfterPair(p) == IF p \in {None, Nil} THEN p ELSE Pair(After(p.backend))

CloseConns ==
  /\ pair' = [c \in Client |-> AfterPair(pair[c])]
  /\ h' = [c \in Client |-> [h[c] EXCEPT !.ref = After(@), !.old = AfterPair(@)]]
  /\ UNCHANGED <<conn, user>>

Backends == MgmtStep /\ CloseConns /\ UNCHANGED shut

(* SessionManager.Clear: the pools, then the sessions.                      *)
ClearPools ==
  /\ shut = "pools"
  /\ Close
  /\ CloseConns
  /\ shut' = "sessions"

ClearSessions ==
  /\ shut = "sessions"
  /\ pair' = [c \in Client |-> None]
  /\ shut' = "done"
  /\ UNCHANGED <<mgmtVars, conn, user, h>>

Handler(c) ==
  \/ OnOpen(c)
  \/ OnTraffic(c)
  \/ \E u \in Users : DispatchAuth(c, u)
  \/ Dispatch(c)
  \/ EventEnds(c)
  \/ OnClose(c)
  \/ ForwardLoad(c)
  \/ KeepBackend(c)
  \/ GetTenantKey(c)
  \/ Select(c)
  \/ LoadPool(c)
  \/ Bind(c)
  \/ RouteFailed(c)

(* A panic of an event loop ends the process.                               *)
Running == \A c \in Client : h[c].pc # "panic"

ProxyNext ==
  /\ Running
  /\ \/ \E c \in Client : Handler(c)
     \/ Backends
     \/ ClearPools
     \/ ClearSessions

ProxySafety == ProxyInit /\ [][ProxyNext]_allVars

(* The manager's goroutine is scheduled as long as it can take a step.      *)
ProxySpec ==
  /\ ProxySafety
  /\ WF_allVars(Running /\ BackendChangeNotify /\ CloseConns /\ UNCHANGED shut)
  /\ WF_allVars(Running /\ PoolOnline /\ CloseConns /\ UNCHANGED shut)

----------------------------------------------------------------------------
(* Properties                                                               *)

(* Tenants are kept apart: a session is bound to a backend only in a        *)
(* cluster where its user has an instance, or in one that belongs to no     *)
(* user, however users log in and clusters change while it is routed        *)
(* (doDispatch, RouteRequest, GetBackendFixedPool).                         *)
BoundToOwnCluster ==
  \A c \in Client : pair[c] \notin {None, Nil} /\ pair[c].backend # None =>
    \E i \in Instance :
      OwnerOf[i] \in {user[c], None} /\ KeyOf[i] = KeyOf[pair[c].backend.id]

(* Until shutdown, the map has an entry for exactly the clients that are    *)
(* connected: a session is neither lost while its client is there nor left  *)
(* behind (OpenSession, RouteRequest, CloseSession).                        *)
SessionsFollowClients ==
  shut # "done" => \A c \in Client : conn[c] <=> pair[c] \notin {None, Nil}

(* With one event loop, and leaving aside the transaction state, which is   *)
(* not modelled here: nothing that clients do, or that happens to the       *)
(* backends, ends the process before shutdown has cleared the sessions      *)
(* (LoadSession, Forward, Selector).                                        *)
PanicOnlyInShutdown == ~Running => shut = "done"

(* Every change that is sent to the manager is handled, whatever the        *)
(* clients do, as long as it does not wait for a pool that is never filled  *)
(* and the process runs (BackendChangeNotify, WaitPoolReady).               *)
ChangesHandled == notify # << >> ~> notify = << >> \/ mgr.pc = "stuck" \/ ~Running

----------------------------------------------------------------------------
(* Statements about the code that it does not keep (README, section 4)      *)

(* Requests go to connections whose pool is open, as long as the proxy is   *)
(* not being shut down: a session whose backend went offline is routed anew *)
(* ("Re-routing needed", session_mgr.go:42).                                *)
BoundToOpenPool ==
  [][\A c \in Client :
       h[c].pc = "load" /\ h'[c].pc = "read" /\ shut = "pools" => pair[c].backend.open]_allVars

(* The event loops survive shutdown ("cleaning up resources",               *)
(* elika_proxy.go:186).                                                     *)
NoPanic == Running

============================================================================
