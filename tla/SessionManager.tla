--------------------------- MODULE SessionManager ---------------------------
(***************************************************************************)
(* The session manager above the connections: dispatching a request        *)
(* (proxy/elika_proxy.go), binding a session to a connection and           *)
(* forwarding on it (be_cluster/session_mgr.go), and the two ways a        *)
(* FixedPool offers a connection (be_cluster/fixed_pool.go).               *)
(*                                                                         *)
(* A session's requests are handled by one event loop, one at a time.      *)
(* Forward and RouteRequest load transaction states without holding        *)
(* anything between the loads, so each load is a step.                     *)
(***************************************************************************)
EXTENDS BackendConn, FiniteSets

CONSTANTS
  LoopOf,       \* the event loop of each session
  Locate,       \* external: the connection the hash ring gives a session
  ProdRuntime   \* common.IsProdRuntime()

ASSUME ManagerAssumption ==
  /\ None \notin Conn
  /\ DOMAIN LoopOf = Session
  /\ Locate \in [Session -> Conn]
  /\ ProdRuntime \in BOOLEAN

VARIABLES
  pair,   \* the connection each session is bound to (SessionPair.backend)
  route   \* the progress of each session's Forward and RouteRequest

smVars == <<vars, pair, route>>

RoutePc ==
  {"idle", "route", "locate", "log", "collect", "pick", "second",
   "error", "update", "panic"}
Route ==
  [pc: RoutePc, cmd: Cmds \cup {None}, conn: Conn \cup {None},
   cand: SUBSET Conn, todo: SUBSET Conn]

R(pc, cmd) ==
  [pc |-> pc, cmd |-> cmd, conn |-> None, cand |-> {}, todo |-> {}]

(* Types; and a Forward that is about to use a connection uses the one its  *)
(* session is bound to (Forward, RouteRequest).                             *)
SMTypeOK ==
  /\ TypeOK
  /\ pair \in [Session -> Conn \cup {None}]
  /\ route \in [Session -> Route]
  /\ \A s \in Session :
       route[s].pc = "update" => route[s].conn = pair[s] /\ pair[s] # None

(* OpenSession stores a pair without a backend.                             *)
SMInit ==
  /\ Init
  /\ pair = [s \in Session |-> IF s \in LoggedIn THEN Locate[s] ELSE None]
  /\ route = [s \in Session |-> R("idle", None)]

----------------------------------------------------------------------------

(* Mutant of Foreign: the owner of a transaction is not compared.           *)
ForeignNever(s, c) == FALSE

(* Another session owns the transaction recorded on c.                      *)
Foreign(s, c) == txState[c] # NoTx /\ txState[c].owner # s

(* Forward's test on the connection the session is bound to.                *)
NeedsRoute(s) == pair[s] # None => Foreign(s, pair[s])

(* The event loop of s is not inside a handler.                             *)
LoopFree(s) ==
  \A t \in Session : LoopOf[t] = LoopOf[s] => route[t].pc = "idle" /\ fwd[t] = None

UpdateOn(s, c) ==
  route' = [route EXCEPT ![s] = [R("update", route[s].cmd) EXCEPT !.conn = c]]

(* Mutant of Bind: the new pair is used and not stored.                     *)
BindNotStored(s, c) ==
  /\ UNCHANGED pair
  /\ UpdateOn(s, c)

(* RouteRequest returns a pair with backend c, which Compute stores.        *)
Bind(s, c) ==
  /\ pair' = [pair EXCEPT ![s] = c]
  /\ UpdateOn(s, c)

(* doDispatch of a request that may be forwarded, up to Forward's test.     *)
Dispatch(s, cmd) ==
  /\ LoopFree(s)
  /\ ~sessionQuit[s]
  /\ sent[s] < MaxReqs
  /\ authInfo[s] # "none" \/ cmd = "auth"
  /\ route' = [route EXCEPT ![s] =
                 IF NeedsRoute(s) THEN R("route", cmd)
                 ELSE [R("update", cmd) EXCEPT !.conn = pair[s]]]
  /\ UNCHANGED <<vars, pair>>

(* doDispatch before AUTH: ErrNoAuth.                                       *)
NoAuth(s, cmd) ==
  /\ LoopFree(s)
  /\ authInfo[s] = "none" /\ cmd # "auth"
  /\ Reject(s, cmd)
  /\ UNCHANGED <<pair, route>>

(* RouteRequest looks at the bound connection again, then for the pool,     *)
(* which the BackendManager may not have.                                   *)
RouteRequest(s) ==
  /\ route[s].pc = "route"
  /\ \/ ~NeedsRoute(s) /\ UpdateOn(s, pair[s])
     \/ NeedsRoute(s) /\ route' = [route EXCEPT ![s].pc = "locate"]
     \/ NeedsRoute(s) /\ route' = [route EXCEPT ![s].pc = "error"]
  /\ UNCHANGED <<vars, pair>>

(* GetConnByKey; is its connection occupied?                                *)
GetConnByKey(s) ==
  /\ route[s].pc = "locate"
  /\ IF Foreign(s, Locate[s])
       THEN /\ route' = [route EXCEPT ![s].pc = IF ProdRuntime THEN "collect" ELSE "log",
                                       ![s].todo = Conn]
            /\ UNCHANGED pair
       ELSE Bind(s, Locate[s])
  /\ UNCHANGED vars

(* The log line loads the state again and dereferences it.                  *)
LogOccupied(s) ==
  /\ route[s].pc = "log"
  /\ route' = [route EXCEPT ![s].pc = IF txState[Locate[s]] = NoTx THEN "panic"
                                      ELSE "collect"]
  /\ UNCHANGED <<vars, pair>>

(* GetNoTxConn: one step of the Range over the connections, and after the   *)
(* last one the cases on the number of candidates.                          *)
CollectNoTx(s) ==
  /\ route[s].pc = "collect"
  /\ \E c \in route[s].todo :
       LET todo == route[s].todo \ {c}
           cand == IF txState[c].state = "begin" THEN route[s].cand
                   ELSE route[s].cand \cup {c}
           next(pc) == route' = [route EXCEPT ![s].pc = pc, ![s].todo = todo,
                                              ![s].cand = cand]
       IN IF todo # {} THEN next("collect") /\ UNCHANGED pair
          ELSE IF cand = {} THEN next("error") /\ UNCHANGED pair
          ELSE IF Cardinality(cand) = 1 THEN \E d \in cand : Bind(s, d)
          ELSE next("pick") /\ UNCHANGED pair
  /\ UNCHANGED vars

(* A random candidate, if conn.LoadTxnState() is nil.                       *)
PickNoTx(s) ==
  /\ route[s].pc = "pick"
  /\ \E c \in route[s].cand :
       IF txState[c] = NoTx THEN Bind(s, c)
       ELSE /\ route' = [route EXCEPT ![s].pc = "second", ![s].conn = c]
            /\ UNCHANGED pair
  /\ UNCHANGED vars

(* && conn.LoadTxnState().State == TxCmdStateBegin: a second load.          *)
PickSecondLoad(s) ==
  /\ route[s].pc = "second"
  /\ LET c == route[s].conn IN
       IF txState[c].state = "end" THEN Bind(s, c)
       ELSE /\ route' = [route EXCEPT ![s].conn = None,
                           ![s].pc = IF txState[c] = NoTx THEN "panic" ELSE "pick"]
            /\ UNCHANGED pair
  /\ UNCHANGED vars

(* Mutant of RouteFailed: the error is not written to the client.           *)
RouteFailedSilently(s) ==
  /\ route[s].pc = "error"
  /\ sent' = [sent EXCEPT ![s] = @ + 1]
  /\ route' = [route EXCEPT ![s] = R("idle", None)]
  /\ UNCHANGED <<sessionVars, fwd, connVars, pair>>

(* Forward returned an error: doForward writes it to the client.            *)
RouteFailed(s) ==
  /\ route[s].pc = "error"
  /\ Reject(s, route[s].cmd)
  /\ route' = [route EXCEPT ![s] = R("idle", None)]
  /\ UNCHANGED pair

(* The rest of Forward: UpdateTxnState, then into Enqueue.                  *)
ForwardOn(s) ==
  /\ route[s].pc = "update"
  /\ Forward(s, route[s].conn, route[s].cmd)
  /\ route' = [route EXCEPT ![s] = R("idle", None)]
  /\ UNCHANGED pair

(* OnClose: CloseSession deletes the pair; nothing is done on the           *)
(* connection that the session was bound to.                                *)
OnClose(s) ==
  /\ LoopFree(s)
  /\ CloseSession(s)
  /\ pair' = [pair EXCEPT ![s] = None]
  /\ UNCHANGED route

Handler(s) ==
  \/ RouteRequest(s) \/ GetConnByKey(s) \/ LogOccupied(s)
  \/ CollectNoTx(s) \/ PickNoTx(s) \/ PickSecondLoad(s)
  \/ RouteFailed(s) \/ ForwardOn(s)

(* No nil *TxState is dereferenced (the guard "conn.LoadTxnState() != nil   *)
(* &&" of GetNoTxConn); if one is, the process ends.                        *)
NoNilDeref == \A s \in Session : route[s].pc # "panic"

SMNext ==
  \/ \E s \in Session, cmd \in Cmds :
       NoNilDeref /\ (Dispatch(s, cmd) \/ NoAuth(s, cmd))
  \/ \E s \in Session : NoNilDeref /\ (Handler(s) \/ OnClose(s))
  \/ \E s \in Session :
       NoNilDeref /\ (Enqueue(s) \/ ReplyLoop(s)) /\ UNCHANGED <<pair, route>>
  \/ \E c \in Conn : NoNilDeref /\ ConnNext(c) /\ UNCHANGED <<pair, route>>

SMSpec == SMInit /\ [][SMNext]_smVars

----------------------------------------------------------------------------
(* Properties                                                               *)

(* A client reads its replies in the order of its requests, and each is the *)
(* reply to that request: the i-th answers the i-th.                        *)
RepliesInOrder ==
  \A s \in Session : \A i \in 1..Len(rcvd[s]) :
    rcvd[s][i].req # None /\ rcvd[s][i].req.session = s /\ rcvd[s][i].req.n = i

(* A transaction that a session has begun on a connection is not taken over *)
(* by another session (the log line at session_mgr.go:53 calls such a       *)
(* connection "occupied by another session").                               *)
TxNotTakenOver ==
  [][\A c \in Conn :
       txState[c].state = "begin" /\ txState'[c] # NoTx
         => txState'[c].owner = txState[c].owner]_txState

(* The manager only does to the connections what their specification allows *)
(* its callers: each of its steps is a step of BackendConn or none.         *)
RefinesBackendConn == Spec

----------------------------------------------------------------------------
(* A statement about the code that it does not keep (README, section 4)     *)

(* A transaction is only forgotten once its owner has ended it.             *)
TxNotDropped ==
  [][\A c \in Conn : txState[c].state = "begin" => txState'[c] # NoTx]_txState

============================================================================
