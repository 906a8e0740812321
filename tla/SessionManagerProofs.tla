------------------------ MODULE SessionManagerProofs ------------------------
(***************************************************************************)
(* Theorems about SessionManager, for any sessions, connections, event     *)
(* loops, hash ring, queue sizes and number of requests.                   *)
(***************************************************************************)
EXTENDS SessionManager, BackendConnProofs

(* A handler that is under way has a command; one that is between the two   *)
(* loads of GetNoTxConn has the connection it looks at.                     *)
HandlerHolds ==
  \A s \in Session :
    /\ route[s].pc # "idle" => route[s].cmd \in Cmds
    /\ route[s].pc = "second" => route[s].conn \in Conn

(* The inductive form of SMTypeOK.                                          *)
SMTypeInv == SMTypeOK /\ HoldsRequest /\ HandlerHolds

LEMMA SMTypeInit == SMInit => SMTypeInv
<1> SUFFICES ASSUME SMInit PROVE SMTypeInv
  OBVIOUS
<1>1. TypeInv
  BY TypeInit DEF SMInit
<1>2. pair \in [Session -> Conn \cup {None}]
  BY ManagerAssumption DEF SMInit
<1>3. route \in [Session -> Route]
  BY DEF SMInit, Route, R, RoutePc
<1>4. \A s \in Session : route[s].pc = "idle"
  BY DEF SMInit, R
<1> QED
  BY <1>1, <1>2, <1>3, <1>4 DEF SMTypeInv, SMTypeOK, TypeInv, HandlerHolds

(* Every step of the manager is a step of the connections it is built on,   *)
(* or leaves them alone.                                                    *)
LEMMA SMStep ==
  ASSUME SMTypeInv, [SMNext]_smVars
  PROVE  [Next]_vars
<1>1. CASE UNCHANGED smVars
  BY <1>1 DEF smVars
<1>2. ASSUME NEW s \in Session, NEW cmd \in Cmds, Dispatch(s, cmd) \/ NoAuth(s, cmd)
      PROVE  [Next]_vars
  BY <1>2 DEF Dispatch, NoAuth, Next
<1>3. ASSUME NEW s \in Session, Handler(s)
      PROVE  [Next]_vars
  <2>1. CASE \/ RouteRequest(s) \/ GetConnByKey(s) \/ LogOccupied(s)
             \/ CollectNoTx(s) \/ PickNoTx(s) \/ PickSecondLoad(s)
    BY <2>1 DEF RouteRequest, GetConnByKey, LogOccupied, CollectNoTx, PickNoTx, PickSecondLoad
  <2>2. CASE RouteFailed(s)
    BY <2>2 DEF RouteFailed, Next, SMTypeInv, HandlerHolds
  <2>3. CASE ForwardOn(s)
    <3>1. route[s].conn \in Conn /\ route[s].cmd \in Cmds
      BY <2>3 DEF ForwardOn, SMTypeInv, SMTypeOK, HandlerHolds
    <3> QED
      BY <2>3, <3>1 DEF ForwardOn, Next
  <2> QED
    BY <1>3, <2>1, <2>2, <2>3 DEF Handler
<1>4. ASSUME NEW s \in Session, OnClose(s) \/ Enqueue(s) \/ ReplyLoop(s)
      PROVE  [Next]_vars
  BY <1>4 DEF OnClose, Next
<1>5. ASSUME NEW c \in Conn, ConnNext(c)
      PROVE  [Next]_vars
  BY <1>5 DEF Next
<1> QED
  BY <1>1, <1>2, <1>3, <1>4, <1>5 DEF SMNext

(* What a step does to the pair and the route of a session.                 *)
RouteTypeOK ==
  /\ pair \in [Session -> Conn \cup {None}]
  /\ route \in [Session -> Route]
  /\ HandlerHolds
  /\ \A s \in Session :
       route[s].pc = "update" => route[s].conn = pair[s] /\ pair[s] # None

LEMMA BindType ==
  ASSUME RouteTypeOK, NEW s \in Session, route[s].pc # "idle", NEW c \in Conn, Bind(s, c)
  PROVE  RouteTypeOK'
<1>1. route[s].cmd \in Cmds /\ c # None
  BY ManagerAssumption DEF RouteTypeOK, HandlerHolds
<1>2. [R("update", route[s].cmd) EXCEPT !.conn = c] =
        [pc |-> "update", cmd |-> route[s].cmd, conn |-> c, cand |-> {}, todo |-> {}]
  BY DEF R
<1>3. /\ route' = [route EXCEPT ![s] =
           [pc |-> "update", cmd |-> route[s].cmd, conn |-> c, cand |-> {}, todo |-> {}]]
      /\ pair' = [pair EXCEPT ![s] = c]
  BY <1>2 DEF Bind, UpdateOn
<1>4. [pc |-> "update", cmd |-> route[s].cmd, conn |-> c, cand |-> {}, todo |-> {}] \in Route
  BY <1>1 DEF Route, RoutePc
<1>5. pair' \in [Session -> Conn \cup {None}] /\ route' \in [Session -> Route]
  BY <1>3, <1>4 DEF RouteTypeOK
<1>6. /\ route'[s].pc = "update" /\ route'[s].conn = c /\ pair'[s] = c /\ route'[s].cmd \in Cmds
      /\ \A t \in Session \ {s} : route'[t] = route[t] /\ pair'[t] = pair[t]
  BY <1>1, <1>3 DEF RouteTypeOK
<1>7. HandlerHolds'
  BY <1>6 DEF RouteTypeOK, HandlerHolds
<1> QED
  BY <1>1, <1>5, <1>6, <1>7 DEF RouteTypeOK

(* A step that gives the route of s a new value and leaves the pair alone.  *)
LEMMA RouteAt ==
  ASSUME RouteTypeOK, NEW s \in Session, NEW r \in Route,
         route' = [route EXCEPT ![s] = r], pair' = pair,
         r.pc # "idle" => r.cmd \in Cmds,
         r.pc = "second" => r.conn \in Conn,
         r.pc = "update" => r.conn = pair[s] /\ pair[s] # None
  PROVE  RouteTypeOK'
<1>1. route'[s] = r /\ \A t \in Session \ {s} : route'[t] = route[t]
  BY DEF RouteTypeOK
<1>2. route' \in [Session -> Route]
  BY DEF RouteTypeOK
<1>3. HandlerHolds'
  BY <1>1 DEF RouteTypeOK, HandlerHolds
<1> QED
  BY <1>1, <1>2, <1>3 DEF RouteTypeOK

LEMMA RouteTypeHandler ==
  ASSUME RouteTypeOK, NEW s \in Session, Handler(s)
  PROVE  RouteTypeOK'
<1>0. /\ route[s] \in Route /\ pair[s] \in Conn \cup {None} /\ Locate[s] \in Conn
      /\ route[s].pc # "idle" => route[s].cmd \in Cmds
  BY ManagerAssumption DEF RouteTypeOK, HandlerHolds
<1>1. R("idle", None) \in Route /\ R("idle", None).pc = "idle"
  BY DEF R, Route, RoutePc
<1>2. CASE RouteRequest(s)
  <2>1. CASE ~NeedsRoute(s) /\ UpdateOn(s, pair[s])
    <3>1. pair[s] \in Conn
      BY <1>0, <2>1 DEF NeedsRoute
    <3>2. pair' = [pair EXCEPT ![s] = pair[s]]
      BY <1>2 DEF RouteRequest, RouteTypeOK
    <3> QED
      BY <1>2, <2>1, <3>1, <3>2, BindType DEF Bind, RouteRequest
  <2>2. ASSUME NEW pc \in {"locate", "error"}, route' = [route EXCEPT ![s].pc = pc]
        PROVE  RouteTypeOK'
    <3> DEFINE r == [route[s] EXCEPT !.pc = pc]
    <3>1. r \in Route /\ r.pc = pc /\ r.cmd = route[s].cmd
      BY <1>0 DEF Route, RoutePc
    <3>2. route' = [route EXCEPT ![s] = r] /\ pair' = pair /\ route[s].cmd \in Cmds
      BY <1>0, <1>2, <2>2 DEF RouteRequest
    <3> HIDE DEF r
    <3> QED
      BY <3>1, <3>2, RouteAt
  <2> QED
    BY <1>2, <2>1, <2>2 DEF RouteRequest
<1>3. CASE GetConnByKey(s)
  <2>1. CASE Foreign(s, Locate[s])
    <3> DEFINE pc == IF ProdRuntime THEN "collect" ELSE "log"
               r == [route[s] EXCEPT !.pc = pc, !.todo = Conn]
    <3>1. r \in Route /\ r.pc \in {"collect", "log"} /\ r.cmd = route[s].cmd
      BY <1>0 DEF Route, RoutePc
    <3>2. route' = [route EXCEPT ![s] = r] /\ pair' = pair /\ route[s].cmd \in Cmds
      BY <1>0, <1>3, <2>1 DEF GetConnByKey
    <3> HIDE DEF r
    <3> QED
      BY <3>1, <3>2, RouteAt
  <2>2. CASE ~Foreign(s, Locate[s])
    BY <1>0, <1>3, <2>2, BindType DEF GetConnByKey
  <2> QED
    BY <2>1, <2>2
<1>4. CASE LogOccupied(s)
  <2> DEFINE pc == IF txState[Locate[s]] = NoTx THEN "panic" ELSE "collect"
             r == [route[s] EXCEPT !.pc = pc]
  <2>1. r \in Route /\ r.pc \in {"collect", "panic"} /\ r.cmd = route[s].cmd
    BY <1>0 DEF Route, RoutePc
  <2>2. route' = [route EXCEPT ![s] = r] /\ pair' = pair /\ route[s].cmd \in Cmds
    BY <1>0, <1>4 DEF LogOccupied
  <2> HIDE DEF r
  <2> QED
    BY <2>1, <2>2, RouteAt
<1>5. CASE CollectNoTx(s)
  <2>1. PICK c \in route[s].todo, cand \in SUBSET Conn, todo \in SUBSET Conn :
          \/ \E pc \in {"collect", "error", "pick"} :
               /\ route' = [route EXCEPT ![s].pc = pc, ![s].todo = todo, ![s].cand = cand]
               /\ UNCHANGED pair
          \/ \E d \in cand : Bind(s, d)
    <3>1. PICK c \in route[s].todo :
            LET todo == route[s].todo \ {c}
                cand == IF txState[c].state = "begin" THEN route[s].cand
                        ELSE route[s].cand \cup {c}
                next(pc) == route' = [route EXCEPT ![s].pc = pc, ![s].todo = todo,
                                                   ![s].cand = cand]
            IN IF todo # {} THEN next("collect") /\ UNCHANGED pair
               ELSE IF cand = {} THEN next("error") /\ UNCHANGED pair
               ELSE IF Cardinality(cand) = 1 THEN \E d \in cand : Bind(s, d)
               ELSE next("pick") /\ UNCHANGED pair
      BY <1>5 DEF CollectNoTx
    <3> DEFINE todo == route[s].todo \ {c}
               cand == IF txState[c].state = "begin" THEN route[s].cand
                       ELSE route[s].cand \cup {c}
    <3>2. todo \in SUBSET Conn /\ cand \in SUBSET Conn
      BY <1>0 DEF Route
    <3>3. \/ \E pc \in {"collect", "error", "pick"} :
               /\ route' = [route EXCEPT ![s].pc = pc, ![s].todo = todo, ![s].cand = cand]
               /\ UNCHANGED pair
          \/ \E d \in cand : Bind(s, d)
      BY <3>1
    <3> HIDE DEF todo, cand
    <3> QED
      BY <3>2, <3>3
  <2>2. ASSUME NEW pc \in {"collect", "error", "pick"},
               route' = [route EXCEPT ![s].pc = pc, ![s].todo = todo, ![s].cand = cand],
               UNCHANGED pair
        PROVE  RouteTypeOK'
    <3> DEFINE r == [route[s] EXCEPT !.pc = pc, !.todo = todo, !.cand = cand]
    <3>1. r \in Route /\ r.pc = pc /\ r.cmd = route[s].cmd
      BY <1>0 DEF Route, RoutePc
    <3>2. route' = [route EXCEPT ![s] = r] /\ pair' = pair /\ route[s].cmd \in Cmds
      BY <1>0, <1>5, <2>2 DEF CollectNoTx
    <3> HIDE DEF r
    <3> QED
      BY <3>1, <3>2, RouteAt
  <2>3. route[s].pc # "idle"
    BY <1>5 DEF CollectNoTx
  <2> QED
    BY <2>1, <2>2, <2>3, BindType
<1>6. CASE PickNoTx(s)
  <2>1. PICK c \in route[s].cand :
          IF txState[c] = NoTx THEN Bind(s, c)
          ELSE /\ route' = [route EXCEPT ![s].pc = "second", ![s].conn = c]
               /\ UNCHANGED pair
    BY <1>6 DEF PickNoTx
  <2>2. c \in Conn /\ route[s].cmd \in Cmds /\ route[s].pc # "idle"
    BY <1>0, <1>6, <2>1 DEF Route, PickNoTx
  <2>3. CASE txState[c] = NoTx
    BY <2>1, <2>2, <2>3, BindType
  <2>4. CASE txState[c] # NoTx
    <3> DEFINE r == [route[s] EXCEPT !.pc = "second", !.conn = c]
    <3>1. r \in Route /\ r.pc = "second" /\ r.cmd = route[s].cmd /\ r.conn = c
      BY <1>0, <2>2 DEF Route, RoutePc
    <3>2. route' = [route EXCEPT ![s] = r] /\ pair' = pair
      BY <2>1, <2>4
    <3> HIDE DEF r
    <3> QED
      BY <2>2, <3>1, <3>2, RouteAt
  <2> QED
    BY <2>3, <2>4
<1>7. CASE PickSecondLoad(s)
  <2>1. PICK c \in Conn : c = route[s].conn
    BY <1>7 DEF PickSecondLoad, RouteTypeOK, HandlerHolds
  <2>2. CASE txState[c].state = "end"
    BY <1>7, <2>1, <2>2, BindType DEF PickSecondLoad
  <2>3. CASE txState[c].state # "end"
    <3> DEFINE pc == IF txState[c] = NoTx THEN "panic" ELSE "pick"
               r == [route[s] EXCEPT !.conn = None, !.pc = pc]
    <3>1. r \in Route /\ r.pc \in {"panic", "pick"} /\ r.cmd = route[s].cmd
      BY <1>0 DEF Route, RoutePc
    <3>2. route' = [route EXCEPT ![s] = r] /\ pair' = pair /\ route[s].cmd \in Cmds
      BY <1>0, <1>7, <2>1, <2>3 DEF PickSecondLoad
    <3> HIDE DEF r
    <3> QED
      BY <3>1, <3>2, RouteAt
  <2> QED
    BY <2>2, <2>3
<1>8. CASE RouteFailed(s) \/ ForwardOn(s)
  <2>1. route' = [route EXCEPT ![s] = R("idle", None)] /\ pair' = pair
    BY <1>8 DEF RouteFailed, ForwardOn
  <2> QED
    BY <1>1, <2>1, RouteAt
<1> QED
  BY <1>2, <1>3, <1>4, <1>5, <1>6, <1>7, <1>8 DEF Handler

LEMMA SMTypeNext ==
  ASSUME SMTypeInv, [SMNext]_smVars
  PROVE  SMTypeInv'
<1>1. TypeInv /\ RouteTypeOK
  BY DEF SMTypeInv, SMTypeOK, TypeInv, RouteTypeOK
<1>2. TypeInv'
  BY <1>1, SMStep, TypeNext
<1>3. ASSUME UNCHANGED <<pair, route>>
      PROVE  RouteTypeOK'
  BY <1>1, <1>3 DEF RouteTypeOK, HandlerHolds
<1>4. ASSUME NEW s \in Session, NEW cmd \in Cmds, Dispatch(s, cmd)
      PROVE  RouteTypeOK'
  <2>1. CASE NeedsRoute(s)
    <3>1. R("route", cmd) \in Route /\ R("route", cmd).pc = "route" /\ R("route", cmd).cmd = cmd
      BY DEF R, Route, RoutePc
    <3>2. route' = [route EXCEPT ![s] = R("route", cmd)] /\ pair' = pair
      BY <1>4, <2>1 DEF Dispatch
    <3> QED
      BY <1>1, <3>1, <3>2, RouteAt
  <2>2. CASE ~NeedsRoute(s)
    <3> DEFINE r == [pc |-> "update", cmd |-> cmd, conn |-> pair[s], cand |-> {}, todo |-> {}]
    <3>1. pair[s] # None /\ pair[s] \in Conn
      BY <1>1, <2>2 DEF NeedsRoute, RouteTypeOK
    <3>2. r \in Route /\ r.pc = "update" /\ r.cmd = cmd /\ r.conn = pair[s]
      BY <3>1 DEF Route, RoutePc
    <3>3. route' = [route EXCEPT ![s] = r] /\ pair' = pair
      <4>1. [R("update", cmd) EXCEPT !.conn = pair[s]] = r
        BY DEF R
      <4> HIDE DEF r
      <4> QED
        BY <1>4, <2>2, <4>1 DEF Dispatch
    <3> HIDE DEF r
    <3> QED
      BY <1>1, <3>1, <3>2, <3>3, RouteAt
  <2> QED
    BY <2>1, <2>2
<1>5. ASSUME NEW s \in Session, OnClose(s)
      PROVE  RouteTypeOK'
  <2>1. /\ route' = route /\ pair' = [pair EXCEPT ![s] = None]
        /\ route[s].pc = "idle"
    BY <1>5 DEF OnClose, LoopFree
  <2> QED
    BY <1>1, <2>1 DEF RouteTypeOK, HandlerHolds
<1>6. RouteTypeOK'
  BY <1>1, <1>3, <1>4, <1>5, RouteTypeHandler DEF SMNext, smVars, NoAuth
<1> QED
  BY <1>2, <1>6 DEF SMTypeInv, SMTypeOK, TypeInv, RouteTypeOK

(* The manager's types, in every behaviour; in particular a Forward that is *)
(* about to use a connection uses the one its session is bound to.          *)
THEOREM SMTypeCorrect == SMSpec => []SMTypeOK
<1>1. SMInit => SMTypeInv
  BY SMTypeInit
<1>2. SMTypeInv /\ [SMNext]_smVars => SMTypeInv'
  BY SMTypeNext
<1>3. SMTypeInv => SMTypeOK
  BY DEF SMTypeInv
<1> QED
  BY <1>1, <1>2, <1>3, PTL DEF SMSpec

(* The manager uses the connections as BackendConn allows its callers to,   *)
(* whatever the event loops, the hash ring and the transactions do.         *)
THEOREM ManagerRefines == SMSpec => RefinesBackendConn
<1>1. SMInit => SMTypeInv /\ Init
  BY SMTypeInit DEF SMInit
<1>2. SMTypeInv /\ [SMNext]_smVars => SMTypeInv'
  BY SMTypeNext
<1>3. SMTypeInv /\ [SMNext]_smVars => [Next]_vars
  BY SMStep
<1> QED
  BY <1>1, <1>2, <1>3, PTL DEF SMSpec, RefinesBackendConn, Spec

----------------------------------------------------------------------------
(* Transactions under one event loop.                                       *)

(* All sessions are served by one event loop (MultiCore is off).            *)
OneEventLoop == \A s, t \in Session : LoopOf[s] = LoopOf[t]

(* What the loads of transaction states have established when the states    *)
(* are used: only one handler is under way; the connection it is about to   *)
(* forward on carries no transaction that another session has begun; and    *)
(* neither does any of the candidates it has collected.                     *)
OneHandler ==
  \A s, t \in Session : route[s].pc # "idle" /\ route[t].pc # "idle" => s = t
MayForward ==
  \A s \in Session :
    route[s].pc = "update" /\ txState[route[s].conn].state = "begin"
      => txState[route[s].conn].owner = s
CandidatesFree ==
  \A s \in Session :
    /\ route[s].pc = "idle" => route[s].cand = {}
    /\ \A c \in route[s].cand : txState[c].state # "begin"
TxGuard == OneHandler /\ MayForward /\ CandidatesFree

LEMMA TxGuardInit == SMInit => TxGuard
  BY DEF SMInit, R, TxGuard, OneHandler, MayForward, CandidatesFree

(* A connection by itself, or a step of a session other than Forward, only  *)
(* ever removes a transaction.                                              *)
LEMMA ConnKeepsTx ==
  ASSUME SMTypeInv, NEW c \in Conn, ConnNext(c)
  PROVE  \A d \in Conn : txState'[d] = txState[d] \/ txState'[d] = NoTx
<1>0. txState \in [Conn -> TxState]
  BY DEF SMTypeInv, SMTypeOK, TypeOK
<1>1. CASE WriteLoop(c)
  BY <1>1 DEF WriteLoop, WriteLoopTake, WriteLoopQuit, WriteLoopWrite, WriteLoopWriteErr,
              WriteLoopFail, WriteLoopCheck, WriteLoopPush
<1>2. CASE ReadLoop(c)
  BY <1>0, <1>2 DEF ReadLoop, ReadLoopTop, ReadLoopRead, ReadLoopLoad, ReadLoopEOF,
                    ReadLoopSkip, ReadLoopMatch, ReadLoopDeliver, ClearTxnState
<1>3. CASE Clear(c)
  BY <1>3 DEF Clear, DrainTakeWrite, DrainWriteEnd, DrainFlush, DrainPush, DrainFail,
              DrainTakePending, DrainRead, DrainSend, InnerClose
<1>4. CASE Close(c) \/ CloseReturn(c) \/ PeerFail(c)
  BY <1>4 DEF Close, CloseReturn, PeerFail
<1> QED
  BY <1>1, <1>2, <1>3, <1>4 DEF ConnNext

(* Losing a transaction disturbs nothing that the handlers rely on.         *)
LEMMA TxGuardLoses ==
  ASSUME SMTypeInv, TxGuard, route' = route,
         \A d \in Conn : txState'[d] = txState[d] \/ txState'[d] = NoTx
  PROVE  TxGuard'
<1>1. \A s \in Session : route[s].cand \subseteq Conn
  BY DEF SMTypeInv, SMTypeOK, Route
<1>2. \A s \in Session : route[s].pc = "update" => route[s].conn \in Conn
  BY DEF SMTypeInv, SMTypeOK
<1>3. NoTx.state # "begin"
  BY DEF NoTx
<1>4. MayForward'
  BY <1>2, <1>3 DEF TxGuard, MayForward
<1>5. CandidatesFree'
  BY <1>1, <1>3 DEF TxGuard, CandidatesFree
<1> QED
  BY <1>4, <1>5 DEF TxGuard, OneHandler

(* A step of the handler of s that touches no transaction.                  *)
LEMMA TxGuardAt ==
  ASSUME SMTypeInv, TxGuard, NEW s \in Session, NEW r \in Route, txState' = txState,
         route[s].pc # "idle" \/ \A t \in Session : route[t].pc = "idle",
         route' = [route EXCEPT ![s] = r],
         r.pc = "update" /\ txState[r.conn].state = "begin" => txState[r.conn].owner = s,
         r.pc # "idle",
         \A c \in r.cand : txState[c].state # "begin"
  PROVE  TxGuard'
<1>1. route'[s] = r /\ \A t \in Session \ {s} : route'[t] = route[t]
  BY DEF SMTypeInv, SMTypeOK
<1>2. \A t \in Session \ {s} : route[t].pc = "idle"
  BY DEF TxGuard, OneHandler
<1>3. OneHandler'
  BY <1>1, <1>2 DEF OneHandler
<1>4. MayForward'
  BY <1>1 DEF TxGuard, MayForward
<1>5. CandidatesFree'
  BY <1>1 DEF TxGuard, CandidatesFree
<1> QED
  BY <1>3, <1>4, <1>5 DEF TxGuard

LEMMA TxGuardBind ==
  ASSUME SMTypeInv, TxGuard, NEW s \in Session, NEW c \in Conn, txState' = txState,
         route[s].pc # "idle", UpdateOn(s, c),
         txState[c].state = "begin" => txState[c].owner = s
  PROVE  TxGuard'
<1> DEFINE r == [pc |-> "update", cmd |-> route[s].cmd, conn |-> c, cand |-> {}, todo |-> {}]
<1>1. [R("update", route[s].cmd) EXCEPT !.conn = c] = r
  BY DEF R
<1>2. /\ r \in Route /\ r.pc = "update" /\ r.conn = c /\ r.cand = {}
  BY DEF SMTypeInv, HandlerHolds, Route, RoutePc
<1> HIDE DEF r
<1>3. route' = [route EXCEPT ![s] = r]
  BY <1>1 DEF UpdateOn
<1> QED
  BY <1>2, <1>3, TxGuardAt

LEMMA TxGuardHandler ==
  ASSUME SMTypeInv, TxGuard, NEW s \in Session,
         \/ RouteRequest(s) \/ GetConnByKey(s) \/ LogOccupied(s)
         \/ CollectNoTx(s) \/ PickNoTx(s) \/ PickSecondLoad(s)
  PROVE  TxGuard' /\ txState' = txState
<1>0. /\ route[s] \in Route /\ pair[s] \in Conn \cup {None} /\ Locate[s] \in Conn
      /\ route[s].pc # "idle" /\ txState' = txState
      /\ \A c \in route[s].cand : txState[c].state # "begin"
      /\ txState \in [Conn -> TxState]
      /\ NoTx.state = "none"
  BY ManagerAssumption
  DEF SMTypeInv, SMTypeOK, TypeOK, TxGuard, CandidatesFree, vars, connVars, NoTx,
      RouteRequest, GetConnByKey, LogOccupied, CollectNoTx, PickNoTx, PickSecondLoad
<1>1. \A c \in Conn : ~Foreign(s, c) /\ txState[c].state = "begin" => txState[c].owner = s
  BY <1>0 DEF Foreign
<1>2. CASE RouteRequest(s)
  <2>1. CASE ~NeedsRoute(s) /\ UpdateOn(s, pair[s])
    <3>1. pair[s] \in Conn /\ ~Foreign(s, pair[s])
      BY <1>0, <2>1 DEF NeedsRoute
    <3> QED
      BY <1>0, <1>1, <2>1, <3>1, TxGuardBind
  <2>2. ASSUME NEW pc \in {"locate", "error"}, route' = [route EXCEPT ![s].pc = pc]
        PROVE  TxGuard'
    <3> DEFINE r == [route[s] EXCEPT !.pc = pc]
    <3>1. r \in Route /\ r.pc = pc /\ r.cand = route[s].cand
      BY <1>0 DEF Route, RoutePc
    <3>2. route' = [route EXCEPT ![s] = r]
      BY <2>2
    <3> HIDE DEF r
    <3> QED
      BY <1>0, <3>1, <3>2, TxGuardAt
  <2> QED
    BY <1>0, <1>2, <2>1, <2>2 DEF RouteRequest
<1>3. CASE GetConnByKey(s)
  <2>1. CASE Foreign(s, Locate[s])
    <3> DEFINE pc == IF ProdRuntime THEN "collect" ELSE "log"
               r == [route[s] EXCEPT !.pc = pc, !.todo = Conn]
    <3>1. r \in Route /\ r.pc \in {"collect", "log"} /\ r.cand = route[s].cand
      BY <1>0 DEF Route, RoutePc
    <3>2. route' = [route EXCEPT ![s] = r]
      BY <1>3, <2>1 DEF GetConnByKey
    <3> HIDE DEF r
    <3> QED
      BY <1>0, <3>1, <3>2, TxGuardAt
  <2>2. CASE ~Foreign(s, Locate[s])
    BY <1>0, <1>1, <1>3, <2>2, TxGuardBind DEF GetConnByKey, Bind
  <2> QED
    BY <2>1, <2>2
<1>4. CASE LogOccupied(s)
  <2> DEFINE pc == IF txState[Locate[s]] = NoTx THEN "panic" ELSE "collect"
             r == [route[s] EXCEPT !.pc = pc]
  <2>1. r \in Route /\ r.pc \in {"collect", "panic"} /\ r.cand = route[s].cand
    BY <1>0 DEF Route, RoutePc
  <2>2. route' = [route EXCEPT ![s] = r]
    BY <1>4 DEF LogOccupied
  <2> HIDE DEF r
  <2> QED
    BY <1>0, <2>1, <2>2, TxGuardAt
<1>5. CASE CollectNoTx(s)
  <2>1. PICK c \in route[s].todo :
          LET todo == route[s].todo \ {c}
              cand == IF txState[c].state = "begin" THEN route[s].cand
                      ELSE route[s].cand \cup {c}
              next(pc) == route' = [route EXCEPT ![s].pc = pc, ![s].todo = todo,
                                                 ![s].cand = cand]
          IN IF todo # {} THEN next("collect") /\ UNCHANGED pair
             ELSE IF cand = {} THEN next("error") /\ UNCHANGED pair
             ELSE IF Cardinality(cand) = 1 THEN \E d \in cand : Bind(s, d)
             ELSE next("pick") /\ UNCHANGED pair
    BY <1>5 DEF CollectNoTx
  <2> DEFINE todo == route[s].todo \ {c}
             cand == IF txState[c].state = "begin" THEN route[s].cand
                     ELSE route[s].cand \cup {c}
  <2>2. /\ todo \in SUBSET Conn /\ cand \in SUBSET Conn
        /\ \A d \in cand : txState[d].state # "begin"
    BY <1>0 DEF Route
  <2>3. \/ \E pc \in {"collect", "error", "pick"} :
             route' = [route EXCEPT ![s].pc = pc, ![s].todo = todo, ![s].cand = cand]
        \/ \E d \in cand : Bind(s, d)
    BY <2>1
  <2> HIDE DEF todo, cand
  <2>4. ASSUME NEW pc \in {"collect", "error", "pick"},
               route' = [route EXCEPT ![s].pc = pc, ![s].todo = todo, ![s].cand = cand]
        PROVE  TxGuard'
    <3> DEFINE r == [route[s] EXCEPT !.pc = pc, !.todo = todo, !.cand = cand]
    <3>1. r \in Route /\ r.pc = pc /\ r.cand = cand
      BY <1>0, <2>2 DEF Route, RoutePc
    <3>2. route' = [route EXCEPT ![s] = r]
      BY <2>4
    <3> HIDE DEF r
    <3> QED
      BY <1>0, <2>2, <3>1, <3>2, TxGuardAt
  <2>5. ASSUME NEW d \in cand, Bind(s, d)
        PROVE  TxGuard'
    BY <1>0, <2>2, <2>5, TxGuardBind DEF Bind
  <2> QED
    BY <1>0, <2>3, <2>4, <2>5
<1>6. CASE PickNoTx(s)
  <2>1. PICK c \in route[s].cand :
          IF txState[c] = NoTx THEN Bind(s, c)
          ELSE /\ route' = [route EXCEPT ![s].pc = "second", ![s].conn = c]
               /\ UNCHANGED pair
    BY <1>6 DEF PickNoTx
  <2>2. c \in Conn
    BY <1>0, <2>1 DEF Route
  <2>3. CASE txState[c] = NoTx
    BY <1>0, <2>1, <2>2, <2>3, TxGuardBind DEF Bind
  <2>4. CASE txState[c] # NoTx
    <3> DEFINE r == [route[s] EXCEPT !.pc = "second", !.conn = c]
    <3>1. r \in Route /\ r.pc = "second" /\ r.cand = route[s].cand
      BY <1>0, <2>2 DEF Route, RoutePc
    <3>2. route' = [route EXCEPT ![s] = r]
      BY <2>1, <2>4
    <3> HIDE DEF r
    <3> QED
      BY <1>0, <3>1, <3>2, TxGuardAt
  <2> QED
    BY <1>0, <2>3, <2>4
<1>7. CASE PickSecondLoad(s)
  <2>1. PICK c \in Conn : c = route[s].conn
    BY <1>7 DEF PickSecondLoad, SMTypeInv, HandlerHolds
  <2>2. CASE txState[c].state = "end"
    <3>1. UpdateOn(s, c)
      BY <1>7, <2>1, <2>2 DEF PickSecondLoad, Bind
    <3> QED
      BY <1>0, <2>2, <3>1, TxGuardBind
  <2>3. CASE txState[c].state # "end"
    <3> DEFINE pc == IF txState[c] = NoTx THEN "panic" ELSE "pick"
               r == [route[s] EXCEPT !.conn = None, !.pc = pc]
    <3>1. r \in Route /\ r.pc \in {"panic", "pick"} /\ r.cand = route[s].cand
      BY <1>0 DEF Route, RoutePc
    <3>2. route' = [route EXCEPT ![s] = r]
      BY <1>7, <2>1, <2>3 DEF PickSecondLoad
    <3> HIDE DEF r
    <3> QED
      BY <1>0, <3>1, <3>2, TxGuardAt
  <2> QED
    BY <1>0, <2>2, <2>3
<1> QED
  BY <1>2, <1>3, <1>4, <1>5, <1>6, <1>7

LEMMA TxGuardDispatch ==
  ASSUME OneEventLoop, SMTypeInv, TxGuard, NEW s \in Session, NEW cmd \in Cmds, Dispatch(s, cmd)
  PROVE  TxGuard' /\ txState' = txState
<1>1. /\ txState' = txState /\ pair[s] \in Conn \cup {None}
      /\ \A t \in Session : route[t].pc = "idle"
      /\ txState \in [Conn -> TxState] /\ NoTx.state = "none"
  BY DEF Dispatch, LoopFree, OneEventLoop, vars, connVars, SMTypeInv, SMTypeOK, TypeOK, NoTx
<1>2. CASE NeedsRoute(s)
  <2>1. R("route", cmd) \in Route /\ R("route", cmd).pc = "route" /\ R("route", cmd).cand = {}
    BY DEF R, Route, RoutePc
  <2>2. route' = [route EXCEPT ![s] = R("route", cmd)]
    BY <1>2 DEF Dispatch
  <2> QED
    BY <1>1, <2>1, <2>2, TxGuardAt
<1>3. CASE ~NeedsRoute(s)
  <2> DEFINE r == [pc |-> "update", cmd |-> cmd, conn |-> pair[s], cand |-> {}, todo |-> {}]
  <2>1. pair[s] \in Conn /\ ~Foreign(s, pair[s])
    BY <1>1, <1>3 DEF NeedsRoute
  <2>2. r \in Route /\ r.pc = "update" /\ r.conn = pair[s] /\ r.cand = {}
    BY <2>1 DEF Route, RoutePc
  <2>3. [R("update", cmd) EXCEPT !.conn = pair[s]] = r
    BY DEF R
  <2> HIDE DEF r
  <2>4. route' = [route EXCEPT ![s] = r]
    BY <1>3, <2>3 DEF Dispatch
  <2>5. txState[pair[s]].state = "begin" => txState[pair[s]].owner = s
    BY <1>1, <2>1 DEF Foreign
  <2> QED
    BY <1>1, <2>2, <2>4, <2>5, TxGuardAt
<1> QED
  BY <1>2, <1>3

(* ForwardOn stores the transaction's new state.                            *)
LEMMA TxGuardForward ==
  ASSUME SMTypeInv, TxGuard, NEW s \in Session, ForwardOn(s)
  PROVE  /\ TxGuard'
         /\ \A c \in Conn : txState[c].state = "begin" /\ txState'[c] # NoTx
              => txState'[c].owner = txState[c].owner
<1>1. PICK c \in Conn : c = route[s].conn
  BY DEF ForwardOn, SMTypeInv, SMTypeOK
<1>2. PICK cmd \in Cmds : cmd = route[s].cmd
  BY DEF ForwardOn, SMTypeInv, HandlerHolds
<1>3. /\ txState \in [Conn -> TxState] /\ route \in [Session -> Route]
      /\ route' = [route EXCEPT ![s] = R("idle", None)]
      /\ txState[c].state = "begin" => txState[c].owner = s
  BY <1>1 DEF SMTypeInv, SMTypeOK, TypeOK, ForwardOn, TxGuard, MayForward
<1>4. UpdateTxnState(c, s, cmd)
  BY <1>1, <1>2 DEF ForwardOn, Forward
<1>5. /\ \A d \in Conn \ {c} : txState'[d] = txState[d]
      /\ txState'[c] = txState[c] \/ txState'[c].owner = s
  BY <1>3, <1>4 DEF UpdateTxnState
<1>6. R("idle", None).pc = "idle" /\ R("idle", None).cand = {}
  BY DEF R
<1>7. \A t \in Session : route'[t].pc = "idle" /\ route'[t].cand = {}
  BY <1>3, <1>6 DEF TxGuard, OneHandler, CandidatesFree, ForwardOn
<1>8. TxGuard'
  BY <1>7 DEF TxGuard, OneHandler, MayForward, CandidatesFree
<1> QED
  BY <1>3, <1>5, <1>8

LEMMA TxGuardNext ==
  ASSUME OneEventLoop, SMTypeInv, TxGuard, [SMNext]_smVars
  PROVE  /\ TxGuard'
         /\ \A c \in Conn : txState[c].state = "begin" /\ txState'[c] # NoTx
              => txState'[c].owner = txState[c].owner
<1> DEFINE Kept == \A c \in Conn : txState[c].state = "begin" /\ txState'[c] # NoTx
                     => txState'[c].owner = txState[c].owner
<1>1. ASSUME route' = route,
             \A d \in Conn : txState'[d] = txState[d] \/ txState'[d] = NoTx
      PROVE  TxGuard' /\ Kept
  BY <1>1, TxGuardLoses
<1>2. ASSUME NEW s \in Session, NEW cmd \in Cmds, Dispatch(s, cmd)
      PROVE  TxGuard' /\ Kept
  BY <1>2, TxGuardDispatch
<1>3. ASSUME NEW s \in Session, NEW cmd \in Cmds, NoAuth(s, cmd)
      PROVE  TxGuard' /\ Kept
  BY <1>1, <1>3 DEF NoAuth, Reject, connVars
<1>4. ASSUME NEW s \in Session, RouteFailed(s)
      PROVE  TxGuard' /\ Kept
  <2>1. /\ txState' = txState /\ route[s].pc # "idle"
        /\ route' = [route EXCEPT ![s] = R("idle", None)]
    BY <1>4 DEF RouteFailed, Reject, connVars
  <2>2. R("idle", None).pc = "idle" /\ R("idle", None).cand = {}
    BY DEF R
  <2>3. \A t \in Session : route'[t].pc = "idle" /\ route'[t].cand = {}
    BY <2>1, <2>2 DEF TxGuard, OneHandler, CandidatesFree, SMTypeInv, SMTypeOK
  <2>4. TxGuard'
    BY <2>3 DEF TxGuard, OneHandler, MayForward, CandidatesFree
  <2> QED
    BY <2>1, <2>4
<1>5. ASSUME NEW s \in Session, Handler(s)
      PROVE  TxGuard' /\ Kept
  BY <1>4, <1>5, TxGuardHandler, TxGuardForward DEF Handler
<1>6. ASSUME NEW s \in Session, OnClose(s)
      PROVE  TxGuard' /\ Kept
  BY <1>1, <1>6 DEF OnClose, CloseSession, connVars
<1>7. ASSUME NEW s \in Session, Enqueue(s) \/ ReplyLoop(s), UNCHANGED <<pair, route>>
      PROVE  TxGuard' /\ Kept
  BY <1>1, <1>7 DEF Enqueue, ReplyLoop, connVars
<1>8. ASSUME NEW c \in Conn, ConnNext(c), UNCHANGED <<pair, route>>
      PROVE  TxGuard' /\ Kept
  BY <1>1, <1>8, ConnKeepsTx
<1>9. ASSUME UNCHANGED smVars
      PROVE  TxGuard' /\ Kept
  BY <1>1, <1>9 DEF smVars, vars, connVars
<1> HIDE DEF Kept
<1>10. TxGuard' /\ Kept
  BY <1>2, <1>3, <1>5, <1>6, <1>7, <1>8, <1>9 DEF SMNext
<1> QED
  BY <1>10 DEF Kept

(* With one event loop, a transaction that a session has begun on a         *)
(* connection is never recorded for another session, whichever goroutine    *)
(* clears a state between the loads of Forward, RouteRequest and            *)
(* GetNoTxConn and whatever fails.                                          *)
THEOREM TxKeptByOwner ==
  ASSUME OneEventLoop
  PROVE  SMSpec => TxNotTakenOver
<1>1. SMInit => SMTypeInv /\ TxGuard
  BY SMTypeInit, TxGuardInit
<1>2. SMTypeInv /\ TxGuard /\ [SMNext]_smVars => (SMTypeInv /\ TxGuard)'
  BY SMTypeNext, TxGuardNext
<1>3. SMTypeInv /\ TxGuard /\ [SMNext]_smVars
        => [\A c \in Conn : txState[c].state = "begin" /\ txState'[c] # NoTx
              => txState'[c].owner = txState[c].owner]_txState
  BY TxGuardNext
<1> QED
  BY <1>1, <1>2, <1>3, PTL DEF SMSpec, TxNotTakenOver

----------------------------------------------------------------------------
(* The order of replies, on connections that carry no transaction and are   *)
(* neither closed nor lost.                                                 *)

(* The entries of session s in a line q carry the numbers lo + 1 to hi,     *)
(* each once and in ascending order.                                        *)
Row(q, s, lo, hi) ==
  /\ lo <= hi
  /\ \A i \in 1..Len(q) : q[i].session = s => lo < q[i].n /\ q[i].n <= hi
  /\ \A i, j \in 1..Len(q) :
       i < j /\ q[i].session = s /\ q[j].session = s => q[i].n < q[j].n
  /\ \A n \in (lo + 1)..hi : \E i \in 1..Len(q) : q[i].session = s /\ q[i].n = n

Ident == [session: Session, n: 1..MaxReqs]

LEMMA IdentNumber ==
  ASSUME NEW q \in Seq(Ident)
  PROVE  \A i \in 1..Len(q) : q[i] \in Ident /\ q[i].n \in Nat
<1>1. \A x \in Ident : x.n \in Nat
  BY SessionAssumption DEF Ident
<1>2. \A i \in 1..Len(q) : q[i] \in Ident
  BY ElementOfSeq
<1> QED
  BY <1>1, <1>2

LEMMA RowEmpty ==
  ASSUME NEW s, NEW k \in Nat
  PROVE  Row(<< >>, s, k, k)
  BY DEF Row

(* A line without an entry of s.                                            *)
LEMMA RowNone ==
  ASSUME NEW q \in Seq(Ident), NEW s, NEW k \in Nat, Row(q, s, 0, 0)
  PROVE  Row(q, s, k, k)
<1>1. \A i \in 1..Len(q) : q[i].n \in Nat
  BY IdentNumber
<1>2. \A i \in 1..Len(q) : q[i].session # s
  BY <1>1 DEF Row
<1> QED
  BY <1>2 DEF Row

LEMMA RowAppendOwn ==
  ASSUME NEW q \in Seq(Ident), NEW s, NEW lo \in Nat, NEW hi \in Nat, Row(q, s, lo, hi),
         NEW e \in Ident, e.session = s, e.n = hi + 1
  PROVE  Row(Append(q, e), s, lo, hi + 1)
<1> DEFINE r == Append(q, e)
           k == Len(q)
<1>1. /\ k \in Nat /\ Len(r) = k + 1
      /\ \A i \in 1..k : r[i] = q[i] /\ q[i].n \in Nat
      /\ r[k + 1] = e
  BY IdentNumber, AppendProperties, LenProperties
<1>2. /\ lo <= hi
      /\ \A i \in 1..k : q[i].session = s => lo < q[i].n /\ q[i].n <= hi
      /\ \A i, j \in 1..k :
           i < j /\ q[i].session = s /\ q[j].session = s => q[i].n < q[j].n
      /\ \A n \in (lo + 1)..hi : \E i \in 1..k : q[i].session = s /\ q[i].n = n
  BY DEF Row
<1> HIDE DEF r, k
<1>3. \A i \in 1..(k + 1) : r[i].session = s => lo < r[i].n /\ r[i].n <= hi + 1
  <2> SUFFICES ASSUME NEW i \in 1..(k + 1), r[i].session = s
               PROVE  lo < r[i].n /\ r[i].n <= hi + 1
    OBVIOUS
  <2>1. CASE i = k + 1
    BY <1>1, <1>2, <2>1
  <2>2. CASE i \in 1..k
    <3>1. r[i] = q[i] /\ q[i].n \in Nat
      BY <1>1, <2>2
    <3>2. lo < q[i].n /\ q[i].n <= hi
      BY <1>2, <2>2, <3>1
    <3> QED
      BY <3>1, <3>2
  <2> QED
    BY <1>1, <2>1, <2>2
<1>4. \A i, j \in 1..(k + 1) :
         i < j /\ r[i].session = s /\ r[j].session = s => r[i].n < r[j].n
  <2> SUFFICES ASSUME NEW i \in 1..(k + 1), NEW j \in 1..(k + 1),
                      i < j, r[i].session = s, r[j].session = s
               PROVE  r[i].n < r[j].n
    OBVIOUS
  <2>1. i \in 1..k
    BY <1>1
  <2>2. CASE j = k + 1
    BY <1>1, <1>2, <2>1, <2>2
  <2>3. CASE j \in 1..k
    BY <1>1, <1>2, <2>1, <2>3
  <2> QED
    BY <1>1, <2>2, <2>3
<1>5. ASSUME NEW n \in (lo + 1)..(hi + 1)
      PROVE  \E i \in 1..(k + 1) : r[i].session = s /\ r[i].n = n
  <2>1. CASE n = hi + 1
    BY <1>1, <2>1
  <2>2. CASE n \in (lo + 1)..hi
    <3>1. PICK i \in 1..k : q[i].session = s /\ q[i].n = n
      BY <1>2, <2>2
    <3>2. i \in 1..(k + 1) /\ r[i] = q[i]
      BY <1>1
    <3> QED
      BY <3>1, <3>2
  <2> QED
    BY <2>1, <2>2
<1> QED
  <2>1. hi + 1 \in Nat /\ lo <= hi + 1
    BY <1>2
  <2> QED
    BY <1>1, <2>1, <1>3, <1>4, <1>5 DEF Row, r

LEMMA RowAppendOther ==
  ASSUME NEW q \in Seq(Ident), NEW s, NEW lo \in Nat, NEW hi \in Nat, Row(q, s, lo, hi),
         NEW e \in Ident, e.session # s
  PROVE  Row(Append(q, e), s, lo, hi)
<1> DEFINE r == Append(q, e)
           k == Len(q)
<1>1. /\ k \in Nat /\ Len(r) = k + 1
      /\ \A i \in 1..k : r[i] = q[i]
      /\ r[k + 1] = e
  BY AppendProperties, LenProperties
<1>2. /\ lo <= hi
      /\ \A i \in 1..k : q[i].session = s => lo < q[i].n /\ q[i].n <= hi
      /\ \A i, j \in 1..k :
           i < j /\ q[i].session = s /\ q[j].session = s => q[i].n < q[j].n
      /\ \A n \in (lo + 1)..hi : \E i \in 1..k : q[i].session = s /\ q[i].n = n
  BY DEF Row
<1> HIDE DEF r, k
<1>3. \A i \in 1..(k + 1) : r[i].session = s => i \in 1..k
  BY <1>1
<1>4. ASSUME NEW n \in (lo + 1)..hi
      PROVE  \E i \in 1..(k + 1) : r[i].session = s /\ r[i].n = n
  <2>1. PICK i \in 1..k : q[i].session = s /\ q[i].n = n
    BY <1>2
  <2>2. i \in 1..(k + 1) /\ r[i] = q[i]
    BY <1>1
  <2> QED
    BY <2>1, <2>2
<1> QED
  BY <1>1, <1>2, <1>3, <1>4 DEF Row, r

(* The first entry of s in a line is the one that is due.                   *)
LEMMA RowTailOwn ==
  ASSUME NEW q \in Seq(Ident), NEW s, NEW lo \in Nat, NEW hi \in Nat, Row(q, s, lo, hi),
         q # << >>, Head(q).session = s
  PROVE  Head(q).n = lo + 1 /\ Row(Tail(q), s, lo + 1, hi)
<1> DEFINE r == Tail(q)
           k == Len(q)
<1>1. /\ k \in Nat /\ k > 0 /\ Len(r) = k - 1
      /\ \A i \in 1..(k - 1) : r[i] = q[i + 1]
      /\ Head(q) = q[1]
      /\ \A i \in 1..k : q[i].n \in Nat
  BY IdentNumber, HeadTailProperties, LenProperties, EmptySeq
<1>2. /\ lo <= hi
      /\ \A i \in 1..k : q[i].session = s => lo < q[i].n /\ q[i].n <= hi
      /\ \A i, j \in 1..k :
           i < j /\ q[i].session = s /\ q[j].session = s => q[i].n < q[j].n
      /\ \A n \in (lo + 1)..hi : \E i \in 1..k : q[i].session = s /\ q[i].n = n
  BY DEF Row
<1> HIDE DEF r, k
<1>3. q[1].n = lo + 1
  <2>1. 1 \in 1..k /\ q[1].session = s /\ lo < q[1].n /\ q[1].n <= hi
    BY <1>1, <1>2
  <2>2. lo + 1 \in (lo + 1)..hi
    BY <1>1, <2>1
  <2>3. PICK i \in 1..k : q[i].session = s /\ q[i].n = lo + 1
    BY <1>2, <2>2
  <2>4. i = 1 \/ q[1].n < q[i].n
    BY <1>1, <1>2, <2>1, <2>3
  <2> QED
    BY <1>1, <2>1, <2>3, <2>4
<1>4. lo + 1 <= hi
  BY <1>1, <1>2, <1>3
<1>5. \A i \in 1..(k - 1) : r[i].session = s => lo + 1 < r[i].n /\ r[i].n <= hi
  <2> SUFFICES ASSUME NEW i \in 1..(k - 1), r[i].session = s
               PROVE  lo + 1 < r[i].n /\ r[i].n <= hi
    OBVIOUS
  <2>1. 1 \in 1..k /\ i + 1 \in 1..k /\ r[i] = q[i + 1] /\ 1 < i + 1
    BY <1>1
  <2> QED
    BY <1>1, <1>2, <1>3, <2>1
<1>6. \A i, j \in 1..(k - 1) :
         i < j /\ r[i].session = s /\ r[j].session = s => r[i].n < r[j].n
  <2> SUFFICES ASSUME NEW i \in 1..(k - 1), NEW j \in 1..(k - 1),
                      i < j, r[i].session = s, r[j].session = s
               PROVE  r[i].n < r[j].n
    OBVIOUS
  <2>1. i + 1 \in 1..k /\ j + 1 \in 1..k /\ i + 1 < j + 1 /\ r[i] = q[i + 1] /\ r[j] = q[j + 1]
    BY <1>1
  <2> QED
    BY <1>2, <2>1
<1>7. ASSUME NEW n \in (lo + 1 + 1)..hi
      PROVE  \E i \in 1..(k - 1) : r[i].session = s /\ r[i].n = n
  <2>1. PICK i \in 1..k : q[i].session = s /\ q[i].n = n
    BY <1>2
  <2>2. i # 1
    BY <1>3, <2>1
  <2>3. i - 1 \in 1..(k - 1) /\ r[i - 1] = q[i]
    BY <1>1, <2>2
  <2> QED
    BY <2>1, <2>3
<1> QED
  BY <1>1, <1>3, <1>4, <1>5, <1>6, <1>7 DEF Row, r

LEMMA RowTailOther ==
  ASSUME NEW q \in Seq(Ident), NEW s, NEW lo \in Nat, NEW hi \in Nat, Row(q, s, lo, hi),
         q # << >>, Head(q).session # s
  PROVE  Row(Tail(q), s, lo, hi)
<1> DEFINE r == Tail(q)
           k == Len(q)
<1>1. /\ k \in Nat /\ k > 0 /\ Len(r) = k - 1
      /\ \A i \in 1..(k - 1) : r[i] = q[i + 1]
      /\ Head(q) = q[1]
  BY HeadTailProperties, LenProperties, EmptySeq
<1>2. /\ lo <= hi
      /\ \A i \in 1..k : q[i].session = s => lo < q[i].n /\ q[i].n <= hi
      /\ \A i, j \in 1..k :
           i < j /\ q[i].session = s /\ q[j].session = s => q[i].n < q[j].n
      /\ \A n \in (lo + 1)..hi : \E i \in 1..k : q[i].session = s /\ q[i].n = n
  BY DEF Row
<1> HIDE DEF r, k
<1>3. \A i \in 1..(k - 1) : r[i].session = s => lo < r[i].n /\ r[i].n <= hi
  <2> SUFFICES ASSUME NEW i \in 1..(k - 1), r[i].session = s
               PROVE  lo < r[i].n /\ r[i].n <= hi
    OBVIOUS
  <2>1. i + 1 \in 1..k /\ r[i] = q[i + 1]
    BY <1>1
  <2> QED
    BY <1>2, <2>1
<1>4. \A i, j \in 1..(k - 1) :
         i < j /\ r[i].session = s /\ r[j].session = s => r[i].n < r[j].n
  <2> SUFFICES ASSUME NEW i \in 1..(k - 1), NEW j \in 1..(k - 1),
                      i < j, r[i].session = s, r[j].session = s
               PROVE  r[i].n < r[j].n
    OBVIOUS
  <2>1. i + 1 \in 1..k /\ j + 1 \in 1..k /\ i + 1 < j + 1 /\ r[i] = q[i + 1] /\ r[j] = q[j + 1]
    BY <1>1
  <2> QED
    BY <1>2, <2>1
<1>5. ASSUME NEW n \in (lo + 1)..hi
      PROVE  \E i \in 1..(k - 1) : r[i].session = s /\ r[i].n = n
  <2>1. PICK i \in 1..k : q[i].session = s /\ q[i].n = n
    BY <1>2
  <2>2. i # 1
    BY <1>1, <2>1
  <2>3. i - 1 \in 1..(k - 1) /\ r[i - 1] = q[i]
    BY <1>1, <2>2
  <2> QED
    BY <2>1, <2>3
<1> QED
  BY <1>1, <1>2, <1>3, <1>4, <1>5 DEF Row, r

(* The replies to s that are written or queued, and the requests of s that  *)
(* have been enqueued or rejected.                                          *)
Replied(s) == Len(rcvd[s]) + Len(OutQ[s])
Accepted(s) == IF fwd[s] = None THEN sent[s] ELSE sent[s] - 1

(* The replies queued for s continue those written to it.                   *)
Numbered(s) ==
  \A j \in 1..Len(OutQ[s]) :
    LET r == OutQ[s][j].req IN
      r # None /\ r.session = s /\ r.n = Len(rcvd[s]) + j

(* The requests of s that have no reply yet are all in the line of the      *)
(* connection that s is bound to.                                           *)
InLines(s) ==
  /\ pair[s] # None => Row(Line[pair[s]], s, Replied(s), Accepted(s))
  /\ \A c \in Conn : c # pair[s] => Row(Line[c], s, 0, 0)

(* Before it is bound, everything s has sent was rejected on the spot.      *)
Unbound(s) ==
  pair[s] = None => fwd[s] = None /\ OutQ[s] = << >> /\ Len(rcvd[s]) = sent[s]

(* A request on its way into Enqueue is the last that s sent.               *)
Leaving(s) == fwd[s] # None => fwd[s].conn = pair[s] /\ fwd[s].ctx.n = sent[s]

(* A session is routed once, before its first request is enqueued, and the  *)
(* first command that gets as far as a route is AUTH.                       *)
Routing(s) ==
  /\ route[s].pc \in {"idle", "route", "locate", "error", "update"}
  /\ route[s].pc \in {"route", "locate", "error"} => pair[s] = None
  /\ route[s].pc # "idle" => fwd[s] = None
  /\ authInfo[s] = "none" /\ route[s].pc = "idle" => pair[s] = None
  /\ authInfo[s] = "none" /\ route[s].pc # "idle" => route[s].cmd = "auth"

InOrder(s) ==
  ~sessionQuit[s] => Numbered(s) /\ InLines(s) /\ Unbound(s) /\ Leaving(s) /\ Routing(s)

ReadInOrder(s) ==
  \A i \in 1..Len(rcvd[s]) :
    rcvd[s][i].req # None /\ rcvd[s][i].req.session = s /\ rcvd[s][i].req.n = i

OwnRequest(s) == fwd[s] # None => fwd[s].ctx.session = s

Orderly(s) == InOrder(s) /\ ReadInOrder(s) /\ OwnRequest(s)
OrderInv == SMTypeInv /\ Plain /\ \A s \in Session : Orderly(s)

LEMMA OrderFacts ==
  ASSUME OrderInv
  PROVE  /\ TypeInv /\ Plain /\ SMTypeInv
         /\ \A c \in Conn : Line[c] \in Seq(Ident)
         /\ \A s \in Session :
              /\ Orderly(s)
              /\ OutQ[s] \in Seq(ResponseContext) /\ rcvd[s] \in Seq(ResponseContext)
              /\ Len(OutQ[s]) \in Nat /\ Len(rcvd[s]) \in Nat /\ sent[s] \in Nat
              /\ pair[s] \in Conn \cup {None} /\ None \notin Conn
              /\ route[s] \in Route
         /\ OutQ \in [Session -> Seq(ResponseContext)]
         /\ rcvd \in [Session -> Seq(ResponseContext)]
         /\ fwd \in [Session -> {None} \cup [conn: Conn, ctx: RequestContext]]
<1>1. TypeInv /\ Plain /\ SMTypeInv
  BY DEF OrderInv, SMTypeInv, SMTypeOK, TypeInv
<1>2. ASSUME NEW c \in Conn
      PROVE  Line[c] \in Seq(Ident)
  <2>1. InLine(c) \in Seq(RequestContext)
    BY <1>1, LineParts
  <2>2. \A i \in 1..Len(InLine(c)) : Id(InLine(c)[i]) \in Ident
    <3>1. \A r \in RequestContext : Id(r) \in Ident
      BY DEF Id, Ident, RequestContext
    <3> QED
      BY <2>1, <3>1, ElementOfSeq
  <2>3. Len(InLine(c)) \in Nat
    BY <2>1, LenProperties
  <2> QED
    BY <2>2, <2>3 DEF Line, Ids
<1>3. /\ OutQ \in [Session -> Seq(ResponseContext)]
      /\ rcvd \in [Session -> Seq(ResponseContext)]
      /\ sent \in [Session -> Nat]
      /\ fwd \in [Session -> {None} \cup [conn: Conn, ctx: RequestContext]]
      /\ pair \in [Session -> Conn \cup {None}]
      /\ route \in [Session -> Route]
  BY <1>1, SessionAssumption DEF SMTypeInv, SMTypeOK, TypeOK, SessionTypeOK
<1> QED
  BY <1>1, <1>2, <1>3, ManagerAssumption, LenProperties DEF OrderInv

(* A step that leaves the lines alone, and of s at most its route.          *)
LEMMA OrderSame ==
  ASSUME NEW s \in Session, Orderly(s),
         UNCHANGED <<Line, OutQ[s], rcvd[s], sent[s], fwd[s], pair[s], sessionQuit[s]>>,
         ~sessionQuit[s] => Routing(s)'
  PROVE  Orderly(s)'
<1>1. /\ Numbered(s)' = Numbered(s)
      /\ InLines(s)' = InLines(s)
      /\ Unbound(s)' = Unbound(s)
      /\ Leaving(s)' = Leaving(s)
      /\ ReadInOrder(s)' = ReadInOrder(s)
      /\ OwnRequest(s)' = OwnRequest(s)
  BY DEF Numbered, InLines, Unbound, Leaving, Replied, Accepted, ReadInOrder, OwnRequest
<1> QED
  BY <1>1 DEF Orderly, InOrder

(* The same for a step that leaves the route of s alone too.                *)
LEMMA OrderFrame ==
  ASSUME NEW s \in Session, Orderly(s),
         UNCHANGED <<Line, OutQ[s], rcvd[s], sent[s], fwd[s], pair[s], sessionQuit[s],
                     route[s], authInfo[s]>>
  PROVE  Orderly(s)'
<1>1. ~sessionQuit[s] => Routing(s)'
  BY DEF Orderly, InOrder, Routing
<1> QED
  BY <1>1, OrderSame

(* Enqueue puts a request of t at the end of the line t is bound to.        *)
LEMMA OrderEnqueue ==
  ASSUME OrderInv, NEW t \in Session, Enqueue(t), UNCHANGED <<pair, route>>, NEW s \in Session
  PROVE  Orderly(s)'
<1>0. PICK c \in Conn, r \in RequestContext : c = fwd[t].conn /\ r = fwd[t].ctx
  BY OrderFacts, MuxEnqueue
<1>1. /\ Line' = [Line EXCEPT ![c] = Append(Line[c], Id(r))]
      /\ r.session = t /\ fwd[t] # None
  BY <1>0, OrderFacts, MuxEnqueue DEF Accepts, Enqueue, Orderly, OwnRequest
<1>2. /\ UNCHANGED <<OutQ, rcvd, sent, sessionQuit, authInfo>>
      /\ fwd' = [fwd EXCEPT ![t] = None]
  BY DEF Enqueue, sessionVars
<1>3. /\ Line'[c] = Append(Line[c], Id(r))
      /\ \A d \in Conn \ {c} : Line'[d] = Line[d]
      /\ fwd'[t] = None /\ \A u \in Session \ {t} : fwd'[u] = fwd[u]
  BY <1>1, <1>2, OrderFacts DEF Line
<1>4. Id(r) \in Ident /\ Id(r).session = t /\ Id(r).n = r.n
  BY <1>1 DEF Id, Ident, RequestContext
<1>5. ReadInOrder(s)' /\ OwnRequest(s)'
  <2>1. Orderly(s) /\ ReadInOrder(s) /\ OwnRequest(s)
    BY OrderFacts DEF Orderly
  <2> QED
    BY <1>2, <1>3, <2>1 DEF ReadInOrder, OwnRequest
<1>6. ASSUME ~sessionQuit[s]
      PROVE  (Numbered(s) /\ InLines(s) /\ Unbound(s) /\ Leaving(s) /\ Routing(s))'
  <2>1. Numbered(s) /\ InLines(s) /\ Unbound(s) /\ Leaving(s) /\ Routing(s)
    BY <1>6, OrderFacts DEF Orderly, InOrder
  <2>2. Numbered(s)' /\ Unbound(s)' /\ Leaving(s)' /\ Routing(s)'
    BY <1>2, <1>3, <2>1 DEF Numbered, Unbound, Leaving, Routing
  <2>3. Replied(s)' = Replied(s) /\ Replied(s) \in Nat /\ sent[s] \in Nat
    BY <1>2, OrderFacts DEF Replied
  <2>4. CASE s = t
    <3>1. c = pair[s] /\ r.n = sent[s] /\ c # None
      BY <1>0, <1>1, <2>1, <2>4, OrderFacts DEF Leaving
    <3>2. Accepted(s) = sent[s] - 1 /\ Accepted(s)' = sent[s]
      BY <1>1, <1>2, <1>3, <2>4 DEF Accepted
    <3>3. Row(Line[c], s, Replied(s), Accepted(s))
      BY <2>1, <3>1 DEF InLines
    <3>4. sent[s] - 1 \in Nat
      BY <2>3, <3>2, <3>3 DEF Row
    <3>5. Row(Append(Line[c], Id(r)), s, Replied(s), (sent[s] - 1) + 1)
      BY <1>4, <2>3, <2>4, <3>1, <3>2, <3>3, <3>4, OrderFacts, RowAppendOwn
    <3>6. Row(Line'[c], s, Replied(s)', Accepted(s)')
      BY <1>3, <2>3, <3>2, <3>5
    <3>7. \A d \in Conn : d # c => Row(Line'[d], s, 0, 0)
      BY <1>3, <2>1, <3>1 DEF InLines
    <3> QED
      BY <2>2, <3>1, <3>6, <3>7 DEF InLines
  <2>5. CASE s # t
    <3>1. Accepted(s)' = Accepted(s)
      BY <1>2, <1>3, <2>5 DEF Accepted
    <3>2. \A d \in Conn : \A lo, hi \in Nat : Row(Line[d], s, lo, hi) => Row(Line'[d], s, lo, hi)
      <4> SUFFICES ASSUME NEW d \in Conn, NEW lo \in Nat, NEW hi \in Nat, Row(Line[d], s, lo, hi)
                   PROVE  Row(Line'[d], s, lo, hi)
        OBVIOUS
      <4>1. CASE d = c
        <5>1. Line[c] \in Seq(Ident) /\ Id(r).session # s
          BY <1>4, <2>5, OrderFacts
        <5>2. Row(Append(Line[c], Id(r)), s, lo, hi)
          BY <1>4, <4>1, <5>1, RowAppendOther
        <5> QED
          BY <1>3, <4>1, <5>2
      <4> QED
        BY <1>3, <4>1
    <3>3. \A d \in Conn : d # pair[s] => Row(Line'[d], s, 0, 0)
      BY <2>1, <3>2 DEF InLines
    <3>4. ASSUME pair[s] # None
          PROVE  Row(Line'[pair[s]], s, Replied(s), Accepted(s))
      <4>1. pair[s] \in Conn /\ Row(Line[pair[s]], s, Replied(s), Accepted(s))
        BY <2>1, <3>4, OrderFacts DEF InLines
      <4>2. Accepted(s) \in Nat
        BY <2>3, <4>1 DEF Row, Accepted
      <4> QED
        BY <2>3, <3>2, <4>1, <4>2
    <3> QED
      BY <2>2, <2>3, <3>1, <3>3, <3>4 DEF InLines
  <2> QED
    BY <2>4, <2>5
<1> QED
  BY <1>2, <1>5, <1>6 DEF Orderly, InOrder

(* A delivery takes the request at the front of a line, which is the oldest *)
(* one of its session that has no reply.                                    *)
LEMMA OrderDeliver ==
  ASSUME OrderInv, NEW c \in Conn, ReadLoopDeliver(c), UNCHANGED <<pair, route>>,
         NEW s \in Session
  PROVE  Orderly(s)'
<1>0. PICK r \in RequestContext : r = rl[c].pkt
  BY OrderFacts DEF ReadLoopDeliver, Plain, InHand, TypeInv, TypeOK, ReadLoopState
<1> DEFINE rsp == [req |-> r, err |-> r = None, callback |-> rl[c].callback]
<1>1. /\ Line[c] # << >> /\ Head(Line[c]) = Id(r) /\ Line' = [Line EXCEPT ![c] = Tail(Line[c])]
  BY <1>0, OrderFacts, MuxDeliver DEF Answers
<1>2. /\ UNCHANGED <<rcvd, sent, fwd, sessionQuit, authInfo>>
      /\ r.session \in Session
      /\ OutQ' = [OutQ EXCEPT ![r.session] = Append(OutQ[r.session], rsp)]
  <2>1. rl[c].to = r.session
    BY <1>0, OrderFacts DEF ReadLoopDeliver, Plain, InHand
  <2> QED
    BY <1>0, <2>1 DEF ReadLoopDeliver, SendOutQ, RequestContext
<1>3. rsp \in ResponseContext /\ rsp.req = r /\ r # None
  BY <1>0, SessionAssumption, OrderFacts DEF ResponseContext, TypeInv, TypeOK, ReadLoopState
<1> HIDE DEF rsp
<1>4. /\ Line'[c] = Tail(Line[c])
      /\ \A d \in Conn \ {c} : Line'[d] = Line[d]
      /\ OutQ'[r.session] = Append(OutQ[r.session], rsp)
      /\ \A u \in Session \ {r.session} : OutQ'[u] = OutQ[u]
  BY <1>1, <1>2, OrderFacts DEF Line
<1>5. Id(r).session = r.session /\ Id(r).n = r.n
  BY DEF Id
<1>6. UNCHANGED <<rcvd, sent, fwd, sessionQuit, authInfo>>
  BY <1>2
<1>7. ReadInOrder(s)' /\ OwnRequest(s)'
  <2>1. Orderly(s) /\ ReadInOrder(s) /\ OwnRequest(s)
    BY OrderFacts DEF Orderly
  <2> QED
    BY <1>6, <2>1 DEF ReadInOrder, OwnRequest
<1>8. ASSUME ~sessionQuit[s]
      PROVE  (Numbered(s) /\ InLines(s) /\ Unbound(s) /\ Leaving(s) /\ Routing(s))'
  <2>1. Numbered(s) /\ InLines(s) /\ Unbound(s) /\ Leaving(s) /\ Routing(s)
    BY <1>8, OrderFacts DEF Orderly, InOrder
  <2>2. Leaving(s)' /\ Routing(s)'
    BY <1>6, <2>1 DEF Leaving, Routing
  <2>3. Accepted(s)' = Accepted(s) /\ Replied(s) \in Nat /\ sent[s] \in Nat /\ Line[c] \in Seq(Ident)
    BY <1>6, OrderFacts DEF Accepted, Replied
  <2>4. pair[s] # None => pair[s] \in Conn /\ Accepted(s) \in Nat
    BY <2>1, <2>3, OrderFacts DEF InLines, Row, Accepted
  <2>5. CASE s = r.session
    <3>1. c = pair[s]
      <4> SUFFICES ASSUME c # pair[s] PROVE FALSE
        OBVIOUS
      <4>1. Row(Line[c], s, 0, 0)
        BY <2>1 DEF InLines
      <4>2. Row(Tail(Line[c]), s, 0 + 1, 0)
        BY <1>1, <1>5, <2>3, <2>5, <4>1, RowTailOwn
      <4> QED
        BY <4>2 DEF Row
    <3>2. Row(Line[c], s, Replied(s), Accepted(s)) /\ pair[s] # None
      BY <2>1, <3>1, OrderFacts DEF InLines
    <3>3. r.n = Replied(s) + 1 /\ Row(Tail(Line[c]), s, Replied(s) + 1, Accepted(s))
      BY <1>1, <1>5, <2>3, <2>4, <2>5, <3>2, RowTailOwn
    <3>4. /\ Len(OutQ'[s]) = Len(OutQ[s]) + 1
          /\ \A j \in 1..Len(OutQ[s]) : OutQ'[s][j] = OutQ[s][j]
          /\ OutQ'[s][Len(OutQ[s]) + 1] = rsp
          /\ Len(OutQ[s]) \in Nat /\ Len(rcvd[s]) \in Nat
      BY <1>3, <1>4, <2>5, OrderFacts, AppendProperties
    <3>5. Replied(s)' = Replied(s) + 1 /\ Replied(s) + 1 = Len(rcvd[s]) + (Len(OutQ[s]) + 1)
      <4>1. Replied(s)' = Len(rcvd[s]) + (Len(OutQ[s]) + 1)
        BY <1>6, <3>4 DEF Replied
      <4>2. Replied(s) = Len(rcvd[s]) + Len(OutQ[s])
        BY DEF Replied
      <4> DEFINE m == Len(rcvd[s])
                 k == Len(OutQ[s])
                 x == Replied(s)
      <4>3. m \in Nat /\ k \in Nat /\ x = m + k /\ Replied(s)' = m + (k + 1)
        BY <4>1, <4>2, OrderFacts
      <4> HIDE DEF m, k, x
      <4>4. m + (k + 1) = x + 1
        BY <4>3
      <4> QED
        BY <4>3, <4>4 DEF m, k, x
    <3>6. Numbered(s)'
      <4> SUFFICES ASSUME NEW j \in 1..(Len(OutQ[s]) + 1)
                   PROVE  /\ OutQ'[s][j].req # None /\ OutQ'[s][j].req.session = s
                          /\ OutQ'[s][j].req.n = Len(rcvd[s]) + j
        BY <1>6, <3>4 DEF Numbered
      <4>1. CASE j \in 1..Len(OutQ[s])
        BY <2>1, <3>4, <4>1 DEF Numbered
      <4>2. CASE j = Len(OutQ[s]) + 1
        BY <1>3, <2>5, <3>3, <3>4, <3>5, <4>2
      <4> QED
        BY <3>4, <4>1, <4>2
    <3>7. InLines(s)'
      <4>1. Row(Line'[pair[s]], s, Replied(s)', Accepted(s)')
        BY <1>4, <2>3, <3>1, <3>3, <3>5
      <4>2. \A d \in Conn : d # pair[s] => Row(Line'[d], s, 0, 0)
        BY <1>4, <2>1, <3>1 DEF InLines
      <4> QED
        BY <4>1, <4>2 DEF InLines
    <3>8. Unbound(s)'
      BY <3>2 DEF Unbound
    <3> QED
      BY <2>2, <3>6, <3>7, <3>8
  <2>6. CASE s # r.session
    <3>1. OutQ'[s] = OutQ[s]
      BY <1>4, <2>6
    <3>2. Numbered(s)' /\ Unbound(s)' /\ Replied(s)' = Replied(s)
      BY <1>6, <2>1, <3>1 DEF Numbered, Unbound, Replied
    <3>3. \A d \in Conn : \A lo, hi \in Nat : Row(Line[d], s, lo, hi) => Row(Line'[d], s, lo, hi)
      BY <1>1, <1>4, <1>5, <2>6, OrderFacts, RowTailOther
    <3>4. \A d \in Conn : d # pair[s] => Row(Line'[d], s, 0, 0)
      BY <2>1, <3>3 DEF InLines
    <3>5. pair[s] # None => Row(Line'[pair[s]], s, Replied(s), Accepted(s))
      BY <2>1, <2>3, <2>4, <3>3 DEF InLines
    <3> QED
      BY <2>2, <2>3, <3>2, <3>4, <3>5 DEF InLines
  <2> QED
    BY <2>5, <2>6
<1> QED
  BY <1>6, <1>7, <1>8 DEF Orderly, InOrder

(* The ReplyLoop of s moves the oldest queued reply to the client.          *)
LEMMA OrderReplyLoop ==
  ASSUME OrderInv, NEW t \in Session, ReplyLoop(t), UNCHANGED <<pair, route>>, NEW s \in Session
  PROVE  Orderly(s)'
<1>1. UNCHANGED <<sent, fwd, sessionQuit, Line>>
  BY DEF ReplyLoop, ReplyLoopWrite, ReplyLoopQuit, connVars, loopVars, Line, InLine
<1>2. Orderly(s) /\ OwnRequest(s)'
  BY <1>1, OrderFacts DEF Orderly, OwnRequest
<1>3. CASE s # t \/ sessionQuit[s]
  <2>1. rcvd'[s] = rcvd[s] /\ (s # t => OutQ'[s] = OutQ[s] /\ authInfo'[s] = authInfo[s])
    BY <1>3, OrderFacts
    DEF ReplyLoop, ReplyLoopWrite, ReplyLoopQuit, TypeInv, TypeOK, SessionTypeOK
  <2>2. CASE sessionQuit[s]
    BY <1>1, <1>2, <2>1, <2>2 DEF Orderly, InOrder, ReadInOrder
  <2>3. CASE s # t
    BY <1>1, <1>2, <2>1, <2>3, OrderFrame
  <2> QED
    BY <1>3, <2>2, <2>3
<1>4. CASE s = t /\ ~sessionQuit[s]
  <2>0. /\ Numbered(s) /\ InLines(s) /\ Unbound(s) /\ Leaving(s) /\ Routing(s)
        /\ ReadInOrder(s)
    BY <1>2, <1>4 DEF Orderly, InOrder
  <2> DEFINE rsp == Head(OutQ[s])
  <2>1. /\ OutQ[s] # << >>
        /\ OutQ' = [OutQ EXCEPT ![s] = Tail(OutQ[s])]
        /\ rcvd' = [rcvd EXCEPT ![s] = Append(rcvd[s], rsp)]
        /\ authInfo' = IF rsp.callback = "none" THEN authInfo
                       ELSE [authInfo EXCEPT ![s] = rsp.callback]
    BY <1>4 DEF ReplyLoop, ReplyLoopWrite, ReplyLoopQuit
  <2>2. OutQ'[s] = Tail(OutQ[s]) /\ rcvd'[s] = Append(rcvd[s], rsp)
    BY <2>1, OrderFacts
  <2>3. authInfo'[s] = "none" => authInfo[s] = "none"
    BY <2>1, OrderFacts DEF TypeInv, TypeOK, SessionTypeOK
  <2>4. rsp \in ResponseContext /\ OutQ[s] \in Seq(ResponseContext) /\ rcvd[s] \in Seq(ResponseContext)
    BY <2>1, OrderFacts, HeadTailProperties
  <2> DEFINE k == Len(OutQ[s])
             m == Len(rcvd[s])
  <2>5. /\ k \in Nat /\ k > 0 /\ m \in Nat
        /\ Len(OutQ'[s]) = k - 1 /\ \A j \in 1..(k - 1) : OutQ'[s][j] = OutQ[s][j + 1]
        /\ rsp = OutQ[s][1]
    <3>1. OutQ[s] # << >>
      BY <2>1
    <3> QED
      BY <2>2, <2>4, <3>1, HeadTailProperties, LenProperties, EmptySeq
  <2>6. /\ Len(rcvd'[s]) = m + 1 /\ rcvd'[s][m + 1] = rsp
        /\ \A j \in 1..m : rcvd'[s][j] = rcvd[s][j]
    <3> HIDE DEF rsp
    <3> QED
      BY <2>2, <2>4, AppendProperties
  <2>7. /\ Replied(s) = m + k /\ Replied(s)' = (m + 1) + (k - 1)
    BY <2>5, <2>6 DEF Replied
  <2>8. \A j \in 1..k : /\ OutQ[s][j].req # None /\ OutQ[s][j].req.session = s
                         /\ OutQ[s][j].req.n = m + j
    BY <2>0 DEF Numbered
  <2> HIDE DEF rsp, k, m
  <2>9. Replied(s)' = Replied(s)
    BY <2>5, <2>7
  <2>10. Numbered(s)'
    <3> SUFFICES ASSUME NEW j \in 1..(k - 1)
                 PROVE  /\ OutQ'[s][j].req # None /\ OutQ'[s][j].req.session = s
                        /\ OutQ'[s][j].req.n = (m + 1) + j
      BY <2>5, <2>6 DEF Numbered
    <3>1. j + 1 \in 1..k /\ OutQ'[s][j] = OutQ[s][j + 1] /\ m + (j + 1) = (m + 1) + j
      BY <2>5
    <3> QED
      BY <2>8, <3>1
  <2>11. pair[s] # None
    BY <2>0, <2>1 DEF Unbound
  <2>12. InLines(s)' /\ Unbound(s)' /\ Leaving(s)'
    BY <1>1, <2>0, <2>9, <2>11 DEF InLines, Unbound, Leaving, Accepted
  <2>13. Routing(s)'
    BY <1>1, <2>0, <2>3 DEF Routing
  <2>14. ReadInOrder(s)'
    <3> SUFFICES ASSUME NEW i \in 1..(m + 1)
                 PROVE  /\ rcvd'[s][i].req # None /\ rcvd'[s][i].req.session = s
                        /\ rcvd'[s][i].req.n = i
      BY <2>6 DEF ReadInOrder
    <3>1. CASE i \in 1..m
      BY <2>0, <2>6, <3>1 DEF ReadInOrder, m
    <3>2. CASE i = m + 1
      <4>1. 1 \in 1..k
        BY <2>5
      <4> QED
        BY <2>5, <2>6, <2>8, <3>2, <4>1
    <3> QED
      BY <2>5, <3>1, <3>2
  <2> QED
    BY <1>2, <2>10, <2>12, <2>13, <2>14 DEF Orderly, InOrder
<1> QED
  BY <1>3, <1>4

(* A request that is answered on the spot: the session is not bound.        *)
LEMMA OrderReject ==
  ASSUME OrderInv, NEW t \in Session, NEW cmd \in Cmds, Reject(t, cmd), pair[t] = None,
         pair' = pair, route'[t].pc = "idle", \A u \in Session \ {t} : route'[u] = route[u],
         NEW s \in Session
  PROVE  Orderly(s)'
<1>1. UNCHANGED <<fwd, sessionQuit, OutQ, Line>>
  BY DEF Reject, WriteAndFlush, connVars, loopVars, Line, InLine
<1>2. Orderly(s) /\ OwnRequest(s)'
  BY <1>1, OrderFacts DEF Orderly, OwnRequest
<1> DEFINE rsp == NewErrResponseContext(NewRequest(t, cmd))
<1>3. /\ ~sessionQuit[t] /\ sent' = [sent EXCEPT ![t] = sent[t] + 1]
      /\ rcvd' = [rcvd EXCEPT ![t] = Append(rcvd[t], rsp)]
      /\ sent[t] < MaxReqs
  BY DEF Reject, WriteAndFlush
<1>4. CASE s # t
  <2>1. rcvd'[s] = rcvd[s] /\ sent'[s] = sent[s] /\ authInfo'[s] = authInfo[s]
    BY <1>3, <1>4, OrderFacts DEF TypeInv, TypeOK, SessionTypeOK, Reject
  <2> QED
    BY <1>1, <1>2, <1>4, <2>1, OrderFrame
<1>5. CASE s = t
  <2>0. /\ Numbered(s) /\ InLines(s) /\ Unbound(s) /\ Leaving(s) /\ Routing(s)
        /\ ReadInOrder(s)
    BY <1>2, <1>3, <1>5 DEF Orderly, InOrder
  <2>1. fwd[s] = None /\ OutQ[s] = << >> /\ Len(rcvd[s]) = sent[s] /\ sent[s] \in Nat
    BY <1>5, <2>0, OrderFacts DEF Unbound
  <2>2. rcvd'[s] = Append(rcvd[s], rsp) /\ sent'[s] = sent[s] + 1
    BY <1>3, <1>5, OrderFacts DEF TypeInv, TypeOK
  <2>3. NewRequest(t, cmd) \in RequestContext
    BY <1>3, OrderFacts, NewRequestType DEF TypeInv
  <2>4. /\ rsp \in ResponseContext /\ rsp.req # None
        /\ rsp.req.session = s /\ rsp.req.n = sent[s] + 1
    <3>1. rsp.req = NewRequest(t, cmd) /\ rsp \in ResponseContext
      BY <2>3 DEF NewErrResponseContext, ResponseContext, AuthInfo
    <3>2. NewRequest(t, cmd).session = t /\ NewRequest(t, cmd).n = sent[t] + 1
      BY DEF NewRequest
    <3> QED
      BY <1>5, <2>3, <3>1, <3>2, SessionAssumption
  <2> HIDE DEF rsp
  <2>5. /\ Len(rcvd'[s]) = sent[s] + 1 /\ rcvd'[s][sent[s] + 1] = rsp
        /\ \A j \in 1..sent[s] : rcvd'[s][j] = rcvd[s][j]
    BY <2>1, <2>2, <2>4, OrderFacts, AppendProperties
  <2>6. ReadInOrder(s)'
    <3> SUFFICES ASSUME NEW i \in 1..(sent[s] + 1)
                 PROVE  /\ rcvd'[s][i].req # None /\ rcvd'[s][i].req.session = s
                        /\ rcvd'[s][i].req.n = i
      BY <2>5 DEF ReadInOrder
    <3>1. CASE i \in 1..sent[s]
      BY <2>0, <2>1, <2>5, <3>1 DEF ReadInOrder
    <3>2. CASE i = sent[s] + 1
      BY <2>4, <2>5, <3>2
    <3> QED
      BY <2>1, <3>1, <3>2
  <2>7. Numbered(s)'
    BY <1>1, <2>1 DEF Numbered
  <2>8. InLines(s)'
    BY <1>1, <1>5, <2>0, OrderFacts DEF InLines
  <2>9. Unbound(s)' /\ Leaving(s)'
    BY <1>1, <2>1, <2>2, <2>5 DEF Unbound, Leaving
  <2>10. Routing(s)'
    BY <1>5 DEF Routing
  <2> QED
    BY <1>2, <2>6, <2>7, <2>8, <2>9, <2>10 DEF Orderly, InOrder
<1> QED
  BY <1>4, <1>5

LEMMA OrderForward ==
  ASSUME OrderInv, NEW t \in Session, ForwardOn(t), NEW s \in Session
  PROVE  Orderly(s)'
<1>1. UNCHANGED <<sessionQuit, OutQ, rcvd, Line, pair>>
  BY DEF ForwardOn, Forward, loopVars, Line, InLine
<1>2. Orderly(s) /\ ReadInOrder(s)'
  <2>1. Orderly(s) /\ ReadInOrder(s)
    BY OrderFacts DEF Orderly
  <2> QED
    BY <1>1, <2>1 DEF ReadInOrder
<1>3. PICK cmd \in Cmds : cmd = route[t].cmd
  BY OrderFacts DEF ForwardOn, SMTypeInv, HandlerHolds
<1>4. /\ ~sessionQuit[t] /\ fwd[t] = None /\ route[t].pc = "update"
      /\ sent'[t] = sent[t] + 1 /\ fwd'[t] = [conn |-> route[t].conn, ctx |-> NewRequest(t, cmd)]
      /\ authInfo'[t] = "none" => authInfo[t] = "none" /\ cmd # "auth"
      /\ route'[t] = R("idle", None)
      /\ \A u \in Session \ {t} : /\ sent'[u] = sent[u] /\ fwd'[u] = fwd[u]
                                  /\ authInfo'[u] = authInfo[u] /\ route'[u] = route[u]
  <2>1. /\ sent' = [sent EXCEPT ![t] = sent[t] + 1]
        /\ fwd' = [fwd EXCEPT ![t] = [conn |-> route[t].conn, ctx |-> NewRequest(t, cmd)]]
        /\ authInfo' = IF FirstAuth(t, cmd) THEN [authInfo EXCEPT ![t] = "user"] ELSE authInfo
        /\ route' = [route EXCEPT ![t] = R("idle", None)]
        /\ ~sessionQuit[t] /\ fwd[t] = None /\ route[t].pc = "update"
    BY <1>3 DEF ForwardOn, Forward
  <2>2. /\ sent \in [Session -> 0..MaxReqs] /\ authInfo \in [Session -> AuthInfo]
        /\ route \in [Session -> Route]
        /\ fwd \in [Session -> {None} \cup [conn: Conn, ctx: RequestContext]]
    BY OrderFacts DEF SMTypeInv, SMTypeOK, TypeOK, SessionTypeOK
  <2> QED
    BY <2>1, <2>2 DEF FirstAuth
<1>5. CASE s # t
  BY <1>1, <1>2, <1>4, <1>5, OrderFrame
<1>6. CASE s = t
  <2>0. Numbered(s) /\ InLines(s) /\ Unbound(s) /\ Leaving(s) /\ Routing(s)
    BY <1>2, <1>4, <1>6 DEF Orderly, InOrder
  <2>1. /\ route[s].conn = pair[s] /\ pair[s] # None
        /\ sent[s] \in Nat
    BY <1>4, <1>6, OrderFacts DEF SMTypeInv, SMTypeOK
  <2>2. /\ fwd'[s].conn = pair[s] /\ fwd'[s].ctx.session = s /\ fwd'[s].ctx.n = sent'[s]
        /\ fwd'[s] # None
    <3>1. NewRequest(t, cmd).session = t /\ NewRequest(t, cmd).n = sent[t] + 1
      BY DEF NewRequest
    <3>2. fwd'[s] # None
      <4>1. fwd'[s] \in [conn: Conn, ctx: RequestContext]
        <5>1. sent[t] < MaxReqs
          BY DEF ForwardOn, Forward
        <5>2. NewRequest(t, cmd) \in RequestContext
          BY <5>1, OrderFacts, NewRequestType DEF TypeInv
        <5>3. route[t].conn \in Conn
          BY <1>6, <2>1, OrderFacts
        <5> QED
          BY <1>4, <1>6, <5>2, <5>3
      <4> QED
        BY <4>1, ConnAssumption
    <3> QED
      BY <1>4, <1>6, <2>1, <3>1, <3>2
  <2>3. Accepted(s)' = Accepted(s)
    <3>1. Accepted(s)' = sent'[s] - 1 /\ Accepted(s) = sent[s]
      BY <1>4, <1>6, <2>2 DEF Accepted
    <3> QED
      BY <1>4, <1>6, <2>1, <3>1
  <2>4. Replied(s)' = Replied(s) /\ Numbered(s)'
    BY <1>1, <2>0 DEF Replied, Numbered
  <2>5. InLines(s)'
    BY <1>1, <2>0, <2>3, <2>4 DEF InLines
  <2>6. Unbound(s)' /\ Leaving(s)' /\ OwnRequest(s)'
    BY <1>1, <2>1, <2>2 DEF Unbound, Leaving, OwnRequest
  <2>7. Routing(s)'
    BY <1>1, <1>3, <1>4, <1>6, <2>0 DEF Routing, R
  <2> QED
    BY <1>2, <2>4, <2>5, <2>6, <2>7 DEF Orderly, InOrder
<1> QED
  BY <1>5, <1>6

(* The loads of Forward and RouteRequest find no transaction, so that a     *)
(* session is bound to the connection its key hashes to, once.              *)
LEMMA OrderRoute ==
  ASSUME OrderInv, NEW t \in Session,
         RouteRequest(t) \/ GetConnByKey(t), NEW s \in Session
  PROVE  Orderly(s)'
<1>1. UNCHANGED <<sessionQuit, OutQ, rcvd, Line, sent, fwd, authInfo>>
  BY DEF RouteRequest, GetConnByKey, vars, sessionVars, connVars, loopVars, Line, InLine
<1>2. Orderly(s) /\ ReadInOrder(s)' /\ OwnRequest(s)'
  <2>1. Orderly(s) /\ ReadInOrder(s) /\ OwnRequest(s)
    BY OrderFacts DEF Orderly
  <2> QED
    BY <1>1, <2>1 DEF ReadInOrder, OwnRequest
<1>3. \A c \in Conn : ~Foreign(t, c)
  BY OrderFacts DEF Foreign, Plain, Quiet
<1>4. /\ route \in [Session -> Route] /\ pair \in [Session -> Conn \cup {None}]
      /\ Locate[t] \in Conn /\ None \notin Conn
  BY OrderFacts, ManagerAssumption DEF SMTypeInv, SMTypeOK
<1>5. \A u \in Session \ {t} : route'[u] = route[u] /\ pair'[u] = pair[u]
  BY <1>4 DEF RouteRequest, GetConnByKey, UpdateOn, Bind
<1>6. CASE s # t \/ sessionQuit[s]
  <2>1. CASE s # t
    BY <1>1, <1>2, <1>5, <2>1, OrderFrame
  <2>2. CASE sessionQuit[s]
    BY <1>1, <1>2, <2>2 DEF Orderly, InOrder
  <2> QED
    BY <1>6, <2>1, <2>2
<1>7. CASE s = t /\ ~sessionQuit[s]
  <2>0. Numbered(s) /\ InLines(s) /\ Unbound(s) /\ Leaving(s) /\ Routing(s)
    BY <1>2, <1>7 DEF Orderly, InOrder
  <2>1. CASE RouteRequest(t)
    <3>1. pair[s] = None /\ pair' = pair
      BY <1>7, <2>0, <2>1 DEF RouteRequest, Routing
    <3>2. NeedsRoute(s)
      BY <3>1 DEF NeedsRoute
    <3>3. PICK pc \in {"locate", "error"} : route' = [route EXCEPT ![s].pc = pc]
      BY <1>7, <2>1, <3>2 DEF RouteRequest
    <3>4. route'[s].pc = pc /\ route'[s].cmd = route[s].cmd /\ route[s].pc = "route"
      BY <1>4, <1>7, <2>1, <3>3 DEF Route, RouteRequest
    <3>5. Routing(s)'
      BY <1>1, <2>0, <3>1, <3>4 DEF Routing
    <3> QED
      BY <1>1, <1>2, <3>1, <3>5, OrderSame
  <2>2. CASE GetConnByKey(t)
    <3>1. pair[s] = None /\ route[s].pc = "locate"
      BY <1>7, <2>0, <2>2 DEF GetConnByKey, Routing
    <3>2. Bind(s, Locate[s])
      BY <1>3, <1>4, <1>7, <2>2 DEF GetConnByKey
    <3>3. /\ pair'[s] = Locate[s] /\ route'[s].pc = "update" /\ route'[s].cmd = route[s].cmd
      <4>1. [R("update", route[s].cmd) EXCEPT !.conn = Locate[s]].pc = "update"
        BY DEF R
      <4>2. [R("update", route[s].cmd) EXCEPT !.conn = Locate[s]].cmd = route[s].cmd
        BY DEF R
      <4> QED
        BY <1>4, <3>2, <4>1, <4>2 DEF Bind, UpdateOn
    <3>4. fwd[s] = None /\ OutQ[s] = << >> /\ Len(rcvd[s]) = sent[s] /\ sent[s] \in Nat
      BY <2>0, <3>1, OrderFacts DEF Unbound
    <3>5. Replied(s)' = sent[s] /\ Accepted(s)' = sent[s]
      <4>1. Replied(s)' = Replied(s) /\ Accepted(s)' = Accepted(s)
        BY <1>1 DEF Replied, Accepted
      <4>2. Len(<< >>) = 0
        OBVIOUS
      <4>3. Replied(s) = sent[s] + 0 /\ Accepted(s) = sent[s]
        BY <3>4, <4>2 DEF Replied, Accepted
      <4> QED
        BY <3>4, <4>1, <4>3
    <3>6. \A c \in Conn : Row(Line[c], s, 0, 0)
      BY <1>4, <2>0, <3>1 DEF InLines
    <3>7. Row(Line[Locate[s]], s, sent[s], sent[s])
      BY <1>4, <1>7, <3>4, <3>6, OrderFacts, RowNone
    <3>8. InLines(s)'
      BY <1>1, <3>3, <3>5, <3>6, <3>7 DEF InLines
    <3>9. Numbered(s)' /\ Unbound(s)' /\ Leaving(s)'
      BY <1>1, <1>4, <1>7, <2>0, <3>3, <3>4 DEF Numbered, Unbound, Leaving
    <3>10. Routing(s)'
      BY <1>1, <2>0, <3>1, <3>3, <3>4 DEF Routing
    <3> QED
      BY <1>2, <3>8, <3>9, <3>10 DEF Orderly, InOrder
  <2> QED
    BY <2>1, <2>2
<1> QED
  BY <1>6, <1>7

LEMMA OrderDispatch ==
  ASSUME OrderInv, NEW t \in Session, NEW cmd \in Cmds, Dispatch(t, cmd), NEW s \in Session
  PROVE  Orderly(s)'
<1>1. UNCHANGED <<sessionQuit, OutQ, rcvd, Line, sent, fwd, authInfo, pair>>
  BY DEF Dispatch, vars, sessionVars, connVars, loopVars, Line, InLine
<1>2. Orderly(s) /\ route \in [Session -> Route]
  BY OrderFacts DEF SMTypeInv, SMTypeOK
<1>3. CASE s # t
  <2>1. route'[s] = route[s]
    BY <1>2, <1>3 DEF Dispatch
  <2> QED
    BY <1>1, <1>2, <2>1, OrderFrame
<1>4. CASE s = t
  <2>0. Unbound(s) /\ Routing(s)
    BY <1>2, <1>4 DEF Orderly, InOrder, Dispatch
  <2>1. /\ route[s].pc = "idle" /\ fwd[s] = None
        /\ authInfo[s] = "none" => cmd = "auth"
    BY <1>4 DEF Dispatch, LoopFree
  <2>2. /\ route'[s].cmd = cmd
        /\ \/ route'[s].pc = "route" /\ NeedsRoute(s)
           \/ route'[s].pc = "update"
    BY <1>2, <1>4 DEF Dispatch, R
  <2>3. NeedsRoute(s) => pair[s] = None
    BY OrderFacts DEF NeedsRoute, Foreign, Plain, Quiet
  <2>4. Routing(s)'
    BY <1>1, <2>0, <2>1, <2>2, <2>3 DEF Routing
  <2> QED
    BY <1>1, <1>2, <2>4, OrderSame
<1> QED
  BY <1>3, <1>4

LEMMA OrderClose ==
  ASSUME OrderInv, NEW t \in Session, OnClose(t), NEW s \in Session
  PROVE  Orderly(s)'
<1>1. UNCHANGED <<OutQ, rcvd, Line, sent, fwd, authInfo, route>>
  BY DEF OnClose, CloseSession, SessionClose, connVars, loopVars, Line, InLine
<1>2. Orderly(s)
  BY OrderFacts
<1>3. /\ sessionQuit'[t] /\ \A u \in Session \ {t} : sessionQuit'[u] = sessionQuit[u]
      /\ \A u \in Session \ {t} : pair'[u] = pair[u]
  BY OrderFacts
  DEF OnClose, CloseSession, SessionClose, SMTypeInv, SMTypeOK, TypeOK, SessionTypeOK
<1>4. CASE s = t
  BY <1>1, <1>2, <1>3, <1>4 DEF Orderly, InOrder, ReadInOrder, OwnRequest
<1>5. CASE s # t
  BY <1>1, <1>2, <1>3, <1>5, OrderFrame
<1> QED
  BY <1>4, <1>5

(* The other steps of a connection.                                         *)
LEMMA OrderConn ==
  ASSUME PlainWorkload, OrderInv, NEW c \in Conn, ConnNext(c), UNCHANGED <<pair, route>>,
         NEW s \in Session
  PROVE  Orderly(s)'
<1>0. TypeInv /\ Plain /\ Orderly(s)
  BY OrderFacts
<1>1. CASE ReadLoopDeliver(c)
  BY <1>1, OrderDeliver
<1>2. ASSUME UNCHANGED <<Line, OutQ, rcvd, sent, fwd, sessionQuit, authInfo>>
      PROVE  Orderly(s)'
  BY <1>0, <1>2, OrderFrame
<1>3. CASE WriteLoop(c)
  <2>1. UNCHANGED <<rcvd, sent, fwd, sessionQuit, authInfo>>
    BY <1>3 DEF WriteLoop, WriteLoopTake, WriteLoopQuit, WriteLoopWrite, WriteLoopWriteErr,
                WriteLoopFail, WriteLoopCheck, WriteLoopPush, sessionVars
  <2> QED
    BY <1>0, <1>2, <1>3, <2>1, MuxWriteLoop
<1>4. CASE ReadLoop(c) /\ ~ReadLoopDeliver(c)
  <2>1. UNCHANGED <<rcvd, sent, fwd, sessionQuit, authInfo>>
    BY <1>4 DEF ReadLoop, ReadLoopTop, ReadLoopRead, ReadLoopLoad, ReadLoopEOF,
                ReadLoopSkip, ReadLoopMatch, ClearTxnState, sessionVars
  <2> QED
    BY <1>0, <1>2, <1>4, <2>1, MuxReadLoop
<1>5. ~Clear(c)
  BY <1>0 DEF Plain, Quiet, Clear, DrainTakeWrite, DrainWriteEnd, DrainFlush, DrainPush,
              DrainFail, DrainTakePending, DrainRead, DrainSend, InnerClose
<1>6. ~Close(c) /\ ~CloseReturn(c) /\ ~PeerFail(c)
  BY <1>0 DEF PlainWorkload, Plain, Quiet, Close, CloseReturn, PeerFail
<1> QED
  BY <1>1, <1>3, <1>4, <1>5, <1>6 DEF ConnNext

LEMMA OrderInit == SMInit => OrderInv
<1> SUFFICES ASSUME SMInit PROVE OrderInv
  OBVIOUS
<1>1. SMTypeInv /\ Plain
  BY SMTypeInit, PlainInit DEF SMInit
<1>2. Line = [c \in Conn |-> << >>]
  BY MuxInit DEF SMInit
<1>3. ASSUME NEW s \in Session
      PROVE  Orderly(s)
  <2>1. /\ OutQ[s] = << >> /\ rcvd[s] = << >> /\ sent[s] = 0 /\ fwd[s] = None
        /\ route[s].pc = "idle" /\ Len(<< >>) = 0
        /\ authInfo[s] = "none" => pair[s] = None
        /\ pair[s] \in Conn \cup {None}
    BY ManagerAssumption DEF SMInit, Init, SessionInit, R
  <2>2. Replied(s) = 0 /\ Accepted(s) = 0
    BY <2>1 DEF Replied, Accepted
  <2>3. InLines(s)
    BY <1>2, <2>1, <2>2, RowEmpty DEF InLines
  <2>4. Numbered(s) /\ Unbound(s) /\ Leaving(s) /\ Routing(s)
    BY <2>1 DEF Numbered, Unbound, Leaving, Routing
  <2>5. ReadInOrder(s) /\ OwnRequest(s)
    BY <2>1 DEF ReadInOrder, OwnRequest
  <2> QED
    BY <2>3, <2>4, <2>5 DEF Orderly, InOrder
<1> QED
  BY <1>1, <1>3 DEF OrderInv

LEMMA OrderNext ==
  ASSUME PlainWorkload, OrderInv, [SMNext]_smVars
  PROVE  OrderInv'
<1>0. SMTypeInv /\ Plain /\ TypeInv
  BY OrderFacts
<1>1. SMTypeInv' /\ Plain'
  BY <1>0, SMTypeNext, SMStep, PlainNext
<1>2. ASSUME NEW s \in Session
      PROVE  Orderly(s)'
  <2>0. Orderly(s)
    BY OrderFacts
  <2>1. ASSUME NEW t \in Session, NEW cmd \in Cmds, NoAuth(t, cmd)
        PROVE  Orderly(s)'
    <3>1. /\ Reject(t, cmd) /\ UNCHANGED <<pair, route>> /\ route[t].pc = "idle"
          /\ authInfo[t] = "none" /\ ~sessionQuit[t]
      BY <2>1 DEF NoAuth, LoopFree, Reject, WriteAndFlush
    <3>2. pair[t] = None
      BY <3>1, OrderFacts DEF Orderly, InOrder, Routing
    <3> QED
      BY <3>1, <3>2, OrderReject
  <2>2. ASSUME NEW t \in Session, RouteFailed(t)
        PROVE  Orderly(s)'
    <3>1. PICK cmd \in Cmds : cmd = route[t].cmd
      BY <1>0, <2>2 DEF RouteFailed, SMTypeInv, HandlerHolds
    <3>2. /\ Reject(t, cmd) /\ pair' = pair /\ ~sessionQuit[t] /\ route[t].pc = "error"
          /\ route' = [route EXCEPT ![t] = R("idle", None)]
      BY <2>2, <3>1 DEF RouteFailed, Reject, WriteAndFlush
    <3>3. route'[t].pc = "idle" /\ \A u \in Session \ {t} : route'[u] = route[u]
      BY <1>0, <3>2 DEF R, SMTypeInv, SMTypeOK
    <3>4. pair[t] = None /\ Reject(t, cmd) /\ pair' = pair
      BY <3>2, OrderFacts DEF Orderly, InOrder, Routing
    <3> QED
      BY <3>3, <3>4, OrderReject
  <2>3. ASSUME NEW t \in Session,
               LogOccupied(t) \/ CollectNoTx(t) \/ PickNoTx(t) \/ PickSecondLoad(t)
        PROVE  Orderly(s)'
    <3>1. UNCHANGED <<Line, OutQ, rcvd, sent, fwd, sessionQuit, authInfo>>
      BY <2>3 DEF LogOccupied, CollectNoTx, PickNoTx, PickSecondLoad,
                  vars, sessionVars, connVars, loopVars, Line, InLine
    <3>2. /\ \A u \in Session \ {t} : route'[u] = route[u] /\ pair'[u] = pair[u]
          /\ route[t].pc \in {"log", "collect", "pick", "second"}
      <4>1. route \in [Session -> Route] /\ pair \in [Session -> Conn \cup {None}]
        BY <1>0 DEF SMTypeInv, SMTypeOK
      <4>2. CASE LogOccupied(t)
        BY <4>1, <4>2 DEF LogOccupied
      <4>3. CASE CollectNoTx(t)
        BY <4>1, <4>3 DEF CollectNoTx, Bind, UpdateOn
      <4>4. CASE PickNoTx(t) \/ PickSecondLoad(t)
        BY <4>1, <4>4 DEF PickNoTx, PickSecondLoad, Bind, UpdateOn
      <4> QED
        BY <2>3, <4>2, <4>3, <4>4
    <3>3. sessionQuit[t]
      BY <3>2, OrderFacts DEF Orderly, InOrder, Routing
    <3>4. CASE s = t
      BY <2>0, <3>1, <3>3, <3>4 DEF Orderly, InOrder, ReadInOrder, OwnRequest
    <3>5. CASE s # t
      BY <2>0, <3>1, <3>2, <3>5, OrderFrame
    <3> QED
      BY <3>4, <3>5
  <2>4. ASSUME NEW t \in Session, Handler(t)
        PROVE  Orderly(s)'
    BY <2>2, <2>3, <2>4, OrderRoute, OrderForward DEF Handler
  <2>5. CASE UNCHANGED smVars
    <3>1. UNCHANGED <<Line, OutQ, rcvd, sent, fwd, sessionQuit, authInfo, pair, route>>
      BY <2>5 DEF smVars, vars, sessionVars, connVars, loopVars, Line, InLine
    <3> QED
      BY <2>0, <3>1, OrderFrame
  <2> QED
    BY <2>1, <2>4, <2>5, OrderDispatch, OrderClose, OrderEnqueue, OrderReplyLoop, OrderConn
    DEF SMNext
<1> QED
  BY <1>1, <1>2 DEF OrderInv

(* On connections that carry no transaction and are neither closed nor lost *)
(* the i-th reply a client reads is the reply to its i-th request, however  *)
(* many sessions share the connections and whatever event loops serve them; *)
(* this covers requests answered by the proxy itself before AUTH or when    *)
(* there is no pool.                                                        *)
THEOREM ReadsInOrder ==
  ASSUME PlainWorkload
  PROVE  SMSpec => []RepliesInOrder
<1>1. SMInit => OrderInv
  BY OrderInit
<1>2. OrderInv /\ [SMNext]_smVars => OrderInv'
  BY OrderNext
<1>3. OrderInv => RepliesInOrder
  BY DEF OrderInv, Orderly, ReadInOrder, RepliesInOrder
<1> QED
  BY <1>1, <1>2, <1>3, PTL DEF SMSpec

(* What is proved of the connections under any use holds of their use by    *)
(* the manager.                                                             *)
THEOREM ManagerPlain ==
  ASSUME PlainWorkload
  PROVE  SMSpec => ([](PairsUp /\ ReplyToRequester /\ CallbackOfOwnAuth)) /\ ImplementsMux
<1>1. Spec => [](PairsUp /\ ReplyToRequester /\ CallbackOfOwnAuth)
  BY PlainCorrect
<1>2. Spec => ImplementsMux
  BY PlainImplementsMux
<1>3. SMSpec => Spec
  BY ManagerRefines DEF RefinesBackendConn
<1> QED
  BY <1>1, <1>2, <1>3, PTL

=============================================================================
