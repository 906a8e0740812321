----------------------------- MODULE FixedPool -----------------------------
(***************************************************************************)
(* The fixed pool that the proxy uses (pkg/be_cluster/fixed_pool.go): a    *)
(* BackendPool that nobody calls Get on.  WaitPoolReady waits until it has *)
(* its PoolSize connections and then publishes them on onLines and the     *)
(* hash ring.  GetNoTxConn looks for one of them without a transaction,    *)
(* while the sessions and the ReadLoops go on changing the transaction     *)
(* states (module SessionManager has both sides of that in detail).        *)
(***************************************************************************)
EXTENDS BackendPool

VARIABLES
  onLines,   \* the connections that requests are routed to
  ready,     \* FixedPool.ready; WaitPoolReady has returned
  up,        \* external: the backend accepts connections
  txState,   \* BackendConn.txState by what GetNoTxConn tests
  get        \* a call of GetNoTxConn

getVars == <<txState, get>>
fixedVars == <<poolVars, onLines, ready, up, getVars>>

TxState == {"none", "begin", "end"}
G(pc, todo, cand) == [pc |-> pc, todo |-> todo, cand |-> cand, conn |-> None]

FixedTypeOK ==
  /\ PoolTypeOK
  /\ onLines \subseteq Conn
  /\ ready \in BOOLEAN /\ up \in BOOLEAN
  /\ txState \in [Conn -> TxState]
  /\ get \in [pc: {"idle", "collect", "pick", "second", "panic"},
              todo: SUBSET onLines, cand: SUBSET onLines, conn: onLines \cup {None}]

(* NewFixedPool                                                             *)
FixedInit ==
  /\ PoolInit
  /\ onLines = {} /\ ready = FALSE
  /\ up \in BOOLEAN
  /\ txState = [c \in Conn |-> "none"]
  /\ get = G("idle", {}, {})

(* Mutant of WaitPoolReady: does not wait for the last connection.          *)
WaitPoolReadyEarly ==
  /\ ~ready
  /\ Cardinality(conns) >= PoolSize - 1
  /\ onLines' = conns
  /\ ready' = TRUE
  /\ UNCHANGED <<poolVars, up, getVars>>

(* One tick of WaitPoolReady that finds the pool complete.                  *)
WaitPoolReady ==
  /\ ~ready
  /\ Cardinality(conns) = PoolSize
  /\ onLines' = conns
  /\ ready' = TRUE
  /\ UNCHANGED <<poolVars, up, getVars>>

(* A dial fails if and only if the backend is down.                         *)
Fill(c) ==
  /\ Adder(c)
  /\ adder'[c] = "failed" => ~up
  /\ adder'[c] = "append" => up
  /\ UNCHANGED <<onLines, ready, up, getVars>>

(* Mutant of FixedClose: a pool that is still being filled is closed.       *)
FixedCloseAny ==
  /\ CloseBegin \/ ResetPool
  /\ UNCHANGED <<onLines, ready, up, getVars>>

(* FixedPool.Close; BackendManager only closes a pool that was ready.       *)
FixedClose ==
  /\ ready
  /\ CloseBegin \/ ResetPool
  /\ UNCHANGED <<onLines, ready, up, getVars>>

(* external: the backend starts.                                            *)
BackendUp ==
  /\ ~up
  /\ up' = TRUE
  /\ UNCHANGED <<poolVars, onLines, ready, getVars>>

----------------------------------------------------------------------------
(* GetNoTxConn                                                              *)

(* UpdateTxnState by a session, or ClearTxnState by a ReadLoop.             *)
TxChange(c) ==
  /\ c \in onLines
  /\ \E state \in TxState \ {txState[c]} : txState' = [txState EXCEPT ![c] = state]
  /\ UNCHANGED <<poolVars, onLines, ready, up, get>>

(* A session whose connection is occupied; it can have the pool once it is  *)
(* ready.                                                                   *)
GetNoTxConn ==
  /\ ready
  /\ get.pc = "idle"
  /\ get' = G("collect", onLines, {})
  /\ UNCHANGED <<poolVars, onLines, ready, up, txState>>

(* One step of the Range, and after the last one the cases on the number of *)
(* candidates: none is an error, a single one is returned.                  *)
CollectNoTx ==
  /\ get.pc = "collect"
  /\ \E c \in get.todo :
       LET todo == get.todo \ {c}
           cand == IF txState[c] = "begin" THEN get.cand ELSE get.cand \cup {c}
       IN get' = IF todo # {} THEN G("collect", todo, cand)
                 ELSE IF Cardinality(cand) <= 1 THEN G("idle", {}, {})
                 ELSE G("pick", {}, cand)
  /\ UNCHANGED <<poolVars, onLines, ready, up, txState>>

(* Mutant of PickNoTx: the random index is the same in every round.         *)
PickNoTxSame(c) ==
  /\ get.pc = "pick"
  /\ c = CHOOSE d \in get.cand : TRUE
  /\ get' = IF txState[c] = "none" THEN G("idle", {}, {})
            ELSE [get EXCEPT !.pc = "second", !.conn = c]
  /\ UNCHANGED <<poolVars, onLines, ready, up, txState>>

(* A round of the retry loop whose random index is that of c: c is returned *)
(* if LoadTxnState gives nil.                                               *)
PickNoTx(c) ==
  /\ get.pc = "pick"
  /\ c \in get.cand
  /\ get' = IF txState[c] = "none" THEN G("idle", {}, {})
            ELSE [get EXCEPT !.pc = "second", !.conn = c]
  /\ UNCHANGED <<poolVars, onLines, ready, up, txState>>

(* The second LoadTxnState of the condition, whose result is dereferenced.  *)
PickSecondLoad ==
  /\ get.pc = "second"
  /\ get' = CASE txState[get.conn] = "end" -> G("idle", {}, {})
              [] txState[get.conn] = "begin" -> [get EXCEPT !.pc = "pick", !.conn = None]
              [] txState[get.conn] = "none" -> G("panic", {}, {})
  /\ UNCHANGED <<poolVars, onLines, ready, up, txState>>

FixedNext ==
  \/ \E c \in Conn : Fill(c)
  \/ WaitPoolReady
  \/ FixedClose
  \/ BackendUp
  \/ \E c \in Conn : TxChange(c) \/ PickNoTx(c)
  \/ GetNoTxConn \/ CollectNoTx \/ PickSecondLoad

(* The goroutines run, the ticker ticks, Close finishes, and the backend    *)
(* comes up.  A retry loop that goes on for ever draws every candidate      *)
(* again and again (rand.IntN), hence strong fairness for each of them;     *)
(* nothing is assumed of the transactions.                                  *)
FixedSpec ==
  /\ FixedInit /\ [][FixedNext]_fixedVars
  /\ \A c \in Conn : WF_fixedVars(Fill(c))
  /\ WF_fixedVars(WaitPoolReady)
  /\ WF_fixedVars(ready /\ ResetPool /\ UNCHANGED <<onLines, ready, up, getVars>>)
  /\ WF_fixedVars(BackendUp)
  /\ WF_fixedVars(CollectNoTx) /\ WF_fixedVars(PickSecondLoad)
  /\ \A c \in Conn : SF_fixedVars(PickNoTx(c))

----------------------------------------------------------------------------
(* Properties                                                               *)

(* Requests are only routed to open connections, and from the moment the    *)
(* pool is ready to all of the PoolSize connections (WaitPoolReady).        *)
OnLinesOpen ==
  ready /\ ~closed => onLines \subseteq open /\ Cardinality(onLines) = PoolSize

(* After Close no connection is left open: since Close comes after ready,   *)
(* no dial of checkMinIdleConns can be under way.                           *)
ClosedIsClosed == closer = "done" => open = {}

(* A backend that is up from the start gets its pool ready.                 *)
ReadyIfUp == []up => <>ready

(* GetNoTxConn does not retry for ever while one of its candidates is, and  *)
(* stays, out of a transaction; in particular not because others are held   *)
(* by a transaction that nobody will end.                                   *)
RetryEnds ==
  \A c \in Conn :
    ~<>[](get.pc \in {"pick", "second"} /\ c \in get.cand /\ txState[c] # "begin")

----------------------------------------------------------------------------
(* Statements about the code that it does not keep (README, section 4)      *)

(* GetNoTxConn returns (its loop ends with "return conn, nil").             *)
GetReturns == get.pc # "idle" ~> get.pc = "idle"

(* A pool reaches MinIdleSize idle connections ("the min idle size of the   *)
(* innerPool", line 48) once the backend is up.                             *)
MinIdleReached == <>(Len(idleConns) >= MinIdleSize)

============================================================================
