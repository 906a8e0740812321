---------------------------- MODULE BackendConn ----------------------------
(***************************************************************************)
(* Multiplexed backend connections (pkg/be_cluster/backend_conn.go).       *)
(*                                                                         *)
(* Many sessions share one connection.  Enqueue puts a request on writeQ;  *)
(* the WriteLoop goroutine writes it to the socket and remembers it on     *)
(* pendingQ; the ReadLoop goroutine pairs each reply it reads with the     *)
(* head of pendingQ.  While a transaction is recorded in txState, replies  *)
(* go to the transaction's owner instead and pendingQ is not used.  Clear  *)
(* tears the connection down: it stops the loops, drains both queues and   *)
(* closes the socket.                                                      *)
(*                                                                         *)
(* The specification is open: Forward, Reject and CloseSession are what    *)
(* the layer above (SessionManager) may do, in any order and on any        *)
(* connection.                                                             *)
(***************************************************************************)
EXTENDS Session

CONSTANTS
  Conn,       \* backend connections
  QueueSize,  \* capacity of writeQ and of pendingQ (10240 in the code)
  Faults      \* which of {"peer", "close", "leave"} may happen

ASSUME ConnAssumption ==
  /\ QueueSize \in Nat \ {0}
  /\ Faults \subseteq {"peer", "close", "leave"}
  /\ None \notin [conn: Conn, ctx: RequestContext]

VARIABLES
  sent,      \* requests each client has sent so far
  fwd,       \* what a session's event loop is about to Enqueue, and where
  writeQ,    \* requests waiting for the WriteLoop
  pendingQ,  \* requests written, waiting for their reply
  wire,      \* external: requests the backend has and whose reply is unread
  txState,   \* owner and state of the transaction recorded on a connection
  wl, rl,    \* the WriteLoop and the ReadLoop goroutine
  clr,       \* the execution of Clear, by whichever goroutine entered it
  cl,        \* a caller of Close
  closed,    \* BackendConn.closed, and the quit channel closed with it
  sock       \* external: the socket

loopVars == <<wl, rl, clr, cl>>
connVars == <<writeQ, pendingQ, wire, txState, loopVars, closed, sock>>
vars == <<sessionVars, sent, fwd, connVars>>

----------------------------------------------------------------------------

(* RespPacket.IsTxCmd: the transaction state a command brings about.        *)
TxCmds == {"multi", "watch", "exec", "discard"}
TxStateOf(cmd) == IF cmd \in {"multi", "watch"} THEN "begin" ELSE "end"

NoTx == [owner |-> None, state |-> "none"]
TxState == {NoTx} \cup [owner: Session, state: {"begin", "end"}]

WriteLoopState ==
  [pc: {"select", "write", "fail", "check", "push", "clear", "done"},
   ctx: RequestContext \cup {None}]
ReadLoopState ==
  [pc: {"top", "read", "load", "pend", "deliver", "clearTx", "clear", "done"},
   pkt: RequestContext \cup {None},
   to: Session \cup {None}, callback: AuthInfo, txEnd: BOOLEAN]
ClearState ==
  [pc: {"idle", "drainW", "flushW", "pushP", "failW",
        "drainP", "readP", "sendP", "done"},
   ctx: RequestContext \cup {None}, rsp: ResponseContext \cup {None}]

WL(pc, ctx) == [pc |-> pc, ctx |-> ctx]
RL(pc) == [pc |-> pc, pkt |-> None, to |-> None,
           callback |-> "none", txEnd |-> FALSE]
CLR(pc, ctx) == [pc |-> pc, ctx |-> ctx, rsp |-> None]

TypeOK ==
  /\ SessionTypeOK
  /\ sent \in [Session -> 0..MaxReqs]
  /\ fwd \in [Session -> {None} \cup [conn: Conn, ctx: RequestContext]]
  /\ writeQ \in [Conn -> Seq(RequestContext)]
  /\ pendingQ \in [Conn -> Seq(RequestContext)]
  /\ \A c \in Conn : Len(writeQ[c]) <= QueueSize /\ Len(pendingQ[c]) <= QueueSize
  /\ wire \in [Conn -> Seq(RequestContext)]
  /\ txState \in [Conn -> TxState]
  /\ wl \in [Conn -> WriteLoopState]
  /\ rl \in [Conn -> ReadLoopState]
  /\ clr \in [Conn -> ClearState]
  /\ cl \in [Conn -> {"none", "clear", "wait", "returned"}]
  /\ closed \in [Conn -> BOOLEAN]
  /\ sock \in [Conn -> {"up", "eof", "timeout", "closed"}]

(* NewBackendConn: both loops started on a connected socket.                *)
ConnInit ==
  /\ writeQ = [c \in Conn |-> << >>]
  /\ pendingQ = [c \in Conn |-> << >>]
  /\ wire = [c \in Conn |-> << >>]
  /\ txState = [c \in Conn |-> NoTx]
  /\ wl = [c \in Conn |-> WL("select", None)]
  /\ rl = [c \in Conn |-> RL("top")]
  /\ clr = [c \in Conn |-> CLR("idle", None)]
  /\ cl = [c \in Conn |-> "none"]
  /\ closed = [c \in Conn |-> FALSE]
  /\ sock = [c \in Conn |-> "up"]

Init ==
  /\ SessionInit
  /\ ConnInit
  /\ sent = [s \in Session |-> 0]
  /\ fwd = [s \in Session |-> None]

----------------------------------------------------------------------------
(* The callers: a session's event loop.                                     *)

(* Mutant of FirstAuth: the user name is not recorded before AUTH is sent.  *)
FirstAuthLate(s, cmd) == FALSE

(* The AuthInfo a request is forwarded with, and what dispatching it leaves *)
(* in the session: the first AUTH records the user name before it is sent.  *)
FirstAuth(s, cmd) == cmd = "auth" /\ authInfo[s] = "none"
DispatchAuth(s, cmd) == IF FirstAuth(s, cmd) THEN "full" ELSE authInfo[s]

NewRequest(s, cmd) ==
  [session |-> s, n |-> sent[s] + 1, cmd |-> cmd,
   auth |-> DispatchAuth(s, cmd)]

(* UpdateTxnState, called by Forward for a transaction command.             *)
UpdateTxnState(c, s, cmd) ==
  IF cmd \in TxCmds
    THEN txState' = [txState EXCEPT ![c] = [owner |-> s, state |-> TxStateOf(cmd)]]
    ELSE UNCHANGED txState

(* The event loop of s forwards cmd on connection c, up to the Enqueue.     *)
(* doDispatch's load and store of authInfo are taken to be part of this     *)
(* step.                                                                    *)
Forward(s, c, cmd) ==
  /\ ~sessionQuit[s]
  /\ fwd[s] = None
  /\ sent[s] < MaxReqs
  /\ sent' = [sent EXCEPT ![s] = @ + 1]
  /\ fwd' = [fwd EXCEPT ![s] = [conn |-> c, ctx |-> NewRequest(s, cmd)]]
  /\ authInfo' = IF FirstAuth(s, cmd) THEN [authInfo EXCEPT ![s] = "user"]
                 ELSE authInfo
  /\ UpdateTxnState(c, s, cmd)
  /\ UNCHANGED <<OutQ, sessionQuit, replyLoop, rcvd>>
  /\ UNCHANGED <<writeQ, pendingQ, wire, loopVars, closed, sock>>

(* Mutant of Enqueue: writeQ takes a request whether or not there is room.  *)
EnqueueUnbounded(s) ==
  /\ fwd[s] # None
  /\ writeQ' = [writeQ EXCEPT ![fwd[s].conn] = Append(@, fwd[s].ctx)]
  /\ fwd' = [fwd EXCEPT ![s] = None]
  /\ UNCHANGED <<sessionVars, sent, pendingQ, wire, txState, loopVars, closed, sock>>

(* Enqueue: a send on writeQ; it does not look at closed.                   *)
Enqueue(s) ==
  /\ fwd[s] # None
  /\ LET c == fwd[s].conn IN
       /\ Len(writeQ[c]) < QueueSize
       /\ writeQ' = [writeQ EXCEPT ![c] = Append(@, fwd[s].ctx)]
  /\ fwd' = [fwd EXCEPT ![s] = None]
  /\ UNCHANGED <<sessionVars, sent, pendingQ, wire, txState, loopVars, closed, sock>>

(* A request that is not forwarded: the event loop answers it directly      *)
(* (ErrNoAuth, or the error that Forward returned).                         *)
Reject(s, cmd) ==
  /\ fwd[s] = None
  /\ sent[s] < MaxReqs
  /\ sent' = [sent EXCEPT ![s] = @ + 1]
  /\ authInfo' = IF FirstAuth(s, cmd) THEN [authInfo EXCEPT ![s] = "user"]
                 ELSE authInfo
  /\ WriteAndFlush(s, NewErrResponseContext(NewRequest(s, cmd)))
  /\ UNCHANGED <<fwd, connVars>>

(* OnClose, on the same event loop as the session's requests.               *)
CloseSession(s) ==
  /\ "leave" \in Faults
  /\ fwd[s] = None
  /\ SessionClose(s)
  /\ UNCHANGED <<sent, fwd, connVars>>

----------------------------------------------------------------------------
(* Clear: entered by at most one goroutine, which closes quit.              *)

EnterClear(c) ==
  /\ closed' = [closed EXCEPT ![c] = TRUE]
  /\ clr' = IF closed[c] THEN clr ELSE [clr EXCEPT ![c] = CLR("drainW", None)]

(* Where the goroutine that called Clear is next: inside it, or past it.    *)
InClear(c, past) == IF closed[c] THEN past ELSE "clear"

----------------------------------------------------------------------------
(* WriteLoop                                                                *)

WriteLoopTake(c) ==
  /\ wl[c].pc = "select"
  /\ writeQ[c] # << >>
  /\ wl' = [wl EXCEPT ![c] = WL("write", Head(writeQ[c]))]
  /\ writeQ' = [writeQ EXCEPT ![c] = Tail(@)]
  /\ UNCHANGED <<sessionVars, sent, fwd, pendingQ, wire, txState, rl, clr, cl, closed, sock>>

WriteLoopQuit(c) ==
  /\ wl[c].pc = "select"
  /\ closed[c]
  /\ wl' = [wl EXCEPT ![c] = WL("done", None)]
  /\ UNCHANGED <<sessionVars, sent, fwd, writeQ, pendingQ, wire, txState, rl, clr, cl, closed, sock>>

(* Clear's drain and the WriteLoop may be in the same buffered writer: a    *)
(* data race in which the bytes of one of them can be overwritten.          *)
BothWriting(c) == wl[c].pc = "write" /\ clr[c].pc = "flushW"

(* external: a write reaches the backend while the socket is up; after the  *)
(* peer's FIN the kernel may still accept bytes that go nowhere.            *)
WriteSucceeds(c, ctx) ==
  \/ sock[c] = "up" /\ wire' = [wire EXCEPT ![c] = Append(@, ctx)]
  \/ (sock[c] = "eof" \/ BothWriting(c)) /\ UNCHANGED wire

WriteFails(c) == sock[c] # "up"

WriteLoopWrite(c) ==
  /\ wl[c].pc = "write"
  /\ WriteSucceeds(c, wl[c].ctx)
  /\ wl' = [wl EXCEPT ![c].pc = "check"]
  /\ UNCHANGED <<sessionVars, sent, fwd, writeQ, pendingQ, txState, rl, clr, cl, closed, sock>>

WriteLoopWriteErr(c) ==
  /\ wl[c].pc = "write"
  /\ WriteFails(c)
  /\ wl' = [wl EXCEPT ![c].pc = "fail"]
  /\ UNCHANGED <<sessionVars, sent, fwd, writeQ, pendingQ, wire, txState, rl, clr, cl, closed, sock>>

(* Mutant of WriteLoopFail: no "continue" after an error that does not end  *)
(* the connection, so the request goes on to pendingQ as well.              *)
WriteLoopFailGoesOn(c) ==
  /\ wl[c].pc = "fail"
  /\ SendOutQ(wl[c].ctx.session, NewErrResponseContext(wl[c].ctx))
  /\ \/ /\ EnterClear(c)
        /\ wl' = [wl EXCEPT ![c] = WL(InClear(c, "done"), None)]
     \/ /\ sock[c] # "closed"
        /\ wl' = [wl EXCEPT ![c].pc = "check"]
        /\ UNCHANGED <<closed, clr>>
  /\ UNCHANGED <<sessionQuit, replyLoop, authInfo, rcvd>>
  /\ UNCHANGED <<sent, fwd, writeQ, pendingQ, wire, txState, rl, cl, sock>>

(* OutQ <- error; an error of the kind IsBackendUnavailable recognises      *)
(* tears the connection down, any other one (a timeout) does not.           *)
WriteLoopFail(c) ==
  /\ wl[c].pc = "fail"
  /\ SendOutQ(wl[c].ctx.session, NewErrResponseContext(wl[c].ctx))
  /\ \/ /\ EnterClear(c)
        /\ wl' = [wl EXCEPT ![c] = WL(InClear(c, "done"), None)]
     \/ /\ sock[c] # "closed"
        /\ wl' = [wl EXCEPT ![c] = WL("select", None)]
        /\ UNCHANGED <<closed, clr>>
  /\ UNCHANGED <<sessionQuit, replyLoop, authInfo, rcvd>>
  /\ UNCHANGED <<sent, fwd, writeQ, pendingQ, wire, txState, rl, cl, sock>>

(* Mutant of WriteLoopCheck: a request that pendingQ has no room for is     *)
(* forgotten instead of waited with.                                        *)
WriteLoopCheckDrops(c) ==
  /\ wl[c].pc = "check"
  /\ wl' = [wl EXCEPT ![c] = IF txState[c] = NoTx /\ Len(pendingQ[c]) < QueueSize
                               THEN WL("push", wl[c].ctx)
                             ELSE WL("select", None)]
  /\ UNCHANGED <<sessionVars, sent, fwd, writeQ, pendingQ, wire, txState, rl, clr, cl, closed, sock>>

(* LoadTxnState after the write: only outside a transaction is the request  *)
(* put on pendingQ.                                                         *)
WriteLoopCheck(c) ==
  /\ wl[c].pc = "check"
  /\ wl' = [wl EXCEPT ![c] = IF txState[c] = NoTx THEN WL("push", wl[c].ctx)
                             ELSE WL("select", None)]
  /\ UNCHANGED <<sessionVars, sent, fwd, writeQ, pendingQ, wire, txState, rl, clr, cl, closed, sock>>

WriteLoopPush(c) ==
  /\ wl[c].pc = "push"
  /\ Len(pendingQ[c]) < QueueSize
  /\ pendingQ' = [pendingQ EXCEPT ![c] = Append(@, wl[c].ctx)]
  /\ wl' = [wl EXCEPT ![c] = WL("select", None)]
  /\ UNCHANGED <<sessionVars, sent, fwd, writeQ, wire, txState, rl, clr, cl, closed, sock>>

WriteLoop(c) ==
  \/ WriteLoopTake(c)
  \/ WriteLoopQuit(c)
  \/ WriteLoopWrite(c)
  \/ WriteLoopWriteErr(c)
  \/ WriteLoopFail(c)
  \/ WriteLoopCheck(c)
  \/ WriteLoopPush(c)

----------------------------------------------------------------------------
(* ReadLoop                                                                 *)

(* select: quit if it is closed, otherwise on to the blocking Read.         *)
ReadLoopTop(c) ==
  /\ rl[c].pc = "top"
  /\ rl' = [rl EXCEPT ![c].pc = IF closed[c] THEN "done" ELSE "read"]
  /\ UNCHANGED <<sessionVars, sent, fwd, writeQ, pendingQ, wire, txState, wl, clr, cl, closed, sock>>

(* Clear's drain reads from the same reader while the ReadLoop is blocked   *)
(* in it: a data race on the reader's buffer, in which a reply may be lost  *)
(* and its reader be left with an error or with bytes that are no reply.    *)
BothReading(c) == rl[c].pc = "read" /\ clr[c].pc = "readP"

(* Read returns a reply (None: bytes that are no reply).                    *)
ReadLoopRead(c) ==
  /\ rl[c].pc = "read"
  /\ wire[c] # << >>
  /\ wire' = [wire EXCEPT ![c] = Tail(@)]
  /\ \E pkt \in {Head(wire[c])} \cup (IF BothReading(c) THEN {None} ELSE {}) :
       rl' = [rl EXCEPT ![c].pc = "load", ![c].pkt = pkt]
  /\ UNCHANGED <<sessionVars, sent, fwd, writeQ, pendingQ, txState, wl, clr, cl, closed, sock>>

(* LoadTxnState decides where the reply goes.                               *)
ReadLoopLoad(c) ==
  /\ rl[c].pc = "load"
  /\ rl' = IF txState[c] = NoTx
             THEN [rl EXCEPT ![c].pc = "pend"]
             ELSE [rl EXCEPT ![c].pc = "deliver",
                             ![c].to = txState[c].owner,
                             ![c].txEnd = (txState[c].state = "end")]
  /\ UNCHANGED <<sessionVars, sent, fwd, writeQ, pendingQ, wire, txState, wl, clr, cl, closed, sock>>

(* Read fails because the connection is gone: Clear and return.             *)
ReadLoopEOF(c) ==
  /\ rl[c].pc = "read"
  /\ \/ sock[c] = "eof" /\ wire[c] = << >>
     \/ sock[c] = "closed"
  /\ EnterClear(c)
  /\ rl' = [rl EXCEPT ![c] = RL(InClear(c, "done"))]
  /\ UNCHANGED <<sessionVars, sent, fwd, writeQ, pendingQ, wire, txState, wl, cl, sock>>

(* Read fails otherwise: continue.  The keep-alive timed out (reported      *)
(* once, after that the socket is at its end), or the reply was torn.       *)
ReadLoopSkip(c) ==
  /\ rl[c].pc = "read"
  /\ \/ /\ sock[c] = "timeout" /\ wire[c] = << >>
        /\ sock' = [sock EXCEPT ![c] = "eof"]
        /\ UNCHANGED wire
     \/ /\ BothReading(c) /\ wire[c] # << >>
        /\ wire' = [wire EXCEPT ![c] = Tail(@)]
        /\ UNCHANGED sock
  /\ rl' = [rl EXCEPT ![c] = RL("top")]
  /\ UNCHANGED <<sessionVars, sent, fwd, writeQ, pendingQ, txState, wl, clr, cl, closed>>

(* Mutant of ReadLoopMatch: looks at the head of pendingQ, leaves it there. *)
ReadLoopMatchPeeks(c) ==
  /\ rl[c].pc = "pend"
  /\ pendingQ[c] # << >>
  /\ rl' = [rl EXCEPT ![c].pc = "deliver", ![c].to = Head(pendingQ[c]).session]
  /\ UNCHANGED <<sessionVars, sent, fwd, writeQ, pendingQ, wire, txState, wl, clr, cl, closed, sock>>

(* Mutant of ReadLoopMatch: any OK completes the AuthInfo.                  *)
ReadLoopMatchAnyOk(c) ==
  /\ rl[c].pc = "pend"
  /\ pendingQ[c] # << >>
  /\ LET pCtx == Head(pendingQ[c]) IN
       rl' = [rl EXCEPT ![c].pc = "deliver", ![c].to = pCtx.session,
                ![c].callback = IF authInfo[pCtx.session] = "user" THEN pCtx.auth
                                ELSE "none"]
  /\ pendingQ' = [pendingQ EXCEPT ![c] = Tail(@)]
  /\ UNCHANGED <<sessionVars, sent, fwd, writeQ, wire, txState, wl, clr, cl, closed, sock>>

(* pCtx := <-pendingQ, and the callback of a successful AUTH.  ok: the      *)
(* packet read is the status OK, which any command may be answered with.    *)
ReadLoopMatch(c) ==
  /\ rl[c].pc = "pend"
  /\ pendingQ[c] # << >>
  /\ \E ok \in BOOLEAN :
       LET pCtx == Head(pendingQ[c])
           accepted == /\ authInfo[pCtx.session] = "user"
                       /\ pCtx.cmd = "auth"
                       /\ ok
       IN rl' = [rl EXCEPT ![c].pc = "deliver",
                           ![c].to = pCtx.session,
                           ![c].callback = IF accepted THEN pCtx.auth ELSE "none"]
  /\ pendingQ' = [pendingQ EXCEPT ![c] = Tail(@)]
  /\ UNCHANGED <<sessionVars, sent, fwd, writeQ, wire, txState, wl, clr, cl, closed, sock>>

(* Mutant of ReadLoopDeliver: no "continue" after a transaction's reply,    *)
(* which goes on to be paired with pendingQ as well.                        *)
ReadLoopDeliverGoesOn(c) ==
  /\ rl[c].pc = "deliver"
  /\ SendOutQ(rl[c].to, [req |-> rl[c].pkt, err |-> rl[c].pkt = None,
                         callback |-> rl[c].callback])
  /\ rl' = [rl EXCEPT ![c] = IF txState[c].owner = rl[c].to
                               THEN [@ EXCEPT !.pc = "pend"] ELSE RL("top")]
  /\ UNCHANGED <<sessionQuit, replyLoop, authInfo, rcvd>>
  /\ UNCHANGED <<sent, fwd, writeQ, pendingQ, wire, txState, wl, clr, cl, closed, sock>>

(* OutQ <- rspCtx                                                           *)
ReadLoopDeliver(c) ==
  /\ rl[c].pc = "deliver"
  /\ SendOutQ(rl[c].to, [req |-> rl[c].pkt, err |-> rl[c].pkt = None,
                         callback |-> rl[c].callback])
  /\ rl' = [rl EXCEPT ![c] = RL(IF rl[c].txEnd THEN "clearTx" ELSE "top")]
  /\ UNCHANGED <<sessionQuit, replyLoop, authInfo, rcvd>>
  /\ UNCHANGED <<sent, fwd, writeQ, pendingQ, wire, txState, wl, clr, cl, closed, sock>>

(* ClearTxnState, after the reply to what was the end of a transaction.     *)
ClearTxnState(c) ==
  /\ rl[c].pc = "clearTx"
  /\ txState' = [txState EXCEPT ![c] = NoTx]
  /\ rl' = [rl EXCEPT ![c] = RL("top")]
  /\ UNCHANGED <<sessionVars, sent, fwd, writeQ, pendingQ, wire, wl, clr, cl, closed, sock>>

ReadLoop(c) ==
  \/ ReadLoopTop(c)
  \/ ReadLoopRead(c)
  \/ ReadLoopLoad(c)
  \/ ReadLoopEOF(c)
  \/ ReadLoopSkip(c)
  \/ ReadLoopMatch(c)
  \/ ReadLoopDeliver(c)
  \/ ClearTxnState(c)

----------------------------------------------------------------------------
(* The body of Clear: drainWriteQ, drainPendingQ, innerClose.               *)

DrainTakeWrite(c) ==
  /\ clr[c].pc = "drainW"
  /\ writeQ[c] # << >>
  /\ clr' = [clr EXCEPT ![c] = CLR("flushW", Head(writeQ[c]))]
  /\ writeQ' = [writeQ EXCEPT ![c] = Tail(@)]
  /\ UNCHANGED <<sessionVars, sent, fwd, pendingQ, wire, txState, wl, rl, cl, closed, sock>>

(* writeQ is empty, or the drain timed out.                                 *)
DrainWriteEnd(c) ==
  /\ clr[c].pc = "drainW"
  /\ clr' = [clr EXCEPT ![c] = CLR("drainP", None)]
  /\ UNCHANGED <<sessionVars, sent, fwd, writeQ, pendingQ, wire, txState, wl, rl, cl, closed, sock>>

DrainFlush(c) ==
  /\ clr[c].pc = "flushW"
  /\ \/ WriteSucceeds(c, clr[c].ctx) /\ clr' = [clr EXCEPT ![c].pc = "pushP"]
     \/ WriteFails(c) /\ clr' = [clr EXCEPT ![c].pc = "failW"] /\ UNCHANGED wire
  /\ UNCHANGED <<sessionVars, sent, fwd, writeQ, pendingQ, txState, wl, rl, cl, closed, sock>>

(* pendingQ <- pCtx: a plain send, outside the select with the timeout.     *)
DrainPush(c) ==
  /\ clr[c].pc = "pushP"
  /\ Len(pendingQ[c]) < QueueSize
  /\ pendingQ' = [pendingQ EXCEPT ![c] = Append(@, clr[c].ctx)]
  /\ clr' = [clr EXCEPT ![c] = CLR("drainW", None)]
  /\ UNCHANGED <<sessionVars, sent, fwd, writeQ, wire, txState, wl, rl, cl, closed, sock>>

DrainFail(c) ==
  /\ clr[c].pc = "failW"
  /\ SendOutQ(clr[c].ctx.session, NewErrResponseContext(clr[c].ctx))
  /\ clr' = [clr EXCEPT ![c] = CLR("drainW", None)]
  /\ UNCHANGED <<sessionQuit, replyLoop, authInfo, rcvd>>
  /\ UNCHANGED <<sent, fwd, writeQ, pendingQ, wire, txState, wl, rl, cl, closed, sock>>

DrainTakePending(c) ==
  /\ clr[c].pc = "drainP"
  /\ pendingQ[c] # << >>
  /\ clr' = [clr EXCEPT ![c] = CLR("readP", Head(pendingQ[c]))]
  /\ pendingQ' = [pendingQ EXCEPT ![c] = Tail(@)]
  /\ UNCHANGED <<sessionVars, sent, fwd, writeQ, wire, txState, wl, rl, cl, closed, sock>>

(* Mutant of DrainRead: a read that fails is tried again.                   *)
DrainReadRetries(c) ==
  /\ clr[c].pc = "readP"
  /\ wire[c] # << >>
  /\ wire' = [wire EXCEPT ![c] = Tail(@)]
  /\ clr' = [clr EXCEPT ![c].pc = "sendP",
                ![c].rsp = [req |-> Head(wire[c]), err |-> FALSE, callback |-> "none"]]
  /\ UNCHANGED <<sessionVars, sent, fwd, writeQ, pendingQ, txState, wl, rl, cl, closed, sock>>

(* Read, on the reader that the ReadLoop may be blocked in as well: the     *)
(* next reply goes to either of them.  It fails when nothing is left to     *)
(* read, or when the reply was torn.                                        *)
DrainRead(c) ==
  /\ clr[c].pc = "readP"
  /\ wire[c] # << >> \/ sock[c] # "up"
  /\ wire' = IF wire[c] = << >> THEN wire ELSE [wire EXCEPT ![c] = Tail(@)]
  /\ \/ /\ wire[c] # << >>
        /\ clr' = [clr EXCEPT ![c].pc = "sendP",
                     ![c].rsp = [req |-> Head(wire[c]), err |-> FALSE,
                                 callback |-> "none"]]
     \/ /\ wire[c] = << >> \/ BothReading(c)
        /\ clr' = [clr EXCEPT ![c].pc = "sendP",
                     ![c].rsp = NewErrResponseContext(clr[c].ctx)]
  /\ UNCHANGED <<sessionVars, sent, fwd, writeQ, pendingQ, txState, wl, rl, cl, closed, sock>>

DrainSend(c) ==
  /\ clr[c].pc = "sendP"
  /\ SendOutQ(clr[c].ctx.session, clr[c].rsp)
  /\ clr' = [clr EXCEPT ![c] = CLR("drainP", None)]
  /\ UNCHANGED <<sessionQuit, replyLoop, authInfo, rcvd>>
  /\ UNCHANGED <<sent, fwd, writeQ, pendingQ, wire, txState, wl, rl, cl, closed, sock>>

(* pendingQ is empty or the drain timed out; innerClose; Clear returns to   *)
(* the goroutine that entered it.                                           *)
InnerClose(c) ==
  /\ clr[c].pc = "drainP"
  /\ sock' = [sock EXCEPT ![c] = "closed"]
  /\ clr' = [clr EXCEPT ![c] = CLR("done", None)]
  /\ wl' = IF wl[c].pc = "clear" THEN [wl EXCEPT ![c].pc = "done"] ELSE wl
  /\ rl' = IF rl[c].pc = "clear" THEN [rl EXCEPT ![c].pc = "done"] ELSE rl
  /\ cl' = IF cl[c] = "clear" THEN [cl EXCEPT ![c] = "wait"] ELSE cl
  /\ UNCHANGED <<sessionVars, sent, fwd, writeQ, pendingQ, wire, txState, closed>>

Clear(c) ==
  \/ DrainTakeWrite(c)
  \/ DrainWriteEnd(c)
  \/ DrainFlush(c)
  \/ DrainPush(c)
  \/ DrainFail(c)
  \/ DrainTakePending(c)
  \/ DrainRead(c)
  \/ DrainSend(c)
  \/ InnerClose(c)

(* Close: Clear, then wait for the loops, for at most a second.             *)
Close(c) ==
  /\ "close" \in Faults
  /\ cl[c] = "none"
  /\ EnterClear(c)
  /\ cl' = [cl EXCEPT ![c] = InClear(c, "wait")]
  /\ UNCHANGED <<sessionVars, sent, fwd, writeQ, pendingQ, wire, txState, wl, rl, sock>>

CloseReturn(c) ==
  /\ cl[c] = "wait"
  /\ cl' = [cl EXCEPT ![c] = "returned"]
  /\ UNCHANGED <<sessionVars, sent, fwd, writeQ, pendingQ, wire, txState, wl, rl, clr, closed, sock>>

(* external: the backend goes away.  The replies it had sent can still be   *)
(* read, the others are lost.                                               *)
PeerFail(c) ==
  /\ "peer" \in Faults
  /\ sock[c] = "up"
  /\ \E k \in 0..Len(wire[c]) : wire' = [wire EXCEPT ![c] = SubSeq(@, 1, k)]
  /\ \E e \in {"eof", "timeout"} : sock' = [sock EXCEPT ![c] = e]
  /\ UNCHANGED <<sessionVars, sent, fwd, writeQ, pendingQ, txState, wl, rl, clr, cl, closed>>

----------------------------------------------------------------------------

ReplyLoop(s) ==
  /\ ReplyLoopWrite(s) \/ ReplyLoopQuit(s)
  /\ UNCHANGED <<sent, fwd, connVars>>

(* What a connection does by itself.                                        *)
ConnNext(c) ==
  \/ WriteLoop(c)
  \/ ReadLoop(c)
  \/ Clear(c)
  \/ Close(c)
  \/ CloseReturn(c)
  \/ PeerFail(c)

Next ==
  \/ \E s \in Session, cmd \in Cmds : Reject(s, cmd)
  \/ \E s \in Session, c \in Conn, cmd \in Cmds : Forward(s, c, cmd)
  \/ \E s \in Session : Enqueue(s) \/ CloseSession(s) \/ ReplyLoop(s)
  \/ \E c \in Conn : ConnNext(c)

Spec == Init /\ [][Next]_vars

(* Each goroutine is scheduled as long as it can take a step, and so is the *)
(* event loop that is inside Enqueue.  Nothing is assumed of the clients,   *)
(* of Close's callers or of the backend's failures.                         *)
Fairness ==
  /\ \A s \in Session : WF_vars(Enqueue(s)) /\ WF_vars(ReplyLoop(s))
  /\ \A c \in Conn : /\ WF_vars(WriteLoop(c)) /\ WF_vars(ReadLoop(c))
                      /\ WF_vars(Clear(c)) /\ WF_vars(CloseReturn(c))

FairSpec == Spec /\ Fairness

----------------------------------------------------------------------------
(* Properties                                                               *)

(* No transactions, and connections that neither fail nor are closed.       *)
PlainWorkload == Cmds \cap TxCmds = {} /\ Faults \subseteq {"leave"}

(* The replies still to be paired, and the requests remembered for them.    *)
Outstanding(c) ==
  (IF rl[c].pc \in {"load", "pend"} THEN <<rl[c].pkt>> ELSE << >>) \o wire[c]
Remembered(c) ==
  pendingQ[c] \o (IF wl[c].pc \in {"check", "push"} THEN <<wl[c].ctx>> ELSE << >>)

(* What ReadLoop has still to pair with pendingQ is, in order, what the     *)
(* WriteLoop has put there or is about to: "A typical pattern is a FIFO     *)
(* structure" (lines 40-42).                                                *)
PairsUp == \A c \in Conn : Outstanding(c) = Remembered(c)

(* A packet that the backend sent is only ever given to the session whose   *)
(* request it answers: ReadLoop's pairing of replies with pendingQ.         *)
ReplyToRequester ==
  \A s \in Session :
    /\ \A i \in 1..Len(OutQ[s]) : OutQ[s][i].err \/ OutQ[s][i].req.session = s
    /\ \A i \in 1..Len(rcvd[s]) : rcvd[s][i].err \/ rcvd[s][i].req.session = s

(* The callback that completes a session's AuthInfo rides on the backend's  *)
(* own reply to an AUTH of that session (ReadLoop, lines 250-267).          *)
CallbackOfOwnAuth ==
  \A s \in Session : \A i \in 1..Len(OutQ[s]) :
    LET rsp == OutQ[s][i] IN
      rsp.callback # "none" =>
        rsp.req # None /\ rsp.req.session = s /\ rsp.req.cmd = "auth"

(* The line of a connection, in the words of module Mux: the requests that  *)
(* were enqueued on it and whose reply has not been put on an OutQ, oldest  *)
(* first.                                                                   *)
InLine(c) ==
  (IF rl[c].pc \in {"load", "pend", "deliver"} THEN <<rl[c].pkt>> ELSE << >>)
    \o wire[c]
    \o (IF wl[c].pc = "write" THEN <<wl[c].ctx>> ELSE << >>)
    \o writeQ[c]

(* A request is known there by its session and its number.                  *)
Id(r) == [session |-> r.session, n |-> r.n]

Ideal == INSTANCE Mux WITH
  Request <- [session: Session, n: 1..MaxReqs],
  line <- [c \in Conn |-> [i \in 1..Len(InLine(c)) |-> Id(InLine(c)[i])]],
  box <- [s \in Session |-> [i \in 1..Len(OutQ[s]) |-> Id(OutQ[s][i].req)]]

(* The loops, the two queues and the socket of a connection behave as one   *)
(* line: of all that happens, only Enqueue adds to it, at its end, and only *)
(* ReadLoop's delivery to an OutQ takes from it, at its front and for the   *)
(* session that asked.                                                      *)
ImplementsMux == Ideal!Spec

(* Nobody gets more replies than it sent requests, however the connection   *)
(* fails or is closed: a request leaves the loops and the drains with at    *)
(* most one answer.                                                         *)
AnswersBounded ==
  \A s \in Session : Len(rcvd[s]) + Len(OutQ[s]) <= sent[s]

(* What has been handed out to a client: the replies written to it, then    *)
(* the ones its ReplyLoop has still to write.                               *)
Handed(s) == rcvd[s] \o OutQ[s]

(* A packet that the backend sent is handed out at most once.               *)
ReplyOnce ==
  \A s, t \in Session : \A i \in 1..Len(Handed(s)), j \in 1..Len(Handed(t)) :
    ~Handed(s)[i].err /\ ~Handed(t)[j].err /\ Handed(s)[i].req = Handed(t)[j].req
      => s = t /\ i = j

(* Every request gets its reply, made by the backend or in its place,       *)
(* unless its client leaves or a connection is torn down first.             *)
EveryRequestAnswered ==
  \A s \in Session, n \in 1..MaxReqs :
    sent[s] >= n ~> Len(rcvd[s]) >= n \/ sessionQuit[s] \/ \E c \in Conn : closed[c]

(* Clear waits in one of the two operations of its drains that no timeout   *)
(* covers: the Read of a reply that does not come, and the send on a full   *)
(* pendingQ.                                                                *)
DrainBlocked(c) ==
  \/ clr[c].pc = "readP" /\ wire[c] = << >> /\ sock[c] = "up"
  \/ clr[c].pc = "pushP" /\ Len(pendingQ[c]) = QueueSize

(* Close returns, whatever the backend, the loops and the queues do (Close  *)
(* waits "for goroutines with timeout", line 325), unless a drain waits for *)
(* a backend that is up and silent or for room that nobody makes.           *)
CloseEnds ==
  \A c \in Conn : cl[c] = "clear" ~> cl[c] = "returned" \/ DrainBlocked(c)

----------------------------------------------------------------------------
(* Statements about the code that it does not keep (README, section 4)      *)

(* Once the password is recorded it stays recorded (the callback "preserves *)
(* the username set earlier but adds the password", lines 252-254).         *)
PasswordKept ==
  [][\A s \in Session : authInfo[s] = "full" => authInfo'[s] = "full"]_authInfo

(* pendingQ holds "The commands that have been sent to the backend but not  *)
(* yet match the response" (line 40): none whose reply has been handed out. *)
PendingUnmatched ==
  \A c \in Conn : \A i \in 1..Len(pendingQ[c]) :
    LET r == pendingQ[c][i] IN
      \A s \in Session : LET out == rcvd[s] \o OutQ[s] IN
        \A j \in 1..Len(out) : out[j].req # r

(* Close returns ("Wait for goroutines with timeout", line 325).            *)
CloseReturns == \A c \in Conn : cl[c] = "clear" ~> cl[c] = "returned"

============================================================================
