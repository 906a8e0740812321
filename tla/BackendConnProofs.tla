------------------------- MODULE BackendConnProofs -------------------------
(***************************************************************************)
(* Theorems about BackendConn, for any sessions, connections, queue sizes  *)
(* and number of requests: what they keep, and that they implement Mux.    *)
(***************************************************************************)
EXTENDS BackendConn, SequenceTheorems, TLAPS

(* Sending on, and receiving from, one of a family of bounded channels.     *)
LEMMA QueuePush ==
  ASSUME NEW I, NEW S, NEW q \in [I -> Seq(S)], NEW i \in I, NEW e \in S,
         NEW n \in Nat, Len(q[i]) < n, \A j \in I : Len(q[j]) <= n
  PROVE  /\ [q EXCEPT ![i] = Append(q[i], e)] \in [I -> Seq(S)]
         /\ \A j \in I : Len([q EXCEPT ![i] = Append(q[i], e)][j]) <= n
<1>1. Append(q[i], e) \in Seq(S) /\ Len(Append(q[i], e)) = Len(q[i]) + 1
  BY AppendProperties
<1>2. Len(q[i]) \in Nat
  BY LenProperties
<1>3. Len(Append(q[i], e)) <= n
  BY <1>1, <1>2
<1> QED
  BY <1>1, <1>3

LEMMA QueuePop ==
  ASSUME NEW I, NEW S, NEW q \in [I -> Seq(S)], NEW i \in I, q[i] # << >>
  PROVE  /\ Head(q[i]) \in S
         /\ [q EXCEPT ![i] = Tail(q[i])] \in [I -> Seq(S)]
         /\ \A n \in Nat : (\A j \in I : Len(q[j]) <= n)
               => \A j \in I : Len([q EXCEPT ![i] = Tail(q[i])][j]) <= n
<1>1. /\ Head(q[i]) \in S
      /\ Tail(q[i]) \in Seq(S)
      /\ Len(Tail(q[i])) = Len(q[i]) - 1
  BY HeadTailProperties
<1>2. Len(q[i]) \in Nat
  BY LenProperties
<1>3. \A n \in Nat : Len(q[i]) <= n => Len(Tail(q[i])) <= n
  BY <1>1, <1>2
<1> QED
  BY <1>1, <1>3

(* A goroutine that is past taking a request from a queue holds one.        *)
HoldsRequest ==
  \A c \in Conn :
    /\ wl[c].pc \in {"write", "fail", "check", "push"} => wl[c].ctx # None
    /\ clr[c].pc \in {"flushW", "pushP", "failW", "readP", "sendP"} => clr[c].ctx # None
    /\ clr[c].pc = "sendP" => clr[c].rsp # None

(* The inductive form of TypeOK: a step that puts a goroutine's request on  *)
(* a queue keeps the queue's type only if the goroutine holds a request.    *)
TypeInv == TypeOK /\ HoldsRequest

LEMMA TypeInit == Init => TypeInv
  BY SessionAssumption, ConnAssumption
  DEF Init, SessionInit, ConnInit, TypeInv, TypeOK, SessionTypeOK, HoldsRequest,
      AuthInfo, TxState, NoTx, WriteLoopState, ReadLoopState, ClearState, WL, RL, CLR

(* A request made by Forward or Reject is well formed.                      *)
LEMMA NewRequestType ==
  ASSUME TypeOK, NEW s \in Session, NEW cmd \in Cmds, sent[s] < MaxReqs
  PROVE  NewRequest(s, cmd) \in RequestContext
  BY SessionAssumption
  DEF TypeOK, SessionTypeOK, NewRequest, RequestContext, DispatchAuth, AuthInfo

(* A reply put on a client's queue, a request put on the wire.              *)
LEMMA OutQType ==
  ASSUME TypeOK, NEW s \in Session \cup {None}, NEW rsp \in ResponseContext, SendOutQ(s, rsp)
  PROVE  OutQ' \in [Session -> Seq(ResponseContext)]
<1>1. CASE s \in Session
  <2>1. Append(OutQ[s], rsp) \in Seq(ResponseContext)
    BY <1>1, AppendProperties DEF TypeOK, SessionTypeOK
  <2> QED
    BY <1>1, <2>1 DEF TypeOK, SessionTypeOK, SendOutQ
<1>2. CASE s \notin Session
  BY <1>2 DEF TypeOK, SessionTypeOK, SendOutQ
<1> QED
  BY <1>1, <1>2

LEMMA WireType ==
  ASSUME TypeOK, NEW c \in Conn, NEW ctx \in RequestContext, WriteSucceeds(c, ctx)
  PROVE  wire' \in [Conn -> Seq(RequestContext)]
<1>1. Append(wire[c], ctx) \in Seq(RequestContext)
  BY AppendProperties DEF TypeOK
<1> QED
  BY <1>1 DEF TypeOK, WriteSucceeds

(* The reply that the proxy makes up for a request.                         *)
LEMMA ErrResponseType ==
  ASSUME NEW r \in RequestContext \cup {None}
  PROVE  NewErrResponseContext(r) \in ResponseContext
  BY DEF NewErrResponseContext, ResponseContext, AuthInfo

(* The fields of the ReadLoop's state that its steps set together.          *)
LEMMA ReadLoopFields ==
  ASSUME NEW r \in ReadLoopState, NEW pkt \in RequestContext \cup {None},
         NEW to \in Session \cup {None}, NEW cb \in AuthInfo, NEW e \in BOOLEAN
  PROVE  /\ [r EXCEPT !.pc = "pend"] \in ReadLoopState
         /\ [r EXCEPT !.pc = "done"] \in ReadLoopState
         /\ [r EXCEPT !.pc = "load", !.pkt = pkt] \in ReadLoopState
         /\ [r EXCEPT !.pc = "deliver", !.to = to, !.callback = cb] \in ReadLoopState
         /\ [r EXCEPT !.pc = "deliver", !.to = to, !.txEnd = e] \in ReadLoopState
  BY Zenon DEF ReadLoopState

LEMMA ClearFields ==
  ASSUME NEW r \in ClearState, NEW ctx \in RequestContext \cup {None},
         NEW rsp \in ResponseContext,
         NEW pc \in {"drainW", "flushW", "pushP", "failW", "drainP", "readP", "done"}
  PROVE  /\ CLR(pc, ctx) \in ClearState
         /\ [r EXCEPT !.pc = pc] \in ClearState
         /\ [r EXCEPT !.pc = "sendP", !.rsp = rsp] \in ClearState
  BY Zenon DEF ClearState, CLR

(* Entering Clear.                                                          *)
LEMMA EnterClearType ==
  ASSUME TypeOK, NEW c \in Conn, EnterClear(c)
  PROVE  clr' \in [Conn -> ClearState] /\ closed' \in [Conn -> BOOLEAN]
<1>1. CLR("drainW", None) \in ClearState
  BY DEF CLR, ClearState
<1>2. clr' \in [Conn -> ClearState]
  BY <1>1 DEF TypeOK, EnterClear
<1>3. closed' \in [Conn -> BOOLEAN]
  BY DEF TypeOK, EnterClear
<1> QED
  BY <1>2, <1>3

LEMMA TypeForward ==
  ASSUME TypeInv, NEW s \in Session, NEW c \in Conn, NEW cmd \in Cmds, Forward(s, c, cmd)
  PROVE  TypeInv'
<1>1. NewRequest(s, cmd) \in RequestContext
  BY NewRequestType DEF TypeInv, Forward
<1>2. sent' \in [Session -> 0..MaxReqs]
  BY SessionAssumption DEF TypeInv, TypeOK, Forward
<1>3. fwd' \in [Session -> {None} \cup [conn: Conn, ctx: RequestContext]]
  BY <1>1 DEF TypeInv, TypeOK, Forward
<1>4. authInfo' \in [Session -> AuthInfo]
  BY DEF TypeInv, TypeOK, SessionTypeOK, Forward, AuthInfo
<1>5. txState' \in [Conn -> TxState]
  <2>1. [owner |-> s, state |-> TxStateOf(cmd)] \in TxState
    BY DEF TxState, TxStateOf
  <2> QED
    BY <2>1 DEF TypeInv, TypeOK, Forward, UpdateTxnState
<1> QED
  BY <1>2, <1>3, <1>4, <1>5
  DEF TypeInv, TypeOK, SessionTypeOK, HoldsRequest, Forward, loopVars

LEMMA TypeEnqueue ==
  ASSUME TypeInv, NEW s \in Session, Enqueue(s)
  PROVE  TypeInv'
<1>1. fwd[s] \in [conn: Conn, ctx: RequestContext]
  BY DEF TypeInv, TypeOK, Enqueue
<1>2. /\ writeQ' \in [Conn -> Seq(RequestContext)]
      /\ \A c \in Conn : Len(writeQ'[c]) <= QueueSize
  <2>1. fwd[s].conn \in Conn /\ fwd[s].ctx \in RequestContext
    BY <1>1
  <2> QED
    BY <2>1, QueuePush, ConnAssumption DEF TypeInv, TypeOK, Enqueue
<1>3. fwd' \in [Session -> {None} \cup [conn: Conn, ctx: RequestContext]]
  BY DEF TypeInv, TypeOK, Enqueue
<1> QED
  BY <1>2, <1>3
  DEF TypeInv, TypeOK, SessionTypeOK, HoldsRequest, Enqueue, sessionVars, loopVars

LEMMA TypeWriteLoopTake ==
  ASSUME TypeInv, NEW c \in Conn, WriteLoopTake(c)
  PROVE  TypeInv'
<1>1. /\ Head(writeQ[c]) \in RequestContext
      /\ writeQ' \in [Conn -> Seq(RequestContext)]
      /\ \A d \in Conn : Len(writeQ'[d]) <= QueueSize
  BY QueuePop, ConnAssumption DEF TypeInv, TypeOK, WriteLoopTake
<1>2. wl' \in [Conn -> WriteLoopState]
  BY <1>1 DEF TypeInv, TypeOK, WriteLoopTake, WriteLoopState, WL
<1>3. HoldsRequest'
  BY <1>1, SessionAssumption
  DEF TypeInv, TypeOK, HoldsRequest, WriteLoopTake, WriteLoopState, WL
<1> QED
  BY <1>1, <1>2, <1>3 DEF TypeInv, TypeOK, SessionTypeOK, WriteLoopTake, sessionVars

LEMMA TypeWriteLoopQuit ==
  ASSUME TypeInv, NEW c \in Conn, WriteLoopQuit(c)
  PROVE  TypeInv'
<1>1. wl' \in [Conn -> WriteLoopState]
  BY DEF TypeInv, TypeOK, WriteLoopQuit, WriteLoopState, WL
<1>2. HoldsRequest'
  BY DEF TypeInv, TypeOK, HoldsRequest, WriteLoopQuit, WriteLoopState, WL
<1> QED
  BY <1>1, <1>2 DEF TypeInv, TypeOK, SessionTypeOK, WriteLoopQuit, sessionVars

LEMMA TypeWriteLoopWrite ==
  ASSUME TypeInv, NEW c \in Conn, WriteLoopWrite(c)
  PROVE  TypeInv'
<1>1. wl[c].ctx \in RequestContext
  BY DEF TypeInv, TypeOK, HoldsRequest, WriteLoopWrite, WriteLoopState
<1>2. wire' \in [Conn -> Seq(RequestContext)]
  BY <1>1, WireType DEF TypeInv, WriteLoopWrite
<1>3. wl' \in [Conn -> WriteLoopState]
  BY DEF TypeInv, TypeOK, WriteLoopWrite, WriteLoopState
<1>4. HoldsRequest'
  BY DEF TypeInv, TypeOK, HoldsRequest, WriteLoopWrite, WriteLoopState
<1> QED
  BY <1>2, <1>3, <1>4 DEF TypeInv, TypeOK, SessionTypeOK, WriteLoopWrite, sessionVars

LEMMA TypeWriteLoopWriteErr ==
  ASSUME TypeInv, NEW c \in Conn, WriteLoopWriteErr(c)
  PROVE  TypeInv'
<1>1. wl' \in [Conn -> WriteLoopState]
  BY DEF TypeInv, TypeOK, WriteLoopWriteErr, WriteLoopState
<1>2. HoldsRequest'
  BY DEF TypeInv, TypeOK, HoldsRequest, WriteLoopWriteErr, WriteLoopState
<1> QED
  BY <1>1, <1>2 DEF TypeInv, TypeOK, SessionTypeOK, WriteLoopWriteErr, sessionVars

LEMMA TypeWriteLoopFail ==
  ASSUME TypeInv, NEW c \in Conn, WriteLoopFail(c)
  PROVE  TypeInv'
<1>1. wl[c].ctx \in RequestContext
  BY DEF TypeInv, TypeOK, HoldsRequest, WriteLoopFail, WriteLoopState
<1>2. OutQ' \in [Session -> Seq(ResponseContext)]
  BY <1>1, OutQType, ErrResponseType DEF TypeInv, WriteLoopFail, RequestContext
<1>3. wl' \in [Conn -> WriteLoopState]
  <2>1. /\ WL(InClear(c, "done"), None) \in WriteLoopState
        /\ WL("select", None) \in WriteLoopState
    BY DEF WriteLoopState, WL, InClear
  <2> QED
    BY <2>1 DEF TypeInv, TypeOK, WriteLoopFail
<1>4. clr' \in [Conn -> ClearState] /\ closed' \in [Conn -> BOOLEAN]
  BY EnterClearType DEF TypeInv, TypeOK, WriteLoopFail
<1>5. HoldsRequest'
  BY DEF TypeInv, TypeOK, HoldsRequest, WriteLoopFail, WriteLoopState, WL, InClear,
     EnterClear, ClearState, CLR
<1> QED
  BY <1>2, <1>3, <1>4, <1>5 DEF TypeInv, TypeOK, SessionTypeOK, WriteLoopFail

LEMMA TypeWriteLoopCheck ==
  ASSUME TypeInv, NEW c \in Conn, WriteLoopCheck(c)
  PROVE  TypeInv'
<1>1. wl' \in [Conn -> WriteLoopState]
  BY DEF TypeInv, TypeOK, WriteLoopCheck, WriteLoopState, WL
<1>2. HoldsRequest'
  BY DEF TypeInv, TypeOK, HoldsRequest, WriteLoopCheck, WriteLoopState, WL
<1> QED
  BY <1>1, <1>2 DEF TypeInv, TypeOK, SessionTypeOK, WriteLoopCheck, sessionVars

LEMMA TypeWriteLoopPush ==
  ASSUME TypeInv, NEW c \in Conn, WriteLoopPush(c)
  PROVE  TypeInv'
<1>1. wl[c].ctx \in RequestContext
  BY DEF TypeInv, TypeOK, HoldsRequest, WriteLoopPush, WriteLoopState
<1>2. /\ pendingQ' \in [Conn -> Seq(RequestContext)]
      /\ \A d \in Conn : Len(pendingQ'[d]) <= QueueSize
  BY <1>1, QueuePush, ConnAssumption DEF TypeInv, TypeOK, WriteLoopPush
<1>3. wl' \in [Conn -> WriteLoopState]
  BY DEF TypeInv, TypeOK, WriteLoopPush, WriteLoopState, WL
<1>4. HoldsRequest'
  BY DEF TypeInv, TypeOK, HoldsRequest, WriteLoopPush, WriteLoopState, WL
<1> QED
  BY <1>2, <1>3, <1>4 DEF TypeInv, TypeOK, SessionTypeOK, WriteLoopPush, sessionVars

LEMMA TypeReadLoopTop ==
  ASSUME TypeInv, NEW c \in Conn, ReadLoopTop(c)
  PROVE  TypeInv'
<1>1. rl' \in [Conn -> ReadLoopState]
  <2>1. /\ [rl[c] EXCEPT !.pc = "done"] \in ReadLoopState
        /\ [rl[c] EXCEPT !.pc = "read"] \in ReadLoopState
    BY DEF TypeInv, TypeOK, ReadLoopState
  <2> QED
    BY <2>1 DEF TypeInv, TypeOK, ReadLoopTop
<1> QED
  BY <1>1 DEF TypeInv, TypeOK, SessionTypeOK, HoldsRequest, ReadLoopTop, sessionVars

LEMMA TypeReadLoopRead ==
  ASSUME TypeInv, NEW c \in Conn, ReadLoopRead(c)
  PROVE  TypeInv'
<1>1. Head(wire[c]) \in RequestContext /\ wire' \in [Conn -> Seq(RequestContext)]
  BY QueuePop DEF TypeInv, TypeOK, ReadLoopRead
<1>2. rl' \in [Conn -> ReadLoopState]
  <2>1. PICK pkt \in RequestContext \cup {None} :
          rl' = [rl EXCEPT ![c] = [rl[c] EXCEPT !.pc = "load", !.pkt = pkt]]
    BY <1>1 DEF TypeInv, TypeOK, ReadLoopRead, ReadLoopState
  <2>2. [rl[c] EXCEPT !.pc = "load", !.pkt = pkt] \in ReadLoopState
    BY ReadLoopFields DEF TypeInv, TypeOK, AuthInfo
  <2> QED
    BY <2>1, <2>2 DEF TypeInv, TypeOK
<1> QED
  BY <1>1, <1>2 DEF TypeInv, TypeOK, SessionTypeOK, HoldsRequest, ReadLoopRead, sessionVars

LEMMA TypeReadLoopLoad ==
  ASSUME TypeInv, NEW c \in Conn, ReadLoopLoad(c)
  PROVE  TypeInv'
<1>1. txState[c].owner \in Session \cup {None}
  BY DEF TypeInv, TypeOK, TxState, NoTx
<1>2. rl' \in [Conn -> ReadLoopState]
  <2>1. [rl[c] EXCEPT !.pc = "pend"] \in ReadLoopState
    BY <1>1, ReadLoopFields DEF TypeInv, TypeOK, AuthInfo
  <2>2. [rl[c] EXCEPT !.pc = "deliver", !.to = txState[c].owner,
                      !.txEnd = (txState[c].state = "end")] \in ReadLoopState
    BY <1>1, ReadLoopFields DEF TypeInv, TypeOK, AuthInfo
  <2> QED
    BY <2>1, <2>2 DEF TypeInv, TypeOK, ReadLoopLoad
<1> QED
  BY <1>2 DEF TypeInv, TypeOK, SessionTypeOK, HoldsRequest, ReadLoopLoad, sessionVars

LEMMA TypeReadLoopEOF ==
  ASSUME TypeInv, NEW c \in Conn, ReadLoopEOF(c)
  PROVE  TypeInv'
<1>1. rl' \in [Conn -> ReadLoopState]
  BY DEF TypeInv, TypeOK, ReadLoopEOF, ReadLoopState, RL, InClear, AuthInfo
<1>2. clr' \in [Conn -> ClearState] /\ closed' \in [Conn -> BOOLEAN]
  BY DEF TypeInv, TypeOK, ReadLoopEOF, EnterClear, ClearState, CLR
<1>3. HoldsRequest'
  BY DEF TypeInv, TypeOK, HoldsRequest, ReadLoopEOF, EnterClear, ClearState, CLR
<1> QED
  BY <1>1, <1>2, <1>3 DEF TypeInv, TypeOK, SessionTypeOK, ReadLoopEOF, sessionVars

LEMMA TypeReadLoopSkip ==
  ASSUME TypeInv, NEW c \in Conn, ReadLoopSkip(c)
  PROVE  TypeInv'
<1>1. rl' \in [Conn -> ReadLoopState]
  BY DEF TypeInv, TypeOK, ReadLoopSkip, ReadLoopState, RL, AuthInfo
<1>2. wire' \in [Conn -> Seq(RequestContext)]
  <2>1. wire[c] # << >> => [wire EXCEPT ![c] = Tail(wire[c])] \in [Conn -> Seq(RequestContext)]
    BY QueuePop DEF TypeInv, TypeOK
  <2> QED
    BY <2>1 DEF TypeInv, TypeOK, ReadLoopSkip
<1>3. sock' \in [Conn -> {"up", "eof", "timeout", "closed"}]
  BY DEF TypeInv, TypeOK, ReadLoopSkip
<1> QED
  BY <1>1, <1>2, <1>3 DEF TypeInv, TypeOK, SessionTypeOK, HoldsRequest, ReadLoopSkip, sessionVars

LEMMA TypeReadLoopMatch ==
  ASSUME TypeInv, NEW c \in Conn, ReadLoopMatch(c)
  PROVE  TypeInv'
<1>1. /\ Head(pendingQ[c]) \in RequestContext
      /\ pendingQ' \in [Conn -> Seq(RequestContext)]
      /\ \A d \in Conn : Len(pendingQ'[d]) <= QueueSize
  BY QueuePop, ConnAssumption DEF TypeInv, TypeOK, ReadLoopMatch
<1>2. rl' \in [Conn -> ReadLoopState]
  <2>1. PICK cb \in {Head(pendingQ[c]).auth, "none"} :
          rl' = [rl EXCEPT ![c] = [rl[c] EXCEPT !.pc = "deliver",
                                     !.to = Head(pendingQ[c]).session, !.callback = cb]]
    BY DEF TypeInv, TypeOK, ReadLoopMatch, ReadLoopState
  <2>2. cb \in AuthInfo /\ Head(pendingQ[c]).session \in Session
    BY <1>1, <2>1 DEF RequestContext, AuthInfo
  <2>3. [rl[c] EXCEPT !.pc = "deliver", !.to = Head(pendingQ[c]).session, !.callback = cb]
          \in ReadLoopState
    BY <2>2, ReadLoopFields DEF TypeInv, TypeOK
  <2> QED
    BY <2>1, <2>3 DEF TypeInv, TypeOK
<1> QED
  BY <1>1, <1>2 DEF TypeInv, TypeOK, SessionTypeOK, HoldsRequest, ReadLoopMatch, sessionVars

LEMMA TypeReadLoopDeliver ==
  ASSUME TypeInv, NEW c \in Conn, ReadLoopDeliver(c)
  PROVE  TypeInv'
<1>1. rl[c] \in ReadLoopState
  BY DEF TypeInv, TypeOK
<1>2. [req |-> rl[c].pkt, err |-> rl[c].pkt = None, callback |-> rl[c].callback]
        \in ResponseContext
  BY <1>1 DEF ReadLoopState, ResponseContext
<1>3. OutQ' \in [Session -> Seq(ResponseContext)]
  BY <1>1, <1>2, OutQType DEF TypeInv, ReadLoopDeliver, ReadLoopState
<1>4. rl' \in [Conn -> ReadLoopState]
  BY DEF TypeInv, TypeOK, ReadLoopDeliver, ReadLoopState, RL, AuthInfo
<1> QED
  BY <1>3, <1>4 DEF TypeInv, TypeOK, SessionTypeOK, HoldsRequest, ReadLoopDeliver

LEMMA TypeClearTxnState ==
  ASSUME TypeInv, NEW c \in Conn, ClearTxnState(c)
  PROVE  TypeInv'
<1>1. rl' \in [Conn -> ReadLoopState] /\ txState' \in [Conn -> TxState]
  BY DEF TypeInv, TypeOK, ClearTxnState, ReadLoopState, RL, AuthInfo, TxState
<1> QED
  BY <1>1 DEF TypeInv, TypeOK, SessionTypeOK, HoldsRequest, ClearTxnState, sessionVars

LEMMA TypeDrainTakeWrite ==
  ASSUME TypeInv, NEW c \in Conn, DrainTakeWrite(c)
  PROVE  TypeInv'
<1>1. /\ Head(writeQ[c]) \in RequestContext
      /\ writeQ' \in [Conn -> Seq(RequestContext)]
      /\ \A d \in Conn : Len(writeQ'[d]) <= QueueSize
  BY QueuePop, ConnAssumption DEF TypeInv, TypeOK, DrainTakeWrite
<1>2. CLR("flushW", Head(writeQ[c])) \in ClearState
  BY <1>1 DEF CLR, ClearState
<1>3. clr' \in [Conn -> ClearState]
  BY <1>2 DEF TypeInv, TypeOK, DrainTakeWrite
<1>4. HoldsRequest'
  BY <1>1, SessionAssumption DEF TypeInv, TypeOK, HoldsRequest, DrainTakeWrite, CLR
<1> QED
  BY <1>1, <1>3, <1>4 DEF TypeInv, TypeOK, SessionTypeOK, DrainTakeWrite, sessionVars

LEMMA TypeDrainWriteEnd ==
  ASSUME TypeInv, NEW c \in Conn, DrainWriteEnd(c)
  PROVE  TypeInv'
<1>1. CLR("drainP", None) \in ClearState
  BY DEF CLR, ClearState
<1>2. clr' \in [Conn -> ClearState]
  BY <1>1 DEF TypeInv, TypeOK, DrainWriteEnd
<1>3. HoldsRequest'
  BY DEF TypeInv, TypeOK, HoldsRequest, DrainWriteEnd, CLR
<1> QED
  BY <1>2, <1>3 DEF TypeInv, TypeOK, SessionTypeOK, DrainWriteEnd, sessionVars

LEMMA TypeDrainFlush ==
  ASSUME TypeInv, NEW c \in Conn, DrainFlush(c)
  PROVE  TypeInv'
<1>1. clr[c].ctx \in RequestContext
  BY DEF TypeInv, TypeOK, HoldsRequest, DrainFlush, ClearState
<1>2. wire' \in [Conn -> Seq(RequestContext)]
  BY <1>1, WireType DEF TypeInv, TypeOK, DrainFlush
<1>3. /\ [clr[c] EXCEPT !.pc = "pushP"] \in ClearState
      /\ [clr[c] EXCEPT !.pc = "failW"] \in ClearState
  BY DEF TypeInv, TypeOK, ClearState
<1>4. clr' \in [Conn -> ClearState]
  BY <1>3 DEF TypeInv, TypeOK, DrainFlush
<1>5. /\ clr'[c].ctx # None /\ clr'[c].pc \in {"pushP", "failW"}
      /\ \A d \in Conn \ {c} : clr'[d] = clr[d]
  BY DEF TypeInv, TypeOK, HoldsRequest, DrainFlush, ClearState
<1>6. HoldsRequest'
  BY <1>5 DEF TypeInv, HoldsRequest, DrainFlush
<1> QED
  BY <1>2, <1>4, <1>6 DEF TypeInv, TypeOK, SessionTypeOK, DrainFlush, sessionVars

LEMMA TypeDrainPush ==
  ASSUME TypeInv, NEW c \in Conn, DrainPush(c)
  PROVE  TypeInv'
<1>1. clr[c].ctx \in RequestContext
  BY DEF TypeInv, TypeOK, HoldsRequest, DrainPush, ClearState
<1>2. /\ pendingQ' \in [Conn -> Seq(RequestContext)]
      /\ \A d \in Conn : Len(pendingQ'[d]) <= QueueSize
  BY <1>1, QueuePush, ConnAssumption DEF TypeInv, TypeOK, DrainPush
<1>3. CLR("drainW", None) \in ClearState
  BY DEF CLR, ClearState
<1>4. clr' \in [Conn -> ClearState]
  BY <1>3 DEF TypeInv, TypeOK, DrainPush
<1>5. HoldsRequest'
  BY DEF TypeInv, TypeOK, HoldsRequest, DrainPush, CLR
<1> QED
  BY <1>2, <1>4, <1>5 DEF TypeInv, TypeOK, SessionTypeOK, DrainPush, sessionVars

LEMMA TypeDrainFail ==
  ASSUME TypeInv, NEW c \in Conn, DrainFail(c)
  PROVE  TypeInv'
<1>1. clr[c].ctx \in RequestContext
  BY DEF TypeInv, TypeOK, HoldsRequest, DrainFail, ClearState
<1>2. OutQ' \in [Session -> Seq(ResponseContext)]
  BY <1>1, OutQType, ErrResponseType DEF TypeInv, DrainFail, RequestContext
<1>3. CLR("drainW", None) \in ClearState
  BY DEF CLR, ClearState
<1>4. clr' \in [Conn -> ClearState]
  BY <1>3 DEF TypeInv, TypeOK, DrainFail
<1>5. HoldsRequest'
  BY DEF TypeInv, TypeOK, HoldsRequest, DrainFail, CLR
<1> QED
  BY <1>2, <1>4, <1>5 DEF TypeInv, TypeOK, SessionTypeOK, DrainFail

LEMMA TypeDrainTakePending ==
  ASSUME TypeInv, NEW c \in Conn, DrainTakePending(c)
  PROVE  TypeInv'
<1>1. /\ Head(pendingQ[c]) \in RequestContext
      /\ pendingQ' \in [Conn -> Seq(RequestContext)]
      /\ \A d \in Conn : Len(pendingQ'[d]) <= QueueSize
  BY QueuePop, ConnAssumption DEF TypeInv, TypeOK, DrainTakePending
<1>2. CLR("readP", Head(pendingQ[c])) \in ClearState
  BY <1>1 DEF CLR, ClearState
<1>3. clr' \in [Conn -> ClearState]
  BY <1>2 DEF TypeInv, TypeOK, DrainTakePending
<1>4. HoldsRequest'
  BY <1>1, SessionAssumption DEF TypeInv, TypeOK, HoldsRequest, DrainTakePending, CLR
<1> QED
  BY <1>1, <1>3, <1>4 DEF TypeInv, TypeOK, SessionTypeOK, DrainTakePending, sessionVars

LEMMA TypeDrainRead ==
  ASSUME TypeInv, NEW c \in Conn, DrainRead(c)
  PROVE  TypeInv'
<1>1. wire[c] # << >> =>
        /\ Head(wire[c]) \in RequestContext
        /\ [wire EXCEPT ![c] = Tail(wire[c])] \in [Conn -> Seq(RequestContext)]
  BY QueuePop DEF TypeInv, TypeOK
<1>2. wire' \in [Conn -> Seq(RequestContext)]
  BY <1>1 DEF TypeInv, TypeOK, DrainRead
<1>3. PICK rsp \in ResponseContext :
        clr' = [clr EXCEPT ![c] = [clr[c] EXCEPT !.pc = "sendP", !.rsp = rsp]]
  <2>1. NewErrResponseContext(clr[c].ctx) \in ResponseContext
    BY ErrResponseType DEF TypeInv, TypeOK, ClearState
  <2>2. wire[c] # << >> =>
          [req |-> Head(wire[c]), err |-> FALSE, callback |-> "none"] \in ResponseContext
    BY <1>1 DEF ResponseContext, AuthInfo
  <2> QED
    BY <2>1, <2>2 DEF TypeInv, TypeOK, DrainRead
<1>4. [clr[c] EXCEPT !.pc = "sendP", !.rsp = rsp] \in ClearState
  BY ClearFields DEF TypeInv, TypeOK
<1>5. clr' \in [Conn -> ClearState]
  BY <1>3, <1>4 DEF TypeInv, TypeOK
<1>6. rsp # None /\ clr[c].ctx # None
  BY SessionAssumption DEF TypeInv, HoldsRequest, DrainRead
<1>7. HoldsRequest'
  BY <1>3, <1>6 DEF TypeInv, TypeOK, HoldsRequest, DrainRead, ClearState
<1> QED
  BY <1>2, <1>5, <1>7 DEF TypeInv, TypeOK, SessionTypeOK, DrainRead, sessionVars

LEMMA TypeDrainSend ==
  ASSUME TypeInv, NEW c \in Conn, DrainSend(c)
  PROVE  TypeInv'
<1>1. clr[c].ctx \in RequestContext /\ clr[c].rsp \in ResponseContext
  BY DEF TypeInv, TypeOK, HoldsRequest, DrainSend, ClearState
<1>2. OutQ' \in [Session -> Seq(ResponseContext)]
  BY <1>1, OutQType DEF TypeInv, DrainSend, RequestContext
<1>3. CLR("drainP", None) \in ClearState
  BY DEF CLR, ClearState
<1>4. clr' \in [Conn -> ClearState]
  BY <1>3 DEF TypeInv, TypeOK, DrainSend
<1>5. HoldsRequest'
  BY DEF TypeInv, TypeOK, HoldsRequest, DrainSend, CLR
<1> QED
  BY <1>2, <1>4, <1>5 DEF TypeInv, TypeOK, SessionTypeOK, DrainSend

LEMMA TypeInnerClose ==
  ASSUME TypeInv, NEW c \in Conn, InnerClose(c)
  PROVE  TypeInv'
<1>1. /\ CLR("done", None) \in ClearState
      /\ [wl[c] EXCEPT !.pc = "done"] \in WriteLoopState
      /\ [rl[c] EXCEPT !.pc = "done"] \in ReadLoopState
  <2>1. CLR("done", None) \in ClearState
    BY DEF CLR, ClearState
  <2>2. [wl[c] EXCEPT !.pc = "done"] \in WriteLoopState
    BY DEF TypeInv, TypeOK, WriteLoopState
  <2>3. [rl[c] EXCEPT !.pc = "done"] \in ReadLoopState
    BY ReadLoopFields DEF TypeInv, TypeOK, AuthInfo
  <2> QED
    BY <2>1, <2>2, <2>3
<1>2. clr' \in [Conn -> ClearState]
  BY <1>1 DEF TypeInv, TypeOK, InnerClose
<1>3. wl' \in [Conn -> WriteLoopState]
  BY <1>1 DEF TypeInv, TypeOK, InnerClose
<1>4. rl' \in [Conn -> ReadLoopState]
  BY <1>1 DEF TypeInv, TypeOK, InnerClose
<1>5. /\ cl' \in [Conn -> {"none", "clear", "wait", "returned"}]
      /\ sock' \in [Conn -> {"up", "eof", "timeout", "closed"}]
  BY DEF TypeInv, TypeOK, InnerClose
<1>6. HoldsRequest'
  BY DEF TypeInv, TypeOK, HoldsRequest, InnerClose, CLR, WriteLoopState
<1> QED
  BY <1>2, <1>3, <1>4, <1>5, <1>6 DEF TypeInv, TypeOK, SessionTypeOK, InnerClose, sessionVars

LEMMA TypeClose ==
  ASSUME TypeInv, NEW c \in Conn, Close(c)
  PROVE  TypeInv'
<1>1. clr' \in [Conn -> ClearState] /\ closed' \in [Conn -> BOOLEAN]
  BY EnterClearType DEF TypeInv, Close
<1>2. cl' \in [Conn -> {"none", "clear", "wait", "returned"}]
  BY DEF TypeInv, TypeOK, Close, InClear
<1>3. HoldsRequest'
  BY DEF TypeInv, TypeOK, HoldsRequest, Close, EnterClear, CLR
<1> QED
  BY <1>1, <1>2, <1>3 DEF TypeInv, TypeOK, SessionTypeOK, Close, sessionVars

LEMMA TypeCloseReturn ==
  ASSUME TypeInv, NEW c \in Conn, CloseReturn(c)
  PROVE  TypeInv'
<1>1. cl' \in [Conn -> {"none", "clear", "wait", "returned"}]
  BY DEF TypeInv, TypeOK, CloseReturn
<1> QED
  BY <1>1 DEF TypeInv, TypeOK, SessionTypeOK, HoldsRequest, CloseReturn, sessionVars

LEMMA TypePeerFail ==
  ASSUME TypeInv, NEW c \in Conn, PeerFail(c)
  PROVE  TypeInv'
<1>1. wire' \in [Conn -> Seq(RequestContext)]
  <2>1. PICK k \in 0..Len(wire[c]) : wire' = [wire EXCEPT ![c] = SubSeq(wire[c], 1, k)]
    BY DEF PeerFail
  <2>2. wire[c] \in Seq(RequestContext) /\ Len(wire[c]) \in Nat
    BY LenProperties DEF TypeInv, TypeOK
  <2>3. \A i \in 1..k : wire[c][i] \in RequestContext
    BY <2>2, ElementOfSeq
  <2>4. SubSeq(wire[c], 1, k) \in Seq(RequestContext)
    BY <2>2, <2>3, SubSeqProperties
  <2> QED
    BY <2>1, <2>4 DEF TypeInv, TypeOK
<1>2. sock' \in [Conn -> {"up", "eof", "timeout", "closed"}]
  BY DEF TypeInv, TypeOK, PeerFail
<1> QED
  BY <1>1, <1>2 DEF TypeInv, TypeOK, SessionTypeOK, HoldsRequest, PeerFail, sessionVars

LEMMA TypeReject ==
  ASSUME TypeInv, NEW s \in Session, NEW cmd \in Cmds, Reject(s, cmd)
  PROVE  TypeInv'
<1>1. NewRequest(s, cmd) \in RequestContext
  BY NewRequestType DEF TypeInv, Reject
<1>2. NewErrResponseContext(NewRequest(s, cmd)) \in ResponseContext
  BY <1>1, ErrResponseType
<1>3. Append(rcvd[s], NewErrResponseContext(NewRequest(s, cmd))) \in Seq(ResponseContext)
  BY <1>2, AppendProperties DEF TypeInv, TypeOK, SessionTypeOK
<1>4. rcvd' \in [Session -> Seq(ResponseContext)]
  BY <1>3 DEF TypeInv, TypeOK, SessionTypeOK, Reject, WriteAndFlush
<1>5. sent' \in [Session -> 0..MaxReqs]
  BY SessionAssumption DEF TypeInv, TypeOK, Reject
<1>6. authInfo' \in [Session -> AuthInfo]
  BY DEF TypeInv, TypeOK, SessionTypeOK, Reject, AuthInfo
<1> QED
  BY <1>4, <1>5, <1>6
  DEF TypeInv, TypeOK, SessionTypeOK, HoldsRequest, Reject, WriteAndFlush, connVars, loopVars

LEMMA TypeCloseSession ==
  ASSUME TypeInv, NEW s \in Session, CloseSession(s)
  PROVE  TypeInv'
<1>1. sessionQuit' \in [Session -> BOOLEAN]
  BY DEF TypeInv, TypeOK, SessionTypeOK, CloseSession, SessionClose
<1> QED
  BY <1>1
  DEF TypeInv, TypeOK, SessionTypeOK, HoldsRequest, CloseSession, SessionClose, connVars, loopVars

LEMMA TypeReplyLoop ==
  ASSUME TypeInv, NEW s \in Session, ReplyLoop(s)
  PROVE  TypeInv'
<1>1. CASE ReplyLoopWrite(s)
  <2>1. /\ Head(OutQ[s]) \in ResponseContext
        /\ [OutQ EXCEPT ![s] = Tail(OutQ[s])] \in [Session -> Seq(ResponseContext)]
    BY <1>1, QueuePop DEF TypeInv, TypeOK, SessionTypeOK, ReplyLoopWrite
  <2>2. Append(rcvd[s], Head(OutQ[s])) \in Seq(ResponseContext)
    BY <2>1, AppendProperties DEF TypeInv, TypeOK, SessionTypeOK
  <2>3. rcvd' \in [Session -> Seq(ResponseContext)]
    BY <1>1, <2>2 DEF TypeInv, TypeOK, SessionTypeOK, ReplyLoopWrite
  <2>4. OutQ' \in [Session -> Seq(ResponseContext)]
    BY <1>1, <2>1 DEF ReplyLoopWrite
  <2>5. authInfo' \in [Session -> AuthInfo]
    BY <1>1, <2>1 DEF TypeInv, TypeOK, SessionTypeOK, ReplyLoopWrite, ResponseContext
  <2> QED
    BY <1>1, <2>3, <2>4, <2>5
    DEF TypeInv, TypeOK, SessionTypeOK, HoldsRequest, ReplyLoop, ReplyLoopWrite, connVars, loopVars
<1>2. CASE ReplyLoopQuit(s)
  <2>1. replyLoop' \in [Session -> BOOLEAN]
    BY <1>2 DEF TypeInv, TypeOK, SessionTypeOK, ReplyLoopQuit
  <2> QED
    BY <1>2, <2>1
    DEF TypeInv, TypeOK, SessionTypeOK, HoldsRequest, ReplyLoop, ReplyLoopQuit, connVars, loopVars
<1> QED
  BY <1>1, <1>2 DEF ReplyLoop

LEMMA TypeNext ==
  ASSUME TypeInv, [Next]_vars
  PROVE  TypeInv'
<1>1. CASE \E s \in Session, cmd \in Cmds : Reject(s, cmd)
  BY <1>1, TypeReject
<1>2. CASE \E s \in Session, c \in Conn, cmd \in Cmds : Forward(s, c, cmd)
  BY <1>2, TypeForward
<1>3. CASE \E s \in Session : Enqueue(s) \/ CloseSession(s) \/ ReplyLoop(s)
  BY <1>3, TypeEnqueue, TypeCloseSession, TypeReplyLoop
<1>4. ASSUME NEW c \in Conn, ConnNext(c)
      PROVE  TypeInv'
  <2>1. CASE WriteLoop(c)
    BY <2>1, TypeWriteLoopTake, TypeWriteLoopQuit, TypeWriteLoopWrite, TypeWriteLoopWriteErr,
       TypeWriteLoopFail, TypeWriteLoopCheck, TypeWriteLoopPush DEF WriteLoop
  <2>2. CASE ReadLoop(c)
    BY <2>2, TypeReadLoopTop, TypeReadLoopRead, TypeReadLoopLoad, TypeReadLoopEOF,
       TypeReadLoopSkip, TypeReadLoopMatch, TypeReadLoopDeliver, TypeClearTxnState DEF ReadLoop
  <2>3. CASE Clear(c)
    BY <2>3, TypeDrainTakeWrite, TypeDrainWriteEnd, TypeDrainFlush, TypeDrainPush, TypeDrainFail,
       TypeDrainTakePending, TypeDrainRead, TypeDrainSend, TypeInnerClose DEF Clear
  <2>4. CASE Close(c) \/ CloseReturn(c) \/ PeerFail(c)
    BY <2>4, TypeClose, TypeCloseReturn, TypePeerFail
  <2> QED
    BY <1>4, <2>1, <2>2, <2>3, <2>4 DEF ConnNext
<1>5. CASE UNCHANGED vars
  BY <1>5
  DEF TypeInv, TypeOK, SessionTypeOK, HoldsRequest, vars, sessionVars, connVars, loopVars
<1> QED
  BY <1>1, <1>2, <1>3, <1>4, <1>5 DEF Next

(* In every reachable state the queues hold requests and stay within their  *)
(* capacity, and a goroutine that has taken a request holds one, whatever   *)
(* fails, is closed or leaves.                                              *)
THEOREM TypeCorrect == Spec => [](TypeOK /\ HoldsRequest)
<1>1. Init => TypeInv
  BY TypeInit
<1>2. TypeInv /\ [Next]_vars => TypeInv'
  BY TypeNext
<1>3. TypeInv => TypeOK /\ HoldsRequest
  BY DEF TypeInv
<1> QED
  BY <1>1, <1>2, <1>3, PTL DEF Spec

----------------------------------------------------------------------------
(* Pairing replies with requests.                                           *)

(* What the four steps that move a request or a reply do to the equation    *)
(* r \o w = q \o p between what is outstanding and what is remembered.      *)
LEMMA PairWrite ==
  ASSUME NEW S, NEW r \in Seq(S), NEW w \in Seq(S), NEW q \in Seq(S), NEW e \in S,
         r \o w = q \o << >>
  PROVE  r \o Append(w, e) = q \o <<e>>
<1>1. <<e>> \in Seq(S)
  OBVIOUS
<1>2. Append(w, e) = w \o <<e>>
  BY AppendIsConcat
<1>3. (r \o w) \o <<e>> = r \o (w \o <<e>>)
  BY <1>1, ConcatAssociative
<1>4. r \o w = q
  BY ConcatEmptySeq
<1> QED
  BY <1>2, <1>3, <1>4

LEMMA PairPush ==
  ASSUME NEW S, NEW q \in Seq(S), NEW e \in S
  PROVE  q \o <<e>> = Append(q, e) \o << >>
<1>1. Append(q, e) = q \o <<e>> /\ Append(q, e) \in Seq(S)
  BY AppendIsConcat, AppendProperties
<1> QED
  BY <1>1, ConcatEmptySeq

LEMMA PairRead ==
  ASSUME NEW S, NEW w \in Seq(S), w # << >>
  PROVE  << >> \o w = <<Head(w)>> \o Tail(w)
<1>1. << >> \o w = w
  BY ConcatEmptySeq
<1>2. /\ <<Head(w)>> \in Seq(S) /\ Tail(w) \in Seq(S)
      /\ Len(Tail(w)) = Len(w) - 1 /\ Len(w) \in Nat
      /\ \A i \in 1..Len(Tail(w)) : Tail(w)[i] = w[i + 1]
  BY HeadTailProperties, LenProperties
<1>3. /\ <<Head(w)>> \o Tail(w) \in Seq(S)
      /\ Len(<<Head(w)>> \o Tail(w)) = 1 + Len(Tail(w))
      /\ \A i \in 1..(1 + Len(Tail(w))) :
           (<<Head(w)>> \o Tail(w))[i] = IF i <= 1 THEN Head(w) ELSE Tail(w)[i - 1]
  BY <1>2, ConcatProperties
<1>4. \A i \in 1..Len(w) : (<<Head(w)>> \o Tail(w))[i] = w[i]
  BY <1>2, <1>3
<1>5. <<Head(w)>> \o Tail(w) = w
  BY <1>2, <1>3, <1>4, SeqEqual
<1> QED
  BY <1>1, <1>5

LEMMA PairMatch ==
  ASSUME NEW S, NEW e \in S, NEW w \in Seq(S), NEW q \in Seq(S), NEW p \in Seq(S),
         q # << >>, <<e>> \o w = q \o p
  PROVE  Head(q) = e /\ << >> \o w = Tail(q) \o p
<1>1. /\ Head(q) \in S /\ <<Head(q)>> \in Seq(S) /\ Tail(q) \in Seq(S)
      /\ <<e>> \in Seq(S)
  BY HeadTailProperties
<1>2. q = <<Head(q)>> \o Tail(q)
  BY PairRead, ConcatEmptySeq
<1>3. q \o p = <<Head(q)>> \o (Tail(q) \o p)
  BY <1>1, <1>2, ConcatAssociative
<1>4. Tail(q) \o p \in Seq(S)
  BY <1>1, ConcatProperties
<1>5. (<<e>> \o w)[1] = e
  BY <1>1, ConcatProperties, LenProperties
<1>6. (<<Head(q)>> \o (Tail(q) \o p))[1] = Head(q)
  BY <1>1, <1>4, ConcatProperties, LenProperties
<1>7. Head(q) = e
  BY <1>3, <1>5, <1>6
<1>8. w = Tail(q) \o p
  BY <1>1, <1>3, <1>4, <1>7, ConcatSimplifications
<1> QED
  BY <1>7, <1>8, ConcatEmptySeq

----------------------------------------------------------------------------
(* The inductive invariant of a plain workload.                             *)

(* A connection is never torn down and no transaction is recorded on it.    *)
Quiet ==
  \A c \in Conn :
    /\ txState[c] = NoTx
    /\ ~closed[c] /\ sock[c] = "up" /\ clr[c].pc = "idle" /\ cl[c] = "none"
    /\ wl[c].pc \in {"select", "write", "check", "push"}
    /\ rl[c].pc \in {"top", "read", "load", "pend", "deliver"}
    /\ ~rl[c].txEnd

(* The ReadLoop holds the packet it has read; once it is paired, it is on   *)
(* its way to the session that asked, with a callback only for an AUTH.     *)
InHand ==
  \A c \in Conn :
    /\ rl[c].pc \in {"load", "pend", "deliver"} => rl[c].pkt # None
    /\ rl[c].pc = "deliver" =>
         /\ rl[c].to = rl[c].pkt.session
         /\ rl[c].callback # "none" => rl[c].pkt.cmd = "auth"

(* The replies that session s may be given.                                 *)
GoodFor(s) ==
  {rsp \in ResponseContext :
     /\ rsp.err \/ rsp.req.session = s
     /\ rsp.callback # "none" =>
          rsp.req # None /\ rsp.req.session = s /\ rsp.req.cmd = "auth"}

Delivered ==
  /\ OutQ \in [Session -> Seq(ResponseContext)]
  /\ rcvd \in [Session -> Seq(ResponseContext)]
  /\ \A s \in Session : OutQ[s] \in Seq(GoodFor(s)) /\ rcvd[s] \in Seq(GoodFor(s))

Plain == Quiet /\ InHand /\ PairsUp /\ Delivered

LEMMA PlainInit == Init => Plain
<1> SUFFICES ASSUME Init PROVE Plain
  OBVIOUS
<1>1. Quiet
  BY DEF Init, ConnInit, Quiet, WL, RL, CLR
<1>2. InHand
  BY DEF Init, ConnInit, InHand, RL
<1>3. PairsUp
  BY DEF Init, ConnInit, PairsUp, Outstanding, Remembered, WL, RL
<1>4. Delivered
  BY DEF Init, SessionInit, Delivered
<1> QED
  BY <1>1, <1>2, <1>3, <1>4 DEF Plain

(* A reply appended to the queue of the session it is good for.             *)
LEMMA DeliverGood ==
  ASSUME NEW q \in [Session -> Seq(ResponseContext)],
         \A t \in Session : q[t] \in Seq(GoodFor(t)),
         NEW s \in Session, NEW rsp \in GoodFor(s),
         NEW r, r = [q EXCEPT ![s] = Append(q[s], rsp)]
  PROVE  /\ r \in [Session -> Seq(ResponseContext)]
         /\ \A t \in Session : r[t] \in Seq(GoodFor(t))
<1>1. rsp \in ResponseContext
  BY DEF GoodFor
<1>2. Append(q[s], rsp) \in Seq(ResponseContext)
  BY <1>1, AppendProperties
<1>3. Append(q[s], rsp) \in Seq(GoodFor(s))
  BY AppendProperties
<1> QED
  BY <1>2, <1>3

LEMMA PlainReject ==
  ASSUME TypeInv, Plain, NEW s \in Session, NEW cmd \in Cmds, Reject(s, cmd)
  PROVE  Plain'
<1>1. NewErrResponseContext(NewRequest(s, cmd)) \in GoodFor(s)
  BY NewRequestType, ErrResponseType DEF TypeInv, Reject, GoodFor, NewErrResponseContext
<1>2. Delivered'
  BY <1>1, DeliverGood DEF Plain, Delivered, Reject, WriteAndFlush
<1> QED
  BY <1>2 DEF Plain, Quiet, InHand, PairsUp, Outstanding, Remembered, Reject, connVars, loopVars

LEMMA PlainForward ==
  ASSUME PlainWorkload, Plain,
         NEW s \in Session, NEW c \in Conn, NEW cmd \in Cmds, Forward(s, c, cmd)
  PROVE  Plain'
<1>1. UNCHANGED txState
  BY DEF PlainWorkload, Forward, UpdateTxnState
<1> QED
  BY <1>1 DEF Plain, Quiet, InHand, PairsUp, Outstanding, Remembered, Delivered, Forward, loopVars

LEMMA PlainEnqueue ==
  ASSUME Plain, NEW s \in Session, Enqueue(s)
  PROVE  Plain'
  BY DEF Plain, Quiet, InHand, PairsUp, Outstanding, Remembered, Delivered, Enqueue,
         loopVars, sessionVars

LEMMA PlainCloseSession ==
  ASSUME Plain, NEW s \in Session, CloseSession(s)
  PROVE  Plain'
  BY DEF Plain, Quiet, InHand, PairsUp, Outstanding, Remembered, Delivered, CloseSession,
         SessionClose, connVars, loopVars

LEMMA PlainReplyLoop ==
  ASSUME TypeInv, Plain, NEW s \in Session, ReplyLoop(s)
  PROVE  Plain'
<1>1. CASE ReplyLoopWrite(s)
  <2>1. /\ Head(OutQ[s]) \in GoodFor(s)
        /\ Tail(OutQ[s]) \in Seq(GoodFor(s))
        /\ Tail(OutQ[s]) \in Seq(ResponseContext)
    BY <1>1, HeadTailProperties DEF ReplyLoopWrite, Plain, Delivered
  <2>2. /\ OutQ' \in [Session -> Seq(ResponseContext)]
        /\ \A t \in Session : OutQ'[t] \in Seq(GoodFor(t))
    BY <1>1, <2>1 DEF ReplyLoopWrite, Plain, Delivered
  <2>3. /\ rcvd' \in [Session -> Seq(ResponseContext)]
        /\ \A t \in Session : rcvd'[t] \in Seq(GoodFor(t))
    BY <1>1, <2>1, DeliverGood DEF ReplyLoopWrite, Plain, Delivered
  <2> QED
    BY <2>2, <2>3
    DEF Plain, Quiet, InHand, PairsUp, Outstanding, Remembered, Delivered, ReplyLoop,
        connVars, loopVars
<1>2. CASE ReplyLoopQuit(s)
  BY <1>2
  DEF Plain, Quiet, InHand, PairsUp, Outstanding, Remembered, Delivered, ReplyLoop,
      ReplyLoopQuit, connVars, loopVars
<1> QED
  BY <1>1, <1>2 DEF ReplyLoop

(* The pairing equation of the connections that a step leaves alone, and of *)
(* the one it is about.                                                     *)
LEMMA PairsUpAt ==
  ASSUME NEW c \in Conn, PairsUp,
         \A d \in Conn \ {c} : /\ UNCHANGED <<rl[d], wl[d], wire[d], pendingQ[d]>>,
         Outstanding(c)' = Remembered(c)'
  PROVE  PairsUp'
  BY DEF PairsUp, Outstanding, Remembered

LEMMA PlainWriteLoop ==
  ASSUME TypeInv, Plain, NEW c \in Conn, WriteLoop(c)
  PROVE  Plain'
<1> USE DEF WL
<1>0. /\ wl \in [Conn -> WriteLoopState] /\ pendingQ[c] \in Seq(RequestContext)
      /\ wire[c] \in Seq(RequestContext) /\ pendingQ \in [Conn -> Seq(RequestContext)]
      /\ wire \in [Conn -> Seq(RequestContext)]
  BY DEF TypeInv, TypeOK
<1>1. CASE WriteLoopTake(c)
  <2>1. Quiet'
    BY <1>0, <1>1 DEF Plain, Quiet, WriteLoopTake, WriteLoopState
  <2>2. PairsUp'
    BY <1>0, <1>1 DEF Plain, PairsUp, Outstanding, Remembered, WriteLoopTake
  <2> QED
    BY <1>1, <2>1, <2>2 DEF Plain, InHand, Delivered, WriteLoopTake, sessionVars
<1>2. CASE WriteLoopWrite(c)
  <2>1. wl[c].ctx \in RequestContext /\ wire' = [wire EXCEPT ![c] = Append(@, wl[c].ctx)]
    BY <1>0, <1>2
    DEF TypeInv, HoldsRequest, WriteLoopState, Plain, Quiet, WriteLoopWrite, WriteSucceeds, BothWriting
  <2>2. Quiet'
    BY <1>0, <1>2 DEF Plain, Quiet, WriteLoopWrite, WriteLoopState
  <2>3. Outstanding(c)' = Remembered(c)'
    <3> DEFINE r == IF rl[c].pc \in {"load", "pend"} THEN <<rl[c].pkt>> ELSE << >>
    <3>1. r \in Seq(RequestContext)
      BY DEF Plain, InHand, TypeInv, TypeOK, ReadLoopState
    <3>2. r \o wire[c] = pendingQ[c] \o << >>
      BY <1>2 DEF Plain, PairsUp, Outstanding, Remembered, WriteLoopWrite
    <3>3. Outstanding(c)' = r \o Append(wire[c], wl[c].ctx)
      BY <1>0, <1>2, <2>1 DEF Outstanding, WriteLoopWrite
    <3>4. r \o Append(wire[c], wl[c].ctx) = pendingQ[c] \o <<wl[c].ctx>>
      <4> HIDE DEF r
      <4> QED
        BY <1>0, <2>1, <3>1, <3>2, PairWrite
    <3>5. Remembered(c)' = pendingQ[c] \o <<wl[c].ctx>>
      BY <1>0, <1>2 DEF Remembered, WriteLoopWrite
    <3> QED
      BY <3>3, <3>4, <3>5
  <2>4. PairsUp'
    BY <1>0, <1>2, <2>1, <2>3, PairsUpAt DEF Plain, WriteLoopWrite
  <2> QED
    BY <1>2, <2>2, <2>4 DEF Plain, InHand, Delivered, WriteLoopWrite, sessionVars
<1>3. CASE WriteLoopCheck(c)
  <2>1. wl' = [wl EXCEPT ![c] = WL("push", wl[c].ctx)]
    BY <1>3 DEF Plain, Quiet, WriteLoopCheck
  <2>2. Quiet'
    BY <1>0, <1>3, <2>1 DEF Plain, Quiet, WriteLoopCheck, WriteLoopState
  <2>3. Outstanding(c)' = Remembered(c)'
    <3>1. Remembered(c) = pendingQ[c] \o <<wl[c].ctx>>
      BY <1>3 DEF Remembered, WriteLoopCheck
    <3>2. Remembered(c)' = pendingQ[c] \o <<wl[c].ctx>>
      <4>1. wl'[c].pc = "push" /\ wl'[c].ctx = wl[c].ctx /\ pendingQ' = pendingQ
        BY <1>0, <1>3, <2>1 DEF WriteLoopCheck
      <4> QED
        BY <4>1 DEF Remembered
    <3>3. Outstanding(c)' = Outstanding(c)
      BY <1>3 DEF Outstanding, WriteLoopCheck
    <3> QED
      BY <3>1, <3>2, <3>3 DEF Plain, PairsUp
  <2>4. PairsUp'
    BY <1>0, <1>3, <2>1, <2>3, PairsUpAt DEF Plain, WriteLoopCheck
  <2> QED
    BY <1>3, <2>2, <2>4 DEF Plain, InHand, Delivered, WriteLoopCheck, sessionVars
<1>4. CASE WriteLoopPush(c)
  <2>1. wl[c].ctx \in RequestContext
    BY <1>0, <1>4 DEF TypeInv, HoldsRequest, WriteLoopState, WriteLoopPush
  <2>2. Quiet'
    BY <1>0, <1>4 DEF Plain, Quiet, WriteLoopPush, WriteLoopState
  <2>3. Outstanding(c)' = Remembered(c)'
    <3>1. Outstanding(c) = pendingQ[c] \o <<wl[c].ctx>>
      BY <1>4 DEF Plain, PairsUp, Remembered, WriteLoopPush
    <3>2. Remembered(c)' = Append(pendingQ[c], wl[c].ctx) \o << >>
      BY <1>0, <1>4 DEF Remembered, WriteLoopPush
    <3>3. Outstanding(c)' = Outstanding(c)
      BY <1>4 DEF Outstanding, WriteLoopPush
    <3> QED
      BY <1>0, <2>1, <3>1, <3>2, <3>3, PairPush
  <2>4. PairsUp'
    BY <1>0, <1>4, <2>3, PairsUpAt DEF Plain, WriteLoopPush
  <2> QED
    BY <1>4, <2>2, <2>4 DEF Plain, InHand, Delivered, WriteLoopPush, sessionVars
<1>5. ~WriteLoopQuit(c) /\ ~WriteLoopWriteErr(c) /\ ~WriteLoopFail(c)
  BY DEF Plain, Quiet, WriteLoopQuit, WriteLoopWriteErr, WriteFails, WriteLoopFail
<1> QED
  BY <1>1, <1>2, <1>3, <1>4, <1>5 DEF WriteLoop

LEMMA PlainReadLoop ==
  ASSUME TypeInv, Plain, NEW c \in Conn, ReadLoop(c)
  PROVE  Plain'
<1>0. /\ rl \in [Conn -> ReadLoopState] /\ pendingQ[c] \in Seq(RequestContext)
      /\ wire[c] \in Seq(RequestContext) /\ pendingQ \in [Conn -> Seq(RequestContext)]
      /\ wire \in [Conn -> Seq(RequestContext)]
  BY DEF TypeInv, TypeOK
<1>1. CASE ReadLoopTop(c)
  <2>1. rl' = [rl EXCEPT ![c].pc = "read"] /\ rl[c].pc = "top"
    BY <1>1 DEF Plain, Quiet, ReadLoopTop
  <2>2. Quiet'
    BY <1>0, <1>1, <2>1 DEF Plain, Quiet, ReadLoopTop, ReadLoopState
  <2>3. InHand'
    BY <1>0, <2>1 DEF Plain, InHand, ReadLoopState
  <2>4. PairsUp'
    BY <1>0, <1>1, <2>1 DEF Plain, PairsUp, Outstanding, Remembered, ReadLoopTop, ReadLoopState
  <2> QED
    BY <1>1, <2>2, <2>3, <2>4 DEF Plain, Delivered, ReadLoopTop, sessionVars
<1>2. CASE ReadLoopRead(c)
  <2>1. /\ rl' = [rl EXCEPT ![c].pc = "load", ![c].pkt = Head(wire[c])]
        /\ rl[c].pc = "read" /\ wire[c] # << >>
        /\ wire' = [wire EXCEPT ![c] = Tail(@)]
    BY <1>2 DEF Plain, Quiet, ReadLoopRead, BothReading
  <2>2. Head(wire[c]) \in RequestContext /\ Head(wire[c]) # None
    BY <1>0, <2>1, HeadTailProperties, SessionAssumption
  <2>3. Quiet'
    BY <1>0, <1>2, <2>1 DEF Plain, Quiet, ReadLoopRead, ReadLoopState
  <2>4. InHand'
    BY <1>0, <2>1, <2>2 DEF Plain, InHand, ReadLoopState
  <2>5. Outstanding(c)' = Remembered(c)'
    <3>1. Outstanding(c) = << >> \o wire[c]
      BY <2>1 DEF Outstanding
    <3>2. Outstanding(c)' = <<Head(wire[c])>> \o Tail(wire[c])
      BY <1>0, <2>1 DEF Outstanding, ReadLoopState
    <3>3. Remembered(c)' = Remembered(c)
      BY <1>2 DEF Remembered, ReadLoopRead
    <3> QED
      BY <1>0, <2>1, <3>1, <3>2, <3>3, PairRead DEF Plain, PairsUp
  <2>6. PairsUp'
    BY <1>0, <1>2, <2>1, <2>5, PairsUpAt DEF Plain, ReadLoopRead
  <2> QED
    BY <1>2, <2>3, <2>4, <2>6 DEF Plain, Delivered, ReadLoopRead, sessionVars
<1>3. CASE ReadLoopLoad(c)
  <2>1. rl' = [rl EXCEPT ![c].pc = "pend"] /\ rl[c].pc = "load"
    BY <1>3 DEF Plain, Quiet, ReadLoopLoad
  <2>2. Quiet'
    BY <1>0, <1>3, <2>1 DEF Plain, Quiet, ReadLoopLoad, ReadLoopState
  <2>3. InHand'
    BY <1>0, <2>1 DEF Plain, InHand, ReadLoopState
  <2>4. Outstanding(c)' = Remembered(c)'
    <3>1. Outstanding(c) = <<rl[c].pkt>> \o wire[c]
      BY <2>1 DEF Outstanding
    <3>2. Outstanding(c)' = <<rl[c].pkt>> \o wire[c]
      BY <1>0, <1>3, <2>1 DEF Outstanding, ReadLoopLoad, ReadLoopState
    <3>3. Remembered(c)' = Remembered(c)
      BY <1>3 DEF Remembered, ReadLoopLoad
    <3> QED
      BY <3>1, <3>2, <3>3 DEF Plain, PairsUp
  <2>5. PairsUp'
    BY <1>0, <1>3, <2>1, <2>4, PairsUpAt DEF Plain, ReadLoopLoad
  <2> QED
    BY <1>3, <2>2, <2>3, <2>5 DEF Plain, Delivered, ReadLoopLoad, sessionVars
<1>4. CASE ReadLoopMatch(c)
  <2> DEFINE q == pendingQ[c]
             p == IF wl[c].pc \in {"check", "push"} THEN <<wl[c].ctx>> ELSE << >>
  <2>1. PICK cb \in AuthInfo :
          /\ cb # "none" => Head(q).cmd = "auth"
          /\ rl' = [rl EXCEPT ![c].pc = "deliver", ![c].to = Head(q).session,
                              ![c].callback = cb]
    <3>1. Head(q) \in RequestContext
      BY <1>0, <1>4, HeadTailProperties DEF ReadLoopMatch
    <3> QED
      BY <1>4, <3>1 DEF ReadLoopMatch, RequestContext, AuthInfo
  <2>2. rl[c].pc = "pend" /\ q # << >> /\ pendingQ' = [pendingQ EXCEPT ![c] = Tail(@)]
    BY <1>4 DEF ReadLoopMatch
  <2>3. /\ rl[c].pkt \in RequestContext
        /\ p \in Seq(RequestContext)
        /\ <<rl[c].pkt>> \o wire[c] = q \o p
    <3>1. rl[c].pkt \in RequestContext
      BY <1>0, <2>2 DEF Plain, InHand, ReadLoopState
    <3>2. p \in Seq(RequestContext)
      BY DEF TypeInv, TypeOK, HoldsRequest, WriteLoopState
    <3>3. <<rl[c].pkt>> \o wire[c] = q \o p
      BY <2>2 DEF Plain, PairsUp, Outstanding, Remembered
    <3> QED
      BY <3>1, <3>2, <3>3
  <2>4. Head(q) = rl[c].pkt /\ << >> \o wire[c] = Tail(q) \o p
    <3> HIDE DEF p, q
    <3>1. q \in Seq(RequestContext)
      BY <1>0 DEF q
    <3> QED
      BY <1>0, <2>2, <2>3, <3>1, PairMatch
  <2>5. Quiet'
    BY <1>0, <1>4, <2>1 DEF Plain, Quiet, ReadLoopMatch, ReadLoopState
  <2>6. InHand'
    BY <1>0, <2>1, <2>2, <2>4 DEF Plain, InHand, ReadLoopState
  <2>7. Outstanding(c)' = Remembered(c)'
    <3>1. Outstanding(c)' = << >> \o wire[c]
      BY <1>0, <1>4, <2>1 DEF Outstanding, ReadLoopMatch, ReadLoopState
    <3>2. Remembered(c)' = Tail(q) \o p
      BY <1>0, <1>4, <2>2 DEF Remembered, ReadLoopMatch
    <3> QED
      BY <2>4, <3>1, <3>2
  <2>8. PairsUp'
    BY <1>0, <1>4, <2>1, <2>2, <2>7, PairsUpAt DEF Plain, ReadLoopMatch
  <2> QED
    BY <1>4, <2>5, <2>6, <2>8 DEF Plain, Delivered, ReadLoopMatch, sessionVars
<1>5. CASE ReadLoopDeliver(c)
  <2> DEFINE rsp == [req |-> rl[c].pkt, err |-> rl[c].pkt = None, callback |-> rl[c].callback]
  <2>1. rl' = [rl EXCEPT ![c] = RL("top")] /\ rl[c].pc = "deliver"
    BY <1>5 DEF Plain, Quiet, ReadLoopDeliver
  <2>2. Quiet'
    BY <1>0, <1>5, <2>1 DEF Plain, Quiet, ReadLoopDeliver, RL
  <2>3. InHand'
    BY <1>0, <2>1 DEF Plain, InHand, RL
  <2>4. PairsUp'
    <3>1. Outstanding(c)' = Outstanding(c)
      BY <1>0, <1>5, <2>1 DEF Outstanding, ReadLoopDeliver, RL
    <3>2. Remembered(c)' = Remembered(c)
      BY <1>5 DEF Remembered, ReadLoopDeliver
    <3>3. \A d \in Conn \ {c} : UNCHANGED <<rl[d], wl[d], wire[d], pendingQ[d]>>
      BY <1>0, <1>5, <2>1 DEF ReadLoopDeliver
    <3>4. Outstanding(c)' = Remembered(c)'
      BY <3>1, <3>2 DEF Plain, PairsUp
    <3> QED
      BY <3>3, <3>4, PairsUpAt DEF Plain
  <2>5. rl[c].pkt \in RequestContext /\ rl[c].to = rl[c].pkt.session /\ rl[c].to \in Session
    BY <1>0, <2>1 DEF Plain, InHand, ReadLoopState, RequestContext
  <2>6. rsp \in GoodFor(rl[c].to)
    <3>1. rsp \in ResponseContext
      BY <1>0, <2>5 DEF ReadLoopState, ResponseContext
    <3> QED
      BY <2>1, <2>5, <3>1, SessionAssumption DEF GoodFor, Plain, InHand
  <2>7. Delivered'
    <3>1. OutQ' = [OutQ EXCEPT ![rl[c].to] = Append(OutQ[rl[c].to], rsp)] /\ UNCHANGED rcvd
      BY <1>5 DEF ReadLoopDeliver, SendOutQ
    <3> QED
      BY <2>5, <2>6, <3>1, DeliverGood DEF Plain, Delivered
  <2> QED
    BY <2>2, <2>3, <2>4, <2>7 DEF Plain
<1>6. ~ReadLoopEOF(c) /\ ~ReadLoopSkip(c) /\ ~ClearTxnState(c)
  BY DEF Plain, Quiet, ReadLoopEOF, ReadLoopSkip, BothReading, ClearTxnState
<1> QED
  BY <1>1, <1>2, <1>3, <1>4, <1>5, <1>6 DEF ReadLoop

LEMMA PlainNext ==
  ASSUME PlainWorkload, TypeInv, Plain, [Next]_vars
  PROVE  Plain'
<1>1. CASE \E s \in Session, cmd \in Cmds : Reject(s, cmd)
  BY <1>1, PlainReject
<1>2. CASE \E s \in Session, c \in Conn, cmd \in Cmds : Forward(s, c, cmd)
  BY <1>2, PlainForward
<1>3. CASE \E s \in Session : Enqueue(s) \/ CloseSession(s) \/ ReplyLoop(s)
  BY <1>3, PlainEnqueue, PlainCloseSession, PlainReplyLoop
<1>4. ASSUME NEW c \in Conn, ConnNext(c)
      PROVE  Plain'
  <2>1. ~Clear(c)
    BY DEF Plain, Quiet, Clear, DrainTakeWrite, DrainWriteEnd, DrainFlush, DrainPush, DrainFail,
           DrainTakePending, DrainRead, DrainSend, InnerClose
  <2>2. ~Close(c) /\ ~CloseReturn(c) /\ ~PeerFail(c)
    BY DEF PlainWorkload, Plain, Quiet, Close, CloseReturn, PeerFail
  <2> QED
    BY <1>4, <2>1, <2>2, PlainWriteLoop, PlainReadLoop DEF ConnNext
<1>5. CASE UNCHANGED vars
  BY <1>5
  DEF Plain, Quiet, InHand, PairsUp, Outstanding, Remembered, Delivered, vars, sessionVars,
      connVars, loopVars
<1> QED
  BY <1>1, <1>2, <1>3, <1>4, <1>5 DEF Next

LEMMA PlainImplies ==
  ASSUME TypeInv, Plain
  PROVE  PairsUp /\ ReplyToRequester /\ CallbackOfOwnAuth
<1>1. ASSUME NEW s \in Session
      PROVE  /\ \A i \in 1..Len(OutQ[s]) : OutQ[s][i] \in GoodFor(s)
             /\ \A i \in 1..Len(rcvd[s]) : rcvd[s][i] \in GoodFor(s)
  BY ElementOfSeq DEF Plain, Delivered
<1>2. ReplyToRequester
  BY <1>1 DEF ReplyToRequester, GoodFor
<1>3. CallbackOfOwnAuth
  BY <1>1 DEF CallbackOfOwnAuth, GoodFor
<1> QED
  BY <1>2, <1>3 DEF Plain

(* On connections that carry no transaction and are neither closed nor lost *)
(* the FIFO pairing of ReadLoop is right whatever the interleaving of the   *)
(* event loops, the two loops and the ReplyLoops, and whoever leaves: what  *)
(* is still to be paired is what is remembered, a client is only ever given *)
(* the backend's replies to its own requests, and a password is recorded    *)
(* only on the reply to an AUTH of its own session.                         *)
THEOREM PlainCorrect ==
  ASSUME PlainWorkload
  PROVE  Spec => [](PairsUp /\ ReplyToRequester /\ CallbackOfOwnAuth)
<1>1. Init => TypeInv /\ Plain
  BY TypeInit, PlainInit
<1>2. TypeInv /\ Plain /\ [Next]_vars => (TypeInv /\ Plain)'
  BY TypeNext, PlainNext
<1>3. TypeInv /\ Plain => PairsUp /\ ReplyToRequester /\ CallbackOfOwnAuth
  BY PlainImplies
<1> QED
  BY <1>1, <1>2, <1>3, PTL DEF Spec

(***************************************************************************)
(* On connections that carry no transaction and are neither closed nor     *)
(* lost, BackendConn implements Mux.                                       *)
(***************************************************************************)

(* What the refinement mapping makes of a queue of requests, and of one of  *)
(* replies.                                                                 *)
Ids(q) == [i \in 1..Len(q) |-> Id(q[i])]
Reqs(q) == [i \in 1..Len(q) |-> Id(q[i].req)]

(* The image of a queue under a function, when something is put on it or    *)
(* taken from it.                                                           *)
LEMMA ImageAppend ==
  ASSUME NEW S, NEW V, NEW f \in [S -> V], NEW q \in Seq(S), NEW e \in S
  PROVE  [i \in 1..Len(Append(q, e)) |-> f[Append(q, e)[i]]]
           = Append([i \in 1..Len(q) |-> f[q[i]]], f[e])
<1> DEFINE g == [i \in 1..Len(q) |-> f[q[i]]]
           h == [i \in 1..Len(Append(q, e)) |-> f[Append(q, e)[i]]]
<1>1. /\ Len(q) \in Nat
      /\ Len(Append(q, e)) = Len(q) + 1
      /\ \A i \in 1..Len(q) : Append(q, e)[i] = q[i]
      /\ Append(q, e)[Len(q) + 1] = e
      /\ \A i \in 1..Len(q) : q[i] \in S
  BY AppendProperties, LenProperties, ElementOfSeq
<1>2. g \in Seq(V) /\ Len(g) = Len(q)
  BY <1>1
<1>3. h \in Seq(V) /\ Len(h) = Len(q) + 1
  <2>1. \A i \in 1..(Len(q) + 1) : Append(q, e)[i] \in S
    BY <1>1
  <2> QED
    BY <1>1, <2>1
<1>4. /\ Append(g, f[e]) \in Seq(V)
      /\ Len(Append(g, f[e])) = Len(q) + 1
      /\ \A i \in 1..Len(q) : Append(g, f[e])[i] = f[q[i]]
      /\ Append(g, f[e])[Len(q) + 1] = f[e]
  <2>1. f[e] \in V /\ \A i \in 1..Len(q) : g[i] = f[q[i]]
    OBVIOUS
  <2> HIDE DEF g
  <2> QED
    BY <1>2, <2>1, AppendProperties
<1>5. \A i \in 1..(Len(q) + 1) : h[i] = Append(g, f[e])[i]
  BY <1>1, <1>4
<1>6. h = Append(g, f[e])
  <2> HIDE DEF g, h
  <2> QED
    BY <1>3, <1>4, <1>5, SeqEqual
<1> QED
  BY <1>6

LEMMA ImageTail ==
  ASSUME NEW S, NEW V, NEW f \in [S -> V], NEW q \in Seq(S), q # << >>
  PROVE  LET g == [i \in 1..Len(q) |-> f[q[i]]] IN
           /\ g # << >> /\ Head(g) = f[Head(q)]
           /\ [i \in 1..Len(Tail(q)) |-> f[Tail(q)[i]]] = Tail(g)
<1> DEFINE g == [i \in 1..Len(q) |-> f[q[i]]]
           h == [i \in 1..Len(Tail(q)) |-> f[Tail(q)[i]]]
<1>1. /\ Len(q) \in Nat /\ Len(q) > 0
      /\ Len(Tail(q)) = Len(q) - 1
      /\ \A i \in 1..(Len(q) - 1) : Tail(q)[i] = q[i + 1]
      /\ Head(q) = q[1]
      /\ \A i \in 1..Len(q) : q[i] \in S
  BY HeadTailProperties, LenProperties, EmptySeq, ElementOfSeq
<1>2. /\ g \in Seq(V) /\ Len(g) = Len(q)
      /\ \A i \in 1..Len(q) : g[i] = f[q[i]]
  BY <1>1
<1>3. h \in Seq(V) /\ Len(h) = Len(q) - 1
  BY <1>1
<1>4. /\ g # << >>
      /\ Head(g) = f[Head(q)]
      /\ Tail(g) \in Seq(V)
      /\ Len(Tail(g)) = Len(q) - 1
      /\ \A i \in 1..(Len(q) - 1) : Tail(g)[i] = f[q[i + 1]]
  <2> HIDE DEF g
  <2>1. g # << >>
    BY <1>1, <1>2, EmptySeq
  <2> QED
    BY <1>1, <1>2, <2>1, HeadTailProperties
<1>5. \A i \in 1..(Len(q) - 1) : h[i] = Tail(g)[i]
  BY <1>1, <1>4
<1>6. h = Tail(g)
  <2> HIDE DEF g, h
  <2> QED
    BY <1>3, <1>4, <1>5, SeqEqual
<1> QED
  BY <1>4, <1>6

LEMMA IdsAppend ==
  ASSUME NEW S, NEW q \in Seq(S), NEW e \in S
  PROVE  Ids(Append(q, e)) = Append(Ids(q), Id(e))
<1> DEFINE f == [x \in S |-> Id(x)]
<1>1. f \in [S -> {Id(x) : x \in S}]
  OBVIOUS
<1>2. /\ \A i \in 1..Len(q) : q[i] \in S
      /\ \A i \in 1..Len(Append(q, e)) : Append(q, e)[i] \in S
  BY AppendProperties, ElementOfSeq
<1>3. /\ Ids(q) = [i \in 1..Len(q) |-> f[q[i]]]
      /\ Ids(Append(q, e)) = [i \in 1..Len(Append(q, e)) |-> f[Append(q, e)[i]]]
      /\ f[e] = Id(e)
  BY <1>2 DEF Ids
<1> HIDE DEF f
<1> QED
  BY <1>1, <1>3, ImageAppend

LEMMA IdsTail ==
  ASSUME NEW S, NEW q \in Seq(S), q # << >>
  PROVE  Ids(q) # << >> /\ Head(Ids(q)) = Id(Head(q)) /\ Ids(Tail(q)) = Tail(Ids(q))
<1> DEFINE f == [x \in S |-> Id(x)]
<1>1. f \in [S -> {Id(x) : x \in S}]
  OBVIOUS
<1>2. /\ \A i \in 1..Len(q) : q[i] \in S
      /\ \A i \in 1..Len(Tail(q)) : Tail(q)[i] \in S
      /\ Head(q) \in S
  BY HeadTailProperties, ElementOfSeq
<1>3. /\ Ids(q) = [i \in 1..Len(q) |-> f[q[i]]]
      /\ Ids(Tail(q)) = [i \in 1..Len(Tail(q)) |-> f[Tail(q)[i]]]
      /\ f[Head(q)] = Id(Head(q))
  BY <1>2 DEF Ids
<1> HIDE DEF f
<1> QED
  BY <1>1, <1>3, ImageTail

LEMMA ReqsAppend ==
  ASSUME NEW S, NEW q \in Seq(S), NEW e \in S
  PROVE  Reqs(Append(q, e)) = Append(Reqs(q), Id(e.req))
<1> DEFINE f == [x \in S |-> Id(x.req)]
<1>1. f \in [S -> {Id(x.req) : x \in S}]
  OBVIOUS
<1>2. /\ \A i \in 1..Len(q) : q[i] \in S
      /\ \A i \in 1..Len(Append(q, e)) : Append(q, e)[i] \in S
  BY AppendProperties, ElementOfSeq
<1>3. /\ Reqs(q) = [i \in 1..Len(q) |-> f[q[i]]]
      /\ Reqs(Append(q, e)) = [i \in 1..Len(Append(q, e)) |-> f[Append(q, e)[i]]]
      /\ f[e] = Id(e.req)
  BY <1>2 DEF Reqs
<1> HIDE DEF f
<1> QED
  BY <1>1, <1>3, ImageAppend

LEMMA ReqsTail ==
  ASSUME NEW S, NEW q \in Seq(S), q # << >>
  PROVE  Reqs(q) # << >> /\ Head(Reqs(q)) = Id(Head(q).req) /\ Reqs(Tail(q)) = Tail(Reqs(q))
<1> DEFINE f == [x \in S |-> Id(x.req)]
<1>1. f \in [S -> {Id(x.req) : x \in S}]
  OBVIOUS
<1>2. /\ \A i \in 1..Len(q) : q[i] \in S
      /\ \A i \in 1..Len(Tail(q)) : Tail(q)[i] \in S
      /\ Head(q) \in S
  BY HeadTailProperties, ElementOfSeq
<1>3. /\ Reqs(q) = [i \in 1..Len(q) |-> f[q[i]]]
      /\ Reqs(Tail(q)) = [i \in 1..Len(Tail(q)) |-> f[Tail(q)[i]]]
      /\ f[Head(q)] = Id(Head(q).req)
  BY <1>2 DEF Reqs
<1> HIDE DEF f
<1> QED
  BY <1>1, <1>3, ImageTail

----------------------------------------------------------------------------
(* What the steps of the two loops do to the parts of a line: a request is  *)
(* put at its end, taken from writeQ, put on the wire, and taken from the   *)
(* front.                                                                   *)

LEMMA ConcatAppend ==
  ASSUME NEW S, NEW x \in Seq(S), NEW d \in Seq(S), NEW e \in S
  PROVE  x \o Append(d, e) = Append(x \o d, e)
<1>1. x \o d \in Seq(S) /\ <<e>> \in Seq(S)
  BY ConcatProperties
<1> QED
  BY <1>1, AppendIsConcat, ConcatAssociative

LEMMA ConcatTake ==
  ASSUME NEW S, NEW x \in Seq(S), NEW d \in Seq(S), d # << >>
  PROVE  x \o << >> \o d = x \o <<Head(d)>> \o Tail(d)
<1>1. Tail(d) \in Seq(S) /\ <<Head(d)>> \in Seq(S)
  BY HeadTailProperties
<1>2. x \o << >> = x
  BY ConcatEmptySeq
<1>3. (x \o <<Head(d)>>) \o Tail(d) = x \o (<<Head(d)>> \o Tail(d))
  BY <1>1, ConcatAssociative
<1>4. d = <<Head(d)>> \o Tail(d)
  BY PairRead, ConcatEmptySeq
<1> QED
  BY <1>2, <1>3, <1>4

LEMMA ConcatWrite ==
  ASSUME NEW S, NEW a \in Seq(S), NEW b \in Seq(S), NEW e \in S
  PROVE  a \o b \o <<e>> = a \o Append(b, e) \o << >>
<1>1. <<e>> \in Seq(S) /\ b \o <<e>> \in Seq(S) /\ a \o (b \o <<e>>) \in Seq(S)
  BY ConcatProperties
<1>2. Append(b, e) = b \o <<e>>
  BY AppendIsConcat
<1>3. a \o b \o <<e>> = a \o (b \o <<e>>)
  BY <1>1, ConcatAssociative
<1>4. (a \o (b \o <<e>>)) \o << >> = a \o (b \o <<e>>)
  BY <1>1, ConcatEmptySeq
<1> QED
  BY <1>2, <1>3, <1>4

LEMMA ConcatTail ==
  ASSUME NEW S, NEW x \in Seq(S), x # << >>, NEW d \in Seq(S)
  PROVE  x \o d # << >> /\ Head(x \o d) = Head(x) /\ Tail(x \o d) = Tail(x) \o d
<1> DEFINE l == x \o d  r == Tail(x) \o d
<1>1. Len(x) \in Nat /\ Len(x) > 0 /\ Len(d) \in Nat /\ Tail(x) \in Seq(S) /\ Len(Tail(x)) = Len(x) - 1
      /\ \A i \in 1..Len(Tail(x)) : Tail(x)[i] = x[i + 1]
  BY HeadTailProperties, LenProperties, EmptySeq
<1>2. /\ l \in Seq(S) /\ Len(l) = Len(x) + Len(d)
      /\ \A i \in 1..(Len(x) + Len(d)) : l[i] = IF i <= Len(x) THEN x[i] ELSE d[i - Len(x)]
  BY ConcatProperties
<1>3. /\ r \in Seq(S) /\ Len(r) = Len(x) - 1 + Len(d)
      /\ \A i \in 1..(Len(x) - 1 + Len(d)) :
           r[i] = IF i <= Len(x) - 1 THEN Tail(x)[i] ELSE d[i - (Len(x) - 1)]
  BY <1>1, ConcatProperties
<1> HIDE DEF l, r
<1>4. l # << >>
  BY <1>1, <1>2, EmptySeq
<1>5. /\ Tail(l) \in Seq(S) /\ Len(Tail(l)) = Len(l) - 1
      /\ \A i \in 1..(Len(l) - 1) : Tail(l)[i] = l[i + 1]
  BY <1>2, <1>4, HeadTailProperties
<1>6. \A i \in 1..Len(r) : Tail(l)[i] = r[i]
  BY <1>1, <1>2, <1>3, <1>5
<1>7. Tail(l) = r
  BY <1>1, <1>2, <1>3, <1>5, <1>6, SeqEqual
<1>8. Head(l) = Head(x)
  BY <1>1, <1>2, <1>4
<1> QED
  BY <1>4, <1>7, <1>8 DEF l, r

LEMMA ConcatOne ==
  ASSUME NEW S, NEW e \in S, NEW b \in Seq(S)
  PROVE  <<e>> \o b # << >> /\ Head(<<e>> \o b) = e /\ Tail(<<e>> \o b) = << >> \o b
<1>1. <<e>> \in Seq(S) /\ <<e>> # << >> /\ Head(<<e>>) = e /\ Tail(<<e>>) = << >>
  OBVIOUS
<1> QED
  BY <1>1, ConcatTail
----------------------------------------------------------------------------
(* The steps of BackendConn as steps of Mux.                                *)

Line == [c \in Conn |-> Ids(InLine(c))]
Box == [s \in Session |-> Reqs(OutQ[s])]

(* The four parts of a line.                                                *)
InHandSeq(c) == IF rl[c].pc \in {"load", "pend", "deliver"} THEN <<rl[c].pkt>> ELSE << >>
WritingSeq(c) == IF wl[c].pc = "write" THEN <<wl[c].ctx>> ELSE << >>

LEMMA LineParts ==
  ASSUME TypeInv, Plain, NEW c \in Conn
  PROVE  /\ InLine(c) = InHandSeq(c) \o wire[c] \o WritingSeq(c) \o writeQ[c]
         /\ InHandSeq(c) \in Seq(RequestContext) /\ wire[c] \in Seq(RequestContext)
         /\ WritingSeq(c) \in Seq(RequestContext) /\ writeQ[c] \in Seq(RequestContext)
         /\ InLine(c) \in Seq(RequestContext)
<1>1. InLine(c) = InHandSeq(c) \o wire[c] \o WritingSeq(c) \o writeQ[c]
  BY DEF InLine, InHandSeq, WritingSeq
<1>2. InHandSeq(c) \in Seq(RequestContext)
  BY DEF InHandSeq, Plain, InHand, TypeInv, TypeOK, ReadLoopState
<1>3. WritingSeq(c) \in Seq(RequestContext)
  BY DEF WritingSeq, TypeInv, TypeOK, HoldsRequest, WriteLoopState
<1>4. wire[c] \in Seq(RequestContext) /\ writeQ[c] \in Seq(RequestContext)
  BY DEF TypeInv, TypeOK
<1> QED
  BY <1>1, <1>2, <1>3, <1>4, ConcatProperties

(* A step changes the line of at most one connection.                       *)
LEMMA LineAt ==
  ASSUME NEW c \in Conn, NEW new, Ids(InLine(c)') = new,
         \A d \in Conn \ {c} : UNCHANGED <<rl[d], wl[d], wire[d], writeQ[d]>>
  PROVE  Line' = [Line EXCEPT ![c] = new]
<1>1. \A d \in Conn \ {c} : InLine(d)' = InLine(d)
  BY DEF InLine
<1> QED
  BY <1>1 DEF Line

LEMMA LineStays ==
  ASSUME NEW c \in Conn, InLine(c)' = InLine(c),
         \A d \in Conn \ {c} : UNCHANGED <<rl[d], wl[d], wire[d], writeQ[d]>>
  PROVE  Line' = Line
<1>1. Line' = [Line EXCEPT ![c] = Ids(InLine(c))]
  BY LineAt
<1> QED
  BY <1>1 DEF Line

(* The actions of Mux on the mapped line and box.                           *)
Accepts(c, r) == Line' = [Line EXCEPT ![c] = Append(@, r)] /\ UNCHANGED Box
Answers(c) ==
  /\ Line[c] # << >>
  /\ Box' = [Box EXCEPT ![Head(Line[c]).session] = Append(@, Head(Line[c]))]
  /\ Line' = [Line EXCEPT ![c] = Tail(@)]
Takes(s) == Box[s] # << >> /\ Box' = [Box EXCEPT ![s] = Tail(@)] /\ UNCHANGED Line

MuxStep ==
  \/ \E c \in Conn : Answers(c)
  \/ \E s \in Session : Takes(s)
  \/ \E c \in Conn, r \in [session: Session, n: 1..MaxReqs] : Accepts(c, r)
  \/ UNCHANGED <<Line, Box>>

(* Steps that touch neither the four parts of a line nor an OutQ.           *)
LEMMA MuxIdle ==
  ASSUME UNCHANGED <<rl, wl, wire, writeQ, OutQ>>
  PROVE  UNCHANGED <<Line, Box>>
<1>1. \A c \in Conn : InLine(c)' = InLine(c)
  BY DEF InLine
<1> QED
  BY <1>1 DEF Line, Box

LEMMA MuxEnqueue ==
  ASSUME TypeInv, Plain, NEW s \in Session, Enqueue(s)
  PROVE  /\ Accepts(fwd[s].conn, Id(fwd[s].ctx))
         /\ fwd[s].conn \in Conn /\ fwd[s].ctx \in RequestContext
<1>1. PICK c \in Conn, r \in RequestContext : c = fwd[s].conn /\ r = fwd[s].ctx
  <2>1. fwd[s] \in [conn: Conn, ctx: RequestContext]
    BY DEF TypeInv, TypeOK, Enqueue
  <2> QED
    BY <2>1
<1>2. /\ writeQ' = [writeQ EXCEPT ![c] = Append(writeQ[c], r)]
      /\ UNCHANGED <<rl, wl, wire, OutQ>>
      /\ writeQ \in [Conn -> Seq(RequestContext)]
  BY <1>1 DEF Enqueue, loopVars, sessionVars, TypeInv, TypeOK
<1>3. InLine(c)' = InHandSeq(c) \o wire[c] \o WritingSeq(c) \o Append(writeQ[c], r)
  BY <1>1, <1>2 DEF InLine, InHandSeq, WritingSeq
<1>4. InLine(c)' = Append(InLine(c), r)
  <2> DEFINE x == InHandSeq(c) \o wire[c] \o WritingSeq(c)
  <2>1. /\ x \in Seq(RequestContext) /\ writeQ[c] \in Seq(RequestContext)
        /\ InLine(c) = x \o writeQ[c]
    BY LineParts, ConcatProperties
  <2> HIDE DEF x
  <2>2. x \o Append(writeQ[c], r) = Append(x \o writeQ[c], r)
    BY <2>1, ConcatAppend
  <2> QED
    BY <1>3, <2>1, <2>2 DEF x
<1>5. Ids(InLine(c)') = Append(Ids(InLine(c)), Id(r))
  BY <1>1, <1>4, LineParts, IdsAppend
<1>6. Line' = [Line EXCEPT ![c] = Append(Ids(InLine(c)), Id(r))]
  BY <1>1, <1>2, <1>5, LineAt
<1>7. Line[c] = Ids(InLine(c))
  BY <1>1 DEF Line
<1> QED
  BY <1>1, <1>2, <1>6, <1>7 DEF Accepts, Box

LEMMA MuxReplyLoop ==
  ASSUME TypeInv, NEW s \in Session, ReplyLoop(s)
  PROVE  MuxStep
<1>0. UNCHANGED <<rl, wl, wire, writeQ>>
  BY DEF ReplyLoop, connVars, loopVars
<1>1. CASE ReplyLoopWrite(s)
  <2>1. /\ OutQ[s] # << >> /\ OutQ' = [OutQ EXCEPT ![s] = Tail(OutQ[s])]
        /\ OutQ \in [Session -> Seq(ResponseContext)]
    BY <1>1 DEF ReplyLoopWrite, TypeInv, TypeOK, SessionTypeOK
  <2>2. Reqs(OutQ[s]) # << >> /\ Reqs(Tail(OutQ[s])) = Tail(Reqs(OutQ[s]))
    BY <2>1, ReqsTail
  <2>3. Box' = [Box EXCEPT ![s] = Reqs(Tail(OutQ[s]))]
    BY <2>1 DEF Box
  <2>4. Line' = Line
    BY <1>0 DEF Line, InLine
  <2> QED
    BY <2>2, <2>3, <2>4 DEF MuxStep, Takes, Box
<1>2. CASE ReplyLoopQuit(s)
  BY <1>0, <1>2, MuxIdle DEF ReplyLoopQuit, MuxStep
<1> QED
  BY <1>1, <1>2 DEF ReplyLoop

LEMMA MuxWriteLoop ==
  ASSUME TypeInv, Plain, NEW c \in Conn, WriteLoop(c)
  PROVE  UNCHANGED <<Line, OutQ>>
<1> USE DEF WL
<1>0. /\ wl \in [Conn -> WriteLoopState] /\ wire \in [Conn -> Seq(RequestContext)]
      /\ writeQ \in [Conn -> Seq(RequestContext)]
  BY DEF TypeInv, TypeOK
<1>1. CASE WriteLoopTake(c)
  <2>1. /\ WritingSeq(c) = << >> /\ writeQ[c] # << >>
        /\ WritingSeq(c)' = <<Head(writeQ[c])>> /\ writeQ'[c] = Tail(writeQ[c])
        /\ InHandSeq(c)' = InHandSeq(c) /\ wire' = wire /\ OutQ' = OutQ
        /\ \A d \in Conn \ {c} : UNCHANGED <<rl[d], wl[d], wire[d], writeQ[d]>>
    BY <1>0, <1>1 DEF WriteLoopTake, WritingSeq, InHandSeq, sessionVars
  <2>2. InLine(c)' = InHandSeq(c)' \o wire'[c] \o WritingSeq(c)' \o writeQ'[c]
    BY DEF InLine, InHandSeq, WritingSeq
  <2>3. InLine(c)' = InLine(c)
    <3> DEFINE x == InHandSeq(c) \o wire[c]
    <3>1. x \in Seq(RequestContext) /\ writeQ[c] \in Seq(RequestContext)
      BY LineParts, ConcatProperties
    <3> HIDE DEF x
    <3>2. x \o << >> \o writeQ[c] = x \o <<Head(writeQ[c])>> \o Tail(writeQ[c])
      BY <2>1, <3>1, ConcatTake
    <3> QED
      BY <2>1, <2>2, <3>2, LineParts DEF x
  <2> QED
    BY <2>1, <2>3, LineStays
<1>2. CASE WriteLoopWrite(c)
  <2>1. wl[c].ctx \in RequestContext /\ wire' = [wire EXCEPT ![c] = Append(@, wl[c].ctx)]
    BY <1>0, <1>2
    DEF TypeInv, HoldsRequest, WriteLoopState, Plain, Quiet, WriteLoopWrite, WriteSucceeds, BothWriting
  <2>2. /\ WritingSeq(c) = <<wl[c].ctx>> /\ WritingSeq(c)' = << >>
        /\ wire'[c] = Append(wire[c], wl[c].ctx)
        /\ InHandSeq(c)' = InHandSeq(c) /\ writeQ' = writeQ /\ OutQ' = OutQ
        /\ \A d \in Conn \ {c} : UNCHANGED <<rl[d], wl[d], wire[d], writeQ[d]>>
    BY <1>0, <1>2, <2>1 DEF WriteLoopWrite, WritingSeq, InHandSeq, sessionVars, WriteLoopState
  <2>3. InLine(c)' = InHandSeq(c)' \o wire'[c] \o WritingSeq(c)' \o writeQ'[c]
    BY DEF InLine, InHandSeq, WritingSeq
  <2>4. InLine(c)' = InLine(c)
    <3> DEFINE a == InHandSeq(c)
    <3>1. a \in Seq(RequestContext) /\ wire[c] \in Seq(RequestContext)
      BY LineParts
    <3> HIDE DEF a
    <3>2. a \o wire[c] \o <<wl[c].ctx>> = a \o Append(wire[c], wl[c].ctx) \o << >>
      BY <2>1, <3>1, ConcatWrite
    <3> QED
      BY <2>2, <2>3, <3>2, LineParts DEF a
  <2> QED
    BY <2>2, <2>4, LineStays
<1>3. CASE WriteLoopCheck(c) \/ WriteLoopPush(c)
  <2>1. /\ WritingSeq(c) = << >> /\ WritingSeq(c)' = << >>
        /\ UNCHANGED <<rl, wire, writeQ, OutQ>>
        /\ \A d \in Conn \ {c} : UNCHANGED wl[d]
    BY <1>0, <1>3 DEF WriteLoopCheck, WriteLoopPush, WritingSeq, sessionVars
  <2>2. InLine(c)' = InLine(c)
    BY <2>1 DEF InLine, WritingSeq
  <2> QED
    BY <2>1, <2>2, LineStays
<1>4. ~WriteLoopQuit(c) /\ ~WriteLoopWriteErr(c) /\ ~WriteLoopFail(c)
  BY DEF Plain, Quiet, WriteLoopQuit, WriteLoopWriteErr, WriteFails, WriteLoopFail
<1> QED
  BY <1>1, <1>2, <1>3, <1>4 DEF WriteLoop

LEMMA MuxReadLoop ==
  ASSUME TypeInv, Plain, NEW c \in Conn, ReadLoop(c), ~ReadLoopDeliver(c)
  PROVE  UNCHANGED <<Line, OutQ>>
<1>0. /\ rl \in [Conn -> ReadLoopState] /\ wire \in [Conn -> Seq(RequestContext)]
  BY DEF TypeInv, TypeOK
<1>1. CASE ReadLoopTop(c) \/ ReadLoopLoad(c) \/ ReadLoopMatch(c)
  <2>1. /\ InHandSeq(c)' = InHandSeq(c)
        /\ UNCHANGED <<wl, wire, writeQ, OutQ>>
        /\ \A d \in Conn \ {c} : UNCHANGED rl[d]
    BY <1>0, <1>1
    DEF ReadLoopTop, ReadLoopLoad, ReadLoopMatch, InHandSeq, sessionVars, ReadLoopState, Plain, Quiet
  <2>2. InLine(c)' = InLine(c)
    BY <2>1 DEF InLine, InHandSeq
  <2> QED
    BY <2>1, <2>2, LineStays
<1>2. CASE ReadLoopRead(c)
  <2>1. /\ rl' = [rl EXCEPT ![c].pc = "load", ![c].pkt = Head(wire[c])]
        /\ rl[c].pc = "read" /\ wire[c] # << >>
        /\ wire' = [wire EXCEPT ![c] = Tail(@)]
    BY <1>2 DEF Plain, Quiet, ReadLoopRead, BothReading
  <2>2. /\ InHandSeq(c) = << >> /\ InHandSeq(c)' = <<Head(wire[c])>>
        /\ wire'[c] = Tail(wire[c]) /\ UNCHANGED <<wl, writeQ, OutQ>>
        /\ \A d \in Conn \ {c} : UNCHANGED <<rl[d], wl[d], wire[d], writeQ[d]>>
    BY <1>0, <1>2, <2>1 DEF ReadLoopRead, InHandSeq, sessionVars, ReadLoopState
  <2>3. InLine(c)' = InHandSeq(c)' \o wire'[c] \o WritingSeq(c) \o writeQ[c]
    BY <2>2 DEF InLine, InHandSeq, WritingSeq
  <2>4. InLine(c)' = InLine(c)
    <3>1. << >> \o wire[c] = <<Head(wire[c])>> \o Tail(wire[c])
      BY <1>0, <2>1, PairRead
    <3> QED
      BY <2>2, <2>3, <3>1, LineParts
  <2> QED
    BY <2>2, <2>4, LineStays
<1>3. ~ReadLoopEOF(c) /\ ~ReadLoopSkip(c) /\ ~ClearTxnState(c)
  BY DEF Plain, Quiet, ReadLoopEOF, ReadLoopSkip, BothReading, ClearTxnState
<1> QED
  BY <1>1, <1>2, <1>3 DEF ReadLoop

LEMMA MuxDeliver ==
  ASSUME TypeInv, Plain, NEW c \in Conn, ReadLoopDeliver(c)
  PROVE  Answers(c) /\ Head(Line[c]) = Id(rl[c].pkt)
<1>0. rl \in [Conn -> ReadLoopState] /\ OutQ \in [Session -> Seq(ResponseContext)]
  BY DEF TypeInv, TypeOK, SessionTypeOK
<1> DEFINE pkt == rl[c].pkt
           rsp == [req |-> pkt, err |-> pkt = None, callback |-> rl[c].callback]
<1>1. /\ rl' = [rl EXCEPT ![c] = RL("top")] /\ rl[c].pc = "deliver"
      /\ pkt \in RequestContext /\ rl[c].to = pkt.session /\ pkt.session \in Session
  BY <1>0 DEF Plain, Quiet, InHand, ReadLoopDeliver, ReadLoopState, RequestContext
<1>2. /\ InHandSeq(c) = <<pkt>> /\ InHandSeq(c)' = << >>
      /\ UNCHANGED <<wl, wire, writeQ>>
      /\ \A d \in Conn \ {c} : UNCHANGED <<rl[d], wl[d], wire[d], writeQ[d]>>
  BY <1>0, <1>1 DEF ReadLoopDeliver, InHandSeq, RL
<1>3. rsp \in ResponseContext
  BY <1>0, <1>1 DEF ReadLoopState, ResponseContext
<1>4. OutQ' = [OutQ EXCEPT ![pkt.session] = Append(OutQ[pkt.session], rsp)]
  BY <1>1 DEF ReadLoopDeliver, SendOutQ
<1> HIDE DEF pkt
<1>5. Reqs(Append(OutQ[pkt.session], rsp)) = Append(Reqs(OutQ[pkt.session]), Id(pkt))
  <2>1. rsp.req = pkt
    OBVIOUS
  <2> HIDE DEF rsp
  <2> QED
    BY <1>0, <1>1, <1>3, <2>1, ReqsAppend DEF pkt
<1>6. Box' = [Box EXCEPT ![pkt.session] = Append(Reqs(OutQ[pkt.session]), Id(pkt))]
  <2> HIDE DEF rsp
  <2> QED
    BY <1>0, <1>1, <1>4, <1>5 DEF Box, pkt
<1>7. InLine(c) # << >> /\ Head(InLine(c)) = pkt /\ InLine(c)' = Tail(InLine(c))
  <2>1. InLine(c) = <<pkt>> \o wire[c] \o WritingSeq(c) \o writeQ[c]
    BY <1>2, LineParts
  <2>2. InLine(c)' = << >> \o wire[c] \o WritingSeq(c) \o writeQ[c]
    BY <1>2 DEF InLine, InHandSeq, WritingSeq
  <2> DEFINE x == WritingSeq(c)
             u == <<pkt>> \o wire[c]
             v == u \o x
             w == << >> \o wire[c]
             z == w \o x
  <2>3. /\ wire[c] \in Seq(RequestContext) /\ x \in Seq(RequestContext)
        /\ writeQ[c] \in Seq(RequestContext) /\ pkt \in RequestContext
    BY <1>1, LineParts DEF pkt
  <2> HIDE DEF x
  <2>4. u \in Seq(RequestContext) /\ u # << >> /\ Head(u) = pkt /\ Tail(u) = w
    BY <2>3, ConcatOne, ConcatProperties
  <2> HIDE DEF u, w
  <2>5. v \in Seq(RequestContext) /\ v # << >> /\ Head(v) = pkt /\ Tail(v) = z
    BY <2>3, <2>4, ConcatTail, ConcatProperties
  <2> HIDE DEF v, z
  <2>6. /\ v \o writeQ[c] # << >> /\ Head(v \o writeQ[c]) = pkt
        /\ Tail(v \o writeQ[c]) = z \o writeQ[c]
    BY <2>3, <2>5, ConcatTail
  <2> QED
    BY <2>1, <2>2, <2>6 DEF x, u, v, w, z
<1>8. /\ Ids(InLine(c)) # << >> /\ Head(Ids(InLine(c))) = Id(pkt)
      /\ Ids(InLine(c)') = Tail(Ids(InLine(c)))
  BY <1>7, LineParts, IdsTail
<1>9. Line' = [Line EXCEPT ![c] = Tail(Ids(InLine(c)))]
  BY <1>2, <1>8, LineAt
<1>10. Line[c] = Ids(InLine(c)) /\ Id(pkt).session = pkt.session
  BY DEF Line, Id
<1>11. Box[pkt.session] = Reqs(OutQ[pkt.session])
  BY <1>1 DEF Box, pkt
<1>12. Answers(c)
  BY <1>6, <1>8, <1>9, <1>10, <1>11 DEF Answers
<1> QED
  BY <1>8, <1>10, <1>12 DEF pkt

LEMMA MuxNext ==
  ASSUME PlainWorkload, TypeInv, Plain, [Next]_vars
  PROVE  MuxStep
<1>1. CASE \E s \in Session, cmd \in Cmds : Reject(s, cmd)
  BY <1>1, MuxIdle DEF Reject, WriteAndFlush, connVars, loopVars, MuxStep
<1>2. CASE \E s \in Session, c \in Conn, cmd \in Cmds : Forward(s, c, cmd)
  BY <1>2, MuxIdle DEF Forward, loopVars, MuxStep
<1>3. CASE \E s \in Session : Enqueue(s)
  <2>1. PICK s \in Session : Enqueue(s)
    BY <1>3
  <2>2. /\ Accepts(fwd[s].conn, Id(fwd[s].ctx))
        /\ fwd[s].conn \in Conn /\ fwd[s].ctx \in RequestContext
    BY <2>1, MuxEnqueue
  <2>3. Id(fwd[s].ctx) \in [session: Session, n: 1..MaxReqs]
    BY <2>2 DEF Id, RequestContext
  <2> QED
    BY <2>2, <2>3 DEF MuxStep
<1>4. CASE \E s \in Session : CloseSession(s)
  BY <1>4, MuxIdle DEF CloseSession, SessionClose, connVars, loopVars, MuxStep
<1>5. CASE \E s \in Session : ReplyLoop(s)
  BY <1>5, MuxReplyLoop
<1>6. ASSUME NEW c \in Conn, ConnNext(c)
      PROVE  MuxStep
  <2>1. ~Clear(c)
    BY DEF Plain, Quiet, Clear, DrainTakeWrite, DrainWriteEnd, DrainFlush, DrainPush, DrainFail,
           DrainTakePending, DrainRead, DrainSend, InnerClose
  <2>2. ~Close(c) /\ ~CloseReturn(c) /\ ~PeerFail(c)
    BY DEF PlainWorkload, Plain, Quiet, Close, CloseReturn, PeerFail
  <2>3. UNCHANGED OutQ => UNCHANGED Box
    BY DEF Box
  <2> QED
    BY <1>6, <2>1, <2>2, <2>3, MuxWriteLoop, MuxReadLoop, MuxDeliver DEF ConnNext, MuxStep
<1>7. CASE UNCHANGED vars
  BY <1>7, MuxIdle DEF vars, sessionVars, connVars, loopVars, MuxStep
<1> QED
  BY <1>1, <1>2, <1>3, <1>4, <1>5, <1>6, <1>7 DEF Next

LEMMA MuxInit == Init => Line = [c \in Conn |-> << >>] /\ Box = [s \in Session |-> << >>]
<1> SUFFICES ASSUME Init PROVE Line = [c \in Conn |-> << >>] /\ Box = [s \in Session |-> << >>]
  OBVIOUS
<1>1. \A c \in Conn : InLine(c) = << >>
  BY DEF Init, ConnInit, InLine, WL, RL
<1>2. Ids(<< >>) = << >> /\ Reqs(<< >>) = << >>
  BY DEF Ids, Reqs
<1> QED
  BY <1>1, <1>2 DEF Line, Box, Init, SessionInit

(* On connections that carry no transaction and are neither closed nor lost *)
(* the loops, the queues and the socket behave as one line: a step either   *)
(* is invisible to the sessions, or appends a request to the end of one     *)
(* line, or answers the request at the front of a line to the session that  *)
(* asked, or hands a client its oldest reply.                               *)
THEOREM PlainImplementsMux ==
  ASSUME PlainWorkload
  PROVE  Spec => ImplementsMux
<1>1. Init => TypeInv /\ Plain
  BY TypeInit, PlainInit
<1>2. TypeInv /\ Plain /\ [Next]_vars => (TypeInv /\ Plain)'
  BY TypeNext, PlainNext
<1>3. Init => Ideal!Init
  BY MuxInit DEF Ideal!Init, Line, Box, Ids, Reqs
<1>4. TypeInv /\ Plain /\ [Next]_vars => [Ideal!Next]_(Ideal!vars)
  <2> SUFFICES ASSUME TypeInv, Plain, [Next]_vars PROVE [Ideal!Next]_(Ideal!vars)
    OBVIOUS
  <2>1. CASE \E c \in Conn : Answers(c)
    BY <2>1 DEF Answers, Ideal!Next, Ideal!Answer, Line, Box, Ids, Reqs
  <2>2. CASE \E s \in Session : Takes(s)
    BY <2>2 DEF Takes, Ideal!Next, Ideal!Take, Line, Box, Ids, Reqs
  <2>3. CASE \E c \in Conn, r \in [session: Session, n: 1..MaxReqs] : Accepts(c, r)
    BY <2>3 DEF Accepts, Ideal!Next, Ideal!Accept, Line, Box, Ids, Reqs
  <2>4. CASE UNCHANGED <<Line, Box>>
    BY <2>4 DEF Ideal!vars, Line, Box, Ids, Reqs
  <2> QED
    BY <2>1, <2>2, <2>3, <2>4, MuxNext DEF MuxStep
<1> QED
  BY <1>1, <1>2, <1>3, <1>4, PTL DEF Spec, ImplementsMux, Ideal!Spec
=============================================================================
