---------------------------- MODULE ReplyProofs ----------------------------
(***************************************************************************)
(* A packet is handed out at most once, whatever fails; and without        *)
(* transactions nobody gets more replies than it sent requests.            *)
(***************************************************************************)
EXTENDS BackendConnProofs, FiniteSetTheorems

(* The requests on a queue of requests; the backend's packets on a queue of *)
(* replies; and the packet in one reply.                                    *)
Requests(q) == {q[i] : i \in 1..Len(q)}
Packets(q) == {q[i].req : i \in {j \in 1..Len(q) : ~q[j].err}}
PacketOf(rsp) == IF rsp.err THEN {} ELSE {rsp.req}

(* No request is on the queue twice; no packet is.                          *)
NoRepeat(q) == \A i, j \in 1..Len(q) : q[i] = q[j] => i = j
NoPacketTwice(q) ==
  \A i, j \in 1..Len(q) : ~q[i].err /\ ~q[j].err /\ q[i].req = q[j].req => i = j

(* Where a request can be on its way to the backend, as a packet on its way *)
(* back, or remembered until it is answered.                                *)
Index(k) == IF k \in {"fwd", "out", "rcvd"} THEN Session ELSE Conn
Held(k, x) ==
  CASE k = "fwd" -> IF fwd[x] = None THEN {} ELSE {fwd[x].ctx}
    [] k = "writeQ" -> Requests(writeQ[x])
    [] k = "writing" -> IF wl[x].pc = "write" THEN {wl[x].ctx} ELSE {}
    [] k = "flushing" -> IF clr[x].pc = "flushW" THEN {clr[x].ctx} ELSE {}
    [] k = "wire" -> Requests(wire[x])
    [] k = "inHand" -> IF rl[x].pc \in {"load", "pend", "deliver"} /\ rl[x].pkt # None
                         THEN {rl[x].pkt} ELSE {}
    [] k = "drained" -> IF clr[x].pc = "sendP" THEN PacketOf(clr[x].rsp) ELSE {}
    [] k = "out" -> Packets(OutQ[x])
    [] k = "rcvd" -> Packets(rcvd[x])
    [] k = "wl" -> IF wl[x].pc \in {"write", "fail", "check", "push"} THEN {wl[x].ctx} ELSE {}
    [] k = "pendingQ" -> Requests(pendingQ[x])
    [] k = "clr" -> IF clr[x].pc \in {"flushW", "pushP", "failW", "readP", "sendP"}
                      THEN {clr[x].ctx} ELSE {}

(* The places of a packet, and the places of a request that is to be        *)
(* answered.                                                                *)
OnItsWay ==
  {"fwd", "writeQ", "writing", "flushing", "wire", "inHand", "drained", "out", "rcvd"}
Owing == {"fwd", "writeQ", "wl", "pendingQ", "clr"}

(* No request is in two of the places of kinds K.                           *)
Apart(K) ==
  \A k, l \in K : \A x \in Index(k), y \in Index(l) :
    Held(k, x) \cap Held(l, y) # {} => k = l /\ x = y

(* Nor is one there that has not been sent.                                 *)
Known(K) ==
  \A k \in K : \A x \in Index(k) : \A r \in Held(k, x) :
    r \in RequestContext /\ r.n <= sent[r.session]

(* A packet is in one place, once.                                          *)
OnePacket ==
  /\ Apart(OnItsWay) /\ Known(OnItsWay)
  /\ \A c \in Conn : NoRepeat(writeQ[c]) /\ NoRepeat(wire[c])
  /\ \A s \in Session : NoPacketTwice(OutQ[s]) /\ NoPacketTwice(rcvd[s])

(* What session s is still to be answered, and the connections whose        *)
(* ReadLoop is about to answer it.                                          *)
Owed(s) == {r \in RequestContext :
              r.session = s /\ \E k \in Owing : \E x \in Index(k) : r \in Held(k, x)}
Answering(s) == {c \in Conn : rl[c].pc = "deliver" /\ rl[c].to = s}

(* A request that is to be answered is in one place, once.                  *)
OnePlace ==
  /\ Apart(Owing) /\ Known(Owing)
  /\ \A c \in Conn : NoRepeat(writeQ[c]) /\ NoRepeat(pendingQ[c])

(* A session's answers, and what it is still owed, make up no more than it  *)
(* sent.                                                                    *)
Given(s) == Len(rcvd[s]) + Len(OutQ[s])
Coming(s) == Cardinality(Answering(s))
Unpaid(s) == Cardinality(Owed(s))
Balanced ==
  \A s \in Session :
    /\ IsFiniteSet(Owed(s)) /\ IsFiniteSet(Answering(s))
    /\ Given(s) + Coming(s) + Unpaid(s) <= sent[s]

OneAnswer == OnePlace /\ Balanced /\ \A c \in Conn : txState[c] = NoTx

----------------------------------------------------------------------------
(* Queues.                                                                  *)

LEMMA PushRequest ==
  ASSUME NEW S, NEW q \in Seq(S), NEW e \in S
  PROVE  /\ Requests(Append(q, e)) = Requests(q) \cup {e}
         /\ NoRepeat(q) /\ e \notin Requests(q) => NoRepeat(Append(q, e))
<1>1. /\ Len(q) \in Nat /\ Len(Append(q, e)) = Len(q) + 1
      /\ \A i \in 1..Len(q) : Append(q, e)[i] = q[i]
      /\ Append(q, e)[Len(q) + 1] = e
  BY AppendProperties, LenProperties
<1> DEFINE a == Append(q, e)
<1> HIDE DEF a
<1>2. /\ Len(a) = Len(q) + 1 /\ \A i \in 1..Len(q) : a[i] = q[i]
      /\ a[Len(q) + 1] = e
  BY <1>1 DEF a
<1>3. Requests(a) = Requests(q) \cup {e}
  BY <1>1, <1>2 DEF Requests
<1>4. NoRepeat(q) /\ e \notin Requests(q) => NoRepeat(a)
  BY <1>1, <1>2 DEF NoRepeat, Requests
<1> QED
  BY <1>3, <1>4 DEF a

LEMMA PopRequest ==
  ASSUME NEW S, NEW q \in Seq(S), q # << >>, NoRepeat(q)
  PROVE  /\ Head(q) \in Requests(q)
         /\ Requests(Tail(q)) = Requests(q) \ {Head(q)}
         /\ NoRepeat(Tail(q))
<1> DEFINE t == Tail(q)
<1>1. /\ Len(q) \in Nat /\ Len(q) > 0 /\ Len(t) = Len(q) - 1
      /\ \A i \in 1..(Len(q) - 1) : t[i] = q[i + 1]
      /\ Head(q) = q[1]
  BY HeadTailProperties, LenProperties, EmptySeq
<1> HIDE DEF t
<1>2. Head(q) \in Requests(q)
  BY <1>1 DEF Requests
<1>3. NoRepeat(t)
  BY <1>1 DEF NoRepeat
<1>4. Requests(t) \subseteq Requests(q) \ {Head(q)}
  <2> SUFFICES ASSUME NEW i \in 1..Len(t) PROVE t[i] \in Requests(q) \ {Head(q)}
    BY DEF Requests
  <2>1. t[i] = q[i + 1] /\ i + 1 \in 1..Len(q) /\ 1 \in 1..Len(q) /\ i + 1 # 1
    BY <1>1
  <2> QED
    BY <1>1, <2>1 DEF Requests, NoRepeat
<1>5. Requests(q) \ {Head(q)} \subseteq Requests(t)
  <2> SUFFICES ASSUME NEW i \in 1..Len(q), q[i] # q[1] PROVE q[i] \in Requests(t)
    BY <1>1 DEF Requests
  <2>1. i - 1 \in 1..Len(t) /\ t[i - 1] = q[i]
    BY <1>1
  <2> QED
    BY <2>1 DEF Requests
<1> QED
  BY <1>2, <1>3, <1>4, <1>5 DEF t

LEMMA CutRequests ==
  ASSUME NEW S, NEW q \in Seq(S), NEW k \in 0..Len(q)
  PROVE  /\ Requests(SubSeq(q, 1, k)) \subseteq Requests(q)
         /\ NoRepeat(q) => NoRepeat(SubSeq(q, 1, k))
<1> DEFINE t == SubSeq(q, 1, k)
<1>1. Len(q) \in Nat /\ \A i \in 1..Len(q) : q[i] \in S
  BY LenProperties, ElementOfSeq
<1>2. Len(t) = k /\ \A i \in 1..k : t[i] = q[i]
  BY <1>1
<1> HIDE DEF t
<1>3. Requests(t) \subseteq Requests(q)
  BY <1>1, <1>2 DEF Requests
<1>4. NoRepeat(q) => NoRepeat(t)
  BY <1>1, <1>2 DEF NoRepeat
<1> QED
  BY <1>3, <1>4 DEF t

LEMMA PushReply ==
  ASSUME NEW q \in Seq(ResponseContext), NEW rsp \in ResponseContext
  PROVE  /\ Packets(Append(q, rsp)) = Packets(q) \cup PacketOf(rsp)
         /\ NoPacketTwice(q) /\ PacketOf(rsp) \cap Packets(q) = {}
              => NoPacketTwice(Append(q, rsp))
<1> DEFINE a == Append(q, rsp)
<1>1. /\ Len(q) \in Nat /\ Len(a) = Len(q) + 1
      /\ \A i \in 1..Len(q) : a[i] = q[i]
      /\ a[Len(q) + 1] = rsp
  BY AppendProperties, LenProperties
<1> HIDE DEF a
<1>2. Packets(a) = Packets(q) \cup PacketOf(rsp)
  BY <1>1 DEF Packets, PacketOf
<1>3. NoPacketTwice(q) /\ PacketOf(rsp) \cap Packets(q) = {} => NoPacketTwice(a)
  BY <1>1 DEF NoPacketTwice, Packets, PacketOf
<1> QED
  BY <1>2, <1>3 DEF a

LEMMA PopReply ==
  ASSUME NEW q \in Seq(ResponseContext), q # << >>, NoPacketTwice(q)
  PROVE  /\ PacketOf(Head(q)) \subseteq Packets(q)
         /\ Packets(Tail(q)) = Packets(q) \ PacketOf(Head(q))
         /\ NoPacketTwice(Tail(q))
<1> DEFINE t == Tail(q)
<1>1. /\ Len(q) \in Nat /\ Len(q) > 0 /\ Len(t) = Len(q) - 1
      /\ \A i \in 1..(Len(q) - 1) : t[i] = q[i + 1]
      /\ Head(q) = q[1]
  BY HeadTailProperties, LenProperties, EmptySeq
<1> HIDE DEF t
<1>2. PacketOf(Head(q)) \subseteq Packets(q)
  BY <1>1 DEF Packets, PacketOf
<1>3. NoPacketTwice(t)
  BY <1>1 DEF NoPacketTwice
<1>4. Packets(t) \subseteq Packets(q) \ PacketOf(Head(q))
  <2> SUFFICES ASSUME NEW i \in 1..Len(t), ~t[i].err
               PROVE  t[i].req \in Packets(q) \ PacketOf(q[1])
    BY <1>1 DEF Packets
  <2>1. t[i] = q[i + 1] /\ i + 1 \in 1..Len(q) /\ 1 \in 1..Len(q) /\ i + 1 # 1
    BY <1>1
  <2>2. t[i].req \in Packets(q)
    BY <2>1 DEF Packets
  <2>3. t[i].req \notin PacketOf(q[1])
    BY <2>1 DEF PacketOf, NoPacketTwice
  <2> QED
    BY <2>2, <2>3
<1>5. Packets(q) \ PacketOf(Head(q)) \subseteq Packets(t)
  <2> SUFFICES ASSUME NEW i \in 1..Len(q), ~q[i].err, q[i].req \notin PacketOf(q[1])
               PROVE  q[i].req \in Packets(t)
    BY <1>1 DEF Packets
  <2>1. i # 1
    BY DEF PacketOf
  <2>2. i - 1 \in 1..Len(t) /\ t[i - 1] = q[i]
    BY <1>1, <2>1
  <2> QED
    BY <2>2 DEF Packets
<1> QED
  BY <1>2, <1>3, <1>4, <1>5 DEF t

(* An invariant of both kinds: a step that brings the requests R to one     *)
(* place, and leaves them in no other, keeps requests apart.                *)
LEMMA Moved ==
  ASSUME NEW K, NEW k0 \in K, NEW x0 \in Index(k0), NEW R, Apart(K),
         Held(k0, x0)' \subseteq Held(k0, x0) \cup R,
         \A k \in K : \A x \in Index(k) :
           (k # k0 \/ x # x0) => Held(k, x)' \subseteq Held(k, x) \ R
  PROVE  Apart(K)'
<1> SUFFICES ASSUME NEW k \in K, NEW l \in K, NEW x \in Index(k), NEW y \in Index(l),
                    NEW r, r \in Held(k, x)', r \in Held(l, y)'
             PROVE  k = l /\ x = y
  BY DEF Apart, Index
<1>1. /\ r \in Held(k, x) \/ (k = k0 /\ x = x0 /\ r \in R)
      /\ r \in Held(l, y) \/ (l = k0 /\ y = x0 /\ r \in R)
      /\ r \in R => (k = k0 /\ x = x0) /\ (l = k0 /\ y = x0)
  OBVIOUS
<1> QED
  BY <1>1 DEF Apart

LEMMA Stayed ==
  ASSUME NEW K, Apart(K), \A k \in K : \A x \in Index(k) : Held(k, x)' \subseteq Held(k, x)
  PROVE  Apart(K)'
<1> SUFFICES ASSUME NEW k \in K, NEW l \in K, NEW x \in Index(k), NEW y \in Index(l),
                    NEW r, r \in Held(k, x)', r \in Held(l, y)'
             PROVE  k = l /\ x = y
  BY DEF Apart, Index
<1>1. r \in Held(k, x) /\ r \in Held(l, y)
  OBVIOUS
<1> QED
  BY <1>1 DEF Apart

(* What a place holds depends on one variable.                              *)
LEMMA Unmoved ==
  /\ UNCHANGED fwd => \A x : Held("fwd", x)' = Held("fwd", x)
  /\ UNCHANGED writeQ => \A x : Held("writeQ", x)' = Held("writeQ", x)
  /\ UNCHANGED wire => \A x : Held("wire", x)' = Held("wire", x)
  /\ UNCHANGED pendingQ => \A x : Held("pendingQ", x)' = Held("pendingQ", x)
  /\ UNCHANGED OutQ => \A x : Held("out", x)' = Held("out", x)
  /\ UNCHANGED rcvd => \A x : Held("rcvd", x)' = Held("rcvd", x)
  /\ UNCHANGED wl => \A x : /\ Held("writing", x)' = Held("writing", x)
                             /\ Held("wl", x)' = Held("wl", x)
  /\ UNCHANGED rl => \A x : Held("inHand", x)' = Held("inHand", x)
  /\ UNCHANGED clr => \A x : /\ Held("flushing", x)' = Held("flushing", x)
                              /\ Held("drained", x)' = Held("drained", x)
                              /\ Held("clr", x)' = Held("clr", x)
<1>1. /\ UNCHANGED fwd => \A x : Held("fwd", x)' = Held("fwd", x)
      /\ UNCHANGED writeQ => \A x : Held("writeQ", x)' = Held("writeQ", x)
      /\ UNCHANGED wire => \A x : Held("wire", x)' = Held("wire", x)
  BY DEF Held
<1>2. /\ UNCHANGED pendingQ => \A x : Held("pendingQ", x)' = Held("pendingQ", x)
      /\ UNCHANGED OutQ => \A x : Held("out", x)' = Held("out", x)
      /\ UNCHANGED rcvd => \A x : Held("rcvd", x)' = Held("rcvd", x)
  BY DEF Held
<1>3. UNCHANGED wl => \A x : /\ Held("writing", x)' = Held("writing", x)
                             /\ Held("wl", x)' = Held("wl", x)
  BY DEF Held
<1>4. UNCHANGED rl => \A x : Held("inHand", x)' = Held("inHand", x)
  BY DEF Held
<1>5. UNCHANGED clr => \A x : /\ Held("flushing", x)' = Held("flushing", x)
                              /\ Held("drained", x)' = Held("drained", x)
                              /\ Held("clr", x)' = Held("clr", x)
  BY DEF Held
<1> QED
  BY <1>1, <1>2, <1>3, <1>4, <1>5

(* The requests R go from place (k1, x1) to place (k0, x0).                 *)
LEMMA MovedFrom ==
  ASSUME NEW K, Apart(K), Known(K), UNCHANGED sent,
         NEW k0 \in K, NEW x0 \in Index(k0), NEW k1 \in K, NEW x1 \in Index(k1), k0 # k1,
         NEW R, R \subseteq Held(k1, x1),
         Held(k1, x1)' \subseteq Held(k1, x1) \ R,
         Held(k0, x0)' \subseteq Held(k0, x0) \cup R,
         \A k \in K : \A x \in Index(k) :
           (k # k0 \/ x # x0) => Held(k, x)' \subseteq Held(k, x)
  PROVE  Apart(K)' /\ Known(K)'
<1>1. \A k \in K : \A x \in Index(k) :
        (k # k1 \/ x # x1) => Held(k, x) \cap R = {}
  BY DEF Apart
<1>2. \A k \in K : \A x \in Index(k) :
        (k # k0 \/ x # x0) => Held(k, x)' \subseteq Held(k, x) \ R
  BY <1>1
<1>3. Apart(K)'
  BY <1>2, Moved
<1>4. \A k \in K : \A x \in Index(k) : \A r \in Held(k, x)' :
        r \in Held(k, x) \/ r \in Held(k1, x1)
  BY <1>2
<1>5. Known(K)'
  <2> SUFFICES ASSUME NEW k \in K, NEW x \in Index(k), NEW r, r \in Held(k, x)'
               PROVE  r \in RequestContext /\ r.n <= sent'[r.session]
    BY DEF Known, Index
  <2> QED
    BY <1>4 DEF Known
<1> QED
  BY <1>3, <1>5

LEMMA StayedKnown ==
  ASSUME NEW K, Apart(K), Known(K), \A s \in Session : sent'[s] >= sent[s],
         sent \in [Session -> Nat], sent' \in [Session -> Nat],
         \A k \in K : \A x \in Index(k) : Held(k, x)' \subseteq Held(k, x)
  PROVE  Apart(K)' /\ Known(K)'
<1>1. Apart(K)'
  BY Stayed
<1>2. Known(K)'
  <2> SUFFICES ASSUME NEW k \in K, NEW x \in Index(k), NEW r, r \in Held(k, x)'
               PROVE  r \in RequestContext /\ r.n <= sent'[r.session]
    BY DEF Known, Index
  <2>1. r \in Held(k, x)
    OBVIOUS
  <2>2. r \in RequestContext /\ r.n <= sent[r.session]
    BY <2>1 DEF Known
  <2>3. r.session \in Session /\ r.n \in Nat
    BY <2>2, SessionAssumption DEF RequestContext
  <2> QED
    BY <2>2, <2>3
<1> QED
  BY <1>1, <1>2

----------------------------------------------------------------------------
(* Packets.                                                                 *)

LEMMA PacketEnqueue ==
  ASSUME TypeInv, OnePacket, NEW s \in Session, Enqueue(s)
  PROVE  OnePacket'
<1>1. PICK c \in Conn, r \in RequestContext : c = fwd[s].conn /\ r = fwd[s].ctx
  <2>1. fwd[s] \in [conn: Conn, ctx: RequestContext]
    BY DEF TypeInv, TypeOK, Enqueue
  <2> QED
    BY <2>1
<1>2. /\ writeQ' = [writeQ EXCEPT ![c] = Append(writeQ[c], r)]
      /\ fwd[s] # None /\ fwd' = [fwd EXCEPT ![s] = None]
      /\ UNCHANGED <<sent, rl, wl, clr, wire, OutQ, rcvd>>
      /\ writeQ \in [Conn -> Seq(RequestContext)]
      /\ fwd \in [Session -> {None} \cup [conn: Conn, ctx: RequestContext]]
  BY <1>1 DEF Enqueue, loopVars, sessionVars, TypeInv, TypeOK
<1>3. /\ Held("fwd", s) = {r} /\ Held("fwd", s)' = {}
      /\ \A x \in Session : Held("fwd", x)' \subseteq Held("fwd", x)
  BY <1>1, <1>2 DEF Held
<1>4. r \notin Requests(writeQ[c])
  <2>1. Held("writeQ", c) = Requests(writeQ[c])
    BY DEF Held
  <2>2. Held("writeQ", c) \cap Held("fwd", s) = {}
    BY DEF OnePacket, Apart, OnItsWay, Index
  <2> QED
    BY <1>3, <2>1, <2>2
<1>5. Requests(Append(writeQ[c], r)) = Requests(writeQ[c]) \cup {r} /\ NoRepeat(Append(writeQ[c], r))
  BY <1>2, <1>4, PushRequest DEF OnePacket
<1>6. /\ Held("writeQ", c)' = Held("writeQ", c) \cup {r}
      /\ \A x \in Conn \ {c} : Held("writeQ", x)' = Held("writeQ", x)
  BY <1>2, <1>5 DEF Held
<1>7. Apart(OnItsWay)' /\ Known(OnItsWay)'
  <2>1. \A k \in OnItsWay : \A x \in Index(k) :
          (k # "writeQ" \/ x # c) => Held(k, x)' \subseteq Held(k, x)
    BY <1>2, <1>3, <1>6, Unmoved DEF OnItsWay, Index
  <2>2. "writeQ" \in OnItsWay /\ "fwd" \in OnItsWay /\ c \in Index("writeQ") /\ s \in Index("fwd")
    BY DEF OnItsWay, Index
  <2>3. /\ {r} \subseteq Held("fwd", s)
        /\ Held("fwd", s)' \subseteq Held("fwd", s) \ {r}
        /\ Held("writeQ", c)' \subseteq Held("writeQ", c) \cup {r}
    BY <1>3, <1>6
  <2>4. Apart(OnItsWay) /\ Known(OnItsWay) /\ UNCHANGED sent
    BY <1>2 DEF OnePacket
  <2> QED
    BY <2>1, <2>2, <2>3, <2>4, MovedFrom, Zenon
<1> QED
  BY <1>2, <1>5, <1>7 DEF OnePacket

(* Steps that put no packet anywhere, and may forget some.                  *)
LEMMA PacketQuiet ==
  ASSUME OnePacket, UNCHANGED <<sent, fwd, writeQ, OutQ, rcvd>>, TypeInv,
         \A k \in {"writing", "flushing", "wire", "inHand", "drained"} :
           \A x \in Conn : Held(k, x)' \subseteq Held(k, x),
         \A c \in Conn : NoRepeat(wire'[c])
  PROVE  OnePacket'
<1>1. \A k \in OnItsWay : \A x \in Index(k) : Held(k, x)' \subseteq Held(k, x)
  BY Unmoved DEF OnItsWay, Index
<1>2. sent \in [Session -> Nat]
  BY SessionAssumption DEF TypeInv, TypeOK
<1>3. sent' \in [Session -> Nat] /\ \A s \in Session : sent'[s] >= sent[s]
  BY <1>2
<1>4. Apart(OnItsWay)' /\ Known(OnItsWay)'
  BY <1>1, <1>2, <1>3, StayedKnown DEF OnePacket
<1> QED
  BY <1>4 DEF OnePacket

(* A reply put on an OutQ; its packet, if it has one, was in place (k, x).  *)
LEMMA PacketSend ==
  ASSUME TypeInv, OnePacket, NEW s \in Session \cup {None}, NEW rsp \in ResponseContext,
         SendOutQ(s, rsp), UNCHANGED <<sent, fwd, writeQ, wire, rcvd>>,
         NEW k \in {"writing", "flushing", "inHand", "drained"}, NEW x \in Conn,
         PacketOf(rsp) \subseteq Held(k, x),
         Held(k, x)' \subseteq Held(k, x) \ PacketOf(rsp),
         \A l \in {"writing", "flushing", "inHand", "drained"} :
           \A y \in Conn : Held(l, y)' \subseteq Held(l, y)
  PROVE  OnePacket'
<1>0. OutQ \in [Session -> Seq(ResponseContext)]
  BY DEF TypeInv, TypeOK, SessionTypeOK
<1>1. CASE s \notin Session
  <2>1. UNCHANGED OutQ
    BY <1>0, <1>1 DEF SendOutQ
  <2>2. \A y \in Conn : Held("wire", y)' \subseteq Held("wire", y)
    BY Unmoved
  <2> QED
    BY <2>1, <2>2, PacketQuiet DEF OnePacket
<1>2. CASE s \in Session
  <2>1. OutQ' = [OutQ EXCEPT ![s] = Append(OutQ[s], rsp)]
    BY <1>2 DEF SendOutQ
  <2>2. Held("out", s) = Packets(OutQ[s])
    BY DEF Held
  <2>3. k \in OnItsWay /\ "out" \in OnItsWay /\ x \in Index(k) /\ s \in Index("out") /\ k # "out"
    BY <1>2 DEF OnItsWay, Index
  <2>4. Held("out", s) \cap Held(k, x) = {}
    BY <2>3 DEF OnePacket, Apart
  <2>5. PacketOf(rsp) \cap Packets(OutQ[s]) = {}
    BY <2>2, <2>4
  <2>6. /\ Packets(Append(OutQ[s], rsp)) = Packets(OutQ[s]) \cup PacketOf(rsp)
        /\ NoPacketTwice(Append(OutQ[s], rsp))
    BY <1>0, <1>2, <2>5, PushReply DEF OnePacket
  <2>7. /\ Held("out", s)' = Held("out", s) \cup PacketOf(rsp)
        /\ \A t \in Session \ {s} : Held("out", t)' = Held("out", t)
    BY <1>0, <1>2, <2>1, <2>6 DEF Held
  <2>8. \A l \in OnItsWay : \A y \in Index(l) :
          (l # "out" \/ y # s) => Held(l, y)' \subseteq Held(l, y)
    BY <2>7, Unmoved DEF OnItsWay, Index
  <2>9. Apart(OnItsWay)' /\ Known(OnItsWay)'
    <3>1. Apart(OnItsWay) /\ Known(OnItsWay) /\ UNCHANGED sent
      BY DEF OnePacket
    <3>2. Held("out", s)' \subseteq Held("out", s) \cup PacketOf(rsp)
      BY <2>7
    <3> QED
      BY <2>3, <2>8, <3>1, <3>2, MovedFrom
  <2>10. \A t \in Session : NoPacketTwice(OutQ'[t])
    BY <1>0, <1>2, <2>1, <2>6 DEF OnePacket
  <2> QED
    BY <2>9, <2>10 DEF OnePacket
<1> QED
  BY <1>1, <1>2

LEMMA PacketForward ==
  ASSUME TypeInv, OnePacket, NEW s \in Session, NEW c \in Conn, NEW cmd \in Cmds, Forward(s, c, cmd)
  PROVE  OnePacket'
<1> DEFINE r == NewRequest(s, cmd)
<1>1. /\ r \in RequestContext /\ r.session = s /\ r.n = sent[s] + 1
      /\ sent \in [Session -> Nat]
      /\ fwd \in [Session -> {None} \cup [conn: Conn, ctx: RequestContext]]
  BY NewRequestType, SessionAssumption DEF TypeInv, TypeOK, Forward, NewRequest
<1>2. /\ sent' = [sent EXCEPT ![s] = sent[s] + 1]
      /\ fwd[s] = None /\ fwd' = [fwd EXCEPT ![s] = [conn |-> c, ctx |-> r]]
      /\ UNCHANGED <<writeQ, wire, wl, rl, clr, OutQ, rcvd>>
  BY DEF Forward, loopVars
<1> HIDE DEF r
<1>3. \A k \in OnItsWay : \A x \in Index(k) : r \notin Held(k, x)
  BY <1>1 DEF OnePacket, Known
<1>4. /\ Held("fwd", s)' \subseteq Held("fwd", s) \cup {r}
      /\ \A x \in Session \ {s} : Held("fwd", x)' = Held("fwd", x)
  BY <1>1, <1>2 DEF Held
<1>5. \A k \in OnItsWay : \A x \in Index(k) :
        (k # "fwd" \/ x # s) => Held(k, x)' \subseteq Held(k, x) \ {r}
  <2>1. \A k \in OnItsWay : \A x \in Index(k) :
          (k # "fwd" \/ x # s) => Held(k, x)' \subseteq Held(k, x)
    BY <1>2, <1>4, Unmoved DEF OnItsWay, Index
  <2> QED
    BY <1>3, <2>1
<1>6. "fwd" \in OnItsWay /\ s \in Index("fwd")
  BY DEF OnItsWay, Index
<1>7. Apart(OnItsWay)'
  BY <1>4, <1>5, <1>6, Moved DEF OnePacket
<1>8. Known(OnItsWay)'
  <2> SUFFICES ASSUME NEW k \in OnItsWay, NEW x \in Index(k), NEW e, e \in Held(k, x)'
               PROVE  e \in RequestContext /\ e.n <= sent'[e.session]
    BY DEF Known, Index
  <2>1. CASE e = r
    BY <1>1, <1>2, <2>1
  <2>2. CASE e # r
    <3>1. e \in Held(k, x)
      BY <1>4, <1>5, <2>2
    <3>2. e \in RequestContext /\ e.n <= sent[e.session]
      BY <3>1 DEF OnePacket, Known
    <3>3. e.session \in Session /\ e.n \in Nat
      BY <3>2, SessionAssumption DEF RequestContext
    <3> QED
      BY <1>1, <1>2, <3>2, <3>3
  <2> QED
    BY <2>1, <2>2
<1> QED
  BY <1>2, <1>7, <1>8 DEF OnePacket

LEMMA PacketReject ==
  ASSUME TypeInv, OnePacket, NEW s \in Session, NEW cmd \in Cmds, Reject(s, cmd)
  PROVE  OnePacket'
<1> DEFINE rsp == NewErrResponseContext(NewRequest(s, cmd))
<1>1. rsp \in ResponseContext /\ PacketOf(rsp) = {}
  <2>1. rsp \in ResponseContext
    BY NewRequestType, ErrResponseType DEF TypeInv, Reject
  <2>2. PacketOf(rsp) = {}
    BY DEF PacketOf, NewErrResponseContext
  <2> QED
    BY <2>1, <2>2
<1>2. /\ rcvd' = [rcvd EXCEPT ![s] = Append(rcvd[s], rsp)]
      /\ sent' = [sent EXCEPT ![s] = sent[s] + 1]
      /\ UNCHANGED <<fwd, writeQ, wire, wl, rl, clr, OutQ>>
      /\ rcvd \in [Session -> Seq(ResponseContext)] /\ sent \in [Session -> Nat]
  BY SessionAssumption DEF Reject, WriteAndFlush, connVars, loopVars, TypeInv, TypeOK, SessionTypeOK
<1> HIDE DEF rsp
<1>3. /\ Packets(Append(rcvd[s], rsp)) = Packets(rcvd[s])
      /\ NoPacketTwice(Append(rcvd[s], rsp))
  BY <1>1, <1>2, PushReply DEF OnePacket
<1>4. \A x \in Session : Held("rcvd", x)' = Held("rcvd", x)
  BY <1>2, <1>3 DEF Held
<1>5. \A k \in OnItsWay : \A x \in Index(k) : Held(k, x)' \subseteq Held(k, x)
  BY <1>2, <1>4, Unmoved DEF OnItsWay, Index
<1>6. sent' \in [Session -> Nat] /\ \A t \in Session : sent'[t] >= sent[t]
  BY <1>2
<1>7. Apart(OnItsWay)' /\ Known(OnItsWay)'
  BY <1>2, <1>5, <1>6, StayedKnown DEF OnePacket
<1>8. \A t \in Session : NoPacketTwice(rcvd'[t])
  BY <1>2, <1>3 DEF OnePacket
<1> QED
  BY <1>2, <1>7, <1>8 DEF OnePacket

LEMMA PacketReplyLoop ==
  ASSUME TypeInv, OnePacket, NEW s \in Session, ReplyLoop(s)
  PROVE  OnePacket'
<1>0. UNCHANGED <<sent, fwd, writeQ, wire, wl, rl, clr>>
  BY DEF ReplyLoop, connVars, loopVars
<1>1. CASE ReplyLoopWrite(s)
  <2> DEFINE rsp == Head(OutQ[s])
  <2>1. /\ OutQ[s] # << >> /\ OutQ' = [OutQ EXCEPT ![s] = Tail(OutQ[s])]
        /\ rcvd' = rcvd \/ rcvd' = [rcvd EXCEPT ![s] = Append(rcvd[s], rsp)]
        /\ OutQ \in [Session -> Seq(ResponseContext)] /\ rcvd \in [Session -> Seq(ResponseContext)]
    BY <1>1 DEF ReplyLoopWrite, TypeInv, TypeOK, SessionTypeOK
  <2>2. /\ PacketOf(rsp) \subseteq Packets(OutQ[s])
        /\ Packets(Tail(OutQ[s])) = Packets(OutQ[s]) \ PacketOf(rsp)
        /\ NoPacketTwice(Tail(OutQ[s])) /\ rsp \in ResponseContext
    BY <2>1, PopReply, HeadTailProperties DEF OnePacket
  <2> HIDE DEF rsp
  <2>3. /\ Held("out", s) = Packets(OutQ[s]) /\ Held("rcvd", s) = Packets(rcvd[s])
        /\ Held("out", s)' = Held("out", s) \ PacketOf(rsp)
        /\ \A x \in Session \ {s} : Held("out", x)' = Held("out", x)
    BY <2>1, <2>2 DEF Held
  <2>4. Held("out", s) \cap Held("rcvd", s) = {}
    BY DEF OnePacket, Apart, OnItsWay, Index
  <2>5. /\ Packets(Append(rcvd[s], rsp)) = Packets(rcvd[s]) \cup PacketOf(rsp)
        /\ NoPacketTwice(Append(rcvd[s], rsp))
    BY <2>1, <2>2, <2>3, <2>4, PushReply DEF OnePacket
  <2>6. /\ Held("rcvd", s)' \subseteq Held("rcvd", s) \cup PacketOf(rsp)
        /\ \A x \in Session \ {s} : Held("rcvd", x)' = Held("rcvd", x)
    BY <2>1, <2>5 DEF Held
  <2>7. \A k \in OnItsWay : \A x \in Index(k) :
          (k # "rcvd" \/ x # s) => Held(k, x)' \subseteq Held(k, x)
    BY <1>0, <2>3, <2>6, Unmoved DEF OnItsWay, Index
  <2>8. /\ "rcvd" \in OnItsWay /\ "out" \in OnItsWay
        /\ s \in Index("rcvd") /\ s \in Index("out")
    BY DEF OnItsWay, Index
  <2>9. Apart(OnItsWay)' /\ Known(OnItsWay)'
    BY <1>0, <2>2, <2>3, <2>6, <2>7, <2>8, MovedFrom DEF OnePacket
  <2>10. \A t \in Session : NoPacketTwice(OutQ'[t]) /\ NoPacketTwice(rcvd'[t])
    BY <2>1, <2>2, <2>5 DEF OnePacket
  <2> QED
    BY <1>0, <2>9, <2>10 DEF OnePacket
<1>2. CASE ReplyLoopQuit(s)
  <2>1. UNCHANGED <<OutQ, rcvd>>
    BY <1>2 DEF ReplyLoopQuit
  <2> QED
    BY <1>0, <2>1, Unmoved, PacketQuiet DEF OnePacket
<1> QED
  BY <1>1, <1>2 DEF ReplyLoop

(* A request taken from writeQ by goroutine k of connection c.              *)
LEMMA PacketTake ==
  ASSUME TypeInv, OnePacket, NEW c \in Conn, NEW k \in {"writing", "flushing"},
         writeQ[c] # << >>, writeQ' = [writeQ EXCEPT ![c] = Tail(writeQ[c])],
         UNCHANGED <<sent, fwd, wire, rl, OutQ, rcvd>>,
         Held(k, c)' = {Head(writeQ[c])},
         \A l \in {"writing", "flushing", "drained"} :
           \A x \in Conn : (l # k \/ x # c) => Held(l, x)' \subseteq Held(l, x)
  PROVE  OnePacket'
<1>1. writeQ \in [Conn -> Seq(RequestContext)]
  BY DEF TypeInv, TypeOK
<1>2. /\ Head(writeQ[c]) \in Requests(writeQ[c]) /\ NoRepeat(Tail(writeQ[c]))
      /\ Requests(Tail(writeQ[c])) = Requests(writeQ[c]) \ {Head(writeQ[c])}
  BY <1>1, PopRequest DEF OnePacket
<1> DEFINE r == Head(writeQ[c])
<1> HIDE DEF r
<1>3. /\ r \in Held("writeQ", c) /\ Held("writeQ", c)' = Held("writeQ", c) \ {r}
      /\ \A x \in Conn \ {c} : Held("writeQ", x)' = Held("writeQ", x)
  BY <1>1, <1>2 DEF Held, r
<1>4. \A l \in OnItsWay : \A x \in Index(l) :
        (l # k \/ x # c) => Held(l, x)' \subseteq Held(l, x)
  BY <1>3, Unmoved DEF OnItsWay, Index
<1>5. /\ k \in OnItsWay /\ "writeQ" \in OnItsWay /\ k # "writeQ"
      /\ c \in Index(k) /\ c \in Index("writeQ")
  BY DEF OnItsWay, Index
<1>6. Apart(OnItsWay)' /\ Known(OnItsWay)'
  <2>1. Apart(OnItsWay) /\ Known(OnItsWay) /\ UNCHANGED sent
    BY DEF OnePacket
  <2>2. Held(k, c)' \subseteq Held(k, c) \cup {r} /\ {r} \subseteq Held("writeQ", c)
    BY <1>3 DEF r
  <2>3. Held("writeQ", c)' \subseteq Held("writeQ", c) \ {r}
    BY <1>3
  <2> QED
    BY <1>4, <1>5, <2>1, <2>2, <2>3, MovedFrom
<1>7. \A x \in Conn : NoRepeat(writeQ'[x])
  BY <1>1, <1>2 DEF OnePacket
<1> QED
  BY <1>6, <1>7 DEF OnePacket

(* A request that goroutine k writes to the socket: it gets there or not.   *)
LEMMA PacketWrite ==
  ASSUME TypeInv, OnePacket, NEW c \in Conn, NEW k \in {"writing", "flushing"},
         NEW r \in RequestContext, Held(k, c) = {r}, Held(k, c)' = {}, WriteSucceeds(c, r),
         UNCHANGED <<sent, fwd, writeQ, rl, OutQ, rcvd>>,
         \A l \in {"writing", "flushing", "drained"} :
           \A x \in Conn : Held(l, x)' \subseteq Held(l, x)
  PROVE  OnePacket'
<1>1. wire \in [Conn -> Seq(RequestContext)]
  BY DEF TypeInv, TypeOK
<1>2. CASE UNCHANGED wire
  BY <1>2, Unmoved, PacketQuiet DEF OnePacket
<1>3. CASE wire' = [wire EXCEPT ![c] = Append(wire[c], r)]
  <2>1. /\ k \in OnItsWay /\ "wire" \in OnItsWay /\ k # "wire"
        /\ c \in Index(k) /\ c \in Index("wire")
    BY DEF OnItsWay, Index
  <2>2. Held("wire", c) = Requests(wire[c])
    BY DEF Held
  <2>3. r \notin Requests(wire[c])
    BY <2>1, <2>2 DEF OnePacket, Apart
  <2>4. Requests(Append(wire[c], r)) = Requests(wire[c]) \cup {r} /\ NoRepeat(Append(wire[c], r))
    BY <1>1, <2>3, PushRequest DEF OnePacket
  <2>5. /\ Held("wire", c)' = Held("wire", c) \cup {r}
        /\ \A x \in Conn \ {c} : Held("wire", x)' = Held("wire", x)
    BY <1>1, <1>3, <2>4 DEF Held
  <2>6. \A l \in OnItsWay : \A x \in Index(l) :
          (l # "wire" \/ x # c) => Held(l, x)' \subseteq Held(l, x)
    BY <2>5, Unmoved DEF OnItsWay, Index
  <2>7. Apart(OnItsWay)' /\ Known(OnItsWay)'
    <3>1. Apart(OnItsWay) /\ Known(OnItsWay) /\ UNCHANGED sent
      BY DEF OnePacket
    <3>2. Held("wire", c)' \subseteq Held("wire", c) \cup {r} /\ {r} \subseteq Held(k, c)
      BY <2>5
    <3>3. Held(k, c)' \subseteq Held(k, c) \ {r}
      OBVIOUS
    <3> QED
      BY <2>1, <2>6, <3>1, <3>2, <3>3, MovedFrom
  <2>8. \A x \in Conn : NoRepeat(wire'[x])
    BY <1>1, <1>3, <2>4 DEF OnePacket
  <2> QED
    BY <2>7, <2>8 DEF OnePacket
<1> QED
  BY <1>2, <1>3 DEF WriteSucceeds

(* A reply read from the socket into place k of connection c, or lost.      *)
LEMMA PacketRead ==
  ASSUME TypeInv, OnePacket, NEW c \in Conn, NEW k \in {"inHand", "drained"},
         wire[c] # << >>, wire' = [wire EXCEPT ![c] = Tail(wire[c])],
         UNCHANGED <<sent, fwd, writeQ, OutQ, rcvd>>,
         Held(k, c)' \subseteq Held(k, c) \cup {Head(wire[c])},
         \A l \in {"writing", "flushing", "inHand", "drained"} :
           \A x \in Conn : (l # k \/ x # c) => Held(l, x)' \subseteq Held(l, x)
  PROVE  OnePacket'
<1>1. wire \in [Conn -> Seq(RequestContext)]
  BY DEF TypeInv, TypeOK
<1>2. /\ Head(wire[c]) \in Requests(wire[c]) /\ NoRepeat(Tail(wire[c]))
      /\ Requests(Tail(wire[c])) = Requests(wire[c]) \ {Head(wire[c])}
  BY <1>1, PopRequest DEF OnePacket
<1> DEFINE r == Head(wire[c])
<1> HIDE DEF r
<1>3. /\ r \in Held("wire", c) /\ Held("wire", c)' = Held("wire", c) \ {r}
      /\ \A x \in Conn \ {c} : Held("wire", x)' = Held("wire", x)
  BY <1>1, <1>2 DEF Held, r
<1>4. \A l \in OnItsWay : \A x \in Index(l) :
        (l # k \/ x # c) => Held(l, x)' \subseteq Held(l, x)
  BY <1>3, Unmoved DEF OnItsWay, Index
<1>5. /\ k \in OnItsWay /\ "wire" \in OnItsWay /\ k # "wire"
      /\ c \in Index(k) /\ c \in Index("wire")
  BY DEF OnItsWay, Index
<1>6. Apart(OnItsWay)' /\ Known(OnItsWay)'
  <2>1. Apart(OnItsWay) /\ Known(OnItsWay) /\ UNCHANGED sent
    BY DEF OnePacket
  <2>2. Held(k, c)' \subseteq Held(k, c) \cup {r} /\ {r} \subseteq Held("wire", c)
    BY <1>3 DEF r
  <2>3. Held("wire", c)' \subseteq Held("wire", c) \ {r}
    BY <1>3
  <2> QED
    BY <1>4, <1>5, <2>1, <2>2, <2>3, MovedFrom
<1>7. \A x \in Conn : NoRepeat(wire'[x])
  BY <1>1, <1>2 DEF OnePacket
<1> QED
  BY <1>6, <1>7 DEF OnePacket

LEMMA PacketWriteLoop ==
  ASSUME TypeInv, OnePacket, NEW c \in Conn, WriteLoop(c)
  PROVE  OnePacket'
<1> USE DEF WL
<1>0. /\ wl \in [Conn -> WriteLoopState] /\ clr \in [Conn -> ClearState]
      /\ wl[c].pc \in {"write", "fail", "check", "push"} => wl[c].ctx \in RequestContext
  BY DEF TypeInv, TypeOK, HoldsRequest, WriteLoopState
<1>1. CASE WriteLoopTake(c)
  <2>1. /\ Held("writing", c)' = {Head(writeQ[c])}
        /\ \A x \in Conn : x # c => Held("writing", x)' \subseteq Held("writing", x)
    BY <1>0, <1>1 DEF Held, WriteLoopTake
  <2>2. \A l \in {"writing", "flushing", "drained"} :
          \A x \in Conn : (l # "writing" \/ x # c) => Held(l, x)' \subseteq Held(l, x)
    BY <1>1, <2>1, Unmoved DEF WriteLoopTake
  <2> QED
    BY <1>1, <2>1, <2>2, PacketTake DEF WriteLoopTake, sessionVars
<1>2. CASE WriteLoopWrite(c)
  <2>1. /\ Held("writing", c) = {wl[c].ctx} /\ Held("writing", c)' = {}
        /\ \A x \in Conn : Held("writing", x)' \subseteq Held("writing", x)
    BY <1>0, <1>2 DEF Held, WriteLoopWrite, WriteLoopState
  <2>2. \A l \in {"writing", "flushing", "drained"} :
          \A x \in Conn : Held(l, x)' \subseteq Held(l, x)
    BY <1>2, <2>1, Unmoved DEF WriteLoopWrite
  <2>3. wl[c].ctx \in RequestContext
    BY <1>0, <1>2 DEF WriteLoopWrite
  <2> QED
    BY <1>2, <2>1, <2>2, <2>3, PacketWrite DEF WriteLoopWrite, sessionVars
<1>3. CASE WriteLoopQuit(c) \/ WriteLoopWriteErr(c) \/ WriteLoopCheck(c) \/ WriteLoopPush(c)
  <2>1. \A x \in Conn : Held("writing", x)' \subseteq Held("writing", x)
    BY <1>0, <1>3
    DEF Held, WriteLoopQuit, WriteLoopWriteErr, WriteLoopCheck, WriteLoopPush, WriteLoopState
  <2>2. UNCHANGED <<sent, fwd, writeQ, wire, rl, clr, OutQ, rcvd>>
    BY <1>3 DEF WriteLoopQuit, WriteLoopWriteErr, WriteLoopCheck, WriteLoopPush, sessionVars
  <2> QED
    BY <2>1, <2>2, Unmoved, PacketQuiet DEF OnePacket
<1>4. CASE WriteLoopFail(c)
  <2> DEFINE rsp == NewErrResponseContext(wl[c].ctx)
  <2>1. /\ rsp \in ResponseContext /\ PacketOf(rsp) = {}
        /\ wl[c].ctx.session \in Session
    BY <1>0, <1>4, ErrResponseType
    DEF WriteLoopFail, PacketOf, NewErrResponseContext, RequestContext
  <2>2. \A x \in Conn : Held("writing", x)' \subseteq Held("writing", x)
    BY <1>0, <1>4 DEF Held, WriteLoopFail, InClear
  <2>3. \A x \in Conn : /\ Held("flushing", x)' \subseteq Held("flushing", x)
                         /\ Held("drained", x)' \subseteq Held("drained", x)
    BY <1>0, <1>4 DEF Held, WriteLoopFail, EnterClear, CLR
  <2>4. SendOutQ(wl[c].ctx.session, rsp) /\ UNCHANGED <<sent, fwd, writeQ, wire, rl, rcvd>>
    BY <1>4 DEF WriteLoopFail
  <2> HIDE DEF rsp
  <2>5. \A l \in {"writing", "flushing", "inHand", "drained"} :
          \A y \in Conn : Held(l, y)' \subseteq Held(l, y)
    BY <2>2, <2>3, <2>4, Unmoved
  <2> QED
    BY <2>1, <2>4, <2>5, PacketSend
<1> QED
  BY <1>1, <1>2, <1>3, <1>4 DEF WriteLoop

LEMMA PacketReadLoop ==
  ASSUME TypeInv, OnePacket, NEW c \in Conn, ReadLoop(c)
  PROVE  OnePacket'
<1> USE DEF RL
<1>0. rl \in [Conn -> ReadLoopState] /\ clr \in [Conn -> ClearState]
  BY DEF TypeInv, TypeOK
<1>1. CASE ReadLoopRead(c)
  <2>1. /\ Held("inHand", c)' \subseteq Held("inHand", c) \cup {Head(wire[c])}
        /\ \A x \in Conn : x # c => Held("inHand", x)' \subseteq Held("inHand", x)
    BY <1>0, <1>1 DEF Held, ReadLoopRead, ReadLoopState
  <2>2. \A l \in {"writing", "flushing", "inHand", "drained"} :
          \A x \in Conn : (l # "inHand" \/ x # c) => Held(l, x)' \subseteq Held(l, x)
    BY <1>1, <2>1, Unmoved DEF ReadLoopRead
  <2> QED
    BY <1>1, <2>1, <2>2, PacketRead DEF ReadLoopRead, sessionVars
<1>2. CASE ReadLoopTop(c) \/ ReadLoopLoad(c) \/ ReadLoopMatch(c) \/ ClearTxnState(c)
  <2>1. \A x \in Conn : Held("inHand", x)' \subseteq Held("inHand", x)
    BY <1>0, <1>2
    DEF Held, ReadLoopTop, ReadLoopLoad, ReadLoopMatch, ClearTxnState, ReadLoopState
  <2>2. UNCHANGED <<sent, fwd, writeQ, wire, wl, clr, OutQ, rcvd>>
    BY <1>2 DEF ReadLoopTop, ReadLoopLoad, ReadLoopMatch, ClearTxnState, sessionVars
  <2> QED
    BY <2>1, <2>2, Unmoved, PacketQuiet DEF OnePacket
<1>3. CASE ReadLoopEOF(c)
  <2>1. \A x \in Conn : Held("inHand", x)' \subseteq Held("inHand", x)
    BY <1>0, <1>3 DEF Held, ReadLoopEOF, InClear
  <2>2. \A x \in Conn : /\ Held("flushing", x)' \subseteq Held("flushing", x)
                         /\ Held("drained", x)' \subseteq Held("drained", x)
    BY <1>0, <1>3 DEF Held, ReadLoopEOF, EnterClear, CLR
  <2>3. UNCHANGED <<sent, fwd, writeQ, wire, wl, OutQ, rcvd>>
    BY <1>3 DEF ReadLoopEOF, sessionVars
  <2> QED
    BY <2>1, <2>2, <2>3, Unmoved, PacketQuiet DEF OnePacket
<1>4. CASE ReadLoopSkip(c)
  <2>1. \A x \in Conn : Held("inHand", x)' \subseteq Held("inHand", x)
    BY <1>0, <1>4 DEF Held, ReadLoopSkip
  <2>2. UNCHANGED <<sent, fwd, writeQ, wl, clr, OutQ, rcvd>>
    BY <1>4 DEF ReadLoopSkip, sessionVars
  <2>3. CASE UNCHANGED wire
    BY <2>1, <2>2, <2>3, Unmoved, PacketQuiet DEF OnePacket
  <2>4. CASE wire[c] # << >> /\ wire' = [wire EXCEPT ![c] = Tail(wire[c])]
    <3>1. \A l \in {"writing", "flushing", "inHand", "drained"} :
            \A x \in Conn : Held(l, x)' \subseteq Held(l, x)
      BY <2>1, <2>2, Unmoved
    <3>2. Held("inHand", c)' \subseteq Held("inHand", c) \cup {Head(wire[c])}
      BY <2>1
    <3> QED
      BY <2>2, <2>4, <3>1, <3>2, PacketRead
  <2> QED
    BY <1>4, <2>3, <2>4 DEF ReadLoopSkip
<1>5. CASE ReadLoopDeliver(c)
  <2> DEFINE rsp == [req |-> rl[c].pkt, err |-> rl[c].pkt = None, callback |-> rl[c].callback]
  <2>1. rsp \in ResponseContext /\ rl[c].to \in Session \cup {None}
    <3>1. rl[c] \in ReadLoopState
      BY <1>0
    <3> QED
      BY <3>1 DEF ReadLoopState, ResponseContext
  <2>2. PacketOf(rsp) = Held("inHand", c) /\ Held("inHand", c)' = {}
    BY <1>0, <1>5 DEF PacketOf, Held, ReadLoopDeliver
  <2>3. \A x \in Conn : Held("inHand", x)' \subseteq Held("inHand", x)
    BY <1>0, <1>5 DEF Held, ReadLoopDeliver
  <2>4. SendOutQ(rl[c].to, rsp) /\ UNCHANGED <<sent, fwd, writeQ, wire, wl, clr, rcvd>>
    BY <1>5 DEF ReadLoopDeliver
  <2> HIDE DEF rsp
  <2>5. \A l \in {"writing", "flushing", "inHand", "drained"} :
          \A y \in Conn : Held(l, y)' \subseteq Held(l, y)
    BY <2>3, <2>4, Unmoved
  <2>6. /\ PacketOf(rsp) \subseteq Held("inHand", c)
        /\ Held("inHand", c)' \subseteq Held("inHand", c) \ PacketOf(rsp)
    BY <2>2
  <2> QED
    BY <2>1, <2>4, <2>5, <2>6, PacketSend
<1> QED
  BY <1>1, <1>2, <1>3, <1>4, <1>5 DEF ReadLoop

LEMMA PacketClear ==
  ASSUME TypeInv, OnePacket, NEW c \in Conn, Clear(c)
  PROVE  OnePacket'
<1> USE DEF CLR
<1>0. /\ clr \in [Conn -> ClearState]
      /\ clr[c].pc \in {"flushW", "pushP", "failW", "readP", "sendP"} => clr[c].ctx \in RequestContext
      /\ clr[c].pc = "sendP" => clr[c].rsp \in ResponseContext
  BY DEF TypeInv, TypeOK, HoldsRequest, ClearState
<1>1. CASE DrainTakeWrite(c)
  <2>1. /\ Held("flushing", c)' = {Head(writeQ[c])}
        /\ \A x \in Conn : x # c => Held("flushing", x)' \subseteq Held("flushing", x)
        /\ \A x \in Conn : Held("drained", x)' \subseteq Held("drained", x)
    BY <1>0, <1>1 DEF Held, DrainTakeWrite
  <2>2. \A l \in {"writing", "flushing", "drained"} :
          \A x \in Conn : (l # "flushing" \/ x # c) => Held(l, x)' \subseteq Held(l, x)
    BY <1>1, <2>1, Unmoved DEF DrainTakeWrite
  <2> QED
    BY <1>1, <2>1, <2>2, PacketTake DEF DrainTakeWrite, sessionVars
<1>2. CASE DrainWriteEnd(c) \/ DrainPush(c) \/ DrainTakePending(c)
  <2>1. \A x \in Conn : /\ Held("flushing", x)' \subseteq Held("flushing", x)
                         /\ Held("drained", x)' \subseteq Held("drained", x)
    BY <1>0, <1>2 DEF Held, DrainWriteEnd, DrainPush, DrainTakePending
  <2>2. UNCHANGED <<sent, fwd, writeQ, wire, wl, rl, OutQ, rcvd>>
    BY <1>2 DEF DrainWriteEnd, DrainPush, DrainTakePending, sessionVars
  <2> QED
    BY <2>1, <2>2, Unmoved, PacketQuiet DEF OnePacket
<1>3. CASE DrainFlush(c)
  <2>1. UNCHANGED <<sent, fwd, writeQ, wl, rl, OutQ, rcvd>>
    BY <1>3 DEF DrainFlush, sessionVars
  <2>2. /\ Held("flushing", c) = {clr[c].ctx} /\ Held("flushing", c)' = {}
        /\ \A x \in Conn : Held("flushing", x)' \subseteq Held("flushing", x)
        /\ \A x \in Conn : Held("drained", x)' \subseteq Held("drained", x)
    BY <1>0, <1>3 DEF Held, DrainFlush, ClearState
  <2>3. CASE WriteSucceeds(c, clr[c].ctx)
    <3>1. clr[c].ctx \in RequestContext
      BY <1>0, <1>3 DEF DrainFlush
    <3>2. \A l \in {"writing", "flushing", "drained"} :
            \A x \in Conn : Held(l, x)' \subseteq Held(l, x)
      BY <2>1, <2>2, Unmoved
    <3> QED
      BY <2>1, <2>2, <2>3, <3>1, <3>2, PacketWrite
  <2>4. CASE UNCHANGED wire
    BY <2>1, <2>2, <2>4, Unmoved, PacketQuiet DEF OnePacket
  <2> QED
    BY <1>3, <2>3, <2>4 DEF DrainFlush
<1>4. CASE DrainFail(c)
  <2> DEFINE rsp == NewErrResponseContext(clr[c].ctx)
  <2>1. /\ rsp \in ResponseContext /\ PacketOf(rsp) = {}
        /\ clr[c].ctx.session \in Session
    BY <1>0, <1>4, ErrResponseType
    DEF DrainFail, PacketOf, NewErrResponseContext, RequestContext
  <2>2. \A x \in Conn : /\ Held("flushing", x)' \subseteq Held("flushing", x)
                         /\ Held("drained", x)' \subseteq Held("drained", x)
    BY <1>0, <1>4 DEF Held, DrainFail
  <2>3. SendOutQ(clr[c].ctx.session, rsp) /\ UNCHANGED <<sent, fwd, writeQ, wire, wl, rl, rcvd>>
    BY <1>4 DEF DrainFail
  <2> HIDE DEF rsp
  <2>4. \A l \in {"writing", "flushing", "inHand", "drained"} :
          \A y \in Conn : Held(l, y)' \subseteq Held(l, y)
    BY <2>2, <2>3, Unmoved
  <2> QED
    BY <2>1, <2>3, <2>4, PacketSend
<1>5. CASE DrainRead(c)
  <2>1. UNCHANGED <<sent, fwd, writeQ, wl, rl, OutQ, rcvd>>
    BY <1>5 DEF DrainRead, sessionVars
  <2>2. /\ \A x \in Conn : Held("flushing", x)' \subseteq Held("flushing", x)
        /\ \A x \in Conn : x # c => Held("drained", x)' \subseteq Held("drained", x)
    BY <1>0, <1>5 DEF Held, DrainRead, ClearState
  <2>3. CASE wire[c] = << >>
    <3>1. UNCHANGED wire /\ Held("drained", c)' = {}
      BY <1>0, <1>5, <2>3 DEF Held, DrainRead, ClearState, PacketOf, NewErrResponseContext
    <3>2. \A x \in Conn : Held("drained", x)' \subseteq Held("drained", x)
      BY <2>2, <3>1
    <3> QED
      BY <2>1, <2>2, <3>1, <3>2, Unmoved, PacketQuiet DEF OnePacket
  <2>4. CASE wire[c] # << >>
    <3>1. Held("drained", c)' \subseteq Held("drained", c) \cup {Head(wire[c])}
      BY <1>0, <1>5, <2>4 DEF Held, DrainRead, ClearState, PacketOf, NewErrResponseContext
    <3>2. wire' = [wire EXCEPT ![c] = Tail(wire[c])]
      BY <1>5, <2>4 DEF DrainRead
    <3>3. \A l \in {"writing", "flushing", "inHand", "drained"} :
            \A x \in Conn : (l # "drained" \/ x # c) => Held(l, x)' \subseteq Held(l, x)
      BY <2>1, <2>2, Unmoved
    <3> QED
      BY <2>1, <2>4, <3>1, <3>2, <3>3, PacketRead
  <2> QED
    BY <2>3, <2>4
<1>6. CASE DrainSend(c)
  <2> DEFINE rsp == clr[c].rsp
  <2>1. rsp \in ResponseContext /\ clr[c].ctx.session \in Session
    BY <1>0, <1>6 DEF DrainSend, RequestContext
  <2>2. PacketOf(rsp) = Held("drained", c) /\ Held("drained", c)' = {}
    BY <1>0, <1>6 DEF Held, DrainSend
  <2>3. \A x \in Conn : /\ Held("flushing", x)' \subseteq Held("flushing", x)
                         /\ Held("drained", x)' \subseteq Held("drained", x)
    BY <1>0, <1>6 DEF Held, DrainSend
  <2>4. SendOutQ(clr[c].ctx.session, rsp) /\ UNCHANGED <<sent, fwd, writeQ, wire, wl, rl, rcvd>>
    BY <1>6 DEF DrainSend
  <2> HIDE DEF rsp
  <2>5. \A l \in {"writing", "flushing", "inHand", "drained"} :
          \A y \in Conn : Held(l, y)' \subseteq Held(l, y)
    BY <2>3, <2>4, Unmoved
  <2>6. /\ PacketOf(rsp) \subseteq Held("drained", c)
        /\ Held("drained", c)' \subseteq Held("drained", c) \ PacketOf(rsp)
    BY <2>2
  <2> QED
    BY <2>1, <2>4, <2>5, <2>6, PacketSend
<1>7. CASE InnerClose(c)
  <2>1. UNCHANGED <<sent, fwd, writeQ, wire, OutQ, rcvd>>
    BY <1>7 DEF InnerClose, sessionVars
  <2>2. \A x \in Conn : /\ Held("flushing", x)' \subseteq Held("flushing", x)
                         /\ Held("drained", x)' \subseteq Held("drained", x)
    BY <1>0, <1>7 DEF Held, InnerClose
  <2>3. \A x \in Conn : Held("writing", x)' \subseteq Held("writing", x)
    BY <1>7 DEF Held, InnerClose, TypeInv, TypeOK, WriteLoopState
  <2>4. \A x \in Conn : Held("inHand", x)' \subseteq Held("inHand", x)
    BY <1>7 DEF Held, InnerClose, TypeInv, TypeOK, ReadLoopState
  <2> QED
    BY <2>1, <2>2, <2>3, <2>4, Unmoved, PacketQuiet DEF OnePacket
<1> QED
  BY <1>1, <1>2, <1>3, <1>4, <1>5, <1>6, <1>7 DEF Clear

LEMMA PacketNext ==
  ASSUME TypeInv, OnePacket, [Next]_vars
  PROVE  OnePacket'
<1>1. CASE \E s \in Session, cmd \in Cmds : Reject(s, cmd)
  BY <1>1, PacketReject
<1>2. CASE \E s \in Session, c \in Conn, cmd \in Cmds : Forward(s, c, cmd)
  BY <1>2, PacketForward
<1>3. CASE \E s \in Session : Enqueue(s) \/ ReplyLoop(s)
  BY <1>3, PacketEnqueue, PacketReplyLoop
<1>4. CASE UNCHANGED <<sent, fwd, writeQ, wire, wl, rl, clr, OutQ, rcvd>>
  BY <1>4, Unmoved, PacketQuiet DEF OnePacket
<1>5. ASSUME NEW s \in Session, CloseSession(s)
      PROVE  OnePacket'
  BY <1>4, <1>5 DEF CloseSession, SessionClose, connVars, loopVars
<1>6. ASSUME NEW c \in Conn, ConnNext(c)
      PROVE  OnePacket'
  <2>1. CASE Close(c)
    <3>1. \A x \in Conn : /\ Held("flushing", x)' \subseteq Held("flushing", x)
                           /\ Held("drained", x)' \subseteq Held("drained", x)
      BY <2>1 DEF Held, Close, EnterClear, CLR, TypeInv, TypeOK
    <3>2. UNCHANGED <<sent, fwd, writeQ, wire, wl, rl, OutQ, rcvd>>
      BY <2>1 DEF Close, sessionVars
    <3> QED
      BY <3>1, <3>2, Unmoved, PacketQuiet DEF OnePacket
  <2>2. CASE CloseReturn(c)
    BY <1>4, <2>2 DEF CloseReturn, sessionVars
  <2>3. CASE PeerFail(c)
    <3>1. wire \in [Conn -> Seq(RequestContext)]
      BY DEF TypeInv, TypeOK
    <3>2. PICK k \in 0..Len(wire[c]) : wire' = [wire EXCEPT ![c] = SubSeq(wire[c], 1, k)]
      BY <2>3 DEF PeerFail
    <3>3. /\ Requests(SubSeq(wire[c], 1, k)) \subseteq Requests(wire[c])
          /\ NoRepeat(SubSeq(wire[c], 1, k))
      BY <3>1, CutRequests DEF OnePacket
    <3>4. \A x \in Conn : Held("wire", x)' \subseteq Held("wire", x) /\ NoRepeat(wire'[x])
      BY <3>1, <3>2, <3>3 DEF Held, OnePacket
    <3>5. UNCHANGED <<sent, fwd, writeQ, wl, rl, clr, OutQ, rcvd>>
      BY <2>3 DEF PeerFail, sessionVars
    <3> QED
      BY <3>4, <3>5, Unmoved, PacketQuiet
  <2> QED
    BY <1>6, <2>1, <2>2, <2>3, PacketWriteLoop, PacketReadLoop, PacketClear DEF ConnNext
<1>7. CASE UNCHANGED vars
  BY <1>4, <1>7 DEF vars, sessionVars, connVars, loopVars
<1> QED
  BY <1>1, <1>2, <1>3, <1>5, <1>6, <1>7 DEF Next

LEMMA PacketInit == Init => OnePacket
<1> SUFFICES ASSUME Init PROVE OnePacket
  OBVIOUS
<1>1. \A k \in OnItsWay : \A x \in Index(k) : Held(k, x) = {}
  BY DEF Init, SessionInit, ConnInit, OnItsWay, Index, Held, Requests, Packets, WL, RL, CLR
<1> QED
  BY <1>1
  DEF OnePacket, Apart, Known, NoRepeat, NoPacketTwice, Init, SessionInit, ConnInit

(* An element of one queue after another is of the first or of the second.  *)
LEMMA ConcatElement ==
  ASSUME NEW S, NEW a \in Seq(S), NEW b \in Seq(S), NEW n \in 1..Len(a \o b)
  PROVE  /\ n <= Len(a) => n \in 1..Len(a) /\ (a \o b)[n] = a[n]
         /\ ~(n <= Len(a)) => n - Len(a) \in 1..Len(b) /\ (a \o b)[n] = b[n - Len(a)]
<1>1. Len(a) \in Nat /\ Len(b) \in Nat
  BY LenProperties
<1>2. /\ Len(a \o b) = Len(a) + Len(b)
      /\ \A i \in 1..(Len(a) + Len(b)) :
           (a \o b)[i] = IF i <= Len(a) THEN a[i] ELSE b[i - Len(a)]
  BY ConcatProperties
<1> QED
  BY <1>1, <1>2

(* The queues of two sessions, or the two queues of one, have no packet in  *)
(* common.                                                                  *)
LEMMA OnePacketImplies ==
  ASSUME TypeInv, OnePacket
  PROVE  ReplyOnce
<1>1. ASSUME NEW u \in Session
      PROVE  rcvd[u] \in Seq(ResponseContext) /\ OutQ[u] \in Seq(ResponseContext)
  BY DEF TypeInv, TypeOK, SessionTypeOK
<1>2. \A u \in Session : Len(rcvd[u]) \in Nat
  BY <1>1, LenProperties
<1>3. ASSUME NEW u \in Session, NEW n \in 1..Len(Handed(u))
      PROVE  /\ n <= Len(rcvd[u]) => n \in 1..Len(rcvd[u]) /\ Handed(u)[n] = rcvd[u][n]
             /\ ~(n <= Len(rcvd[u])) => /\ n - Len(rcvd[u]) \in 1..Len(OutQ[u])
                                        /\ Handed(u)[n] = OutQ[u][n - Len(rcvd[u])]
  <2> DEFINE a == rcvd[u]
             b == OutQ[u]
  <2>1. a \in Seq(ResponseContext) /\ b \in Seq(ResponseContext)
    BY <1>1
  <2>2. n \in 1..Len(a \o b)
    BY DEF Handed
  <2>3. Handed(u) = a \o b
    BY DEF Handed
  <2> HIDE DEF a, b
  <2>4. /\ n <= Len(a) => n \in 1..Len(a) /\ (a \o b)[n] = a[n]
        /\ ~(n <= Len(a)) => n - Len(a) \in 1..Len(b) /\ (a \o b)[n] = b[n - Len(a)]
    BY <2>1, <2>2, ConcatElement
  <2>5. /\ n <= Len(a) => n \in 1..Len(a) /\ Handed(u)[n] = a[n]
        /\ ~(n <= Len(a)) => n - Len(a) \in 1..Len(b) /\ Handed(u)[n] = b[n - Len(a)]
    BY <2>3, <2>4
  <2> QED
    BY <2>5 DEF a, b
<1> SUFFICES ASSUME NEW s \in Session, NEW t \in Session,
                    NEW i \in 1..Len(Handed(s)), NEW j \in 1..Len(Handed(t)),
                    ~Handed(s)[i].err, ~Handed(t)[j].err,
                    Handed(s)[i].req = Handed(t)[j].req
             PROVE  s = t /\ i = j
  BY DEF ReplyOnce
<1>5. ASSUME NEW u \in Session, NEW n \in 1..Len(Handed(u)), ~Handed(u)[n].err
      PROVE  /\ n <= Len(rcvd[u]) => Handed(u)[n].req \in Held("rcvd", u)
             /\ ~(n <= Len(rcvd[u])) => Handed(u)[n].req \in Held("out", u)
  BY <1>3, <1>5 DEF Held, Packets
<1>6. s = t /\ (i <= Len(rcvd[s]) <=> j <= Len(rcvd[t]))
  BY <1>5 DEF OnePacket, Apart, OnItsWay, Index
<1>7. CASE i <= Len(rcvd[s])
  BY <1>3, <1>6, <1>7 DEF OnePacket, NoPacketTwice
<1>8. CASE ~(i <= Len(rcvd[s]))
  <2>1. PICK m \in 1..Len(OutQ[s]) : m = i - Len(rcvd[s]) /\ Handed(s)[i] = OutQ[s][m]
    BY <1>3, <1>8
  <2>2. PICK n \in 1..Len(OutQ[s]) : n = j - Len(rcvd[s]) /\ Handed(s)[j] = OutQ[s][n]
    BY <1>3, <1>6, <1>8
  <2>3. ~OutQ[s][m].err /\ ~OutQ[s][n].err /\ OutQ[s][m].req = OutQ[s][n].req
    BY <1>6, <2>1, <2>2
  <2>4. NoPacketTwice(OutQ[s])
    BY DEF OnePacket
  <2>5. m = n
    BY <2>3, <2>4 DEF NoPacketTwice
  <2>6. i - Len(rcvd[s]) = j - Len(rcvd[s])
    BY <2>1, <2>2, <2>5
  <2> QED
    BY <1>2, <1>6, <2>6
<1> QED
  BY <1>7, <1>8

(* A packet that the backend sent is handed out at most once, to one        *)
(* session: for every workload, transactions included, and whatever is      *)
(* lost, closed, drained or left, in any interleaving of the event loops,   *)
(* the two loops, the drains of Clear and the ReplyLoops.                   *)
THEOREM RepliedOnce == Spec => []ReplyOnce
<1>1. Init => TypeInv /\ OnePacket
  BY TypeInit, PacketInit
<1>2. TypeInv /\ OnePacket /\ [Next]_vars => (TypeInv /\ OnePacket)'
  BY TypeNext, PacketNext
<1>3. TypeInv /\ OnePacket => ReplyOnce
  BY OnePacketImplies
<1> QED
  BY <1>1, <1>2, <1>3, PTL DEF Spec

----------------------------------------------------------------------------
(* Answers.                                                                 *)

LEMMA CountSame ==
  ASSUME NEW B, IsFiniteSet(B), NEW A, A \subseteq B
  PROVE  /\ IsFiniteSet(A) /\ Cardinality(A) \in Nat /\ Cardinality(B) \in Nat
         /\ Cardinality(A) <= Cardinality(B)
  BY FS_Subset, FS_CardinalityType

LEMMA CountMore ==
  ASSUME NEW B, IsFiniteSet(B), NEW A, NEW r, A \subseteq B \cup {r}
  PROVE  /\ IsFiniteSet(A) /\ Cardinality(A) \in Nat /\ Cardinality(B) \in Nat
         /\ Cardinality(A) <= Cardinality(B) + 1
<1>1. /\ IsFiniteSet(B \cup {r}) /\ Cardinality(B) \in Nat
      /\ Cardinality(B \cup {r}) = Cardinality(B) \/ Cardinality(B \cup {r}) = Cardinality(B) + 1
  BY FS_AddElement, FS_CardinalityType
<1> QED
  BY <1>1, CountSame

LEMMA CountLess ==
  ASSUME NEW B, IsFiniteSet(B), NEW A, NEW r \in B, A \subseteq B \ {r}
  PROVE  /\ IsFiniteSet(A) /\ Cardinality(A) \in Nat /\ Cardinality(B) \in Nat
         /\ Cardinality(A) + 1 <= Cardinality(B)
<1>1. /\ IsFiniteSet(B \ {r}) /\ Cardinality(B) \in Nat
      /\ Cardinality(B \ {r}) = Cardinality(B) - 1
  BY FS_RemoveElement, FS_CardinalityType
<1> QED
  BY <1>1, CountSame

(* One queue of the queues q of the connections gets a request, loses one.  *)
LEMMA OneQueuePush ==
  ASSUME NEW q \in [Conn -> Seq(RequestContext)], NEW next, NEW c \in Conn,
         NEW r \in RequestContext, next[c] = Append(q[c], r),
         \A x \in Conn : x # c => next[x] = q[x],
         r \notin Requests(q[c]), \A x \in Conn : NoRepeat(q[x])
  PROVE  /\ Requests(next[c]) = Requests(q[c]) \cup {r}
         /\ \A x \in Conn : NoRepeat(next[x])
<1>1. q[c] \in Seq(RequestContext)
  OBVIOUS
<1>2. Requests(next[c]) = Requests(q[c]) \cup {r} /\ NoRepeat(next[c])
  BY <1>1, PushRequest
<1> QED
  BY <1>2

LEMMA OneQueuePop ==
  ASSUME NEW q \in [Conn -> Seq(RequestContext)], NEW next, NEW c \in Conn,
         q[c] # << >>, next[c] = Tail(q[c]),
         \A x \in Conn : x # c => next[x] = q[x], \A x \in Conn : NoRepeat(q[x])
  PROVE  /\ Head(q[c]) \in Requests(q[c])
         /\ Requests(next[c]) = Requests(q[c]) \ {Head(q[c])}
         /\ \A x \in Conn : NoRepeat(next[x])
<1>1. q[c] \in Seq(RequestContext)
  OBVIOUS
<1>2. /\ Head(q[c]) \in Requests(q[c]) /\ NoRepeat(next[c])
      /\ Requests(next[c]) = Requests(q[c]) \ {Head(q[c])}
  BY <1>1, PopRequest
<1> QED
  BY <1>2

(* What is owed stays owed, or less is.                                     *)
LEMMA OwedKept ==
  ASSUME \A k \in Owing : \A x \in Index(k) : \A r \in Held(k, x)' :
           \E l \in Owing : \E y \in Index(l) : r \in Held(l, y)
  PROVE  \A s \in Session : Owed(s)' \subseteq Owed(s)
<1> SUFFICES ASSUME NEW s \in Session, NEW r, r \in Owed(s)' PROVE r \in Owed(s)
  OBVIOUS
<1>1. r \in RequestContext /\ r.session = s
  BY DEF Owed
<1>2. PICK k \in Owing : \E x \in Index(k) : r \in Held(k, x)'
  BY DEF Owed, Index
<1>3. PICK x \in Index(k) : r \in Held(k, x)'
  BY <1>2
<1>4. \E l \in Owing : \E y \in Index(l) : r \in Held(l, y)
  BY <1>3
<1> QED
  BY <1>1, <1>4 DEF Owed

LEMMA OwedPaid ==
  ASSUME Apart(Owing), NEW k1 \in Owing, NEW x1 \in Index(k1),
         NEW r \in RequestContext, r \in Held(k1, x1),
         Held(k1, x1)' \subseteq Held(k1, x1) \ {r},
         \A k \in Owing : \A x \in Index(k) : Held(k, x)' \subseteq Held(k, x)
  PROVE  r \in Owed(r.session) /\ \A s \in Session : Owed(s)' \subseteq Owed(s) \ {r}
<1>1. r \in Owed(r.session)
  BY DEF Owed
<1>2. \A s \in Session : Owed(s)' \subseteq Owed(s)
  BY OwedKept
<1>3. \A k \in Owing : \A x \in Index(k) : r \notin Held(k, x)'
  <2> SUFFICES ASSUME NEW k \in Owing, NEW x \in Index(k), r \in Held(k, x)' PROVE FALSE
    OBVIOUS
  <2>1. r \in Held(k, x)
    OBVIOUS
  <2>2. k = k1 /\ x = x1
    BY <2>1 DEF Apart
  <2> QED
    BY <2>2
<1>4. \A s \in Session : r \notin Owed(s)'
  BY <1>3 DEF Owed, Index
<1> QED
  BY <1>1, <1>2, <1>4

(* The bookkeeping of a step, for one session: what is added is paid for.   *)
LEMMA GivenType ==
  ASSUME TypeInv, NEW s \in Session
  PROVE  Given(s) \in Nat /\ sent[s] \in Nat
  BY LenProperties, SessionAssumption DEF TypeInv, TypeOK, SessionTypeOK, Given

LEMMA GivenTypeNext ==
  ASSUME TypeInv', NEW s \in Session
  PROVE  Given(s)' \in Nat /\ sent'[s] \in Nat
  BY LenProperties, SessionAssumption DEF TypeInv, TypeOK, SessionTypeOK, Given

LEMMA CountsType ==
  ASSUME Balanced, NEW s \in Session
  PROVE  Coming(s) \in Nat /\ Unpaid(s) \in Nat
  BY FS_CardinalityType DEF Balanced, Coming, Unpaid

LEMMA UnpaidFewer ==
  ASSUME Balanced, NEW s \in Session, Owed(s)' \subseteq Owed(s)
  PROVE  IsFiniteSet(Owed(s))' /\ Unpaid(s)' \in Nat /\ Unpaid(s)' <= Unpaid(s)
<1>1. IsFiniteSet(Owed(s))
  BY DEF Balanced
<1> QED
  BY <1>1, CountSame DEF Unpaid

LEMMA ComingFewer ==
  ASSUME Balanced, NEW s \in Session, Answering(s)' \subseteq Answering(s)
  PROVE  IsFiniteSet(Answering(s))' /\ Coming(s)' \in Nat /\ Coming(s)' <= Coming(s)
<1>1. IsFiniteSet(Answering(s))
  BY DEF Balanced
<1> QED
  BY <1>1, CountSame DEF Coming

LEMMA BalanceStep ==
  ASSUME TypeInv, TypeInv', Balanced,
         \A s \in Session :
           /\ IsFiniteSet(Owed(s))' /\ IsFiniteSet(Answering(s))'
           /\ Unpaid(s)' \in Nat /\ Coming(s)' \in Nat
           /\ Given(s)' + Coming(s)' + Unpaid(s)' - sent'[s]
                <= Given(s) + Coming(s) + Unpaid(s) - sent[s]
  PROVE  Balanced'
<1> SUFFICES ASSUME NEW s \in Session
             PROVE  /\ IsFiniteSet(Owed(s))' /\ IsFiniteSet(Answering(s))'
                    /\ Given(s)' + Coming(s)' + Unpaid(s)' <= sent'[s]
  BY DEF Balanced
<1>1. Given(s) \in Nat /\ sent[s] \in Nat /\ Given(s)' \in Nat /\ sent'[s] \in Nat
  BY GivenType, GivenTypeNext
<1>2. Coming(s) \in Nat /\ Unpaid(s) \in Nat /\ Given(s) + Coming(s) + Unpaid(s) <= sent[s]
  BY CountsType DEF Balanced
<1> QED
  BY <1>1, <1>2

(* A step that moves requests, or forgets some, and answers none.           *)
LEMMA AnswerMoved ==
  ASSUME TypeInv, TypeInv', OneAnswer, UNCHANGED <<sent, txState>>,
         OnePlace', \A s \in Session : Owed(s)' \subseteq Owed(s),
         \A s \in Session : Answering(s)' \subseteq Answering(s),
         \A s \in Session : Given(s)' <= Given(s)
  PROVE  OneAnswer'
<1>1. Balanced
  BY DEF OneAnswer
<1>2. ASSUME NEW s \in Session
      PROVE  /\ IsFiniteSet(Owed(s))' /\ IsFiniteSet(Answering(s))'
             /\ Unpaid(s)' \in Nat /\ Coming(s)' \in Nat
             /\ Given(s)' + Coming(s)' + Unpaid(s)' - sent'[s]
                  <= Given(s) + Coming(s) + Unpaid(s) - sent[s]
  <2>1. /\ IsFiniteSet(Owed(s))' /\ Unpaid(s)' \in Nat /\ Unpaid(s)' <= Unpaid(s)
        /\ IsFiniteSet(Answering(s))' /\ Coming(s)' \in Nat /\ Coming(s)' <= Coming(s)
    BY <1>1, UnpaidFewer, ComingFewer
  <2>2. /\ Given(s) \in Nat /\ sent[s] \in Nat /\ Given(s)' \in Nat /\ sent'[s] = sent[s]
        /\ Coming(s) \in Nat /\ Unpaid(s) \in Nat /\ Given(s)' <= Given(s)
    BY <1>1, GivenType, GivenTypeNext, CountsType
  <2> QED
    BY <2>1, <2>2
<1>3. Balanced'
  BY <1>1, <1>2, BalanceStep
<1> QED
  BY <1>3 DEF OneAnswer

LEMMA AnswerQuiet ==
  ASSUME TypeInv, TypeInv', OneAnswer, UNCHANGED <<sent, txState, writeQ, pendingQ>>,
         \A k \in {"fwd", "wl", "clr"} : \A x \in Index(k) : Held(k, x)' \subseteq Held(k, x),
         \A s \in Session : Answering(s)' \subseteq Answering(s),
         \A s \in Session : Given(s)' <= Given(s)
  PROVE  OneAnswer'
<1>1. \A k \in Owing : \A x \in Index(k) : Held(k, x)' \subseteq Held(k, x)
  BY Unmoved DEF Owing
<1>2. sent \in [Session -> Nat]
  BY SessionAssumption DEF TypeInv, TypeOK
<1>3. sent' \in [Session -> Nat] /\ \A s \in Session : sent'[s] >= sent[s]
  BY <1>2
<1>4. Apart(Owing)' /\ Known(Owing)'
  BY <1>1, <1>2, <1>3, StayedKnown DEF OneAnswer, OnePlace
<1>5. OnePlace'
  BY <1>4 DEF OneAnswer, OnePlace
<1>6. \A s \in Session : Owed(s)' \subseteq Owed(s)
  BY <1>1, OwedKept
<1> QED
  BY <1>5, <1>6, AnswerMoved

(* Request r goes from place (k1, x1) to place (k0, x0).                    *)
LEMMA AnswerMovedFrom ==
  ASSUME TypeInv, TypeInv', OneAnswer, UNCHANGED <<sent, txState, rcvd, OutQ>>,
         NEW k0 \in Owing, NEW x0 \in Index(k0), NEW k1 \in Owing, NEW x1 \in Index(k1), k0 # k1,
         NEW r, r \in Held(k1, x1),
         Held(k1, x1)' \subseteq Held(k1, x1) \ {r},
         Held(k0, x0)' \subseteq Held(k0, x0) \cup {r},
         \A k \in Owing : \A x \in Index(k) :
           (k # k0 \/ x # x0) => Held(k, x)' \subseteq Held(k, x),
         \A c \in Conn : NoRepeat(writeQ'[c]) /\ NoRepeat(pendingQ'[c]),
         \A s \in Session : Answering(s)' \subseteq Answering(s)
  PROVE  OneAnswer'
<1>1. Apart(Owing) /\ Known(Owing) /\ {r} \subseteq Held(k1, x1) /\ UNCHANGED sent
  BY DEF OneAnswer, OnePlace
<1>2. Apart(Owing)' /\ Known(Owing)'
  BY <1>1, MovedFrom
<1>3. \A k \in Owing : \A x \in Index(k) : \A e \in Held(k, x)' :
        \E l \in Owing : \E y \in Index(l) : e \in Held(l, y)
  OBVIOUS
<1>4. \A s \in Session : Owed(s)' \subseteq Owed(s)
  BY <1>3, OwedKept
<1>5. \A s \in Session : Given(s)' <= Given(s)
  <2> TAKE s \in Session
  <2>1. Given(s) \in Nat /\ Given(s)' = Given(s)
    BY GivenType DEF Given
  <2> QED
    BY <2>1
<1>6. OnePlace'
  BY <1>2 DEF OnePlace
<1> QED
  BY <1>4, <1>5, <1>6, AnswerMoved

(* The places after request r has left (k1, x1) for good.                   *)
LEMMA PlacesPaid ==
  ASSUME TypeInv, OneAnswer, UNCHANGED sent, NEW k1 \in Owing, NEW x1 \in Index(k1),
         NEW r \in RequestContext, r \in Held(k1, x1),
         Held(k1, x1)' \subseteq Held(k1, x1) \ {r},
         \A k \in Owing : \A x \in Index(k) : Held(k, x)' \subseteq Held(k, x),
         \A c \in Conn : NoRepeat(writeQ'[c]) /\ NoRepeat(pendingQ'[c])
  PROVE  /\ OnePlace' /\ r \in Owed(r.session) /\ r.session \in Session
         /\ \A s \in Session : Owed(s)' \subseteq Owed(s) \ {r}
<1>1. sent \in [Session -> Nat]
  BY SessionAssumption DEF TypeInv, TypeOK
<1>2. sent' \in [Session -> Nat] /\ \A s \in Session : sent'[s] >= sent[s]
  BY <1>1
<1>3. Apart(Owing) /\ Known(Owing)
  BY DEF OneAnswer, OnePlace
<1>4. Apart(Owing)' /\ Known(Owing)'
  BY <1>1, <1>2, <1>3, StayedKnown
<1>5. OnePlace'
  BY <1>4 DEF OnePlace
<1>6. r \in Owed(r.session) /\ \A s \in Session : Owed(s)' \subseteq Owed(s) \ {r}
  BY <1>3, OwedPaid
<1>7. r.session \in Session
  BY DEF RequestContext
<1> QED
  BY <1>5, <1>6, <1>7

LEMMA UnpaidLess ==
  ASSUME Balanced, NEW s \in Session, NEW r \in Owed(s), Owed(s)' \subseteq Owed(s) \ {r}
  PROVE  IsFiniteSet(Owed(s))' /\ Unpaid(s)' \in Nat /\ Unpaid(s)' + 1 <= Unpaid(s)
<1>1. IsFiniteSet(Owed(s))
  BY DEF Balanced
<1> QED
  BY <1>1, CountLess DEF Unpaid

LEMMA SendAnswer ==
  ASSUME TypeInv, NEW t \in Session, NEW rsp, SendOutQ(t, rsp), UNCHANGED rcvd
  PROVE  /\ Given(t)' = Given(t) + 1
         /\ \A s \in Session : s # t => Given(s)' = Given(s)
<1>1. /\ OutQ \in [Session -> Seq(ResponseContext)] /\ rcvd \in [Session -> Seq(ResponseContext)]
      /\ OutQ' = [OutQ EXCEPT ![t] = Append(OutQ[t], rsp)]
  BY DEF TypeInv, TypeOK, SessionTypeOK, SendOutQ
<1>2. Len(OutQ[t]) \in Nat /\ Len(rcvd[t]) \in Nat /\ Len(Append(OutQ[t], rsp)) = Len(OutQ[t]) + 1
  BY <1>1, LenProperties
<1>3. OutQ'[t] = Append(OutQ[t], rsp) /\ \A s \in Session : s # t => OutQ'[s] = OutQ[s]
  BY <1>1
<1>4. Len(OutQ'[t]) = Len(OutQ[t]) + 1
  BY <1>2, <1>3
<1>5. Given(t)' = Given(t) + 1
  <2> DEFINE m == Len(rcvd[t])
             n == Len(OutQ[t])
  <2>1. m \in Nat /\ n \in Nat
    BY <1>2
  <2>2. Given(t) = m + n /\ Given(t)' = m + Len(OutQ'[t])
    BY DEF Given
  <2>3. Len(OutQ'[t]) = n + 1
    BY <1>4
  <2> HIDE DEF m, n
  <2>4. m + (n + 1) = (m + n) + 1
    BY <2>1
  <2> QED
    BY <2>2, <2>3, <2>4
<1>6. \A s \in Session : s # t => Given(s)' = Given(s)
  BY <1>3 DEF Given
<1> QED
  BY <1>5, <1>6

(* A request is answered by the goroutine that holds it.                    *)
LEMMA AnswerPaid ==
  ASSUME TypeInv, TypeInv', OneAnswer, UNCHANGED <<sent, txState, rcvd>>,
         NEW k1 \in Owing, NEW x1 \in Index(k1),
         NEW r \in RequestContext, r \in Held(k1, x1),
         Held(k1, x1)' \subseteq Held(k1, x1) \ {r},
         \A k \in Owing : \A x \in Index(k) : Held(k, x)' \subseteq Held(k, x),
         \A c \in Conn : NoRepeat(writeQ'[c]) /\ NoRepeat(pendingQ'[c]),
         \A s \in Session : Answering(s)' \subseteq Answering(s),
         NEW rsp, SendOutQ(r.session, rsp)
  PROVE  OneAnswer'
<1>1. Balanced
  BY DEF OneAnswer
<1>2. PICK t \in Session : t = r.session
  BY DEF RequestContext
<1>3. /\ OnePlace' /\ r \in Owed(t)
      /\ \A s \in Session : Owed(s)' \subseteq Owed(s) \ {r}
  BY <1>2, PlacesPaid
<1>4. /\ Given(t)' = Given(t) + 1
      /\ \A s \in Session : s # t => Given(s)' = Given(s)
  BY <1>2, SendAnswer
<1>5. ASSUME NEW s \in Session
      PROVE  /\ IsFiniteSet(Owed(s))' /\ IsFiniteSet(Answering(s))'
             /\ Unpaid(s)' \in Nat /\ Coming(s)' \in Nat
             /\ Given(s)' + Coming(s)' + Unpaid(s)' - sent'[s]
                  <= Given(s) + Coming(s) + Unpaid(s) - sent[s]
  <2>1. /\ IsFiniteSet(Owed(s))' /\ Unpaid(s)' \in Nat /\ Unpaid(s)' <= Unpaid(s)
        /\ IsFiniteSet(Answering(s))' /\ Coming(s)' \in Nat /\ Coming(s)' <= Coming(s)
    BY <1>1, <1>3, UnpaidFewer, ComingFewer
  <2>2. /\ Given(s) \in Nat /\ sent[s] \in Nat /\ Given(s)' \in Nat /\ sent'[s] = sent[s]
        /\ Coming(s) \in Nat /\ Unpaid(s) \in Nat
    BY <1>1, GivenType, GivenTypeNext, CountsType
  <2>3. CASE s = t
    <3>1. Unpaid(s)' + 1 <= Unpaid(s) /\ Given(s)' = Given(s) + 1
      BY <1>1, <1>3, <1>4, <2>3, UnpaidLess
    <3> QED
      BY <2>1, <2>2, <3>1
  <2>4. CASE s # t
    <3>1. Given(s)' = Given(s)
      BY <1>4, <2>4
    <3> QED
      BY <2>1, <2>2, <3>1
  <2> QED
    BY <2>3, <2>4
<1>6. Balanced'
  BY <1>1, <1>5, BalanceStep
<1> QED
  BY <1>3, <1>6 DEF OneAnswer

(* A request that the ReadLoop has paired with a packet.                    *)
LEMMA AnswerMatch ==
  ASSUME TypeInv, TypeInv', OneAnswer, NEW c \in Conn, ReadLoopMatch(c)
  PROVE  OneAnswer'
<1>1. Balanced /\ pendingQ \in [Conn -> Seq(RequestContext)] /\ rl \in [Conn -> ReadLoopState]
  BY DEF OneAnswer, TypeInv, TypeOK
<1>2. /\ pendingQ[c] # << >> /\ pendingQ' = [pendingQ EXCEPT ![c] = Tail(pendingQ[c])]
      /\ UNCHANGED <<sent, fwd, writeQ, txState, wl, clr, OutQ, rcvd>>
      /\ \A x \in Conn : NoRepeat(pendingQ[x]) /\ NoRepeat(writeQ[x])
  BY DEF ReadLoopMatch, sessionVars, OneAnswer, OnePlace
<1>3. PICK r \in RequestContext : r = Head(pendingQ[c])
  BY <1>1, <1>2, HeadTailProperties
<1>4. /\ r \in Requests(pendingQ[c]) /\ Requests(pendingQ'[c]) = Requests(pendingQ[c]) \ {r}
      /\ \A x \in Conn : x # c => pendingQ'[x] = pendingQ[x]
      /\ \A x \in Conn : NoRepeat(pendingQ'[x])
  <2>1. pendingQ'[c] = Tail(pendingQ[c]) /\ \A x \in Conn : x # c => pendingQ'[x] = pendingQ[x]
    BY <1>1, <1>2
  <2>2. pendingQ[c] # << >> /\ \A x \in Conn : NoRepeat(pendingQ[x])
    BY <1>2
  <2>3. /\ Head(pendingQ[c]) \in Requests(pendingQ[c])
        /\ Requests(pendingQ'[c]) = Requests(pendingQ[c]) \ {Head(pendingQ[c])}
        /\ \A x \in Conn : NoRepeat(pendingQ'[x])
    BY <1>1, <2>1, <2>2, OneQueuePop
  <2> QED
    BY <1>3, <2>1, <2>3
<1>5. /\ r \in Held("pendingQ", c) /\ Held("pendingQ", c)' \subseteq Held("pendingQ", c) \ {r}
      /\ \A x \in Conn : Held("pendingQ", x)' \subseteq Held("pendingQ", x)
  BY <1>4 DEF Held
<1>6. \A k \in Owing : \A x \in Index(k) : Held(k, x)' \subseteq Held(k, x)
  BY <1>2, <1>5, Unmoved DEF Owing, Index
<1>7. PICK t \in Session : t = r.session
  BY DEF RequestContext
<1>8. /\ OnePlace' /\ r \in Owed(t)
      /\ \A s \in Session : Owed(s)' \subseteq Owed(s) \ {r}
  <2>1. "pendingQ" \in Owing /\ c \in Index("pendingQ") /\ UNCHANGED sent
    BY <1>2 DEF Owing, Index
  <2>2. \A x \in Conn : NoRepeat(writeQ'[x]) /\ NoRepeat(pendingQ'[x])
    BY <1>2, <1>4
  <2> QED
    BY <1>5, <1>6, <1>7, <2>1, <2>2, PlacesPaid
<1>9. /\ Answering(t)' \subseteq Answering(t) \cup {c}
      /\ \A s \in Session : s # t => Answering(s)' \subseteq Answering(s)
  BY <1>1, <1>3, <1>7 DEF Answering, ReadLoopMatch, ReadLoopState
<1>10. ASSUME NEW s \in Session
       PROVE  /\ IsFiniteSet(Owed(s))' /\ IsFiniteSet(Answering(s))'
              /\ Unpaid(s)' \in Nat /\ Coming(s)' \in Nat
              /\ Given(s)' + Coming(s)' + Unpaid(s)' - sent'[s]
                   <= Given(s) + Coming(s) + Unpaid(s) - sent[s]
  <2>1. IsFiniteSet(Owed(s))' /\ Unpaid(s)' \in Nat /\ Unpaid(s)' <= Unpaid(s)
    BY <1>1, <1>8, UnpaidFewer
  <2>2. /\ Given(s) \in Nat /\ sent[s] \in Nat /\ Given(s)' = Given(s) /\ sent'[s] = sent[s]
        /\ Coming(s) \in Nat /\ Unpaid(s) \in Nat
    BY <1>1, <1>2, GivenType, CountsType DEF Given
  <2>3. CASE s = t
    <3>1. Unpaid(s)' + 1 <= Unpaid(s)
      BY <1>1, <1>8, <2>3, UnpaidLess
    <3>2. IsFiniteSet(Answering(s))
      BY <1>1 DEF Balanced
    <3>3. IsFiniteSet(Answering(s))' /\ Coming(s)' \in Nat /\ Coming(s)' <= Coming(s) + 1
      BY <1>9, <2>3, <3>2, CountMore DEF Coming
    <3> QED
      BY <2>1, <2>2, <3>1, <3>3
  <2>4. CASE s # t
    <3>1. IsFiniteSet(Answering(s))' /\ Coming(s)' \in Nat /\ Coming(s)' <= Coming(s)
      BY <1>1, <1>9, <2>4, ComingFewer
    <3> QED
      BY <2>1, <2>2, <3>1
  <2> QED
    BY <2>3, <2>4
<1>11. Balanced'
  BY <1>1, <1>10, BalanceStep
<1> QED
  BY <1>2, <1>8, <1>11 DEF OneAnswer

LEMMA AnswerDeliver ==
  ASSUME TypeInv, TypeInv', OneAnswer, NEW c \in Conn, ReadLoopDeliver(c)
  PROVE  OneAnswer'
<1> DEFINE rsp == [req |-> rl[c].pkt, err |-> rl[c].pkt = None, callback |-> rl[c].callback]
<1>1. /\ Balanced /\ rl \in [Conn -> ReadLoopState] /\ rl[c].pc = "deliver"
      /\ OutQ \in [Session -> Seq(ResponseContext)]
      /\ UNCHANGED <<sent, fwd, writeQ, pendingQ, txState, wl, clr, rcvd>>
  BY DEF OneAnswer, TypeInv, TypeOK, SessionTypeOK, ReadLoopDeliver
<1>2. SendOutQ(rl[c].to, rsp)
  BY DEF ReadLoopDeliver
<1> HIDE DEF rsp
<1>3. \A s \in Session : Answering(s)' \subseteq Answering(s) \ {c}
  BY <1>1 DEF Answering, ReadLoopDeliver, RL
<1>4. \A k \in Owing : \A x \in Index(k) : Held(k, x)' \subseteq Held(k, x)
  BY <1>1, Unmoved DEF Owing
<1>5. \A s \in Session : Owed(s)' \subseteq Owed(s)
  BY <1>4, OwedKept
<1>6. CASE rl[c].to \notin Session
  <2>1. UNCHANGED OutQ
    BY <1>1, <1>2, <1>6 DEF SendOutQ
  <2>2. \A s \in Session : Given(s)' <= Given(s)
    <3> TAKE s \in Session
    <3>1. Given(s) \in Nat /\ Given(s)' = Given(s)
      BY <1>1, <2>1, GivenType DEF Given
    <3> QED
      BY <3>1
  <2>3. \A k \in {"fwd", "wl", "clr"} : \A x \in Index(k) : Held(k, x)' \subseteq Held(k, x)
    BY <1>4 DEF Owing
  <2> QED
    BY <1>1, <1>3, <2>2, <2>3, AnswerQuiet
<1>7. CASE rl[c].to \in Session
  <2>1. PICK t \in Session : t = rl[c].to
    BY <1>7
  <2>2. /\ Given(t)' = Given(t) + 1
        /\ \A s \in Session : s # t => Given(s)' = Given(s)
    BY <1>1, <1>2, <2>1, SendAnswer
  <2>3. c \in Answering(t)
    BY <1>1, <2>1 DEF Answering
  <2>4. ASSUME NEW s \in Session
        PROVE  /\ IsFiniteSet(Owed(s))' /\ IsFiniteSet(Answering(s))'
               /\ Unpaid(s)' \in Nat /\ Coming(s)' \in Nat
               /\ Given(s)' + Coming(s)' + Unpaid(s)' - sent'[s]
                    <= Given(s) + Coming(s) + Unpaid(s) - sent[s]
    <3>1. /\ IsFiniteSet(Owed(s))' /\ Unpaid(s)' \in Nat /\ Unpaid(s)' <= Unpaid(s)
          /\ IsFiniteSet(Answering(s))' /\ Coming(s)' \in Nat /\ Coming(s)' <= Coming(s)
      BY <1>1, <1>3, <1>5, UnpaidFewer, ComingFewer
    <3>2. /\ Given(s) \in Nat /\ sent[s] \in Nat /\ sent'[s] = sent[s]
          /\ Coming(s) \in Nat /\ Unpaid(s) \in Nat
      BY <1>1, GivenType, CountsType
    <3>3. CASE s = t
      <4>1. IsFiniteSet(Answering(s))
        BY <1>1 DEF Balanced
      <4>2. Coming(s)' + 1 <= Coming(s) /\ Given(s)' = Given(s) + 1
        BY <1>3, <2>2, <2>3, <3>3, <4>1, CountLess DEF Coming
      <4> QED
        BY <3>1, <3>2, <4>2
    <3>4. CASE s # t
      <4>1. Given(s)' = Given(s)
        BY <2>2, <3>4
      <4> QED
        BY <3>1, <3>2, <4>1
    <3> QED
      BY <3>3, <3>4
  <2>5. Balanced'
    BY <1>1, <2>4, BalanceStep
  <2>6. OnePlace'
    <3>1. sent \in [Session -> Nat]
      BY SessionAssumption DEF TypeInv, TypeOK
    <3>2. sent' \in [Session -> Nat] /\ \A s \in Session : sent'[s] >= sent[s]
      BY <1>1, <3>1
    <3>3. Apart(Owing)' /\ Known(Owing)'
      BY <1>4, <3>1, <3>2, StayedKnown DEF OneAnswer, OnePlace
    <3> QED
      BY <1>1, <3>3 DEF OneAnswer, OnePlace
  <2> QED
    BY <1>1, <2>5, <2>6 DEF OneAnswer
<1> QED
  BY <1>6, <1>7

LEMMA AnswerForward ==
  ASSUME TypeInv, TypeInv', OneAnswer, Cmds \cap TxCmds = {},
         NEW s \in Session, NEW c \in Conn, NEW cmd \in Cmds, Forward(s, c, cmd)
  PROVE  OneAnswer'
<1> DEFINE r == NewRequest(s, cmd)
<1>1. /\ r \in RequestContext /\ r.session = s /\ r.n = sent[s] + 1
      /\ sent \in [Session -> Nat]
      /\ fwd \in [Session -> {None} \cup [conn: Conn, ctx: RequestContext]]
  BY NewRequestType, SessionAssumption DEF TypeInv, TypeOK, Forward, NewRequest
<1>2. /\ sent' = [sent EXCEPT ![s] = sent[s] + 1]
      /\ fwd[s] = None /\ fwd' = [fwd EXCEPT ![s] = [conn |-> c, ctx |-> r]]
      /\ UNCHANGED <<writeQ, pendingQ, wl, rl, clr, OutQ, rcvd, txState>>
  BY DEF Forward, loopVars, UpdateTxnState
<1> HIDE DEF r
<1>3. Balanced /\ Apart(Owing) /\ Known(Owing)
  BY DEF OneAnswer, OnePlace
<1>4. \A k \in Owing : \A x \in Index(k) : r \notin Held(k, x)
  BY <1>1, <1>3 DEF Known
<1>5. /\ Held("fwd", s)' \subseteq Held("fwd", s) \cup {r}
      /\ \A x \in Session \ {s} : Held("fwd", x)' = Held("fwd", x)
  BY <1>1, <1>2 DEF Held
<1>6. \A k \in Owing : \A x \in Index(k) :
        (k # "fwd" \/ x # s) => Held(k, x)' \subseteq Held(k, x) \ {r}
  <2>1. \A k \in Owing : \A x \in Index(k) :
          (k # "fwd" \/ x # s) => Held(k, x)' \subseteq Held(k, x)
    BY <1>2, <1>5, Unmoved DEF Owing, Index
  <2> QED
    BY <1>4, <2>1
<1>7. "fwd" \in Owing /\ s \in Index("fwd")
  BY DEF Owing, Index
<1>8. Apart(Owing)'
  BY <1>3, <1>5, <1>6, <1>7, Moved
<1>9. Known(Owing)'
  <2> SUFFICES ASSUME NEW k \in Owing, NEW x \in Index(k), NEW e, e \in Held(k, x)'
               PROVE  e \in RequestContext /\ e.n <= sent'[e.session]
    BY DEF Known, Index
  <2>1. CASE e = r
    BY <1>1, <1>2, <2>1
  <2>2. CASE e # r
    <3>1. e \in Held(k, x)
      BY <1>5, <1>6, <2>2
    <3>2. e \in RequestContext /\ e.n <= sent[e.session]
      BY <1>3, <3>1 DEF Known
    <3>3. e.session \in Session /\ e.n \in Nat
      BY <3>2, SessionAssumption DEF RequestContext
    <3> QED
      BY <1>1, <1>2, <3>2, <3>3
  <2> QED
    BY <2>1, <2>2
<1>10. OnePlace'
  BY <1>2, <1>8, <1>9 DEF OneAnswer, OnePlace
<1>11. \A k \in Owing : \A x \in Index(k) : \A e \in Held(k, x)' : e = r \/ e \in Held(k, x)
  BY <1>5, <1>6
<1>12. ASSUME NEW t \in Session, NEW e, e \in Owed(t)'
       PROVE  e \in Owed(t) \/ (e = r /\ t = s)
  <2>1. e \in RequestContext /\ e.session = t
    BY <1>12 DEF Owed
  <2>2. PICK k \in Owing : \E x \in Index(k) : e \in Held(k, x)'
    BY <1>12 DEF Owed, Index
  <2>3. e = r \/ \E x \in Index(k) : e \in Held(k, x)
    BY <1>11, <2>2
  <2>4. e = r \/ e \in Owed(t)
    BY <2>1, <2>3 DEF Owed
  <2> QED
    BY <1>1, <2>1, <2>4
<1>13. ASSUME NEW t \in Session
       PROVE  /\ IsFiniteSet(Owed(t))' /\ IsFiniteSet(Answering(t))'
              /\ Unpaid(t)' \in Nat /\ Coming(t)' \in Nat
              /\ Given(t)' + Coming(t)' + Unpaid(t)' - sent'[t]
                   <= Given(t) + Coming(t) + Unpaid(t) - sent[t]
  <2>1. IsFiniteSet(Answering(t))' /\ Coming(t)' \in Nat /\ Coming(t)' <= Coming(t)
    BY <1>2, <1>3, ComingFewer DEF Answering
  <2>2. /\ Given(t) \in Nat /\ sent[t] \in Nat /\ Given(t)' = Given(t)
        /\ Coming(t) \in Nat /\ Unpaid(t) \in Nat
    BY <1>2, <1>3, GivenType, CountsType DEF Given
  <2>3. CASE t = s
    <3>1. Owed(t)' \subseteq Owed(t) \cup {r} /\ IsFiniteSet(Owed(t))
      BY <1>3, <1>12 DEF Balanced
    <3>2. IsFiniteSet(Owed(t))' /\ Unpaid(t)' \in Nat /\ Unpaid(t)' <= Unpaid(t) + 1
      BY <3>1, CountMore DEF Unpaid
    <3>3. sent'[t] = sent[t] + 1
      BY <1>1, <1>2, <2>3
    <3> QED
      BY <2>1, <2>2, <3>2, <3>3
  <2>4. CASE t # s
    <3>1. Owed(t)' \subseteq Owed(t)
      BY <1>12, <2>4
    <3>2. IsFiniteSet(Owed(t))' /\ Unpaid(t)' \in Nat /\ Unpaid(t)' <= Unpaid(t)
      BY <1>3, <3>1, UnpaidFewer
    <3>3. sent'[t] = sent[t]
      BY <1>1, <1>2, <2>4
    <3> QED
      BY <2>1, <2>2, <3>2, <3>3
  <2> QED
    BY <2>3, <2>4
<1>14. Balanced'
  BY <1>3, <1>13, BalanceStep
<1> QED
  BY <1>2, <1>10, <1>14 DEF OneAnswer

LEMMA AnswerReject ==
  ASSUME TypeInv, TypeInv', OneAnswer, NEW s \in Session, NEW cmd \in Cmds, Reject(s, cmd)
  PROVE  OneAnswer'
<1> DEFINE rsp == NewErrResponseContext(NewRequest(s, cmd))
<1>1. /\ rcvd' = [rcvd EXCEPT ![s] = Append(rcvd[s], rsp)]
      /\ sent' = [sent EXCEPT ![s] = sent[s] + 1]
      /\ UNCHANGED <<fwd, writeQ, pendingQ, wl, rl, clr, OutQ, txState>>
      /\ rcvd \in [Session -> Seq(ResponseContext)] /\ sent \in [Session -> Nat]
  BY SessionAssumption DEF Reject, WriteAndFlush, connVars, loopVars, TypeInv, TypeOK, SessionTypeOK
<1> HIDE DEF rsp
<1>2. Balanced /\ Apart(Owing) /\ Known(Owing)
  BY DEF OneAnswer, OnePlace
<1>3. \A k \in Owing : \A x \in Index(k) : Held(k, x)' \subseteq Held(k, x)
  BY <1>1, Unmoved DEF Owing
<1>4. sent' \in [Session -> Nat] /\ \A t \in Session : sent'[t] >= sent[t]
  BY <1>1
<1>5. Apart(Owing)' /\ Known(Owing)'
  BY <1>1, <1>2, <1>3, <1>4, StayedKnown
<1>6. OnePlace'
  BY <1>1, <1>5 DEF OneAnswer, OnePlace
<1>7. \A t \in Session : Owed(t)' \subseteq Owed(t)
  BY <1>3, OwedKept
<1>8. Given(s)' = Given(s) + 1
  <2> DEFINE m == Len(rcvd[s])
             n == Len(OutQ[s])
  <2>1. m \in Nat /\ n \in Nat /\ Len(Append(rcvd[s], rsp)) = m + 1
    BY <1>1, LenProperties DEF TypeInv, TypeOK, SessionTypeOK
  <2>2. rcvd'[s] = Append(rcvd[s], rsp)
    BY <1>1
  <2>3. Given(s) = m + n /\ Given(s)' = (m + 1) + n
    BY <1>1, <2>1, <2>2 DEF Given
  <2> HIDE DEF m, n
  <2>4. (m + 1) + n = (m + n) + 1
    BY <2>1
  <2> QED
    BY <2>3, <2>4
<1>9. \A t \in Session : t # s => Given(t)' = Given(t)
  BY <1>1 DEF Given
<1>10. ASSUME NEW t \in Session
       PROVE  /\ IsFiniteSet(Owed(t))' /\ IsFiniteSet(Answering(t))'
              /\ Unpaid(t)' \in Nat /\ Coming(t)' \in Nat
              /\ Given(t)' + Coming(t)' + Unpaid(t)' - sent'[t]
                   <= Given(t) + Coming(t) + Unpaid(t) - sent[t]
  <2>1. IsFiniteSet(Answering(t))' /\ Coming(t)' \in Nat /\ Coming(t)' <= Coming(t)
    BY <1>1, <1>2, ComingFewer DEF Answering
  <2>2. IsFiniteSet(Owed(t))' /\ Unpaid(t)' \in Nat /\ Unpaid(t)' <= Unpaid(t)
    BY <1>2, <1>7, UnpaidFewer
  <2>3. /\ Given(t) \in Nat /\ sent[t] \in Nat
        /\ Coming(t) \in Nat /\ Unpaid(t) \in Nat
    BY <1>2, GivenType, CountsType
  <2>4. CASE t = s
    <3>1. Given(t)' = Given(t) + 1 /\ sent'[t] = sent[t] + 1
      BY <1>1, <1>8, <2>4
    <3> QED
      BY <2>1, <2>2, <2>3, <3>1
  <2>5. CASE t # s
    <3>1. Given(t)' = Given(t) /\ sent'[t] = sent[t]
      BY <1>1, <1>9, <2>5
    <3> QED
      BY <2>1, <2>2, <2>3, <3>1
  <2> QED
    BY <2>4, <2>5
<1>11. Balanced'
  BY <1>2, <1>10, BalanceStep
<1> QED
  BY <1>1, <1>6, <1>11 DEF OneAnswer

LEMMA AnswerReplyLoop ==
  ASSUME TypeInv, TypeInv', OneAnswer, NEW s \in Session, ReplyLoop(s)
  PROVE  OneAnswer'
<1>1. UNCHANGED <<sent, fwd, writeQ, pendingQ, wl, rl, clr, txState>>
  BY DEF ReplyLoop, connVars, loopVars
<1>2. \A k \in {"fwd", "wl", "clr"} : \A x \in Index(k) : Held(k, x)' \subseteq Held(k, x)
  BY <1>1, Unmoved
<1>3. \A t \in Session : Answering(t)' \subseteq Answering(t)
  BY <1>1 DEF Answering
<1>4. Given(s)' <= Given(s) /\ \A t \in Session : t # s => Given(t)' = Given(t)
  <2>0. OutQ \in [Session -> Seq(ResponseContext)] /\ rcvd \in [Session -> Seq(ResponseContext)]
    BY DEF TypeInv, TypeOK, SessionTypeOK
  <2>1. CASE ReplyLoopWrite(s)
    <3> DEFINE m == Len(rcvd[s])
               n == Len(OutQ[s])
               rsp == Head(OutQ[s])
    <3>1. /\ OutQ[s] # << >> /\ OutQ' = [OutQ EXCEPT ![s] = Tail(OutQ[s])]
          /\ rcvd' = rcvd \/ rcvd' = [rcvd EXCEPT ![s] = Append(rcvd[s], rsp)]
      BY <2>1 DEF ReplyLoopWrite
    <3> HIDE DEF rsp
    <3>2. OutQ[s] \in Seq(ResponseContext) /\ rcvd[s] \in Seq(ResponseContext)
      BY <2>0
    <3>3. m \in Nat /\ n \in Nat
      BY <3>2, LenProperties
    <3>4. Len(Tail(OutQ[s])) = n - 1 /\ Len(Append(rcvd[s], rsp)) = m + 1
      BY <3>1, <3>2, HeadTailProperties, LenProperties
    <3>5. /\ OutQ'[s] = Tail(OutQ[s])
          /\ rcvd'[s] = rcvd[s] \/ rcvd'[s] = Append(rcvd[s], rsp)
          /\ \A t \in Session : t # s => OutQ'[t] = OutQ[t] /\ rcvd'[t] = rcvd[t]
      BY <2>0, <3>1
    <3>6. Given(s) = m + n /\ (Given(s)' = m + (n - 1) \/ Given(s)' = (m + 1) + (n - 1))
      <4>1. Given(s) = m + n /\ Given(s)' = Len(rcvd'[s]) + Len(OutQ'[s])
        BY DEF Given
      <4>2. Len(OutQ'[s]) = n - 1 /\ (Len(rcvd'[s]) = m \/ Len(rcvd'[s]) = m + 1)
        BY <3>4, <3>5
      <4> HIDE DEF m, n
      <4> QED
        BY <4>1, <4>2
    <3> HIDE DEF m, n
    <3>7. m + (n - 1) <= m + n /\ (m + 1) + (n - 1) <= m + n
      BY <3>3
    <3>8. Given(s)' <= Given(s)
      BY <3>6, <3>7
    <3>9. \A t \in Session : t # s => Given(t)' = Given(t)
      BY <3>5 DEF Given
    <3> QED
      BY <3>8, <3>9
  <2>2. CASE ReplyLoopQuit(s)
    <3>1. \A t \in Session : Given(t)' = Given(t)
      BY <2>2 DEF ReplyLoopQuit, Given
    <3> QED
      BY <3>1, GivenType
  <2> QED
    BY <2>1, <2>2 DEF ReplyLoop
<1>5. \A t \in Session : Given(t)' <= Given(t)
  BY <1>4, GivenType
<1> QED
  BY <1>1, <1>2, <1>3, <1>5, AnswerQuiet

LEMMA AnswerEnqueue ==
  ASSUME TypeInv, TypeInv', OneAnswer, NEW s \in Session, Enqueue(s)
  PROVE  OneAnswer'
<1>1. PICK c \in Conn, r \in RequestContext : c = fwd[s].conn /\ r = fwd[s].ctx
  <2>1. fwd[s] \in [conn: Conn, ctx: RequestContext]
    BY DEF TypeInv, TypeOK, Enqueue
  <2> QED
    BY <2>1
<1>2. /\ writeQ' = [writeQ EXCEPT ![c] = Append(writeQ[c], r)]
      /\ fwd[s] # None /\ fwd' = [fwd EXCEPT ![s] = None]
      /\ UNCHANGED <<sent, rl, wl, clr, pendingQ, txState, OutQ, rcvd>>
      /\ fwd \in [Session -> {None} \cup [conn: Conn, ctx: RequestContext]]
  BY <1>1 DEF Enqueue, loopVars, sessionVars, TypeInv, TypeOK
<1>3. /\ Held("fwd", s) = {r} /\ Held("fwd", s)' = {}
      /\ \A x \in Session : Held("fwd", x)' \subseteq Held("fwd", x)
  BY <1>1, <1>2 DEF Held
<1>4. "writeQ" \in Owing /\ "fwd" \in Owing /\ c \in Index("writeQ") /\ s \in Index("fwd")
  BY DEF Owing, Index
<1>5. r \notin Requests(writeQ[c])
  <2>1. Held("writeQ", c) = Requests(writeQ[c])
    BY DEF Held
  <2>2. Held("writeQ", c) \cap Held("fwd", s) = {}
    BY <1>4 DEF OneAnswer, OnePlace, Apart
  <2> QED
    BY <1>3, <2>1, <2>2
<1>6. /\ Requests(writeQ'[c]) = Requests(writeQ[c]) \cup {r}
      /\ \A x \in Conn : x # c => writeQ'[x] = writeQ[x]
      /\ \A x \in Conn : NoRepeat(writeQ'[x])
  <2>1. writeQ \in [Conn -> Seq(RequestContext)] /\ \A x \in Conn : NoRepeat(writeQ[x])
    BY DEF TypeInv, TypeOK, OneAnswer, OnePlace
  <2>2. writeQ'[c] = Append(writeQ[c], r) /\ \A x \in Conn : x # c => writeQ'[x] = writeQ[x]
    BY <1>2, <2>1
  <2>3. Requests(writeQ'[c]) = Requests(writeQ[c]) \cup {r} /\ \A x \in Conn : NoRepeat(writeQ'[x])
    BY <1>5, <2>1, <2>2, OneQueuePush
  <2> QED
    BY <2>2, <2>3
<1>7. /\ Held("writeQ", c)' \subseteq Held("writeQ", c) \cup {r}
      /\ \A x \in Conn : x # c => Held("writeQ", x)' = Held("writeQ", x)
  BY <1>6 DEF Held
<1>8. \A k \in Owing : \A x \in Index(k) :
        (k # "writeQ" \/ x # c) => Held(k, x)' \subseteq Held(k, x)
  BY <1>2, <1>3, <1>7, Unmoved DEF Owing, Index
<1>9. /\ r \in Held("fwd", s) /\ Held("fwd", s)' \subseteq Held("fwd", s) \ {r}
      /\ \A x \in Conn : NoRepeat(writeQ'[x]) /\ NoRepeat(pendingQ'[x])
  BY <1>2, <1>3, <1>6 DEF OneAnswer, OnePlace
<1>10. (\A t \in Session : Answering(t)' \subseteq Answering(t)) /\ UNCHANGED <<sent, txState, rcvd, OutQ>>
  BY <1>2 DEF Answering
<1> QED
  BY <1>4, <1>7, <1>8, <1>9, <1>10, AnswerMovedFrom

(* A request taken from writeQ by goroutine k of connection c.              *)
LEMMA AnswerTakeWrite ==
  ASSUME TypeInv, TypeInv', OneAnswer, NEW c \in Conn, NEW k \in {"wl", "clr"},
         writeQ[c] # << >>, writeQ' = [writeQ EXCEPT ![c] = Tail(writeQ[c])],
         UNCHANGED <<sent, fwd, pendingQ, rl, OutQ, rcvd, txState>>,
         Held(k, c)' = {Head(writeQ[c])},
         \A l \in {"wl", "clr"} :
           \A x \in Conn : (l # k \/ x # c) => Held(l, x)' \subseteq Held(l, x)
  PROVE  OneAnswer'
<1>1. writeQ \in [Conn -> Seq(RequestContext)] /\ \A x \in Conn : NoRepeat(writeQ[x])
  BY DEF TypeInv, TypeOK, OneAnswer, OnePlace
<1>2. writeQ'[c] = Tail(writeQ[c]) /\ \A x \in Conn : x # c => writeQ'[x] = writeQ[x]
  BY <1>1
<1>3. PICK r : r = Head(writeQ[c])
  OBVIOUS
<1>4. r \in Requests(writeQ[c]) /\ Requests(writeQ'[c]) = Requests(writeQ[c]) \ {r}
  <2>1. writeQ[c] \in Seq(RequestContext) /\ NoRepeat(writeQ[c])
    BY <1>1
  <2>2. /\ Head(writeQ[c]) \in Requests(writeQ[c])
        /\ Requests(Tail(writeQ[c])) = Requests(writeQ[c]) \ {Head(writeQ[c])}
    BY <2>1, PopRequest
  <2> QED
    BY <1>2, <1>3, <2>2
<1>5. \A x \in Conn : NoRepeat(writeQ'[x])
  <2>1. writeQ[c] \in Seq(RequestContext) /\ NoRepeat(writeQ[c])
    BY <1>1
  <2>2. NoRepeat(Tail(writeQ[c]))
    BY <2>1, PopRequest
  <2> QED
    BY <1>1, <1>2, <2>2
<1>6. /\ r \in Held("writeQ", c) /\ Held("writeQ", c)' \subseteq Held("writeQ", c) \ {r}
      /\ \A x \in Conn : Held("writeQ", x)' \subseteq Held("writeQ", x)
  BY <1>2, <1>4 DEF Held
<1>7. \A l \in Owing : \A x \in Index(l) :
        (l # k \/ x # c) => Held(l, x)' \subseteq Held(l, x)
  BY <1>6, Unmoved DEF Owing, Index
<1>8. /\ k \in Owing /\ "writeQ" \in Owing /\ k # "writeQ"
      /\ c \in Index(k) /\ c \in Index("writeQ")
  BY DEF Owing, Index
<1>9. /\ Held(k, c)' \subseteq Held(k, c) \cup {r}
      /\ \A x \in Conn : NoRepeat(writeQ'[x]) /\ NoRepeat(pendingQ'[x])
  BY <1>3, <1>5 DEF OneAnswer, OnePlace
<1>10. (\A t \in Session : Answering(t)' \subseteq Answering(t)) /\ UNCHANGED <<sent, txState, rcvd, OutQ>>
  BY DEF Answering
<1> QED
  BY <1>6, <1>7, <1>8, <1>9, <1>10, AnswerMovedFrom

(* A request taken from pendingQ, likewise.                                 *)
LEMMA AnswerTakePending ==
  ASSUME TypeInv, TypeInv', OneAnswer, NEW c \in Conn, NEW k \in {"wl", "clr"},
         pendingQ[c] # << >>, pendingQ' = [pendingQ EXCEPT ![c] = Tail(pendingQ[c])],
         UNCHANGED <<sent, fwd, writeQ, rl, OutQ, rcvd, txState>>,
         Held(k, c)' = {Head(pendingQ[c])},
         \A l \in {"wl", "clr"} :
           \A x \in Conn : (l # k \/ x # c) => Held(l, x)' \subseteq Held(l, x)
  PROVE  OneAnswer'
<1>1. pendingQ \in [Conn -> Seq(RequestContext)] /\ \A x \in Conn : NoRepeat(pendingQ[x])
  BY DEF TypeInv, TypeOK, OneAnswer, OnePlace
<1>2. pendingQ'[c] = Tail(pendingQ[c]) /\ \A x \in Conn : x # c => pendingQ'[x] = pendingQ[x]
  BY <1>1
<1>3. PICK r : r = Head(pendingQ[c])
  OBVIOUS
<1>4. r \in Requests(pendingQ[c]) /\ Requests(pendingQ'[c]) = Requests(pendingQ[c]) \ {r}
  <2>1. pendingQ[c] \in Seq(RequestContext) /\ NoRepeat(pendingQ[c])
    BY <1>1
  <2>2. /\ Head(pendingQ[c]) \in Requests(pendingQ[c])
        /\ Requests(Tail(pendingQ[c])) = Requests(pendingQ[c]) \ {Head(pendingQ[c])}
    BY <2>1, PopRequest
  <2> QED
    BY <1>2, <1>3, <2>2
<1>5. \A x \in Conn : NoRepeat(pendingQ'[x])
  <2>1. pendingQ[c] \in Seq(RequestContext) /\ NoRepeat(pendingQ[c])
    BY <1>1
  <2>2. NoRepeat(Tail(pendingQ[c]))
    BY <2>1, PopRequest
  <2> QED
    BY <1>1, <1>2, <2>2
<1>6. /\ r \in Held("pendingQ", c) /\ Held("pendingQ", c)' \subseteq Held("pendingQ", c) \ {r}
      /\ \A x \in Conn : Held("pendingQ", x)' \subseteq Held("pendingQ", x)
  BY <1>2, <1>4 DEF Held
<1>7. \A l \in Owing : \A x \in Index(l) :
        (l # k \/ x # c) => Held(l, x)' \subseteq Held(l, x)
  BY <1>6, Unmoved DEF Owing, Index
<1>8. /\ k \in Owing /\ "pendingQ" \in Owing /\ k # "pendingQ"
      /\ c \in Index(k) /\ c \in Index("pendingQ")
  BY DEF Owing, Index
<1>9. /\ Held(k, c)' \subseteq Held(k, c) \cup {r}
      /\ \A x \in Conn : NoRepeat(writeQ'[x]) /\ NoRepeat(pendingQ'[x])
  BY <1>3, <1>5 DEF OneAnswer, OnePlace
<1>10. (\A t \in Session : Answering(t)' \subseteq Answering(t)) /\ UNCHANGED <<sent, txState, rcvd, OutQ>>
  BY DEF Answering
<1> QED
  BY <1>6, <1>7, <1>8, <1>9, <1>10, AnswerMovedFrom

(* A request put on pendingQ by goroutine k of connection c.                *)
LEMMA AnswerPush ==
  ASSUME TypeInv, TypeInv', OneAnswer, NEW c \in Conn, NEW k \in {"wl", "clr"},
         NEW r \in RequestContext, Held(k, c) = {r}, Held(k, c)' = {},
         pendingQ' = [pendingQ EXCEPT ![c] = Append(pendingQ[c], r)],
         UNCHANGED <<sent, fwd, writeQ, rl, OutQ, rcvd, txState>>,
         \A l \in {"wl", "clr"} : \A x \in Conn : Held(l, x)' \subseteq Held(l, x)
  PROVE  OneAnswer'
<1>1. pendingQ \in [Conn -> Seq(RequestContext)] /\ \A x \in Conn : NoRepeat(pendingQ[x])
  BY DEF TypeInv, TypeOK, OneAnswer, OnePlace
<1>2. pendingQ'[c] = Append(pendingQ[c], r) /\ \A x \in Conn : x # c => pendingQ'[x] = pendingQ[x]
  BY <1>1
<1>3. /\ k \in Owing /\ "pendingQ" \in Owing /\ k # "pendingQ"
      /\ c \in Index(k) /\ c \in Index("pendingQ")
  BY DEF Owing, Index
<1>4. r \notin Requests(pendingQ[c])
  <2>1. Held("pendingQ", c) = Requests(pendingQ[c])
    BY DEF Held
  <2>2. Held("pendingQ", c) \cap Held(k, c) = {}
    BY <1>3 DEF OneAnswer, OnePlace, Apart
  <2> QED
    BY <2>1, <2>2
<1>5. /\ Requests(Append(pendingQ[c], r)) = Requests(pendingQ[c]) \cup {r}
      /\ NoRepeat(Append(pendingQ[c], r))
  <2>1. pendingQ[c] \in Seq(RequestContext) /\ NoRepeat(pendingQ[c])
    BY <1>1
  <2> QED
    BY <1>4, <2>1, PushRequest
<1>6. /\ Held("pendingQ", c)' \subseteq Held("pendingQ", c) \cup {r}
      /\ \A x \in Conn : x # c => Held("pendingQ", x)' = Held("pendingQ", x)
  BY <1>2, <1>5 DEF Held
<1>7. \A l \in Owing : \A x \in Index(l) :
        (l # "pendingQ" \/ x # c) => Held(l, x)' \subseteq Held(l, x)
  BY <1>6, Unmoved DEF Owing, Index
<1>8. \A x \in Conn : NoRepeat(pendingQ'[x])
  BY <1>1, <1>2, <1>5
<1>9. /\ r \in Held(k, c) /\ Held(k, c)' \subseteq Held(k, c) \ {r}
      /\ \A x \in Conn : NoRepeat(writeQ'[x]) /\ NoRepeat(pendingQ'[x])
  BY <1>8 DEF OneAnswer, OnePlace
<1>10. (\A t \in Session : Answering(t)' \subseteq Answering(t)) /\ UNCHANGED <<sent, txState, rcvd, OutQ>>
  BY DEF Answering
<1> QED
  BY <1>3, <1>6, <1>7, <1>9, <1>10, AnswerMovedFrom

(* A request answered by goroutine k of connection c.                       *)
LEMMA AnswerSend ==
  ASSUME TypeInv, TypeInv', OneAnswer, NEW c \in Conn, NEW k \in {"wl", "clr"},
         NEW r \in RequestContext, Held(k, c) = {r}, Held(k, c)' = {},
         NEW rsp, SendOutQ(r.session, rsp),
         UNCHANGED <<sent, fwd, writeQ, pendingQ, rl, rcvd, txState>>,
         \A l \in {"wl", "clr"} : \A x \in Conn : Held(l, x)' \subseteq Held(l, x)
  PROVE  OneAnswer'
<1>1. \A l \in Owing : \A x \in Index(l) : Held(l, x)' \subseteq Held(l, x)
  BY Unmoved DEF Owing, Index
<1>2. /\ k \in Owing /\ c \in Index(k) /\ r \in Held(k, c)
      /\ Held(k, c)' \subseteq Held(k, c) \ {r}
  BY DEF Owing, Index
<1>3. \A x \in Conn : NoRepeat(writeQ'[x]) /\ NoRepeat(pendingQ'[x])
  BY DEF OneAnswer, OnePlace
<1>4. (\A t \in Session : Answering(t)' \subseteq Answering(t)) /\ UNCHANGED <<sent, txState, rcvd>>
  BY DEF Answering
<1> QED
  BY <1>1, <1>2, <1>3, <1>4, AnswerPaid

(* Steps of a connection that leave the clients and the queues alone.       *)
LEMMA AnswerIdle ==
  ASSUME TypeInv, TypeInv', OneAnswer,
         UNCHANGED <<sent, fwd, writeQ, pendingQ, txState, OutQ, rcvd>>,
         \A k \in {"wl", "clr"} : \A x \in Conn : Held(k, x)' \subseteq Held(k, x),
         \A s \in Session : Answering(s)' \subseteq Answering(s)
  PROVE  OneAnswer'
<1>1. \A k \in {"fwd", "wl", "clr"} : \A x \in Index(k) : Held(k, x)' \subseteq Held(k, x)
  BY Unmoved DEF Index
<1>2. \A s \in Session : Given(s)' <= Given(s)
  <2> TAKE s \in Session
  <2>1. Given(s) \in Nat /\ Given(s)' = Given(s)
    BY GivenType DEF Given
  <2> QED
    BY <2>1
<1> QED
  BY <1>1, <1>2, AnswerQuiet

LEMMA AnswerWriteLoop ==
  ASSUME TypeInv, TypeInv', OneAnswer, NEW c \in Conn, WriteLoop(c)
  PROVE  OneAnswer'
<1> USE DEF WL
<1>0. /\ wl \in [Conn -> WriteLoopState] /\ clr \in [Conn -> ClearState]
      /\ wl[c].pc \in {"write", "fail", "check", "push"} => wl[c].ctx \in RequestContext
      /\ txState[c] = NoTx
  BY DEF TypeInv, TypeOK, HoldsRequest, WriteLoopState, OneAnswer
<1>1. CASE WriteLoopTake(c)
  <2>1. /\ Held("wl", c)' = {Head(writeQ[c])}
        /\ \A x \in Conn : x # c => Held("wl", x)' \subseteq Held("wl", x)
    BY <1>0, <1>1 DEF Held, WriteLoopTake
  <2>2. \A l \in {"wl", "clr"} :
          \A x \in Conn : (l # "wl" \/ x # c) => Held(l, x)' \subseteq Held(l, x)
    BY <1>1, <2>1, Unmoved DEF WriteLoopTake
  <2> QED
    BY <1>1, <2>1, <2>2, AnswerTakeWrite DEF WriteLoopTake, sessionVars
<1>2. CASE WriteLoopQuit(c) \/ WriteLoopWrite(c) \/ WriteLoopWriteErr(c) \/ WriteLoopCheck(c)
  <2>1. \A x \in Conn : Held("wl", x)' \subseteq Held("wl", x)
    BY <1>0, <1>2
    DEF Held, WriteLoopQuit, WriteLoopWrite, WriteLoopWriteErr, WriteLoopCheck, WriteLoopState
  <2>2. UNCHANGED <<sent, fwd, writeQ, pendingQ, txState, rl, clr, OutQ, rcvd>>
    BY <1>2 DEF WriteLoopQuit, WriteLoopWrite, WriteLoopWriteErr, WriteLoopCheck, sessionVars
  <2>3. \A k \in {"wl", "clr"} : \A x \in Conn : Held(k, x)' \subseteq Held(k, x)
    BY <2>1, <2>2, Unmoved
  <2>4. \A s \in Session : Answering(s)' \subseteq Answering(s)
    BY <2>2 DEF Answering
  <2> QED
    BY <2>2, <2>3, <2>4, AnswerIdle
<1>3. CASE WriteLoopPush(c)
  <2>1. PICK r \in RequestContext : r = wl[c].ctx
    BY <1>0, <1>3 DEF WriteLoopPush
  <2>2. /\ Held("wl", c) = {r} /\ Held("wl", c)' = {}
        /\ \A x \in Conn : Held("wl", x)' \subseteq Held("wl", x)
    BY <1>0, <1>3, <2>1 DEF Held, WriteLoopPush
  <2>3. \A k \in {"wl", "clr"} : \A x \in Conn : Held(k, x)' \subseteq Held(k, x)
    BY <1>3, <2>2, Unmoved DEF WriteLoopPush
  <2>4. /\ pendingQ' = [pendingQ EXCEPT ![c] = Append(pendingQ[c], r)]
        /\ UNCHANGED <<sent, fwd, writeQ, rl, OutQ, rcvd, txState>>
    BY <1>3, <2>1 DEF WriteLoopPush, sessionVars
  <2> QED
    BY <2>2, <2>3, <2>4, AnswerPush
<1>4. CASE WriteLoopFail(c)
  <2>1. PICK r \in RequestContext : r = wl[c].ctx
    BY <1>0, <1>4 DEF WriteLoopFail
  <2>2. /\ Held("wl", c) = {r} /\ Held("wl", c)' = {}
        /\ \A x \in Conn : Held("wl", x)' \subseteq Held("wl", x)
    BY <1>0, <1>4, <2>1 DEF Held, WriteLoopFail, InClear
  <2>3. \A x \in Conn : Held("clr", x)' \subseteq Held("clr", x)
    BY <1>0, <1>4 DEF Held, WriteLoopFail, EnterClear, CLR
  <2>4. \A k \in {"wl", "clr"} : \A x \in Conn : Held(k, x)' \subseteq Held(k, x)
    BY <2>2, <2>3
  <2>5. /\ SendOutQ(r.session, NewErrResponseContext(r))
        /\ UNCHANGED <<sent, fwd, writeQ, pendingQ, rl, rcvd, txState>>
    BY <1>4, <2>1 DEF WriteLoopFail
  <2> QED
    BY <2>2, <2>4, <2>5, AnswerSend
<1> QED
  BY <1>1, <1>2, <1>3, <1>4 DEF WriteLoop

LEMMA AnswerReadLoop ==
  ASSUME TypeInv, TypeInv', OneAnswer, NEW c \in Conn, ReadLoop(c)
  PROVE  OneAnswer'
<1> USE DEF RL
<1>0. /\ rl \in [Conn -> ReadLoopState] /\ clr \in [Conn -> ClearState]
      /\ txState \in [Conn -> TxState] /\ txState[c] = NoTx
  BY DEF TypeInv, TypeOK, OneAnswer
<1>1. CASE ReadLoopTop(c) \/ ReadLoopRead(c) \/ ReadLoopLoad(c) \/ ReadLoopSkip(c) \/ ClearTxnState(c)
  <2>0. rl'[c].pc # "deliver" /\ \A x \in Conn : x # c => rl'[x] = rl[x]
    <3>1. CASE ReadLoopTop(c)
      BY <1>0, <3>1 DEF ReadLoopTop, ReadLoopState
    <3>2. CASE ReadLoopRead(c)
      BY <1>0, <3>2 DEF ReadLoopRead, ReadLoopState
    <3>3. CASE ReadLoopLoad(c)
      BY <1>0, <3>3 DEF ReadLoopLoad, ReadLoopState
    <3>4. CASE ReadLoopSkip(c) \/ ClearTxnState(c)
      BY <1>0, <3>4 DEF ReadLoopSkip, ClearTxnState
    <3> QED
      BY <1>1, <3>1, <3>2, <3>3, <3>4
  <2>1. \A s \in Session : Answering(s)' \subseteq Answering(s)
    BY <2>0 DEF Answering
  <2>2. UNCHANGED <<sent, fwd, writeQ, pendingQ, txState, wl, clr, OutQ, rcvd>>
    BY <1>0, <1>1
    DEF ReadLoopTop, ReadLoopRead, ReadLoopLoad, ReadLoopSkip, ClearTxnState, sessionVars
  <2>3. \A k \in {"wl", "clr"} : \A x \in Conn : Held(k, x)' \subseteq Held(k, x)
    BY <2>2, Unmoved
  <2> QED
    BY <2>1, <2>2, <2>3, AnswerIdle
<1>2. CASE ReadLoopEOF(c)
  <2>1. \A s \in Session : Answering(s)' \subseteq Answering(s)
    BY <1>0, <1>2 DEF Answering, ReadLoopEOF, InClear
  <2>2. UNCHANGED <<sent, fwd, writeQ, pendingQ, txState, wl, OutQ, rcvd>>
    BY <1>2 DEF ReadLoopEOF, sessionVars
  <2>3. \A x \in Conn : Held("clr", x)' \subseteq Held("clr", x)
    BY <1>0, <1>2 DEF Held, ReadLoopEOF, EnterClear, CLR
  <2>4. \A k \in {"wl", "clr"} : \A x \in Conn : Held(k, x)' \subseteq Held(k, x)
    BY <2>2, <2>3, Unmoved
  <2> QED
    BY <2>1, <2>2, <2>4, AnswerIdle
<1> QED
  BY <1>1, <1>2, AnswerMatch, AnswerDeliver DEF ReadLoop

LEMMA AnswerClear ==
  ASSUME TypeInv, TypeInv', OneAnswer, NEW c \in Conn, Clear(c)
  PROVE  OneAnswer'
<1> USE DEF CLR
<1>0. /\ clr \in [Conn -> ClearState]
      /\ clr[c].pc \in {"flushW", "pushP", "failW", "readP", "sendP"} => clr[c].ctx \in RequestContext
  BY DEF TypeInv, TypeOK, HoldsRequest, ClearState
<1>1. CASE DrainTakeWrite(c)
  <2>1. /\ Held("clr", c)' = {Head(writeQ[c])}
        /\ \A x \in Conn : x # c => Held("clr", x)' \subseteq Held("clr", x)
    BY <1>0, <1>1 DEF Held, DrainTakeWrite
  <2>2. \A l \in {"wl", "clr"} :
          \A x \in Conn : (l # "clr" \/ x # c) => Held(l, x)' \subseteq Held(l, x)
    BY <1>1, <2>1, Unmoved DEF DrainTakeWrite
  <2> QED
    BY <1>1, <2>1, <2>2, AnswerTakeWrite DEF DrainTakeWrite, sessionVars
<1>2. CASE DrainTakePending(c)
  <2>1. /\ Held("clr", c)' = {Head(pendingQ[c])}
        /\ \A x \in Conn : x # c => Held("clr", x)' \subseteq Held("clr", x)
    BY <1>0, <1>2 DEF Held, DrainTakePending
  <2>2. \A l \in {"wl", "clr"} :
          \A x \in Conn : (l # "clr" \/ x # c) => Held(l, x)' \subseteq Held(l, x)
    BY <1>2, <2>1, Unmoved DEF DrainTakePending
  <2> QED
    BY <1>2, <2>1, <2>2, AnswerTakePending DEF DrainTakePending, sessionVars
<1>3. CASE DrainWriteEnd(c) \/ DrainFlush(c) \/ DrainRead(c)
  <2>1. \A x \in Conn : Held("clr", x)' \subseteq Held("clr", x)
    BY <1>0, <1>3 DEF Held, DrainWriteEnd, DrainFlush, DrainRead, ClearState
  <2>2. UNCHANGED <<sent, fwd, writeQ, pendingQ, txState, wl, rl, OutQ, rcvd>>
    BY <1>3 DEF DrainWriteEnd, DrainFlush, DrainRead, sessionVars
  <2>3. \A k \in {"wl", "clr"} : \A x \in Conn : Held(k, x)' \subseteq Held(k, x)
    BY <2>1, <2>2, Unmoved
  <2>4. \A s \in Session : Answering(s)' \subseteq Answering(s)
    BY <2>2 DEF Answering
  <2> QED
    BY <2>2, <2>3, <2>4, AnswerIdle
<1>4. CASE DrainPush(c)
  <2>1. PICK r \in RequestContext : r = clr[c].ctx
    BY <1>0, <1>4 DEF DrainPush
  <2>2. /\ Held("clr", c) = {r} /\ Held("clr", c)' = {}
        /\ \A x \in Conn : Held("clr", x)' \subseteq Held("clr", x)
    BY <1>0, <1>4, <2>1 DEF Held, DrainPush
  <2>3. \A k \in {"wl", "clr"} : \A x \in Conn : Held(k, x)' \subseteq Held(k, x)
    BY <1>4, <2>2, Unmoved DEF DrainPush
  <2>4. /\ pendingQ' = [pendingQ EXCEPT ![c] = Append(pendingQ[c], r)]
        /\ UNCHANGED <<sent, fwd, writeQ, rl, OutQ, rcvd, txState>>
    BY <1>4, <2>1 DEF DrainPush, sessionVars
  <2> QED
    BY <2>2, <2>3, <2>4, AnswerPush
<1>5. CASE DrainFail(c) \/ DrainSend(c)
  <2>1. PICK r \in RequestContext : r = clr[c].ctx
    BY <1>0, <1>5 DEF DrainFail, DrainSend
  <2>2. /\ Held("clr", c) = {r} /\ Held("clr", c)' = {}
        /\ \A x \in Conn : Held("clr", x)' \subseteq Held("clr", x)
    BY <1>0, <1>5, <2>1 DEF Held, DrainFail, DrainSend
  <2>3. \A k \in {"wl", "clr"} : \A x \in Conn : Held(k, x)' \subseteq Held(k, x)
    BY <1>5, <2>2, Unmoved DEF DrainFail, DrainSend
  <2>4. PICK rsp : SendOutQ(r.session, rsp)
    BY <1>5, <2>1 DEF DrainFail, DrainSend
  <2>5. UNCHANGED <<sent, fwd, writeQ, pendingQ, rl, rcvd, txState>>
    BY <1>5 DEF DrainFail, DrainSend
  <2> QED
    BY <2>2, <2>3, <2>4, <2>5, AnswerSend
<1>6. CASE InnerClose(c)
  <2>1. UNCHANGED <<sent, fwd, writeQ, pendingQ, txState, OutQ, rcvd>>
    BY <1>6 DEF InnerClose, sessionVars
  <2>2. \A x \in Conn : Held("clr", x)' \subseteq Held("clr", x)
    BY <1>0, <1>6 DEF Held, InnerClose
  <2>3. \A x \in Conn : Held("wl", x)' \subseteq Held("wl", x)
    BY <1>6 DEF Held, InnerClose, TypeInv, TypeOK, WriteLoopState
  <2>4. \A s \in Session : Answering(s)' \subseteq Answering(s)
    BY <1>6 DEF Answering, InnerClose, TypeInv, TypeOK, ReadLoopState
  <2>5. \A k \in {"wl", "clr"} : \A x \in Conn : Held(k, x)' \subseteq Held(k, x)
    BY <2>2, <2>3
  <2> QED
    BY <2>1, <2>4, <2>5, AnswerIdle
<1> QED
  BY <1>1, <1>2, <1>3, <1>4, <1>5, <1>6 DEF Clear

LEMMA AnswerNext ==
  ASSUME Cmds \cap TxCmds = {}, TypeInv, OneAnswer, [Next]_vars
  PROVE  OneAnswer'
<1>0. TypeInv'
  BY TypeNext
<1>1. CASE \E s \in Session, cmd \in Cmds : Reject(s, cmd)
  BY <1>0, <1>1, AnswerReject
<1>2. CASE \E s \in Session, c \in Conn, cmd \in Cmds : Forward(s, c, cmd)
  BY <1>0, <1>2, AnswerForward
<1>3. CASE \E s \in Session : Enqueue(s) \/ ReplyLoop(s)
  BY <1>0, <1>3, AnswerEnqueue, AnswerReplyLoop
<1>4. CASE UNCHANGED <<sent, fwd, writeQ, pendingQ, wl, rl, clr, txState, OutQ, rcvd>>
  <2>1. \A k \in {"wl", "clr"} : \A x \in Conn : Held(k, x)' \subseteq Held(k, x)
    BY <1>4, Unmoved
  <2>2. \A s \in Session : Answering(s)' \subseteq Answering(s)
    BY <1>4 DEF Answering
  <2> QED
    BY <1>0, <1>4, <2>1, <2>2, AnswerIdle
<1>5. ASSUME NEW s \in Session, CloseSession(s)
      PROVE  OneAnswer'
  BY <1>4, <1>5 DEF CloseSession, SessionClose, connVars, loopVars
<1>6. ASSUME NEW c \in Conn, ConnNext(c)
      PROVE  OneAnswer'
  <2>1. CASE Close(c)
    <3>1. \A x \in Conn : Held("clr", x)' \subseteq Held("clr", x)
      BY <2>1 DEF Held, Close, EnterClear, CLR, TypeInv, TypeOK
    <3>2. UNCHANGED <<sent, fwd, writeQ, pendingQ, txState, wl, rl, OutQ, rcvd>>
      BY <2>1 DEF Close, sessionVars
    <3>3. \A k \in {"wl", "clr"} : \A x \in Conn : Held(k, x)' \subseteq Held(k, x)
      BY <3>1, <3>2, Unmoved
    <3>4. \A s \in Session : Answering(s)' \subseteq Answering(s)
      BY <3>2 DEF Answering
    <3> QED
      BY <1>0, <3>2, <3>3, <3>4, AnswerIdle
  <2>2. CASE CloseReturn(c) \/ PeerFail(c)
    BY <1>4, <2>2 DEF CloseReturn, PeerFail, sessionVars
  <2> QED
    BY <1>0, <1>6, <2>1, <2>2, AnswerWriteLoop, AnswerReadLoop, AnswerClear DEF ConnNext
<1>7. CASE UNCHANGED vars
  BY <1>4, <1>7 DEF vars, sessionVars, connVars, loopVars
<1> QED
  BY <1>1, <1>2, <1>3, <1>5, <1>6, <1>7 DEF Next

LEMMA AnswerInit == Init => OneAnswer
<1> SUFFICES ASSUME Init PROVE OneAnswer
  OBVIOUS
<1>1. \A k \in Owing : \A x \in Index(k) : Held(k, x) = {}
  BY DEF Init, SessionInit, ConnInit, Owing, Index, Held, Requests, WL, RL, CLR
<1>2. \A s \in Session : Owed(s) = {} /\ Answering(s) = {}
  <2>1. \A s \in Session : Owed(s) = {}
    BY <1>1 DEF Owed
  <2>2. \A s \in Session : Answering(s) = {}
    BY DEF Answering, Init, ConnInit, RL
  <2> QED
    BY <2>1, <2>2
<1>3. \A s \in Session : Given(s) = 0 /\ sent[s] = 0
  <2> TAKE s \in Session
  <2>1. rcvd[s] = << >> /\ OutQ[s] = << >> /\ sent[s] = 0
    BY DEF Init, SessionInit
  <2>2. Len(rcvd[s]) = 0 /\ Len(OutQ[s]) = 0
    BY <2>1
  <2> QED
    BY <2>1, <2>2 DEF Given
<1>4. Balanced
  <2> SUFFICES ASSUME NEW s \in Session
               PROVE  /\ IsFiniteSet(Owed(s)) /\ IsFiniteSet(Answering(s))
                      /\ Given(s) + Coming(s) + Unpaid(s) <= sent[s]
    BY DEF Balanced
  <2>1. Coming(s) = 0 /\ Unpaid(s) = 0 /\ IsFiniteSet(Owed(s)) /\ IsFiniteSet(Answering(s))
    BY <1>2, FS_EmptySet DEF Coming, Unpaid
  <2> QED
    BY <1>3, <2>1
<1>5. OnePlace
  BY <1>1 DEF OnePlace, Apart, Known, NoRepeat, Init, SessionInit, ConnInit
<1> QED
  BY <1>4, <1>5 DEF OneAnswer, Init, ConnInit

LEMMA OneAnswerImplies ==
  ASSUME TypeInv, OneAnswer
  PROVE  AnswersBounded
<1> SUFFICES ASSUME NEW s \in Session PROVE Given(s) <= sent[s]
  BY DEF AnswersBounded, Given
<1>1. Balanced
  BY DEF OneAnswer
<1>2. /\ Given(s) \in Nat /\ sent[s] \in Nat /\ Coming(s) \in Nat /\ Unpaid(s) \in Nat
      /\ Given(s) + Coming(s) + Unpaid(s) <= sent[s]
  BY <1>1, GivenType, CountsType DEF Balanced
<1> QED
  BY <1>2

(* Without transactions, whatever is lost, closed, drained or left, nobody  *)
(* gets more replies than it sent requests: a request that is on a queue or *)
(* in the hands of a loop or a drain is in one of these places only, and    *)
(* leaves it with one answer at most.                                       *)
THEOREM AnsweredOnce ==
  ASSUME Cmds \cap TxCmds = {}
  PROVE  Spec => []AnswersBounded
<1>1. Init => TypeInv /\ OneAnswer
  BY TypeInit, AnswerInit
<1>2. TypeInv /\ OneAnswer /\ [Next]_vars => (TypeInv /\ OneAnswer)'
  BY TypeNext, AnswerNext
<1>3. TypeInv /\ OneAnswer => AnswersBounded
  BY OneAnswerImplies
<1> QED
  BY <1>1, <1>2, <1>3, PTL DEF Spec

============================================================================
