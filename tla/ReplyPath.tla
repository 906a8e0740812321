----------------------------- MODULE ReplyPath -----------------------------
(***************************************************************************)
(* The memory behind a reply on its way from a BackendConn's ReadLoop to   *)
(* the ReplyLoops of the sessions: RespPackets come from a sync.Pool       *)
(* (pkg/respio/resp_packet_pool.go), and the text of a status or an error  *)
(* is a slice of the reader's buffer (readLine in resp_reader.go).  Which  *)
(* session a reply goes to is module BackendConn's subject; here a reply   *)
(* names its session.                                                      *)
(*                                                                         *)
(* Kinds of replies: "line" is a status or an error, "copy" any other      *)
(* reply with data of its own, "null" the RESP3 null, for which Read       *)
(* returns the global NilPacket.  A cell of the buffer holds one reply.    *)
(***************************************************************************)
EXTENDS Naturals, Sequences, FiniteSets

CONSTANTS
  Client,       \* sessions
  Pkt,          \* RespPackets; bound: how many there are at a time
  NilPacket,    \* the global one
  Kinds,        \* kinds of the replies
  MaxReplies,   \* bound: replies that the backend sends
  BufferSize,   \* replies that fit into the reader's buffer
  Nothing

Number == 1..MaxReplies

(* Data is a slice of a cell of the buffer or memory of its own.            *)
Data == [at: {"buffer"}, cell: 1..BufferSize] \cup [at: {"own"}, reply: Number]

ASSUME ReplyPathAssumption ==
  /\ NilPacket \in Pkt
  /\ Kinds \subseteq {"line", "copy", "null"}
  /\ MaxReplies \in Nat /\ BufferSize \in Nat \ {0}
  /\ Nothing \notin Client \cup Pkt \cup Data

VARIABLES
  sent,      \* the replies the backend has sent so far
  buffer,    \* the reader's buffer: numbers of replies
  r, w,      \* the part of it that was not read: r + 1 .. w
  pkt,       \* the fields of each RespPacket
  free,      \* those in respPacketPool
  outQ,      \* the OutQ of each session
  writing,   \* the packet each ReplyLoop has written and not released
  written    \* external: the replies each client has received

replyVars == <<sent, buffer, r, w, pkt, free, outQ, writing, written>>

Reply == [to: Client, kind: Kinds]
PktFields == [type: {"line", "copy", "null", "zero"}, data: Data \cup {Nothing}]

(* Types.                                                                   *)
ReplyTypeOK ==
  /\ sent \in Seq(Reply) /\ Len(sent) <= MaxReplies
  /\ buffer \in [1..BufferSize -> Number \cup {0}]
  /\ r \in 0..w /\ w \in 0..BufferSize
  /\ pkt \in [Pkt -> PktFields]
  /\ free \subseteq Pkt
  /\ outQ \in [Client -> Seq(Pkt)]
  /\ writing \in [Client -> Pkt \cup {Nothing}]
  /\ written \in [Client -> Seq(Number \cup {0})]

Zero == [type |-> "zero", data |-> Nothing]

ReplyInit ==
  /\ sent = << >>
  /\ buffer = [i \in 1..BufferSize |-> 0] /\ r = 0 /\ w = 0
  /\ pkt = [p \in Pkt |-> IF p = NilPacket THEN [type |-> "null", data |-> Nothing] ELSE Zero]
  /\ free = Pkt \ {NilPacket}
  /\ outQ = [c \in Client |-> << >>]
  /\ writing = [c \in Client |-> Nothing]
  /\ written = [c \in Client |-> << >>]

(* external: replies arrive; bufio's fill reads them into the buffer from   *)
(* its start, over what was there.                                          *)
Fill(new) ==
  /\ r = w
  /\ Len(sent) + Len(new) <= MaxReplies
  /\ sent' = sent \o new
  /\ buffer' = [i \in 1..BufferSize |-> IF i <= Len(new) THEN Len(sent) + i ELSE buffer[i]]
  /\ r' = 0 /\ w' = Len(new)
  /\ UNCHANGED <<pkt, free, outQ, writing, written>>

(* Mutant of ReadPacket: no reply has memory of its own.                    *)
ReadPacketAliases(p) ==
  /\ r < w
  /\ LET reply == sent[buffer[r + 1]] IN
       /\ p \in free
       /\ free' = free \ {p}
       /\ pkt' = [pkt EXCEPT ![p] = [type |-> reply.kind, data |-> [at |-> "buffer", cell |-> r + 1]]]
       /\ outQ' = [outQ EXCEPT ![reply.to] = Append(@, p)]
  /\ r' = r + 1
  /\ UNCHANGED <<sent, buffer, w, writing, written>>

(* RespReader.Read, and the reply's way onto an OutQ: AcquireRespPacket, or *)
(* NilPacket as it is.                                                      *)
ReadPacket(p) ==
  /\ r < w
  /\ LET n == buffer[r + 1]
         reply == sent[n]
     IN /\ \/ /\ reply.kind = "null" /\ p = NilPacket
              /\ UNCHANGED <<pkt, free>>
           \/ /\ reply.kind # "null" /\ p \in free
              /\ free' = free \ {p}
              /\ pkt' = [pkt EXCEPT ![p] =
                   [type |-> reply.kind,
                    data |-> IF reply.kind = "line" THEN [at |-> "buffer", cell |-> r + 1]
                             ELSE [at |-> "own", reply |-> n]]]
        /\ outQ' = [outQ EXCEPT ![reply.to] = Append(@, p)]
  /\ r' = r + 1
  /\ UNCHANGED <<sent, buffer, w, writing, written>>

(* What the bytes of a packet say: the number of a reply; 0 is a null.      *)
Content(p) ==
  CASE pkt[p].data = Nothing -> 0
    [] pkt[p].data # Nothing ->
         IF pkt[p].data.at = "buffer" THEN buffer[pkt[p].data.cell] ELSE pkt[p].data.reply

(* ReplyLoop: WriteAndFlush; the writer refuses a packet without a type.    *)
ReplyLoopWrite(c) ==
  /\ writing[c] = Nothing /\ outQ[c] # << >>
  /\ LET p == Head(outQ[c]) IN
       /\ writing' = [writing EXCEPT ![c] = p]
       /\ written' = IF pkt[p].type = "zero" THEN written
                     ELSE [written EXCEPT ![c] = Append(@, Content(p))]
  /\ outQ' = [outQ EXCEPT ![c] = Tail(@)]
  /\ UNCHANGED <<sent, buffer, r, w, pkt, free>>

(* Mutant of ReleaseRespPacket: the packet is put back when it is taken     *)
(* from OutQ, before it is written.                                         *)
ReleaseRespPacketEarly(c) ==
  /\ writing[c] = Nothing /\ outQ[c] # << >>
  /\ free' = free \cup {Head(outQ[c])}
  /\ UNCHANGED <<sent, buffer, r, w, pkt, outQ, writing, written>>

(* Mutant of ReleaseRespPacket: nil is released too.                        *)
ReleaseRespPacketNil(c) ==
  /\ free' = free \cup {writing[c]}
  /\ writing' = [writing EXCEPT ![c] = Nothing]
  /\ UNCHANGED <<sent, buffer, r, w, pkt, outQ, written>>

(* ReplyLoop: ReleaseRespPacket.                                            *)
ReleaseRespPacket(c) ==
  /\ writing[c] # Nothing
  /\ pkt' = [pkt EXCEPT ![writing[c]] = Zero]
  /\ free' = free \cup {writing[c]}
  /\ writing' = [writing EXCEPT ![c] = Nothing]
  /\ UNCHANGED <<sent, buffer, r, w, outQ, written>>

ReplyNext ==
  \/ \E n \in 1..BufferSize : \E new \in [1..n -> Reply] : Fill(new)
  \/ \E p \in Pkt : ReadPacket(p)
  \/ \E c \in Client : ReplyLoopWrite(c) \/ ReleaseRespPacket(c)

ReplySpec == ReplyInit /\ [][ReplyNext]_replyVars

----------------------------------------------------------------------------
(* Properties                                                               *)

(* Where a packet is: the pool, the hand of a ReplyLoop, places on an OutQ. *)
Holders(p) ==
  (IF p \in free THEN {<<Nothing, 0>>} ELSE {})
    \cup {<<c, 0>> : c \in {c \in Client : writing[c] = p}}
    \cup UNION {{<<c, i>> : i \in {i \in 1..Len(outQ[c]) : outQ[c][i] = p}} : c \in Client}

(* Every packet other than NilPacket is in exactly one place: in the pool,  *)
(* in the hands of one ReplyLoop or once on one OutQ ("The caller must      *)
(* ensure that the packet ... is no longer in use elsewhere",               *)
(* resp_packet_pool.go:21), also after a failed write ("Release the packet  *)
(* even if there was an error writing it", session.go:90) and although      *)
(* NilPacket is shared through the pool.                                    *)
OneHolder == \A p \in Pkt \ {NilPacket} : Cardinality(Holders(p)) = 1

(* The place of reply n among those to a client.                            *)
Rank(c, n) == Cardinality({m \in 1..n : sent[m].to = c})

(* The replies that have memory of their own reach their client with the    *)
(* content they were sent with and in their place, whatever becomes of the  *)
(* statuses between them - until a null makes NilPacket part of the pool    *)
(* (ReadLoop, ReplyLoop, ReleaseRespPacket).                                *)
CopiesKept ==
  (\A n \in 1..Len(sent) : sent[n].kind # "null") =>
    \A c \in Client :
      /\ Len(written[c]) <= Rank(c, Len(sent))
      /\ \A n \in 1..Len(sent) :
           sent[n].to = c /\ sent[n].kind = "copy" /\ Rank(c, n) <= Len(written[c])
             => written[c][Rank(c, n)] = n

----------------------------------------------------------------------------
(* A statement about the code that it does not keep (README, section 4)     *)

(* A client receives the replies that were sent to it, with the content     *)
(* they were sent with, and in their order (ReadLoop, ReplyLoop).           *)
ContentKept ==
  \A c \in Client :
    /\ Len(written[c]) <= Rank(c, Len(sent))
    /\ \A n \in 1..Len(sent) :
         sent[n].to = c /\ Rank(c, n) <= Len(written[c])
           => written[c][Rank(c, n)] = IF sent[n].kind = "null" THEN 0 ELSE n

============================================================================
