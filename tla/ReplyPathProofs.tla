-------------------------- MODULE ReplyPathProofs --------------------------
(***************************************************************************)
(* Theorems about ReplyPath, for any sessions, packets, kinds of replies,  *)
(* size of the reader's buffer and number of replies.                      *)
(***************************************************************************)
EXTENDS ReplyPath, SequenceTheorems, FiniteSetTheorems, TLAPS

(* The buffer holds the last replies that were sent.                        *)
Window ==
  /\ w <= Len(sent)
  /\ \A i \in 1..w : buffer[i] = Len(sent) - w + i

(* Packet p is the i-th on the OutQ of c.                                   *)
On(p, c, i) == i \in 1..Len(outQ[c]) /\ outQ[c][i] = p

(* A packet is somewhere, and nowhere else.                                 *)
Held(p) ==
  \/ p \in free
  \/ \E c \in Client : writing[c] = p
  \/ \E c \in Client, i \in Nat : On(p, c, i)

Alone(p) ==
  /\ p \in free => \A c \in Client : writing[c] # p /\ \A i \in Nat : ~On(p, c, i)
  /\ \A c \in Client : writing[c] = p =>
       \A d \in Client : (writing[d] = p => d = c) /\ \A i \in Nat : ~On(p, d, i)
  /\ \A c, d \in Client, i, j \in Nat : On(p, c, i) /\ On(p, d, j) => c = d /\ i = j

Places == \A p \in Pkt \ {NilPacket} : Held(p) /\ Alone(p)

(* How many replies were read; until a null is sent, those to c are written *)
(* or on its OutQ, and a copy is there with its content.                    *)
NumRead == Len(sent) - w + r
NoNulls == \A n \in 1..Len(sent) : sent[n].kind # "null"

NilUnused ==
  NilPacket \notin free /\ \A c \in Client : writing[c] # NilPacket /\ \A i \in Nat : ~On(NilPacket, c, i)

Counted == \A c \in Client : Len(written[c]) + Len(outQ[c]) = Rank(c, NumRead)
Typed == \A c \in Client : \A i \in 1..Len(outQ[c]) : pkt[outQ[c][i]].type # "zero"

OnWay(c, n, k) ==
  /\ k <= Len(written[c]) => written[c][k] = n
  /\ k > Len(written[c]) => pkt[outQ[c][k - Len(written[c])]].data = [at |-> "own", reply |-> n]

Copies ==
  \A c \in Client, n \in 1..Len(sent) :
    n <= NumRead /\ sent[n].to = c /\ sent[n].kind = "copy" => OnWay(c, n, Rank(c, n))

InOrder == NoNulls => NilUnused /\ Counted /\ Typed /\ Copies

----------------------------------------------------------------------------
(* Ranks                                                                    *)

LEMMA RankFinite ==
  ASSUME NEW c, NEW n \in Nat
  PROVE  /\ IsFiniteSet({m \in 1..n : sent[m].to = c})
         /\ Rank(c, n) \in Nat
<1>1. IsFiniteSet(1..n)
  BY FS_Interval
<1>2. IsFiniteSet({m \in 1..n : sent[m].to = c})
  BY <1>1, FS_Subset
<1> QED BY <1>2, FS_CardinalityType DEF Rank

LEMMA RankZero ==
  ASSUME NEW c
  PROVE  Rank(c, 0) = 0
<1>1. {m \in 1..0 : sent[m].to = c} = {}
  OBVIOUS
<1> QED BY <1>1, FS_EmptySet DEF Rank

LEMMA RankStep ==
  ASSUME NEW c, NEW n \in Nat
  PROVE  Rank(c, n + 1) = IF sent[n + 1].to = c THEN Rank(c, n) + 1 ELSE Rank(c, n)
<1> DEFINE A == {m \in 1..n : sent[m].to = c}
           B == {m \in 1..(n + 1) : sent[m].to = c}
<1>1. IsFiniteSet(A) /\ n + 1 \notin A
  <2>1. IsFiniteSet(A)
    BY RankFinite, Zenon
  <2>2. n + 1 \notin A
    OBVIOUS
  <2> QED BY <2>1, <2>2
<1>2. CASE sent[n + 1].to = c
  <2>1. B = A \cup {n + 1}
    BY <1>2
  <2> HIDE DEF A, B
  <2>2. Cardinality(B) = Cardinality(A) + 1
    BY <1>1, <2>1, FS_AddElement
  <2> QED BY <1>2, <2>2 DEF Rank, A, B
<1>3. CASE sent[n + 1].to # c
  <2>1. B = A
    <3>1. \A m \in 1..(n + 1) : m \in 1..n \/ m = n + 1
      OBVIOUS
    <3>2. \A m \in 1..n : m \in 1..(n + 1)
      OBVIOUS
    <3> QED BY <1>3, <3>1, <3>2
  <2> QED BY <1>3, <2>1 DEF Rank
<1> QED BY <1>2, <1>3

LEMMA RankMono ==
  ASSUME NEW c, NEW m \in Nat, NEW n \in Nat, m <= n
  PROVE  Rank(c, m) <= Rank(c, n)
<1> DEFINE A == {l \in 1..m : sent[l].to = c}
           B == {l \in 1..n : sent[l].to = c}
<1>1. A \subseteq B /\ IsFiniteSet(B)
  <2>1. IsFiniteSet(B)
    BY RankFinite, Zenon
  <2>2. A \subseteq B
    OBVIOUS
  <2> QED BY <2>1, <2>2
<1> HIDE DEF A, B
<1>2. Cardinality(A) <= Cardinality(B)
  BY <1>1, FS_Subset
<1> QED BY <1>2 DEF Rank, A, B

(* A reply has a place.                                                     *)
LEMMA RankPositive ==
  ASSUME NEW n \in Nat \ {0}, NEW c, sent[n].to = c
  PROVE  Rank(c, n) >= 1
<1>1. n - 1 \in Nat /\ (n - 1) + 1 = n
  OBVIOUS
<1>2. Rank(c, n) = Rank(c, n - 1) + 1 /\ Rank(c, n - 1) \in Nat
  BY <1>1, RankStep, RankFinite
<1> QED BY <1>2

(* More replies do not change the places of the earlier ones.               *)
LEMMA RankSame ==
  ASSUME NEW c, NEW n \in Nat, \A m \in 1..n : sent'[m] = sent[m]
  PROVE  Rank(c, n)' = Rank(c, n)
<1>1. {m \in 1..n : sent'[m].to = c} = {m \in 1..n : sent[m].to = c}
  OBVIOUS
<1> QED BY <1>1 DEF Rank

----------------------------------------------------------------------------
(* Types and the buffer                                                     *)

LEMMA InitType ==
  ASSUME ReplyInit
  PROVE  ReplyTypeOK /\ Window
<1> USE ReplyPathAssumption DEF ReplyInit
<1>1. buffer \in [1..BufferSize -> Number \cup {0}] /\ r \in 0..w /\ w \in 0..BufferSize
  OBVIOUS
<1>2. pkt \in [Pkt -> PktFields]
  BY DEF PktFields, Zero
<1>3. sent \in Seq(Reply) /\ Len(sent) = 0 /\ Len(sent) <= MaxReplies
  OBVIOUS
<1>4. /\ free \subseteq Pkt
      /\ outQ \in [Client -> Seq(Pkt)]
      /\ writing \in [Client -> Pkt \cup {Nothing}]
      /\ written \in [Client -> Seq(Number \cup {0})]
  OBVIOUS
<1>5. Window
  BY <1>3 DEF Window
<1> QED BY <1>1, <1>2, <1>3, <1>4, <1>5 DEF ReplyTypeOK

(* What Fill appends.                                                       *)
LEMMA FillSent ==
  ASSUME ReplyTypeOK, NEW n \in 1..BufferSize, NEW new \in [1..n -> Reply], Fill(new)
  PROVE  /\ Len(new) = n /\ sent' \in Seq(Reply) /\ Len(sent) \in Nat
         /\ Len(sent') = Len(sent) + n
         /\ \A m \in 1..Len(sent) : sent'[m] = sent[m]
<1>1. n \in Nat
  BY ReplyPathAssumption
<1>2. new \in Seq(Reply) /\ Len(new) = n
  BY <1>1
<1>3. sent \in Seq(Reply) /\ sent' = sent \o new
  BY DEF ReplyTypeOK, Fill
<1>4. Len(sent) \in Nat
  BY <1>3, LenProperties
<1>5. /\ sent \o new \in Seq(Reply) /\ Len(sent \o new) = Len(sent) + Len(new)
      /\ \A m \in 1..(Len(sent) + Len(new)) :
           (sent \o new)[m] = IF m <= Len(sent) THEN sent[m] ELSE new[m - Len(sent)]
  BY <1>2, <1>3, ConcatProperties
<1>6. \A m \in 1..Len(sent) : sent'[m] = sent[m]
  BY <1>1, <1>2, <1>3, <1>4, <1>5
<1> QED BY <1>2, <1>3, <1>4, <1>5, <1>6

LEMMA FillType ==
  ASSUME ReplyTypeOK, Window, NEW n \in 1..BufferSize, NEW new \in [1..n -> Reply], Fill(new)
  PROVE  ReplyTypeOK' /\ Window'
<1> DEFINE L == Len(sent)
<1>1. /\ Len(new) = n /\ sent' \in Seq(Reply) /\ L \in Nat
      /\ Len(sent') = L + n /\ n \in Nat
  BY FillSent, ReplyPathAssumption
<1>2. L + n <= MaxReplies /\ r' = 0 /\ w' = n
  BY <1>1 DEF Fill
<1>3. buffer' = [i \in 1..BufferSize |-> IF i <= n THEN L + i ELSE buffer[i]]
  BY <1>1 DEF Fill
<1>4. \A i \in 1..BufferSize : i <= n => L + i \in Number
  BY <1>1, <1>2, ReplyPathAssumption DEF Number
<1>5. buffer' \in [1..BufferSize -> Number \cup {0}]
  BY <1>3, <1>4 DEF ReplyTypeOK
<1>6. Window'
  <2>1. \A i \in 1..n : i \in 1..BufferSize /\ i <= n
    BY ReplyPathAssumption
  <2>2. \A i \in 1..n : buffer'[i] = L + i
    BY <1>3, <2>1
  <2>3. \A i \in 1..n : L + i = (L + n) - n + i
    BY <1>1
  <2>4. \A i \in 1..n : buffer'[i] = (L + n) - n + i
    BY <2>2, <2>3
  <2>5. n <= L + n
    BY <1>1
  <2> HIDE DEF L
  <2> QED BY <1>1, <1>2, <2>4, <2>5 DEF Window
<1>7. r' \in 0..w' /\ w' \in 0..BufferSize /\ Len(sent') <= MaxReplies
  BY <1>1, <1>2, ReplyPathAssumption
<1> QED BY <1>1, <1>5, <1>6, <1>7 DEF ReplyTypeOK, Fill

(* The reply that is read next.                                             *)
LEMMA NextReply ==
  ASSUME ReplyTypeOK, Window, r < w
  PROVE  /\ r + 1 \in 1..BufferSize
         /\ buffer[r + 1] = NumRead + 1 /\ NumRead \in Nat
         /\ buffer[r + 1] \in 1..Len(sent) /\ buffer[r + 1] \in Number
         /\ sent[buffer[r + 1]] \in Reply
<1> DEFINE L == Len(sent)
<1>1. L \in Nat /\ L <= MaxReplies /\ r \in Nat /\ w \in Nat /\ w <= BufferSize /\ w <= L
  BY LenProperties, ReplyPathAssumption DEF ReplyTypeOK, Window
<1>2. r + 1 \in 1..w /\ r + 1 \in 1..BufferSize
  BY <1>1, ReplyPathAssumption
<1>3. buffer[r + 1] = L - w + (r + 1)
  BY <1>2 DEF Window
<1>4. NumRead = L - w + r
  BY DEF NumRead
<1> HIDE DEF L
<1>5. /\ L - w + (r + 1) = (L - w + r) + 1 /\ L - w + r \in Nat
      /\ L - w + (r + 1) \in 1..L /\ L - w + (r + 1) \in 1..MaxReplies
  BY <1>1, ReplyPathAssumption
<1>6. buffer[r + 1] \in 1..Len(sent)
  BY <1>3, <1>5 DEF L
<1>7. sent[buffer[r + 1]] \in Reply
  BY <1>6, ElementOfSeq DEF ReplyTypeOK
<1> QED BY <1>2, <1>3, <1>4, <1>5, <1>6, <1>7 DEF Number

LEMMA ReadType ==
  ASSUME ReplyTypeOK, Window, NEW p \in Pkt, ReadPacket(p)
  PROVE  ReplyTypeOK' /\ Window'
<1> DEFINE n == buffer[r + 1]
           a == sent[n].to
<1>1. r < w /\ r' = r + 1 /\ UNCHANGED <<sent, buffer, w, writing, written>>
  BY DEF ReadPacket
<1>2. /\ r + 1 \in 1..BufferSize /\ n \in Number
      /\ sent[n] \in Reply /\ a \in Client /\ sent[n].kind \in {"line", "copy", "null"}
  BY <1>1, NextReply, ReplyPathAssumption DEF Reply
<1>3. outQ' = [outQ EXCEPT ![a] = Append(@, p)]
  BY DEF ReadPacket
<1>4. outQ' \in [Client -> Seq(Pkt)]
  BY <1>2, <1>3, AppendProperties DEF ReplyTypeOK
<1>5. pkt' \in [Pkt -> PktFields] /\ free' \subseteq Pkt
  <2>1. CASE UNCHANGED <<pkt, free>>
    BY <2>1 DEF ReplyTypeOK
  <2>2. CASE ~UNCHANGED <<pkt, free>>
    <3> DEFINE d == IF sent[n].kind = "line" THEN [at |-> "buffer", cell |-> r + 1]
                    ELSE [at |-> "own", reply |-> n]
    <3>1. pkt' = [pkt EXCEPT ![p] = [type |-> sent[n].kind, data |-> d]] /\ free' = free \ {p}
      BY <2>2 DEF ReadPacket
    <3>2. d \in Data
      BY <1>2 DEF Data
    <3> HIDE DEF d, n
    <3>3. [type |-> sent[n].kind, data |-> d] \in PktFields
      BY <1>2, <3>2 DEF PktFields
    <3> QED BY <3>1, <3>3 DEF ReplyTypeOK
  <2> QED BY <2>1, <2>2
<1>6. r' \in 0..w
  BY <1>1, ReplyPathAssumption DEF ReplyTypeOK
<1>7. ReplyTypeOK'
  BY <1>1, <1>4, <1>5, <1>6 DEF ReplyTypeOK
<1> QED BY <1>1, <1>7 DEF Window

LEMMA ContentType ==
  ASSUME ReplyTypeOK, NEW p \in Pkt
  PROVE  Content(p) \in Number \cup {0}
<1>1. pkt[p].data \in Data \cup {Nothing}
  BY DEF ReplyTypeOK, PktFields
<1>2. CASE pkt[p].data = Nothing
  BY <1>2 DEF Content
<1>3. CASE pkt[p].data # Nothing
  <2>1. Content(p) = IF pkt[p].data.at = "buffer" THEN buffer[pkt[p].data.cell] ELSE pkt[p].data.reply
    BY <1>3 DEF Content
  <2>2. \/ pkt[p].data.at = "buffer" /\ pkt[p].data.cell \in 1..BufferSize
        \/ pkt[p].data.at = "own" /\ pkt[p].data.reply \in Number
    BY <1>1, <1>3 DEF Data
  <2> QED BY <2>1, <2>2 DEF ReplyTypeOK
<1> QED BY <1>2, <1>3

LEMMA WriteType ==
  ASSUME ReplyTypeOK, Window, NEW c \in Client, ReplyLoopWrite(c)
  PROVE  ReplyTypeOK' /\ Window'
<1>1. outQ[c] \in Seq(Pkt) /\ outQ[c] # << >>
  BY DEF ReplyTypeOK, ReplyLoopWrite
<1>2. Head(outQ[c]) \in Pkt /\ Tail(outQ[c]) \in Seq(Pkt)
  BY <1>1, HeadTailProperties
<1>3. outQ' \in [Client -> Seq(Pkt)] /\ writing' \in [Client -> Pkt \cup {Nothing}]
  BY <1>2 DEF ReplyTypeOK, ReplyLoopWrite
<1>4. Append(written[c], Content(Head(outQ[c]))) \in Seq(Number \cup {0})
  BY <1>2, ContentType, AppendProperties DEF ReplyTypeOK
<1>5. written' \in [Client -> Seq(Number \cup {0})]
  BY <1>4 DEF ReplyTypeOK, ReplyLoopWrite
<1> QED BY <1>3, <1>5 DEF ReplyTypeOK, Window, ReplyLoopWrite

LEMMA ReleaseType ==
  ASSUME ReplyTypeOK, Window, NEW c \in Client, ReleaseRespPacket(c)
  PROVE  ReplyTypeOK' /\ Window'
<1>1. writing[c] \in Pkt /\ Zero \in PktFields
  BY DEF ReplyTypeOK, ReleaseRespPacket, PktFields, Zero
<1>2. pkt' \in [Pkt -> PktFields] /\ free' \subseteq Pkt /\ writing' \in [Client -> Pkt \cup {Nothing}]
  BY <1>1 DEF ReplyTypeOK, ReleaseRespPacket
<1> QED BY <1>2 DEF ReplyTypeOK, Window, ReleaseRespPacket

----------------------------------------------------------------------------
(* Where packets are                                                        *)

LEMMA InitPlaces ==
  ASSUME ReplyInit
  PROVE  Places
<1>1. \A p \in Pkt \ {NilPacket} : p \in free
  BY DEF ReplyInit
<1>2. \A c \in Client, p \in Pkt : writing[c] # p
  BY ReplyPathAssumption DEF ReplyInit
<1>3. \A c \in Client, p \in Pkt, i \in Nat : ~On(p, c, i)
  BY DEF ReplyInit, On
<1> QED BY <1>1, <1>2, <1>3 DEF Places, Held, Alone

(* What ReadPacket does to an OutQ.                                         *)
LEMMA ReadOn ==
  ASSUME ReplyTypeOK, Window, NEW p \in Pkt, ReadPacket(p)
  PROVE  /\ sent[buffer[r + 1]].to \in Client
         /\ \A c \in Client : Len(outQ[c]) \in Nat
         /\ \A c \in Client, q \in Pkt, i \in Nat :
              On(q, c, i)' <=> \/ On(q, c, i)
                               \/ /\ q = p /\ c = sent[buffer[r + 1]].to
                                  /\ i = Len(outQ[c]) + 1
<1> DEFINE a == sent[buffer[r + 1]].to
<1>1. a \in Client
  BY NextReply DEF ReadPacket, Reply
<1>2. outQ' = [outQ EXCEPT ![a] = Append(outQ[a], p)] /\ outQ \in [Client -> Seq(Pkt)]
  BY DEF ReadPacket, ReplyTypeOK
<1> HIDE DEF a
<1>3. \A c \in Client : Len(outQ[c]) \in Nat /\ outQ[c] \in Seq(Pkt)
  BY <1>2, LenProperties
<1>4. ASSUME NEW c \in Client, NEW q \in Pkt, NEW i \in Nat
      PROVE  On(q, c, i)' <=> On(q, c, i) \/ (q = p /\ c = a /\ i = Len(outQ[c]) + 1)
  <2>1. CASE c # a
    BY <1>1, <1>2, <2>1 DEF On
  <2>2. CASE c = a
    <3> DEFINE s == outQ[a]
               t == Append(s, p)
    <3>1. outQ'[c] = t
      BY <1>1, <1>2, <2>2
    <3>2. /\ Len(t) = Len(s) + 1 /\ Len(s) \in Nat
          /\ \A j \in 1..Len(s) : t[j] = s[j]
          /\ t[Len(s) + 1] = p
      BY <1>1, <1>3, AppendProperties
    <3> HIDE DEF s, t
    <3>3. i \in 1..Len(t) <=> i \in 1..Len(s) \/ i = Len(s) + 1
      BY <3>2
    <3>4. Len(s) + 1 \notin 1..Len(s)
      BY <3>2
    <3>5. i \in 1..Len(t) /\ t[i] = q <=> (i \in 1..Len(s) /\ s[i] = q) \/ (q = p /\ i = Len(s) + 1)
      BY <3>2, <3>3, <3>4
    <3>6. On(q, c, i)' <=> i \in 1..Len(t) /\ t[i] = q
      BY <3>1 DEF On
    <3>7. On(q, c, i) <=> i \in 1..Len(s) /\ s[i] = q
      BY <2>2 DEF On, s
    <3> QED BY <2>2, <3>5, <3>6, <3>7 DEF s
  <2> QED BY <2>1, <2>2
<1> QED BY <1>1, <1>3, <1>4 DEF a

LEMMA ReadPlaces ==
  ASSUME ReplyTypeOK, Window, Places, NEW p \in Pkt, ReadPacket(p)
  PROVE  Places'
<1> DEFINE a == sent[buffer[r + 1]].to
           l == Len(outQ[a]) + 1
<1>1. a \in Client /\ l \in Nat
  BY ReadOn
<1>2. \A c \in Client, q \in Pkt, i \in Nat : On(q, c, i)' <=> On(q, c, i) \/ (q = p /\ c = a /\ i = l)
  BY ReadOn
<1> HIDE DEF a, l
<1>3. writing' = writing /\ ((free' = free /\ p = NilPacket) \/ (free' = free \ {p} /\ p \in free))
  BY DEF ReadPacket
<1> SUFFICES ASSUME NEW q \in Pkt \ {NilPacket}
             PROVE  Held(q)' /\ Alone(q)'
  BY DEF Places
<1>4. Held(q) /\ Alone(q)
  BY DEF Places
<1>5. CASE q # p
  <2>1. (q \in free' <=> q \in free) /\ \A c \in Client, i \in Nat : On(q, c, i)' <=> On(q, c, i)
    BY <1>2, <1>3, <1>5
  <2>2. Held(q)'
    BY <1>3, <1>4, <2>1 DEF Held
  <2>3. Alone(q)'
    BY <1>3, <1>4, <2>1 DEF Alone
  <2> QED BY <2>2, <2>3
<1>6. CASE q = p
  <2>1. q \in free /\ q \notin free'
    BY <1>3, <1>6
  <2>2. \A c \in Client : writing[c] # q /\ \A i \in Nat : ~On(q, c, i)
    BY <1>4, <2>1 DEF Alone
  <2>3. \A c \in Client, i \in Nat : On(q, c, i)' <=> c = a /\ i = l
    BY <1>2, <1>6, <2>2
  <2>4. Held(q)'
    BY <1>1, <2>3 DEF Held
  <2>5. Alone(q)'
    BY <1>3, <2>1, <2>2, <2>3 DEF Alone
  <2> QED BY <2>4, <2>5
<1> QED BY <1>5, <1>6

(* What ReplyLoopWrite does to an OutQ.                                     *)
LEMMA WriteOn ==
  ASSUME ReplyTypeOK, NEW c \in Client, ReplyLoopWrite(c)
  PROVE  /\ Head(outQ[c]) \in Pkt
         /\ Len(outQ[c]) \in Nat \ {0} /\ Len(outQ'[c]) = Len(outQ[c]) - 1
         /\ Head(outQ[c]) = outQ[c][1]
         /\ \A i \in 1..(Len(outQ[c]) - 1) : outQ'[c][i] = outQ[c][i + 1]
         /\ \A d \in Client \ {c} : outQ'[d] = outQ[d]
<1>1. outQ \in [Client -> Seq(Pkt)] /\ outQ[c] \in Seq(Pkt) /\ outQ[c] # << >>
  BY DEF ReplyTypeOK, ReplyLoopWrite
<1>2. outQ' = [outQ EXCEPT ![c] = Tail(outQ[c])]
  BY DEF ReplyLoopWrite
<1>3. outQ'[c] = Tail(outQ[c]) /\ \A d \in Client \ {c} : outQ'[d] = outQ[d]
  BY <1>1, <1>2
<1>4. Len(outQ[c]) \in Nat \ {0}
  BY <1>1, LenProperties, EmptySeq
<1>5. Head(outQ[c]) \in Pkt /\ Head(outQ[c]) = outQ[c][1]
  BY <1>1, HeadTailProperties
<1>6. /\ Len(Tail(outQ[c])) = Len(outQ[c]) - 1
      /\ \A i \in 1..(Len(outQ[c]) - 1) : Tail(outQ[c])[i] = outQ[c][i + 1]
  BY <1>1, <1>4
<1> QED BY <1>3, <1>4, <1>5, <1>6

LEMMA WritePlaces ==
  ASSUME ReplyTypeOK, Places, NEW c \in Client, ReplyLoopWrite(c)
  PROVE  Places'
<1> DEFINE p == Head(outQ[c])
<1>1. p \in Pkt /\ On(p, c, 1)
  BY WriteOn DEF On
<1>2. /\ writing[c] = Nothing /\ free' = free /\ writing'[c] = p
      /\ \A d \in Client \ {c} : writing'[d] = writing[d]
  BY DEF ReplyLoopWrite, ReplyTypeOK
<1>3. \A q \in Pkt, i \in Nat : On(q, c, i)' <=> i # 0 /\ On(q, c, i + 1)
  <2> DEFINE L == Len(outQ[c])
  <2>1. L \in Nat \ {0} /\ Len(outQ'[c]) = L - 1 /\ \A i \in 1..(L - 1) : outQ'[c][i] = outQ[c][i + 1]
    BY WriteOn
  <2>2. \A i \in Nat : i \in 1..(L - 1) <=> i # 0 /\ i + 1 \in 1..L
    BY <2>1
  <2>3. \A q, i : On(q, c, i) <=> i \in 1..L /\ outQ[c][i] = q
    BY DEF On
  <2>4. \A q, i : On(q, c, i)' <=> i \in 1..(L - 1) /\ outQ'[c][i] = q
    BY <2>1 DEF On
  <2> HIDE DEF L
  <2>5. ASSUME NEW q \in Pkt, NEW i \in Nat
        PROVE  On(q, c, i)' <=> i # 0 /\ On(q, c, i + 1)
    <3>1. On(q, c, i)' <=> i \in 1..(L - 1) /\ outQ'[c][i] = q
      BY <2>4
    <3>2. On(q, c, i + 1) <=> i + 1 \in 1..L /\ outQ[c][i + 1] = q
      BY <2>3
    <3>3. i \in 1..(L - 1) <=> i # 0 /\ i + 1 \in 1..L
      BY <2>2
    <3>4. i \in 1..(L - 1) => outQ'[c][i] = outQ[c][i + 1]
      BY <2>1
    <3> QED BY <3>1, <3>2, <3>3, <3>4
  <2> QED BY <2>5
<1>4. \A q \in Pkt, i \in Nat, d \in Client \ {c} : On(q, d, i)' <=> On(q, d, i)
  BY WriteOn DEF On
<1>5. \A q \in Pkt \ {p} : ~On(q, c, 1)
  BY WriteOn DEF On
<1>6. \A q \in Pkt : ~On(q, c, 0)
  BY WriteOn DEF On
<1> HIDE DEF p
<1> SUFFICES ASSUME NEW q \in Pkt \ {NilPacket}
             PROVE  Held(q)' /\ Alone(q)'
  BY DEF Places
<1>7. Held(q) /\ Alone(q) /\ q # Nothing
  BY ReplyPathAssumption DEF Places
<1>8. CASE q # p
  <2>1. \A d \in Client : writing'[d] = q <=> writing[d] = q
    BY <1>2, <1>7, <1>8
  <2>2. ~On(q, c, 0) /\ ~On(q, c, 1)
    BY <1>5, <1>6, <1>8
  <2>3. \A i \in Nat : On(q, c, i) => i - 1 \in Nat /\ On(q, c, i - 1)'
    <3>1. \A i \in Nat : On(q, c, i) => i # 0 /\ i # 1
      BY <2>2
    <3>2. \A i \in Nat : i # 0 /\ i # 1 => i - 1 \in Nat /\ i - 1 # 0 /\ (i - 1) + 1 = i
      OBVIOUS
    <3>3. ASSUME NEW i \in Nat, On(q, c, i) PROVE i - 1 \in Nat /\ On(q, c, i - 1)'
      <4>1. i - 1 \in Nat /\ i - 1 # 0 /\ (i - 1) + 1 = i
        BY <3>1, <3>2, <3>3
      <4> QED BY <1>3, <3>3, <4>1
    <3> QED BY <3>3
  <2>4. \A i \in Nat : On(q, c, i)' => i + 1 \in Nat /\ On(q, c, i + 1)
    BY <1>3
  <2>5. Held(q)'
    <3>1. CASE q \in free
      BY <1>2, <3>1 DEF Held
    <3>2. CASE \E d \in Client : writing[d] = q
      BY <2>1, <3>2 DEF Held
    <3>3. ASSUME NEW d \in Client, NEW i \in Nat, On(q, d, i) PROVE Held(q)'
      BY <1>4, <2>3, <3>3 DEF Held
    <3> QED BY <1>7, <3>1, <3>2, <3>3 DEF Held
  <2>6. \A d \in Client : (\E i \in Nat : On(q, d, i)') => \E i \in Nat : On(q, d, i)
    BY <1>4, <2>4
  <2>7. ASSUME NEW d \in Client, NEW e \in Client, NEW i \in Nat, NEW j \in Nat,
               On(q, d, i)', On(q, e, j)'
        PROVE  d = e /\ i = j
    <3> DEFINE I == IF d = c THEN i + 1 ELSE i
               J == IF e = c THEN j + 1 ELSE j
    <3>1. I \in Nat /\ J \in Nat /\ On(q, d, I) /\ On(q, e, J)
      BY <1>4, <2>4, <2>7
    <3>2. d = e /\ I = J
      BY <1>7, <3>1 DEF Alone
    <3> QED BY <3>2
  <2>8. Alone(q)'
    <3>1. q \in free => \A d \in Client : writing'[d] # q /\ \A i \in Nat : ~On(q, d, i)'
      BY <1>7, <2>1, <2>6 DEF Alone
    <3>2. \A d \in Client : writing'[d] = q =>
            \A e \in Client : (writing'[e] = q => e = d) /\ \A i \in Nat : ~On(q, e, i)'
      BY <1>7, <2>1, <2>6 DEF Alone
    <3> QED BY <1>2, <2>7, <3>1, <3>2 DEF Alone
  <2> QED BY <2>5, <2>8
<1>9. CASE q = p
  <2>1. q \notin free /\ \A d \in Client : writing[d] # q
    BY <1>1, <1>7, <1>9 DEF Alone
  <2>2. \A d \in Client, i \in Nat : On(q, d, i) => d = c /\ i = 1
    BY <1>1, <1>7, <1>9 DEF Alone
  <2>3. \A d \in Client, i \in Nat : ~On(q, d, i)'
    <3>1. ASSUME NEW i \in Nat PROVE ~(i # 0 /\ On(q, c, i + 1))
      <4>1. i # 0 => i + 1 \in Nat /\ i + 1 # 1
        OBVIOUS
      <4> QED BY <2>2, <4>1
    <3> QED BY <1>3, <1>4, <2>2, <3>1
  <2>4. Held(q)'
    BY <1>2, <1>9 DEF Held
  <2>5. \A d \in Client : writing'[d] = q => d = c
    BY <1>2, <2>1
  <2>6. Alone(q)'
    BY <1>2, <2>1, <2>3, <2>5 DEF Alone
  <2> QED BY <2>4, <2>6
<1> QED BY <1>8, <1>9

LEMMA ReleasePlaces ==
  ASSUME ReplyTypeOK, Places, NEW c \in Client, ReleaseRespPacket(c)
  PROVE  Places'
<1> DEFINE p == writing[c]
<1>1. /\ p \in Pkt /\ free' = free \cup {p} /\ writing'[c] = Nothing
      /\ \A d \in Client \ {c} : writing'[d] = writing[d]
  BY DEF ReleaseRespPacket, ReplyTypeOK
<1>2. \A q, d, i : On(q, d, i)' <=> On(q, d, i)
  BY DEF ReleaseRespPacket, On
<1>3. writing[c] = p
  OBVIOUS
<1> HIDE DEF p
<1> SUFFICES ASSUME NEW q \in Pkt \ {NilPacket}
             PROVE  Held(q)' /\ Alone(q)'
  BY DEF Places
<1>4. Held(q) /\ Alone(q) /\ q # Nothing
  BY ReplyPathAssumption DEF Places
<1>5. CASE q # p
  <2>1. (q \in free' <=> q \in free) /\ \A d \in Client : writing'[d] = q <=> writing[d] = q
    BY <1>1, <1>3, <1>4, <1>5
  <2>2. Held(q)'
    BY <1>2, <1>4, <2>1 DEF Held
  <2>3. Alone(q)'
    BY <1>2, <1>4, <2>1 DEF Alone
  <2> QED BY <2>2, <2>3
<1>6. CASE q = p
  <2>1. \A d \in Client : writing'[d] # q /\ \A i \in Nat : ~On(q, d, i)'
    BY <1>1, <1>2, <1>3, <1>4, <1>6 DEF Alone
  <2> QED BY <1>1, <1>6, <2>1 DEF Held, Alone
<1> QED BY <1>5, <1>6

(* A packet that is somewhere and nowhere else has one holder.              *)
LEMMA PlacesImply ==
  ASSUME Places
  PROVE  OneHolder
<1> SUFFICES ASSUME NEW p \in Pkt \ {NilPacket}
             PROVE  Cardinality(Holders(p)) = 1
  BY DEF OneHolder
<1>1. Held(p) /\ Alone(p)
  BY DEF Places
<1> DEFINE A == IF p \in free THEN {<<Nothing, 0>>} ELSE {}
           B == {<<c, 0>> : c \in {c \in Client : writing[c] = p}}
           Q(c) == {<<c, i>> : i \in {i \in 1..Len(outQ[c]) : outQ[c][i] = p}}
<1>2. \A x : x \in Holders(p) <=> x \in A \/ x \in B \/ \E c \in Client : x \in Q(c)
  BY DEF Holders
<1>3. \A c \in Client : Q(c) # {} => \E i \in Nat : On(p, c, i)
  BY DEF On
<1>4. \E x : Holders(p) = {x}
  <2>1. CASE p \in free
    <3>1. A = {<<Nothing, 0>>} /\ B = {}
      BY <1>1, <2>1 DEF Alone
    <3>2. \A c \in Client : Q(c) = {}
      BY <1>1, <1>3, <2>1 DEF Alone
    <3> HIDE DEF A, B, Q
    <3> QED BY <1>2, <3>1, <3>2
  <2>2. ASSUME NEW c \in Client, writing[c] = p PROVE \E x : Holders(p) = {x}
    <3>1. A = {} /\ B = {<<c, 0>>}
      BY <1>1, <2>2 DEF Alone
    <3>2. \A d \in Client : Q(d) = {}
      BY <1>1, <1>3, <2>2 DEF Alone
    <3> HIDE DEF A, B, Q
    <3> QED BY <1>2, <3>1, <3>2
  <2>3. ASSUME NEW c \in Client, NEW i \in Nat, On(p, c, i) PROVE \E x : Holders(p) = {x}
    <3>1. A = {} /\ B = {}
      BY <1>1, <2>3 DEF Alone
    <3>2. \A d \in Client \ {c} : Q(d) = {}
      BY <1>1, <1>3, <2>3 DEF Alone
    <3>3. Q(c) = {<<c, i>>}
      <4>1. \A j \in 1..Len(outQ[c]) : outQ[c][j] = p => j = i
        BY <1>1, <2>3 DEF Alone, On
      <4> QED BY <2>3, <4>1 DEF On
    <3> HIDE DEF A, B, Q
    <3> QED BY <1>2, <3>1, <3>2, <3>3
  <2> QED BY <1>1, <2>1, <2>2, <2>3 DEF Held
<1> QED BY <1>4, FS_Singleton

----------------------------------------------------------------------------
(* Replies in their places                                                  *)

LEMMA InitOrder ==
  ASSUME ReplyInit
  PROVE  InOrder
<1>1. Len(sent) = 0 /\ NumRead = 0
  BY DEF ReplyInit, NumRead
<1>2. \A c \in Client : written[c] = << >> /\ outQ[c] = << >> /\ writing[c] = Nothing
  BY DEF ReplyInit
<1>3. Counted
  <2>1. \A c \in Client : Len(written[c]) = 0 /\ Len(outQ[c]) = 0
    BY <1>2
  <2>2. \A c \in Client : Rank(c, NumRead) = 0
    BY <1>1, RankZero
  <2>3. ASSUME NEW c \in Client, NEW x, x = Len(written[c]), NEW y, y = Len(outQ[c])
        PROVE  x + y = 0
    <3>1. x = 0 /\ y = 0
      BY <2>1, <2>3
    <3> QED BY <3>1
  <2> QED BY <2>2, <2>3 DEF Counted
<1>4. NilUnused
  BY <1>2, ReplyPathAssumption DEF NilUnused, On, ReplyInit
<1>5. Typed /\ Copies
  BY <1>1, <1>2 DEF Typed, Copies
<1> QED BY <1>3, <1>4, <1>5 DEF InOrder

LEMMA NumReadType ==
  ASSUME ReplyTypeOK, Window
  PROVE  NumRead \in Nat /\ NumRead <= Len(sent) /\ Len(sent) \in Nat
<1>1. sent \in Seq(Reply) /\ r \in 0..w /\ w \in 0..BufferSize
  BY DEF ReplyTypeOK
<1>2. Len(sent) \in Nat
  BY <1>1, LenProperties
<1>3. r \in Nat /\ w \in Nat /\ r <= w /\ w <= Len(sent)
  BY <1>1, ReplyPathAssumption DEF Window
<1> QED BY <1>2, <1>3 DEF NumRead

LEMMA FillOrder ==
  ASSUME ReplyTypeOK, Window, InOrder, NEW n \in 1..BufferSize, NEW new \in [1..n -> Reply], Fill(new)
  PROVE  InOrder'
<1> DEFINE L == Len(sent)
<1>1. /\ L \in Nat /\ Len(sent') = L + n /\ n \in Nat /\ Len(new) = n
      /\ \A m \in 1..L : sent'[m] = sent[m]
  BY FillSent, ReplyPathAssumption
<1>2. UNCHANGED <<pkt, free, outQ, writing, written>> /\ r' = 0 /\ w' = n /\ r = w
  BY <1>1 DEF Fill
<1>3. NumRead \in Nat /\ NumRead <= L
  BY NumReadType
<1>4. NumRead' = NumRead
  <2>1. NumRead' = (L + n) - n + 0
    BY <1>1, <1>2 DEF NumRead
  <2>2. NumRead = L - w + w /\ w \in Nat
    BY <1>2, ReplyPathAssumption DEF NumRead, ReplyTypeOK
  <2> QED BY <1>1, <2>1, <2>2
<1> HIDE DEF L
<1>5. \A c \in Client, m \in Nat : m <= L => Rank(c, m)' = Rank(c, m)
  <2>1. ASSUME NEW c \in Client, NEW m \in Nat, m <= L PROVE Rank(c, m)' = Rank(c, m)
    <3>1. \A l \in 1..m : l \in 1..L
      BY <1>1, <2>1
    <3>2. \A l \in 1..m : sent'[l] = sent[l]
      BY <1>1, <3>1
    <3> QED BY <3>2, RankSame
  <2> QED BY <2>1
<1> SUFFICES ASSUME NoNulls'
             PROVE  NilUnused' /\ Counted' /\ Typed' /\ Copies'
  BY DEF InOrder
<1>6. \A m \in 1..L : m \in 1..(L + n)
  BY <1>1
<1>7. NoNulls
  BY <1>1, <1>6 DEF NoNulls, L
<1>8. NilUnused /\ Counted /\ Typed /\ Copies
  BY <1>7 DEF InOrder
<1>9. NilUnused' /\ Typed'
  BY <1>2, <1>8 DEF NilUnused, Typed, On
<1>10. Counted'
  <2>1. ASSUME NEW c \in Client PROVE Len(written'[c]) + Len(outQ'[c]) = Rank(c, NumRead)'
    <3>1. PICK k \in Nat : k = NumRead
      BY <1>3
    <3>2. k <= L /\ NumRead' = k
      BY <1>3, <1>4, <3>1
    <3>3. Len(written[c]) + Len(outQ[c]) = Rank(c, k)
      BY <1>8, <3>1 DEF Counted
    <3>4. Rank(c, k)' = Rank(c, k)
      BY <1>5, <3>2
    <3>5. Rank(c, NumRead)' = Rank(c, k)'
      BY <3>2 DEF Rank
    <3> QED BY <1>2, <3>3, <3>4, <3>5
  <2> QED BY <2>1 DEF Counted
<1>11. Copies'
  <2>1. ASSUME NEW c \in Client, NEW m \in 1..(L + n),
               m <= NumRead, sent'[m].to = c, sent'[m].kind = "copy"
        PROVE  OnWay(c, m, Rank(c, m))'
    <3>1. m \in 1..L /\ m \in Nat /\ m <= L
      BY <1>1, <1>3, <2>1
    <3>2. OnWay(c, m, Rank(c, m))
      BY <1>1, <1>8, <2>1, <3>1 DEF Copies, L
    <3>3. Rank(c, m)' = Rank(c, m)
      BY <1>5, <3>1
    <3> QED BY <1>2, <3>2, <3>3 DEF OnWay
  <2> QED BY <1>1, <1>4, <2>1 DEF Copies
<1> QED BY <1>9, <1>10, <1>11

(* Some facts about a state in which nothing was sent but copies and lines. *)
LEMMA OrderFacts ==
  ASSUME ReplyTypeOK, Window, Counted, NEW c \in Client, NEW n \in 1..Len(sent),
         n <= NumRead, sent[n].to = c
  PROVE  /\ Len(written[c]) \in Nat /\ Len(outQ[c]) \in Nat
         /\ Rank(c, n) \in Nat \ {0} /\ Rank(c, n) <= Len(written[c]) + Len(outQ[c])
         /\ Rank(c, n) > Len(written[c]) => Rank(c, n) - Len(written[c]) \in 1..Len(outQ[c])
<1> DEFINE A == Len(written[c])
           B == Len(outQ[c])
           k == Rank(c, n)
<1>1. A \in Nat /\ B \in Nat
  <2>1. written[c] \in Seq(Number \cup {0}) /\ outQ[c] \in Seq(Pkt)
    BY DEF ReplyTypeOK
  <2> QED BY <2>1, LenProperties
<1>2. n \in Nat \ {0} /\ NumRead \in Nat
  BY NumReadType
<1>3. k \in Nat /\ k >= 1
  BY <1>2, RankFinite, RankPositive
<1>4. k <= Rank(c, NumRead)
  BY <1>2, RankMono
<1>5. A + B = Rank(c, NumRead)
  BY DEF Counted
<1> HIDE DEF A, B, k
<1>6. k \in Nat \ {0} /\ k <= A + B /\ (k > A => k - A \in 1..B)
  BY <1>1, <1>3, <1>4, <1>5
<1> QED BY <1>1, <1>6 DEF A, B, k

LEMMA ReadOrder ==
  ASSUME ReplyTypeOK, Window, Places, InOrder, NEW p \in Pkt, ReadPacket(p)
  PROVE  InOrder'
<1>1. PICK n \in 1..Len(sent) : n = buffer[r + 1]
  BY NextReply DEF ReadPacket
<1>2. PICK a \in Client : a = sent[n].to
  BY <1>1, NextReply DEF ReadPacket, Reply
<1>3. PICK m \in Nat : m = NumRead
  BY NumReadType
<1>4. /\ n = m + 1 /\ n \in Nat
      /\ sent[n].kind \in {"line", "copy", "null"}
  <2>1. buffer[r + 1] = NumRead + 1 /\ sent[buffer[r + 1]] \in Reply
    BY NextReply DEF ReadPacket
  <2>2. sent[n] \in Reply /\ n = m + 1
    BY <1>1, <1>3, <2>1
  <2>3. sent[n].kind \in Kinds
    BY <2>2 DEF Reply
  <2>4. sent[n].kind \in {"line", "copy", "null"}
    BY <2>3, ReplyPathAssumption
  <2>5. m + 1 \in Nat
    OBVIOUS
  <2> QED BY <2>2, <2>4, <2>5
<1>5. UNCHANGED <<sent, buffer, w, writing, written>> /\ r' = r + 1
  BY DEF ReadPacket
<1>6. NumRead' = n
  <2>1. NumRead' = Len(sent) - w + (r + 1) /\ m = Len(sent) - w + r
    BY <1>3, <1>5 DEF NumRead
  <2>2. Len(sent) \in Nat /\ w \in Nat /\ r \in Nat
    BY NumReadType, ReplyPathAssumption DEF ReplyTypeOK
  <2> QED BY <1>4, <2>1, <2>2
<1>7. \A c, l : Rank(c, l)' = Rank(c, l)
  BY <1>5 DEF Rank
<1> SUFFICES ASSUME NoNulls
             PROVE  NilUnused' /\ Counted' /\ Typed' /\ Copies'
  BY <1>5 DEF InOrder, NoNulls
<1>8. NilUnused /\ Counted /\ Typed /\ Copies
  BY DEF InOrder
<1>9. sent[n].kind # "null" /\ p \in free /\ free' = free \ {p} /\ p # NilPacket
  BY <1>1, <1>8 DEF NoNulls, ReadPacket, NilUnused
<1> DEFINE d == IF sent[n].kind = "line" THEN [at |-> "buffer", cell |-> r + 1]
                ELSE [at |-> "own", reply |-> n]
<1>10. /\ pkt'[p] = [type |-> sent[n].kind, data |-> d]
       /\ \A q \in Pkt \ {p} : pkt'[q] = pkt[q]
  BY <1>1, <1>9 DEF ReadPacket, ReplyTypeOK
<1>11. outQ' = [outQ EXCEPT ![a] = Append(outQ[a], p)]
  BY <1>1, <1>2 DEF ReadPacket
<1>12. \A c \in Client : outQ[c] \in Seq(Pkt) /\ Len(outQ[c]) \in Nat
  BY LenProperties DEF ReplyTypeOK
<1>13. /\ Len(outQ'[a]) = Len(outQ[a]) + 1 /\ outQ'[a][Len(outQ[a]) + 1] = p
       /\ \A i \in 1..Len(outQ[a]) : outQ'[a][i] = outQ[a][i]
       /\ \A c \in Client \ {a} : outQ'[c] = outQ[c]
  <2>1. outQ'[a] = Append(outQ[a], p) /\ \A c \in Client \ {a} : outQ'[c] = outQ[c]
    BY <1>11 DEF ReplyTypeOK
  <2> QED BY <1>12, <2>1, AppendProperties
(* The packets that were on an OutQ keep their fields.                      *)
<1>14. \A c \in Client : \A i \in 1..Len(outQ[c]) :
         outQ'[c][i] = outQ[c][i] /\ pkt'[outQ[c][i]] = pkt[outQ[c][i]]
  <2>1. ASSUME NEW c \in Client, NEW i \in 1..Len(outQ[c])
        PROVE  outQ'[c][i] = outQ[c][i] /\ pkt'[outQ[c][i]] = pkt[outQ[c][i]]
    <3>1. outQ[c][i] \in Pkt /\ i \in Nat
      BY <1>12, ElementOfSeq
    <3>2. outQ[c][i] # p
      BY <1>9, <3>1 DEF Places, Alone, On
    <3> QED BY <1>10, <1>13, <3>1, <3>2
  <2> QED BY <2>1
<1> HIDE DEF d
<1>15. NilUnused'
  <2>1. \A c \in Client, i \in Nat : ~On(NilPacket, c, i)'
    <3>1. \A c \in Client, i \in Nat : On(NilPacket, c, i)' => On(NilPacket, c, i)
      BY <1>9, ReadOn, ReplyPathAssumption
    <3> QED BY <1>8, <3>1 DEF NilUnused
  <2> QED BY <1>5, <1>8, <1>9, <2>1 DEF NilUnused
<1>16. Counted'
  <2>1. ASSUME NEW c \in Client PROVE Len(written'[c]) + Len(outQ'[c]) = Rank(c, n)
    <3>1. Len(written[c]) + Len(outQ[c]) = Rank(c, m) /\ Len(written[c]) \in Nat
      BY <1>3, <1>8, LenProperties DEF Counted, ReplyTypeOK
    <3>2. Rank(c, n) = IF c = a THEN Rank(c, m) + 1 ELSE Rank(c, m)
      BY <1>2, <1>4, RankStep
    <3>3. Len(outQ'[c]) = IF c = a THEN Len(outQ[c]) + 1 ELSE Len(outQ[c])
      BY <1>13
    <3>4. written'[c] = written[c] /\ Len(outQ[c]) \in Nat
      BY <1>5, <1>12
    <3>5. Len(written'[c]) = Len(written[c])
      BY <3>4
    <3> DEFINE A == Len(written[c])
               B == Len(outQ[c])
               C == Len(outQ'[c])
               D == Rank(c, n)
               E == Rank(c, m)
    <3>6. /\ A \in Nat /\ B \in Nat /\ A + B = E
          /\ D = IF c = a THEN E + 1 ELSE E
          /\ C = IF c = a THEN B + 1 ELSE B
      BY <3>1, <3>2, <3>3, <3>4
    <3> HIDE DEF A, B, C, D, E
    <3>7. A + C = D
      BY <3>6
    <3> QED BY <3>5, <3>7 DEF A, B, C, D, E
  <2>2. \A c \in Client : Rank(c, NumRead)' = Rank(c, n)
    BY <1>5, <1>6 DEF Rank
  <2> QED BY <2>1, <2>2 DEF Counted
<1>17. Typed'
  <2>1. ASSUME NEW c \in Client, NEW i \in 1..Len(outQ'[c]) PROVE pkt'[outQ'[c][i]].type # "zero"
    <3>1. CASE i \in 1..Len(outQ[c])
      BY <1>8, <1>14, <3>1 DEF Typed
    <3>2. CASE i \notin 1..Len(outQ[c])
      <4>1. c = a /\ i = Len(outQ[a]) + 1
        BY <1>12, <1>13, <3>2
      <4>2. pkt'[outQ'[c][i]].type = sent[n].kind
        BY <1>10, <1>13, <4>1
      <4> QED BY <1>4, <4>2
    <3> QED BY <3>1, <3>2
  <2> QED BY <2>1 DEF Typed
<1>18. Copies'
  <2>1. ASSUME NEW c \in Client, NEW l \in 1..Len(sent), l <= n, sent[l].to = c, sent[l].kind = "copy",
               NEW k, k = Rank(c, l)
        PROVE  OnWay(c, l, k)'
    <3>1. CASE l <= m
      <4>1. OnWay(c, l, k)
        BY <1>3, <1>8, <2>1, <3>1 DEF Copies
      <4>2. k > Len(written[c]) => k - Len(written[c]) \in 1..Len(outQ[c])
        BY <1>3, <1>8, <2>1, <3>1, OrderFacts
      <4>3. k > Len(written[c]) =>
              /\ outQ'[c][k - Len(written[c])] = outQ[c][k - Len(written[c])]
              /\ pkt'[outQ[c][k - Len(written[c])]] = pkt[outQ[c][k - Len(written[c])]]
        BY <1>14, <4>2
      <4> QED BY <1>5, <4>1, <4>3 DEF OnWay
    <3>2. CASE l = n
      <4>1. c = a /\ d = [at |-> "own", reply |-> n]
        BY <1>2, <2>1, <3>2 DEF d
      <4>2. k = Rank(a, m) + 1 /\ Rank(a, m) = Len(written[a]) + Len(outQ[a])
        BY <1>2, <1>3, <1>4, <1>8, <2>1, <3>2, <4>1, RankStep DEF Counted
      <4>3. Len(written[a]) \in Nat /\ Len(outQ[a]) \in Nat
        BY <1>12, LenProperties DEF ReplyTypeOK
      <4>4. k > Len(written[a]) /\ k - Len(written[a]) = Len(outQ[a]) + 1 /\ ~(k <= Len(written[a]))
        <5> DEFINE A == Len(written[a])
                   B == Len(outQ[a])
        <5>1. A \in Nat /\ B \in Nat /\ k = (A + B) + 1
          BY <4>2, <4>3
        <5> HIDE DEF A, B
        <5>2. k > A /\ k - A = B + 1 /\ ~(k <= A)
          BY <5>1
        <5> QED BY <5>2 DEF A, B
      <4>5. pkt'[outQ'[a][k - Len(written[a])]].data = [at |-> "own", reply |-> n]
        BY <1>10, <1>13, <4>1, <4>4
      <4> QED BY <1>5, <3>2, <4>1, <4>4, <4>5 DEF OnWay
    <3>3. l <= m \/ l = n
      BY <1>4, <2>1
    <3> QED BY <3>1, <3>2, <3>3
  <2>2. ASSUME NEW c \in Client, NEW l \in 1..Len(sent), l <= n, sent[l].to = c, sent[l].kind = "copy"
        PROVE  OnWay(c, l, Rank(c, l))'
    <3>1. PICK k : k = Rank(c, l)
      OBVIOUS
    <3>2. OnWay(c, l, k)'
      BY <2>1, <2>2, <3>1
    <3>3. Rank(c, l)' = k
      BY <1>7, <3>1
    <3> QED BY <3>2, <3>3 DEF OnWay
  <2> QED BY <1>5, <1>6, <2>2 DEF Copies
<1> QED BY <1>15, <1>16, <1>17, <1>18

LEMMA WriteOrder ==
  ASSUME ReplyTypeOK, Window, Places, InOrder, NEW c \in Client, ReplyLoopWrite(c)
  PROVE  InOrder'
<1> DEFINE p == Head(outQ[c])
           A == Len(written[c])
           B == Len(outQ[c])
<1>1. UNCHANGED <<sent, buffer, r, w, pkt, free>>
  BY DEF ReplyLoopWrite
<1>2. \A e, l : Rank(e, l)' = Rank(e, l)
  BY <1>1 DEF Rank
<1>3. NumRead' = NumRead
  BY <1>1 DEF NumRead
<1> SUFFICES ASSUME NoNulls
             PROVE  NilUnused' /\ Counted' /\ Typed' /\ Copies'
  BY <1>1 DEF InOrder, NoNulls
<1>4. NilUnused /\ Counted /\ Typed /\ Copies
  BY DEF InOrder
<1>5. /\ p \in Pkt /\ B \in Nat \ {0} /\ Len(outQ'[c]) = B - 1 /\ p = outQ[c][1]
      /\ \A i \in 1..(B - 1) : outQ'[c][i] = outQ[c][i + 1]
      /\ \A e \in Client \ {c} : outQ'[e] = outQ[e]
  BY WriteOn
<1>6. A \in Nat /\ written[c] \in Seq(Number \cup {0})
  BY LenProperties DEF ReplyTypeOK
<1>7. pkt[p].type # "zero"
  <2>1. 1 \in 1..B
    BY <1>5
  <2> QED BY <1>4, <1>5, <2>1 DEF Typed
<1>8. /\ written'[c] = Append(written[c], Content(p))
      /\ \A e \in Client \ {c} : written'[e] = written[e]
  BY <1>7 DEF ReplyLoopWrite, ReplyTypeOK
<1>9. /\ Len(written'[c]) = A + 1 /\ written'[c][A + 1] = Content(p)
      /\ \A i \in 1..A : written'[c][i] = written[c][i]
  BY <1>5, <1>6, <1>8, ContentType, AppendProperties
<1>10. \A i \in 1..(B - 1) : i + 1 \in 1..B
  BY <1>5
<1>11. NilUnused'
  <2>1. /\ \A e \in Client \ {c} : writing'[e] = writing[e]
        /\ writing'[c] = p
    BY DEF ReplyLoopWrite, ReplyTypeOK
  <2>2. p # NilPacket
    <3>1. 1 \in 1..B /\ 1 \in Nat
      BY <1>5
    <3> QED BY <1>4, <1>5, <3>1 DEF NilUnused, On
  <2>3. ASSUME NEW e \in Client, NEW i \in Nat PROVE ~On(NilPacket, e, i)'
    <3>1. CASE e # c
      BY <1>4, <1>5, <3>1 DEF NilUnused, On
    <3>2. CASE e = c
      <4>1. i \in 1..(B - 1) => outQ[c][i + 1] # NilPacket
        <5>1. i \in 1..(B - 1) => i + 1 \in 1..B /\ i + 1 \in Nat
          BY <1>10
        <5> QED BY <1>4, <5>1 DEF NilUnused, On
      <4> QED BY <1>5, <3>2, <4>1 DEF On
    <3> QED BY <3>1, <3>2
  <2> QED BY <1>1, <1>4, <2>1, <2>2, <2>3 DEF NilUnused
<1>12. Counted'
  <2>1. ASSUME NEW e \in Client PROVE Len(written'[e]) + Len(outQ'[e]) = Rank(e, NumRead)
    <3>1. Len(written[e]) + Len(outQ[e]) = Rank(e, NumRead)
      BY <1>4 DEF Counted
    <3>2. CASE e # c
      BY <1>5, <1>8, <3>1, <3>2
    <3>3. CASE e = c
      <4> HIDE DEF A, B
      <4>1. (A + 1) + (B - 1) = A + B
        BY <1>5, <1>6
      <4> QED BY <1>5, <1>9, <3>1, <3>3, <4>1 DEF A, B
    <3> QED BY <3>2, <3>3
  <2>2. \A e \in Client : Rank(e, NumRead)' = Rank(e, NumRead)
    BY <1>1, <1>3 DEF Rank
  <2> QED BY <2>1, <2>2 DEF Counted
<1>13. Typed'
  <2>1. ASSUME NEW e \in Client, NEW i \in 1..Len(outQ'[e]) PROVE pkt[outQ'[e][i]].type # "zero"
    <3>1. CASE e # c
      BY <1>4, <1>5, <2>1, <3>1 DEF Typed
    <3>2. CASE e = c
      <4>1. i \in 1..(B - 1)
        BY <1>5, <2>1, <3>2
      <4>2. i + 1 \in 1..B /\ outQ'[c][i] = outQ[c][i + 1]
        BY <1>5, <1>10, <4>1
      <4> QED BY <1>4, <3>2, <4>2 DEF Typed
    <3> QED BY <3>1, <3>2
  <2> QED BY <1>1, <2>1 DEF Typed
<1>14. Copies'
  <2>1. ASSUME NEW e \in Client, NEW l \in 1..Len(sent), l <= NumRead, sent[l].to = e,
               sent[l].kind = "copy", NEW k, k = Rank(e, l)
        PROVE  OnWay(e, l, k)'
    <3>1. OnWay(e, l, k)
      BY <1>4, <2>1 DEF Copies
    <3>2. CASE e # c
      BY <1>1, <1>5, <1>8, <3>1, <3>2 DEF OnWay
    <3>3. CASE e = c
      <4>1. /\ k \in Nat \ {0} /\ k <= A + B
            /\ k > A => k - A \in 1..B
        BY <1>4, <2>1, <3>3, OrderFacts
      <4>2. CASE k <= A
        <5>1. k \in 1..A /\ k <= A + 1
          BY <1>6, <4>1, <4>2
        <5>2. written'[c][k] = l
          BY <1>9, <3>1, <3>3, <4>2, <5>1 DEF OnWay
        <5>3. ~(k > A + 1)
          BY <1>6, <4>1, <5>1
        <5> QED BY <1>9, <3>3, <5>2, <5>3 DEF OnWay
      <4>3. CASE k = A + 1
        <5>1. k > A /\ k - A = 1 /\ ~(k > A + 1)
          BY <1>6, <4>3
        <5>2. pkt[p].data = [at |-> "own", reply |-> l]
          BY <1>5, <3>1, <3>3, <5>1 DEF OnWay
        <5>3. [at |-> "own", reply |-> l] # Nothing
          <6>1. l \in Number
            BY NumReadType, ReplyPathAssumption DEF Number, ReplyTypeOK
          <6>2. [at |-> "own", reply |-> l] \in Data
            BY <6>1 DEF Data
          <6> QED BY <6>2, ReplyPathAssumption
        <5>4. Content(p) = l
          BY <5>2, <5>3 DEF Content
        <5> QED BY <1>9, <3>3, <4>3, <5>1, <5>4 DEF OnWay
      <4>4. CASE k > A + 1
        <5>1. k > A /\ k - A \in 1..B /\ ~(k <= A + 1)
          BY <1>6, <4>1, <4>4
        <5>2. k - (A + 1) \in 1..(B - 1) /\ (k - (A + 1)) + 1 = k - A
          <6> HIDE DEF A, B
          <6> QED BY <1>5, <1>6, <4>1, <4>4, <5>1
        <5>3. outQ'[c][k - (A + 1)] = outQ[c][k - A]
          BY <1>5, <5>2
        <5>4. pkt[outQ[c][k - A]].data = [at |-> "own", reply |-> l]
          BY <3>1, <3>3, <5>1 DEF OnWay
        <5> QED BY <1>1, <1>9, <3>3, <5>1, <5>3, <5>4 DEF OnWay
      <4> QED BY <1>6, <4>1, <4>2, <4>3, <4>4
    <3> QED BY <3>2, <3>3
  <2>2. ASSUME NEW e \in Client, NEW l \in 1..Len(sent), l <= NumRead, sent[l].to = e,
               sent[l].kind = "copy"
        PROVE  OnWay(e, l, Rank(e, l))'
    <3>1. PICK k : k = Rank(e, l)
      OBVIOUS
    <3>2. OnWay(e, l, k)'
      BY <2>1, <2>2, <3>1
    <3>3. Rank(e, l)' = k
      BY <1>2, <3>1
    <3> QED BY <3>2, <3>3 DEF OnWay
  <2> QED BY <1>1, <1>3, <2>2 DEF Copies
<1> QED BY <1>11, <1>12, <1>13, <1>14

LEMMA ReleaseOrder ==
  ASSUME ReplyTypeOK, Window, Places, InOrder, NEW c \in Client, ReleaseRespPacket(c)
  PROVE  InOrder'
<1>1. UNCHANGED <<sent, buffer, r, w, outQ, written>>
  BY DEF ReleaseRespPacket
<1>2. (\A e, l : Rank(e, l)' = Rank(e, l)) /\ NumRead' = NumRead
  BY <1>1 DEF Rank, NumRead
<1> SUFFICES ASSUME NoNulls
             PROVE  NilUnused' /\ Counted' /\ Typed' /\ Copies'
  BY <1>1 DEF InOrder, NoNulls
<1>3. NilUnused /\ Counted /\ Typed /\ Copies
  BY DEF InOrder
<1>4. /\ writing[c] \in Pkt \ {NilPacket} /\ free' = free \cup {writing[c]}
      /\ writing'[c] = Nothing /\ \A e \in Client \ {c} : writing'[e] = writing[e]
      /\ \A q \in Pkt \ {writing[c]} : pkt'[q] = pkt[q]
  BY <1>3 DEF ReleaseRespPacket, ReplyTypeOK, NilUnused
<1>5. NilUnused'
  BY <1>1, <1>3, <1>4, ReplyPathAssumption DEF NilUnused, On
(* The packet that is released is on no OutQ.                               *)
<1>6. \A e \in Client : \A i \in 1..Len(outQ[e]) : pkt'[outQ[e][i]] = pkt[outQ[e][i]]
  <2>1. ASSUME NEW e \in Client, NEW i \in 1..Len(outQ[e])
        PROVE  outQ[e][i] \in Pkt \ {writing[c]}
    <3>1. outQ[e] \in Seq(Pkt) /\ outQ[e][i] \in Pkt /\ i \in Nat
      BY ElementOfSeq DEF ReplyTypeOK
    <3>2. ~On(writing[c], e, i)
      BY <1>4, <3>1 DEF Places, Alone
    <3> QED BY <3>1, <3>2 DEF On
  <2> QED BY <1>4, <2>1
<1>7. Counted'
  <2>1. \A e \in Client : Rank(e, NumRead)' = Rank(e, NumRead)
    BY <1>1, <1>2 DEF Rank
  <2> QED BY <1>1, <1>3, <2>1 DEF Counted
<1>8. Typed'
  BY <1>1, <1>3, <1>6 DEF Typed
<1>9. Copies'
  <2>1. ASSUME NEW e \in Client, NEW l \in 1..Len(sent), l <= NumRead, sent[l].to = e,
               sent[l].kind = "copy"
        PROVE  OnWay(e, l, Rank(e, l))'
    <3>1. PICK k : k = Rank(e, l)
      OBVIOUS
    <3>2. OnWay(e, l, k) /\ (k > Len(written[e]) => k - Len(written[e]) \in 1..Len(outQ[e]))
      BY <1>3, <2>1, <3>1, OrderFacts DEF Copies
    <3>3. OnWay(e, l, k)'
      BY <1>1, <1>6, <3>2 DEF OnWay
    <3>4. Rank(e, l)' = k
      BY <1>2, <3>1
    <3> QED BY <3>3, <3>4 DEF OnWay
  <2> QED BY <1>1, <1>2, <2>1 DEF Copies
<1> QED BY <1>5, <1>7, <1>8, <1>9

(* Every copy that was sent and has its place among what was written is     *)
(* there.                                                                   *)
LEMMA OrderImplies ==
  ASSUME ReplyTypeOK, Window, InOrder
  PROVE  CopiesKept
<1> SUFFICES ASSUME NoNulls, NEW c \in Client
             PROVE  /\ Len(written[c]) <= Rank(c, Len(sent))
                    /\ \A n \in 1..Len(sent) :
                         sent[n].to = c /\ sent[n].kind = "copy" /\ Rank(c, n) <= Len(written[c])
                           => written[c][Rank(c, n)] = n
  BY DEF CopiesKept, NoNulls
<1>1. Counted /\ Copies
  BY DEF InOrder
<1>2. NumRead \in Nat /\ NumRead <= Len(sent) /\ Len(sent) \in Nat
  BY NumReadType
<1>3. Len(written[c]) + Len(outQ[c]) = Rank(c, NumRead) /\ Len(written[c]) \in Nat /\ Len(outQ[c]) \in Nat
  BY <1>1, LenProperties DEF Counted, ReplyTypeOK
<1>4. Rank(c, NumRead) \in Nat /\ Rank(c, Len(sent)) \in Nat /\ Rank(c, NumRead) <= Rank(c, Len(sent))
  BY <1>2, RankFinite, RankMono
<1>5. Len(written[c]) <= Rank(c, NumRead)
  <2> DEFINE A == Len(written[c])
             B == Len(outQ[c])
             C == Rank(c, NumRead)
  <2>1. A + B = C /\ A \in Nat /\ B \in Nat
    BY <1>3
  <2> HIDE DEF A, B, C
  <2>2. A <= C
    BY <2>1
  <2> QED BY <2>2 DEF A, C
<1>6. Len(written[c]) <= Rank(c, Len(sent))
  <2> DEFINE A == Len(written[c])
             C == Rank(c, NumRead)
             D == Rank(c, Len(sent))
  <2>1. A \in Nat /\ C \in Nat /\ D \in Nat /\ A <= C /\ C <= D
    BY <1>3, <1>4, <1>5
  <2> HIDE DEF A, C, D
  <2>2. A <= D
    BY <2>1
  <2> QED BY <2>2 DEF A, D
<1>7. ASSUME NEW n \in 1..Len(sent), sent[n].to = c, sent[n].kind = "copy",
             Rank(c, n) <= Len(written[c])
      PROVE  written[c][Rank(c, n)] = n
  <2>1. CASE n <= NumRead
    BY <1>1, <1>7, <2>1 DEF Copies, OnWay
  <2>2. CASE n > NumRead
    <3>1. PICK m \in Nat : n = m + 1
      <4>1. n \in Nat \ {0}
        BY <1>2
      <4> QED BY <4>1
    <3>2. NumRead <= m
      BY <1>2, <2>2, <3>1
    <3>3. Rank(c, n) = Rank(c, m) + 1 /\ Rank(c, m) \in Nat /\ Rank(c, NumRead) <= Rank(c, m)
      BY <1>2, <1>7, <3>1, <3>2, RankStep, RankFinite, RankMono
    <3> DEFINE A == Len(written[c])
               C == Rank(c, NumRead)
               D == Rank(c, m)
    <3>4. A \in Nat /\ C \in Nat /\ D \in Nat /\ A <= C /\ C <= D /\ D + 1 <= A
      BY <1>3, <1>4, <1>5, <1>7, <3>3
    <3> HIDE DEF A, C, D
    <3> QED BY <3>4
  <2> QED BY <1>2, <2>1, <2>2
<1> QED BY <1>6, <1>7

----------------------------------------------------------------------------

ReplyInv == ReplyTypeOK /\ Window /\ Places /\ InOrder

LEMMA ReplyInvNext ==
  ASSUME ReplyInv, [ReplyNext]_replyVars
  PROVE  ReplyInv'
<1>1. ASSUME NEW n \in 1..BufferSize, NEW new \in [1..n -> Reply], Fill(new) PROVE ReplyInv'
  <2>1. Places'
    BY <1>1 DEF Fill, ReplyInv, Places, Held, Alone, On
  <2> QED BY <1>1, <2>1, FillType, FillOrder DEF ReplyInv
<1>2. ASSUME NEW p \in Pkt, ReadPacket(p) PROVE ReplyInv'
  BY <1>2, ReadType, ReadPlaces, ReadOrder DEF ReplyInv
<1>3. ASSUME NEW c \in Client, ReplyLoopWrite(c) PROVE ReplyInv'
  BY <1>3, WriteType, WritePlaces, WriteOrder DEF ReplyInv
<1>4. ASSUME NEW c \in Client, ReleaseRespPacket(c) PROVE ReplyInv'
  BY <1>4, ReleaseType, ReleasePlaces, ReleaseOrder DEF ReplyInv
<1>5. CASE UNCHANGED replyVars
  <2>1. ReplyTypeOK' /\ Window' /\ Places'
    BY <1>5 DEF replyVars, ReplyInv, ReplyTypeOK, Window, Places, Held, Alone, On
  <2>2. InOrder'
    <3>1. (\A e, l : Rank(e, l)' = Rank(e, l)) /\ NumRead' = NumRead
      BY <1>5 DEF replyVars, Rank, NumRead
    <3>2. (\A e : Rank(e, NumRead)' = Rank(e, NumRead)) /\ (NoNulls' <=> NoNulls)
      BY <1>5, <3>1 DEF replyVars, Rank, NoNulls
    <3>3. NilUnused => NilUnused'
      BY <1>5 DEF replyVars, NilUnused, On
    <3>4. Counted => Counted'
      BY <1>5, <3>2 DEF replyVars, Counted
    <3>5. Typed => Typed'
      BY <1>5 DEF replyVars, Typed
    <3>6. Copies => Copies'
      BY <1>5, <3>1 DEF replyVars, Copies, OnWay
    <3> QED BY <3>2, <3>3, <3>4, <3>5, <3>6 DEF ReplyInv, InOrder
  <2> QED BY <2>1, <2>2 DEF ReplyInv
<1> QED BY <1>1, <1>2, <1>3, <1>4, <1>5 DEF ReplyNext

(* Whatever replies the backend sends, however they are read into the       *)
(* buffer, and however the ReplyLoops of any number of sessions run: a      *)
(* packet of the pool is in exactly one place, although NilPacket is put    *)
(* into the pool too; and until a null is sent, replies with memory of      *)
(* their own reach their client with their content and in their place       *)
(* (AcquireRespPacket, ReleaseRespPacket, ReadLoop, ReplyLoop).             *)
THEOREM RepliesKept == ReplySpec => [](ReplyTypeOK /\ OneHolder /\ CopiesKept)
<1>1. ReplyInit => ReplyInv
  BY InitType, InitPlaces, InitOrder DEF ReplyInv
<1>2. ReplyInv /\ [ReplyNext]_replyVars => ReplyInv'
  BY ReplyInvNext
<1>3. ReplyInv => ReplyTypeOK /\ OneHolder /\ CopiesKept
  BY PlacesImply, OrderImplies DEF ReplyInv
<1> QED BY <1>1, <1>2, <1>3, PTL DEF ReplySpec

============================================================================
