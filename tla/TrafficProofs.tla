--------------------------- MODULE TrafficProofs ---------------------------
(***************************************************************************)
(* Theorems about Traffic, for a client that sends commands made of words  *)
(* (Requests) and a gnet whose Read fails otherwise than with io.EOF when  *)
(* there are no more bytes: TCP may cut the stream anywhere, and any       *)
(* number of commands may be under way.                                    *)
(***************************************************************************)
EXTENDS Traffic, RespProofs, FiniteSetTheorems

LEMMA Adjacent ==
  ASSUME NEW S, NEW s \in Seq(S), NEW j \in 0..Len(s), NEW k \in j..Len(s)
  PROVE  From(s, j + 1) = SubSeq(s, j + 1, k) \o From(s, k + 1)
<1>1. Len(s) \in Nat
  BY LenProperties
<1>2. /\ j + 1 \in 1..Len(s) + 1 /\ k \in (j + 1) - 1..Len(s) /\ Len(s) \in k..Len(s)
  BY <1>1
<1>3. SubSeq(s, j + 1, k) \o SubSeq(s, k + 1, Len(s)) = SubSeq(s, j + 1, Len(s))
  BY <1>2, ConcatAdjacentSubSeq, Zenon
<1> QED BY <1>3 DEF From

----------------------------------------------------------------------------
(* The bytes of many commands                                               *)

WireAll(cs) == [i \in 1..Len(cs) |-> Wire(cs[i])]

LEMMA WireAllType ==
  ASSUME NEW cs \in Seq(Requests)
  PROVE  /\ WireAll(cs) \in Seq(Seq(Byte)) /\ Len(WireAll(cs)) = Len(cs)
         /\ \A i \in 1..Len(cs) : WireAll(cs)[i] = Wire(cs[i])
<1>1. \A i \in 1..Len(cs) : Wire(cs[i]) \in Seq(Byte)
  BY ReadRequest
<1> QED BY <1>1 DEF WireAll

LEMMA BytesType ==
  ASSUME NEW cs \in Seq(Requests)
  PROVE  Bytes(cs) \in Seq(Byte) /\ Len(Bytes(cs)) \in Nat
<1>1. Bytes(cs) = FlattenSeq(WireAll(cs))
  BY DEF Bytes, WireAll
<1>2. Bytes(cs) \in Seq(Byte)
  BY <1>1, WireAllType, FlattenType
<1> QED BY <1>2, LenProperties

LEMMA BytesConcat ==
  ASSUME NEW xs \in Seq(Requests), NEW ys \in Seq(Requests)
  PROVE  Bytes(xs \o ys) = Bytes(xs) \o Bytes(ys)
<1>1. xs \o ys \in Seq(Requests)
  BY ConcatProperties
<1>2. WireAll(xs \o ys) = WireAll(xs) \o WireAll(ys)
  <2> DEFINE a == WireAll(xs \o ys)
             b == WireAll(xs) \o WireAll(ys)
  <2>0. WireAll(xs) \in Seq(Seq(Byte)) /\ WireAll(ys) \in Seq(Seq(Byte))
        /\ Len(WireAll(xs)) = Len(xs) /\ Len(WireAll(ys)) = Len(ys)
        /\ Len(xs) \in Nat /\ Len(ys) \in Nat
    BY WireAllType, LenProperties
  <2>1. a \in Seq(Seq(Byte)) /\ Len(a) = Len(xs) + Len(ys)
    <3> DEFINE z == xs \o ys
    <3>1. Len(z) = Len(xs) + Len(ys) /\ z \in Seq(Requests)
      BY <1>1, ConcatProperties
    <3>2. WireAll(z) \in Seq(Seq(Byte)) /\ Len(WireAll(z)) = Len(z)
      <4> HIDE DEF z
      <4> QED BY <3>1, WireAllType
    <3> QED BY <3>1, <3>2, Zenon
  <2>2. b \in Seq(Seq(Byte)) /\ Len(b) = Len(xs) + Len(ys)
    <3> DEFINE wx == WireAll(xs)
               wy == WireAll(ys)
               T == Seq(Byte)
    <3>1. wx \in Seq(T) /\ wy \in Seq(T) /\ Len(wx) = Len(xs) /\ Len(wy) = Len(ys)
      BY <2>0
    <3>2. wx \o wy \in Seq(T) /\ Len(wx \o wy) = Len(wx) + Len(wy)
      <4> HIDE DEF wx, wy, T
      <4> QED BY <3>1, ConcatProperties
    <3> QED BY <3>1, <3>2, Zenon
  <2>3. ASSUME NEW i \in 1..Len(xs) + Len(ys)
        PROVE  a[i] = b[i]
    <3>1. a[i] = Wire((xs \o ys)[i])
      BY <1>1, <2>1, WireAllType
    <3>2. (xs \o ys)[i] = IF i <= Len(xs) THEN xs[i] ELSE ys[i - Len(xs)]
      BY ConcatProperties
    <3>3. b[i] = IF i <= Len(xs) THEN WireAll(xs)[i] ELSE WireAll(ys)[i - Len(xs)]
      BY <2>0, ConcatProperties
    <3>4. CASE i <= Len(xs)
      <4>1. i \in 1..Len(xs)
        BY <2>0, <3>4
      <4> QED BY <3>1, <3>2, <3>3, <3>4, <4>1, WireAllType
    <3>5. CASE ~(i <= Len(xs))
      <4>1. i - Len(xs) \in 1..Len(ys)
        BY <2>0, <3>5
      <4> QED BY <3>1, <3>2, <3>3, <3>5, <4>1, WireAllType
    <3> QED BY <3>4, <3>5
  <2> HIDE DEF a, b
  <2>4. a = b
    BY <2>1, <2>2, <2>3, SeqEqual
  <2> QED BY <2>4 DEF a, b
<1>3. FlattenSeq(WireAll(xs) \o WireAll(ys)) = FlattenSeq(WireAll(xs)) \o FlattenSeq(WireAll(ys))
  BY WireAllType, FlattenConcat
<1> QED BY <1>2, <1>3, Zenon DEF Bytes, WireAll

LEMMA BytesOne ==
  ASSUME NEW c \in Requests
  PROVE  Bytes(<<c>>) = Wire(c)
<1>1. Wire(c) \in Seq(Byte)
  BY ReadRequest
<1>2. WireAll(<<c>>) = <<Wire(c)>>
  BY DEF WireAll
<1>3. Bytes(<<c>>) = FlattenSeq(WireAll(<<c>>))
  BY DEF Bytes, WireAll
<1> QED BY <1>1, <1>2, <1>3, FlattenOne

LEMMA BytesNone ==
  Bytes(<< >>) = << >>
<1>1. [i \in 1..Len(<< >>) |-> Wire(<< >>[i])] = << >>
  OBVIOUS
<1> QED BY <1>1, FlattenEmpty DEF Bytes

(* The bytes of what comes after k commands                                 *)
Unread(cs, k) == Bytes(From(cs, k + 1))

LEMMA UnreadType ==
  ASSUME NEW cs \in Seq(Requests), NEW k \in 0..Len(cs)
  PROVE  From(cs, k + 1) \in Seq(Requests) /\ Unread(cs, k) \in Seq(Byte)
         /\ Len(Unread(cs, k)) \in Nat
<1>1. From(cs, k + 1) \in Seq(Requests)
  BY DEF From
<1> QED BY <1>1, BytesType DEF Unread

LEMMA UnreadNext ==
  ASSUME NEW cs \in Seq(Requests), NEW k \in Nat, k < Len(cs)
  PROVE  Unread(cs, k) = Wire(cs[k + 1]) \o Unread(cs, k + 1) /\ cs[k + 1] \in Requests
<1>1. /\ From(cs, k + 1) = <<cs[k + 1]>> \o From(cs, (k + 1) + 1)
      /\ cs[k + 1] \in Requests /\ From(cs, (k + 1) + 1) \in Seq(Requests)
      /\ <<cs[k + 1]>> \in Seq(Requests)
  BY SubSeqRecursiveFirst DEF From
<1>2. Bytes(From(cs, k + 1)) = Bytes(<<cs[k + 1]>>) \o Bytes(From(cs, (k + 1) + 1))
  BY <1>1, BytesConcat
<1> QED BY <1>1, <1>2, BytesOne DEF Unread

LEMMA UnreadSplit ==
  ASSUME NEW cs \in Seq(Requests), NEW k \in 0..Len(cs)
  PROVE  Len(Bytes(cs)) - Len(Bytes(SubSeq(cs, 1, k))) = Len(Unread(cs, k))
<1>1. /\ cs = SubSeq(cs, 1, k) \o From(cs, k + 1)
      /\ SubSeq(cs, 1, k) \in Seq(Requests) /\ From(cs, k + 1) \in Seq(Requests)
  <2>1. Len(cs) \in Nat /\ cs = From(cs, 1)
    BY LenProperties, SubSeqFull DEF From
  <2>2. 0 \in 0..Len(cs) /\ k \in 0..Len(cs) /\ 0 + 1 = 1
    BY <2>1
  <2>3. From(cs, 0 + 1) = SubSeq(cs, 0 + 1, k) \o From(cs, k + 1)
    BY <2>2, Adjacent
  <2>4. SubSeq(cs, 1, k) \in Seq(Requests) /\ From(cs, k + 1) \in Seq(Requests)
    BY <2>1 DEF From
  <2> QED BY <2>1, <2>2, <2>3, <2>4, Zenon
<1>2. Bytes(cs) = Bytes(SubSeq(cs, 1, k)) \o Unread(cs, k)
  BY <1>1, BytesConcat DEF Unread
<1>3. Bytes(SubSeq(cs, 1, k)) \in Seq(Byte) /\ Len(Bytes(SubSeq(cs, 1, k))) \in Nat
  BY <1>1, BytesType
<1>4. Unread(cs, k) \in Seq(Byte) /\ Len(Unread(cs, k)) \in Nat
  BY UnreadType
<1>5. Len(Bytes(cs)) = Len(Bytes(SubSeq(cs, 1, k))) + Len(Unread(cs, k))
  BY <1>2, <1>3, <1>4, ConcatProperties
<1> QED BY <1>3, <1>4, <1>5

LEMMA UnreadShrinks ==
  ASSUME NEW cs \in Seq(Requests), NEW k \in 0..Len(cs), NEW j \in 0..Len(cs), j <= k
  PROVE  Len(Unread(cs, k)) <= Len(Unread(cs, j))
<1> DEFINE a == SubSeq(cs, j + 1, k)
           b == From(cs, k + 1)
<1>1. a \in Seq(Requests) /\ b \in Seq(Requests)
  BY DEF From
<1>2. From(cs, j + 1) = a \o b
  <2>1. k \in j..Len(cs)
    BY LenProperties
  <2> QED BY <2>1, Adjacent
<1>3. Unread(cs, j) = Bytes(a) \o Unread(cs, k)
  BY <1>1, <1>2, BytesConcat DEF Unread
<1>4. Bytes(a) \in Seq(Byte) /\ Len(Bytes(a)) \in Nat
  BY <1>1, BytesType
<1>5. Unread(cs, k) \in Seq(Byte) /\ Len(Unread(cs, k)) \in Nat
  BY UnreadType
<1>6. Len(Unread(cs, j)) = Len(Bytes(a)) + Len(Unread(cs, k))
  BY <1>3, <1>4, <1>5, ConcatProperties
<1> QED BY <1>4, <1>5, <1>6

(* A round of onEvent reads the next command, or a part of it.              *)
LEMMA ReadStep ==
  ASSUME NEW b \in Seq(Byte), NEW n \in Seq(Byte), NEW c \in Requests, NEW u \in Seq(Byte),
         b \o n = Wire(c) \o u
  PROVE  \/ Read(b) = Short /\ Len(u) < Len(n)
         \/ \E rest \in Seq(Byte) : Read(b) = Ok(c, rest) /\ rest \o n = u
<1> DEFINE w == Wire(c)
           k == Len(b)
<1>1. w \in Seq(Byte) /\ Len(w) \in Nat /\ k \in Nat /\ Len(n) \in Nat /\ Len(u) \in Nat
  BY ReadRequest, LenProperties
<1>2. Len(b \o n) = k + Len(n) /\ Len(w \o u) = Len(w) + Len(u)
  BY <1>1, ConcatProperties
<1>3. b = SubSeq(w \o u, 1, k) /\ k <= Len(w \o u)
  <2>1. b = SubSeq(b \o n, 1, k)
    BY FromConcat
  <2> QED BY <1>1, <1>2, <2>1
<1>4. CASE k < Len(w)
  <2>1. b = SubSeq(w, 1, k)
    BY <1>1, <1>3, <1>4, PrefixOfConcat
  <2>2. Read(b) = Short
    BY <1>1, <1>4, <2>1, ReadRequest
  <2> QED BY <1>1, <1>2, <1>4, <2>2
<1>5. CASE ~(k < Len(w))
  <2> DEFINE rest == SubSeq(u, 1, k - Len(w))
  <2>1. b = w \o rest /\ k - Len(w) \in Nat /\ k - Len(w) <= Len(u)
    BY <1>1, <1>3, <1>5, PrefixOfConcat
  <2>2. rest \in Seq(Byte)
    BY <2>1
  <2> HIDE DEF rest
  <2>3. Read(b) = Ok(c, rest)
    BY <2>1, <2>2, ReadRequest
  <2>4. w \o (rest \o n) = w \o u /\ rest \o n \in Seq(Byte)
    <3>1. (w \o rest) \o n = w \o (rest \o n) /\ rest \o n \in Seq(Byte)
      <4> HIDE DEF w
      <4> QED BY <1>1, <2>2, ConcatAssociative, ConcatProperties
    <3> QED BY <2>1, <3>1, Zenon
  <2>5. rest \o n = u
    BY <1>1, <2>4, ConcatSimplifications
  <2> QED BY <2>2, <2>3, <2>5
<1> QED BY <1>4, <1>5

----------------------------------------------------------------------------
(* The stream of bytes                                                      *)

(* The number of commands dispatched                                        *)
Done == Len(dispatched)

(* The connection is closed in the middle of a command.                     *)
Cut ==
  /\ Done < Len(commands)
  /\ Len(Unread(commands, Done + 1)) < Len(net) /\ Len(net) < Len(Unread(commands, Done))

(* Some commands have been dispatched, and the rest is buffered or on the   *)
(* way.                                                                     *)
StreamInv ==
  /\ commands \in Seq(Requests) /\ net \in Seq(Byte) /\ buf \in Seq(Byte)
  /\ Done \in 0..Len(commands) /\ dispatched = SubSeq(commands, 1, Done)
  /\ loop \in {"wait", "event", "closed", "failed"}
  /\ loop = "event" => buf # << >>
  /\ loop # "closed" => buf \o net = Unread(commands, Done)
  /\ loop = "closed" => Cut

LEMMA StreamStarts ==
  ASSUME TrafficInit, commands \in Seq(Requests)
  PROVE  StreamInv
<1>1. /\ commands \in Seq(Requests) /\ net = Bytes(commands) /\ buf = << >>
      /\ dispatched = << >> /\ loop = "wait"
  BY DEF TrafficInit
<1>2. Done = 0 /\ Len(commands) \in Nat /\ Done \in 0..Len(commands)
  BY <1>1 DEF Done
<1>3. dispatched = SubSeq(commands, 1, Done)
  BY <1>1, <1>2
<1>4. From(commands, 0 + 1) = commands
  BY <1>1 DEF From
<1>5. net = Unread(commands, Done) /\ net \in Seq(Byte)
  BY <1>1, <1>2, <1>4, BytesType DEF Unread
<1>6. buf \o net = Unread(commands, Done) /\ buf \in Seq(Byte)
  BY <1>1, <1>5, ConcatEmptySeq
<1> QED BY <1>1, <1>2, <1>3, <1>5, <1>6 DEF StreamInv

LEMMA StreamArrive ==
  ASSUME StreamInv, NEW n \in 1..Len(net), OnTraffic(n)
  PROVE  StreamInv'
<1> DEFINE a == SubSeq(net, 1, n)
           b == From(net, n + 1)
<1>1. /\ loop # "closed" /\ buf' = buf \o a /\ net' = b /\ loop' = "event"
      /\ commands' = commands /\ dispatched' = dispatched
  BY DEF OnTraffic
<1>2. a \in Seq(Byte) /\ b \in Seq(Byte) /\ Len(a) = n /\ n \in Nat /\ n > 0
  BY DEF StreamInv, From
<1>3. net = a \o b
  <2>1. net \in Seq(Byte) /\ Len(net) \in Nat /\ net = From(net, 0 + 1)
    BY DEF StreamInv, From
  <2>2. 0 \in 0..Len(net) /\ n \in 0..Len(net) /\ 0 + 1 = 1
    BY <2>1
  <2>3. From(net, 0 + 1) = SubSeq(net, 0 + 1, n) \o From(net, n + 1)
    BY <2>1, <2>2, Adjacent
  <2> QED BY <2>1, <2>2, <2>3, Zenon
<1> HIDE DEF a, b
<1>4. buf \in Seq(Byte) /\ buf \o net = Unread(commands, Done)
  BY <1>1 DEF StreamInv
<1>5. (buf \o a) \o b = buf \o (a \o b) /\ buf \o a \in Seq(Byte) /\ Len(buf \o a) = Len(buf) + n
  <2>1. a \in Seq(Byte) /\ b \in Seq(Byte) /\ buf \in Seq(Byte)
    BY <1>2, <1>4
  <2>2. (buf \o a) \o b = buf \o (a \o b)
    BY <2>1, CatIs, Zenon DEF Cat
  <2>3. buf \o a \in Seq(Byte) /\ Len(buf \o a) = Len(buf) + Len(a)
    BY <2>1, ConcatProperties
  <2> QED BY <1>2, <2>2, <2>3
<1>6. buf' # << >>
  <2>1. Len(buf') = Len(buf) + n /\ Len(buf) \in Nat
    BY <1>1, <1>4, <1>5
  <2> QED BY <1>2, <2>1
<1>7. buf' \o net' = Unread(commands, Done)
  BY <1>1, <1>3, <1>4, <1>5, Zenon
<1> QED BY <1>1, <1>2, <1>5, <1>6, <1>7 DEF StreamInv, Done

(* In an event there is a next command, and it is read or cut.              *)
LEMMA StreamRead ==
  ASSUME StreamInv, loop = "event"
  PROVE  /\ Done < Len(commands) /\ commands[Done + 1] \in Requests
         /\ \/ Read(buf) = Short /\ Cut
            \/ \E rest \in Seq(Byte) : /\ Read(buf) = Ok(commands[Done + 1], rest)
                                       /\ rest \o net = Unread(commands, Done + 1)
<1> DEFINE u == Unread(commands, Done + 1)
           c == commands[Done + 1]
<1>1. /\ commands \in Seq(Requests) /\ net \in Seq(Byte) /\ buf \in Seq(Byte)
      /\ Done \in 0..Len(commands) /\ buf # << >> /\ buf \o net = Unread(commands, Done)
      /\ Len(commands) \in Nat /\ Done \in Nat
  BY DEF StreamInv
<1>2. Len(buf \o net) = Len(buf) + Len(net) /\ Len(buf) \in Nat /\ Len(net) \in Nat /\ Len(buf) > 0
  BY <1>1, ConcatProperties, EmptySeq
<1>3. Done < Len(commands)
  <2> SUFFICES ASSUME Done = Len(commands) PROVE FALSE
    BY <1>1
  <2>1. From(commands, Done + 1) = << >>
    BY <1>1 DEF From
  <2>2. buf \o net = << >>
    BY <1>1, <2>1, BytesNone DEF Unread
  <2> QED BY <1>2, <2>2
<1>4. Unread(commands, Done) = Wire(c) \o u /\ c \in Requests
  BY <1>1, <1>3, UnreadNext
<1>5. u \in Seq(Byte)
  <2>1. Done + 1 \in 0..Len(commands)
    BY <1>1, <1>3
  <2> QED BY <1>1, <2>1, UnreadType
<1>6. buf \o net = Wire(c) \o u
  BY <1>1, <1>4, Zenon
<1> HIDE DEF u, c
<1>7. \/ Read(buf) = Short /\ Len(u) < Len(net)
      \/ \E rest \in Seq(Byte) : Read(buf) = Ok(c, rest) /\ rest \o net = u
  BY <1>1, <1>4, <1>5, <1>6, ReadStep
<1>8. Len(net) < Len(Unread(commands, Done))
  BY <1>1, <1>2
<1> QED BY <1>3, <1>4, <1>7, <1>8 DEF u, c, Cut

LEMMA StreamPacket ==
  ASSUME StreamInv, OnEventPacket
  PROVE  /\ StreamInv' /\ Done' = Done + 1 /\ dispatched' = Append(dispatched, commands[Done + 1])
         /\ \E rest : Dispatch(commands[Done + 1], rest)
<1> DEFINE c == commands[Done + 1]
<1>1. loop = "event" /\ commands' = commands /\ net' = net
  BY DEF OnEventPacket
<1>2. PICK r \in {Read(buf)} : r.err = "none" /\ buf' = r.rest /\ Dispatch(r.val, r.rest)
  BY DEF OnEventPacket
<1>3. Done < Len(commands) /\ c \in Requests
  BY <1>1, StreamRead
<1>4. PICK rest \in Seq(Byte) : Read(buf) = Ok(c, rest) /\ rest \o net = Unread(commands, Done + 1)
  <2>1. Read(buf) # Short
    BY <1>2 DEF Short, Err
  <2> QED BY <1>1, <2>1, StreamRead, Zenon
<1>5. buf' = rest /\ Dispatch(c, rest)
  <2>1. Read(buf).val = c /\ Read(buf).rest = rest
    BY <1>4 DEF Ok
  <2> QED BY <1>2, <2>1
<1>6. /\ dispatched' = Append(dispatched, c)
      /\ loop' \in {"failed", "wait", "event"} /\ (loop' = "event" => rest # << >>)
  BY <1>5 DEF Dispatch, Buffered
<1>7. commands \in Seq(Requests) /\ Done \in 0..Len(commands) /\ dispatched = SubSeq(commands, 1, Done)
  BY DEF StreamInv
<1>8. dispatched' = SubSeq(commands, 1, Done + 1)
  BY <1>3, <1>6, <1>7, SubSeqNext
<1>9. Done' = Done + 1 /\ Done + 1 \in 0..Len(commands)
  BY <1>3, <1>7, <1>8 DEF Done
<1>10. net \in Seq(Byte)
  BY DEF StreamInv
<1>11. StreamInv'
  BY <1>1, <1>4, <1>5, <1>6, <1>7, <1>8, <1>9, <1>10 DEF StreamInv
<1> QED BY <1>5, <1>6, <1>9, <1>11

LEMMA StreamErr ==
  ASSUME ShortRead = {"other"}, StreamInv, OnEventErr
  PROVE  StreamInv' /\ loop' = "closed"
<1>1. /\ loop = "event" /\ commands' = commands /\ net' = net /\ dispatched' = dispatched
  BY DEF OnEventErr
<1>2. PICK r \in {Read(buf)} :
       /\ r.err # "none" /\ buf' = r.rest
       /\ loop' \in IF r.err = "short"
                      THEN {IF e = "EOF" THEN "wait" ELSE "closed" : e \in ShortRead}
                      ELSE {"closed"}
  BY DEF OnEventErr
<1>3. Read(buf) = Short /\ Cut
  <2>1. ASSUME NEW rest, Read(buf) = Ok(commands[Done + 1], rest) PROVE FALSE
    BY <1>2, <2>1 DEF Ok
  <2> QED BY <1>1, <2>1, StreamRead, Zenon
<1>4. buf' = << >>
  BY <1>2, <1>3 DEF Short, Err
<1>5. loop' = "closed"
  BY <1>2
<1> QED BY <1>1, <1>3, <1>4, <1>5 DEF StreamInv, Cut, Done

----------------------------------------------------------------------------
(* AUTH                                                                     *)

LEMMA WordData ==
  ASSUME NEW p \in Words
  PROVE  /\ p.data = Nil \/ BulkBytes(p.data)
         /\ p.type \in {"$"} \cup LineTypes /\ p = DataPacket(p.type, p.data)
<1>1. CASE \E d \in {Nil} \cup {b \in Seq(Byte) : Len(b) <= MaxBufferSize} : p = DataPacket("$", d)
  BY <1>1 DEF DataPacket, Packet, BulkBytes
<1>2. CASE \E t \in LineTypes : \E d \in {b \in Seq(Byte) : Len(b) <= MaxBufferSize /\ NoNewline(b)} :
             p = DataPacket(t, d)
  BY <1>2 DEF DataPacket, Packet, BulkBytes
<1> QED BY <1>1, <1>2, Zenon DEF Words

LEMMA BulkWords ==
  ASSUME NEW d, d = Nil \/ BulkBytes(d)
  PROVE  DataPacket("$", d) \in Words
<1>1. d \in {Nil} \cup {b \in Seq(Byte) : Len(b) <= MaxBufferSize}
  BY DEF BulkBytes
<1> QED BY <1>1, Zenon DEF Words

LEMMA AuthLetters ==
  /\ BulkBytes(<<"A">>) /\ BulkBytes(<<"a">>) /\ <<"A">> # Nil
<1>1. "A" \in Byte /\ "a" \in Byte
  BY TrafficAssumption, Zenon
<1>2. <<"A">> \in Seq(Byte) /\ <<"a">> \in Seq(Byte) /\ Len(<<"A">>) = 1 /\ Len(<<"a">>) = 1
  BY <1>1
<1>3. 1 <= MaxBufferSize
  BY Limits
<1> QED BY <1>2, <1>3, Limits DEF BulkBytes

(* Words that are written alike are the same.                               *)
LEMMA WireOnce ==
  ASSUME NEW p \in Words, NEW q \in Words, Wire(p) = Wire(q)
  PROVE  p = q
<1>1. << >> \in Seq(Byte)
  OBVIOUS
<1>2. ReadInner[Wire(p) \o << >>] = Ok(p, << >>)
  BY <1>1, WordsAre, WordIs
<1>3. ReadInner[Wire(q) \o << >>] = Ok(q, << >>)
  BY <1>1, WordsAre, WordIs
<1>4. Ok(p, << >>) = Ok(q, << >>)
  BY <1>2, <1>3, Zenon
<1> QED BY <1>4 DEF Ok

LEMMA RequestIs ==
  ASSUME NEW c \in Requests
  PROVE  /\ c.type = "*" /\ c.data = Nil /\ c.array \in Seq(Words) /\ c.array # Nil
         /\ c = Packet("*", Nil, c.array) /\ Len(c.array) \in Nat
<1>1. PICK es \in Seq(Words) : Len(es) <= MaxArray /\ c = Packet("*", Nil, es)
  BY Zenon DEF Requests
<1>2. c.array = es /\ es # Nil /\ Len(es) \in Nat
  BY <1>1, NotNil DEF Packet
<1> QED BY <1>1, <1>2 DEF Packet

(* IsAuthCmd finds what is written as AUTH.                                 *)
LEMMA AuthIs ==
  ASSUME NEW c \in Requests
  PROVE  /\ ~IsAuthCmd(c) => AuthWords(c) = << >>
         /\ IsAuthCmd(c) => /\ AuthWords(c) # << >> /\ Len(AuthWords(c)) = Len(c.array) - 1
                            /\ Len(c.array) \in Nat /\ Len(c.array) >= 2
                            /\ \A i \in 1..Len(c.array) - 1 : AuthWords(c)[i] = c.array[i + 1].data
<1> DEFINE es == c.array
           w == es[1]
           Up == DataPacket("$", <<"A">>)
           Low == DataPacket("$", <<"a">>)
           All == [i \in 1..Len(es) - 1 |-> es[i + 1].data]
           There == Len(es) > 1 /\ Wire(w) \in {Wire(Up), Wire(Low)}
<1>1. c.type = "*" /\ es \in Seq(Words) /\ es # Nil /\ Len(es) \in Nat
  BY RequestIs
<1>2. Up \in Words /\ Low \in Words
  BY AuthLetters, BulkWords
<1>3. IsAuthCmd(c) <=> There
  <2>1. CASE ~(Len(es) >= 2)
    BY <1>1, <2>1 DEF IsAuthCmd
  <2>2. CASE Len(es) >= 2
    <3>1. Len(es) > 1 /\ w \in Words
      BY <1>1, <2>2
    <3>2. w = DataPacket(w.type, w.data)
      BY <3>1, WordData
    <3>3. (w.type = "$" /\ EqualFold(w.data)) <=> w \in {Up, Low}
      <4> HIDE DEF w
      <4> QED BY <3>2 DEF EqualFold, AuthCmd, DataPacket, Packet
    <3>4. w \in {Up, Low} <=> Wire(w) \in {Wire(Up), Wire(Low)}
      <4> HIDE DEF w, Up, Low
      <4> QED BY <1>2, <3>1, WireOnce
    <3>5. IsAuthCmd(c) <=> (w.type = "$" /\ EqualFold(w.data))
      <4> HIDE DEF w
      <4> QED BY <1>1, <2>2, Zenon DEF IsAuthCmd, w, es
    <3> QED BY <3>1, <3>3, <3>4, <3>5, Zenon
  <2> QED BY <2>1, <2>2
<1>4. AuthWords(c) = IF There THEN All ELSE << >>
  BY <1>1, Zenon DEF AuthWords
<1>5. ASSUME IsAuthCmd(c)
      PROVE  /\ All # << >> /\ Len(All) = Len(es) - 1 /\ Len(es) >= 2
             /\ \A i \in 1..Len(es) - 1 : All[i] = es[i + 1].data
  <2>1. Len(es) >= 2
    BY <1>5 DEF IsAuthCmd
  <2>2. Len(es) - 1 \in Nat /\ Len(es) - 1 > 0
    BY <1>1, <2>1
  <2>3. Len(All) = Len(es) - 1
    BY <2>2
  <2>4. All # << >>
    <3> HIDE DEF All
    <3> QED BY <2>2, <2>3
  <2> QED BY <2>1, <2>3, <2>4
<1> HIDE DEF There, All
<1> QED BY <1>1, <1>3, <1>4, <1>5, Zenon

(* The users that a name may stand for                                      *)
Users(name) ==
  LET Starts == {SubSeq(name, 1, n) : n \in 0..Len(name)} IN
    {u \in {From(name, n) : n \in 1..Len(name) + 1} :
       \/ u = name /\ ~Contains(u, ".")
       \/ \E t \in Starts : ~Contains(t, ".") /\ name = t \o <<".">> \o u}

LEMMA DotIs ==
  "." \in Byte /\ <<".">> \in Seq(Byte) /\ Len(<<".">>) = 1 /\ <<".">>[1] = "."
<1>1. "." \in Byte
  BY TrafficAssumption, Zenon
<1> QED BY <1>1

LEMMA NoDot ==
  ASSUME NEW s \in Seq(Byte)
  PROVE  Contains(s, ".") <=> \E i \in 1..Len(s) : s[i] = "."
BY DEF Contains

(* A part before a dot, the dot, and the part after it                      *)
LEMMA Dotted ==
  ASSUME NEW t \in Seq(Byte), NEW u \in Seq(Byte)
  PROVE  LET s == t \o <<".">> \o u
             i == Len(t) + 1
         IN /\ s \in Seq(Byte) /\ Len(s) = i + Len(u) /\ i \in 1..Len(s) /\ s[i] = "."
            /\ \A j \in 1..Len(t) : s[j] = t[j]
            /\ From(s, i + 1) = u
<1> DEFINE a == t \o <<".">>
           s == a \o u
           i == Len(t) + 1
<1>1. /\ a \in Seq(Byte) /\ Len(a) = i /\ a[i] = "." /\ i \in Nat /\ i > 0
      /\ \A j \in 1..Len(t) : a[j] = t[j] /\ j \in 1..i
  BY DotIs
<1> HIDE DEF a, i
<1>2. s \in Seq(Byte) /\ Len(s) = i + Len(u) /\ Len(u) \in Nat /\ \A j \in 1..i : s[j] = a[j]
  BY <1>1
<1>3. From(s, i + 1) = u
  BY <1>1, FromConcat
<1>4. i \in 1..i /\ i \in 1..i + Len(u)
  BY <1>1, <1>2
<1> HIDE DEF s
<1>5. /\ s \in Seq(Byte) /\ Len(s) = i + Len(u) /\ i \in 1..Len(s) /\ s[i] = "."
      /\ \A j \in 1..Len(t) : s[j] = t[j]
  BY <1>1, <1>2, <1>4
<1> QED BY <1>3, <1>5 DEF s, a, i

(* What Untenanted leaves out ends with the first dot.                      *)
LEMMA FirstDot ==
  ASSUME NEW s \in Seq(Byte), NEW i \in 1..Len(s), s[i] = ".", \A j \in 1..i - 1 : s[j] # "."
  PROVE  SelectInSeq(s, LAMBDA b : b = ".") = i
<1> DEFINE I == {j \in 1..Len(s) : s[j] = "."}
<1>1. i \in I /\ I \in SUBSET Nat
  OBVIOUS
<1>2. \A j \in I : i <= j
  <2> SUFFICES ASSUME NEW j \in I, ~(i <= j) PROVE FALSE
    OBVIOUS
  <2>1. j \in 1..i - 1 /\ s[j] = "."
    OBVIOUS
  <2> QED BY <2>1
<1>3. Min(I) = i
  BY <1>1, <1>2, MinIs
<1> QED BY <1>1, <1>3, Zenon DEF SelectInSeq

LEMMA UntenantedIs ==
  ASSUME NEW name, BulkBytes(name)
  PROVE  /\ BulkBytes(Untenanted(name)) /\ Users(name) = {Untenanted(name)}
<1> DEFINE v == Untenanted(name)
           Starts == {SubSeq(name, 1, n) : n \in 0..Len(name)}
           Ends == {From(name, n) : n \in 1..Len(name) + 1}
           I == {j \in 1..Len(name) : name[j] = "."}
<1>1. name \in Seq(Byte) /\ name # Nil /\ Len(name) \in Nat /\ Len(name) <= MaxBufferSize
  BY BulkBytesIs DEF BulkBytes
<1>2. \A u \in Ends : u \in Seq(Byte) /\ Len(u) \in Nat /\ Len(u) <= Len(name)
  <2> SUFFICES ASSUME NEW n \in 1..Len(name) + 1
               PROVE  /\ From(name, n) \in Seq(Byte) /\ Len(From(name, n)) \in Nat
                      /\ Len(From(name, n)) <= Len(name)
    BY Zenon
  <2>1. From(name, n) \in Seq(Byte)
    BY <1>1 DEF From
  <2>2. Len(From(name, n)) = IF n <= Len(name) THEN Len(name) - n + 1 ELSE 0
    BY <1>1 DEF From
  <2> QED BY <1>1, <2>1, <2>2
<1>3. \A t \in Starts : t \in Seq(Byte)
  BY <1>1
<1>4. v = From(name, SelectInSeq(name, LAMBDA b : b = ".") + 1)
  BY <1>1, Zenon DEF Untenanted
<1>5. ASSUME I = {}
      PROVE  v \in Ends /\ Users(name) = {v}
  <2>1. SelectInSeq(name, LAMBDA b : b = ".") = 0 /\ ~Contains(name, ".")
    BY <1>1, <1>5, NoDot DEF SelectInSeq
  <2>2. v = name /\ v \in Ends
    <3>1. 0 + 1 = 1 /\ From(name, 1) = name /\ 1 \in 1..Len(name) + 1
      BY <1>1 DEF From
    <3> QED BY <1>4, <2>1, <3>1
  <2>3. ASSUME NEW u \in Ends, NEW t \in Starts, name = t \o <<".">> \o u
        PROVE  FALSE
    <3>1. Len(t) + 1 \in 1..Len(name) /\ name[Len(t) + 1] = "."
      BY <1>2, <1>3, <2>3, Dotted
    <3> QED BY <1>5, <3>1
  <2>4. Users(name) = {v}
    BY <2>1, <2>2, <2>3, Zenon DEF Users
  <2> QED BY <2>2, <2>4, Zenon
<1>6. ASSUME I # {}
      PROVE  v \in Ends /\ Users(name) = {v}
  <2>1. PICK i \in I : \A j \in I : i <= j
    <3>1. I \in SUBSET Nat
      BY <1>1
    <3> HIDE DEF I
    <3> QED BY <1>6, <3>1, LeastNat
  <2>2. i \in 1..Len(name) /\ name[i] = "." /\ \A j \in 1..i - 1 : name[j] # "."
    <3>1. i \in 1..Len(name) /\ name[i] = "." /\ i \in Nat
      BY <1>1, <2>1
    <3>2. ASSUME NEW j \in 1..i - 1, name[j] = "." PROVE FALSE
      <4>1. j \in 1..Len(name) /\ ~(i <= j)
        BY <1>1, <3>1
      <4> QED BY <2>1, <3>2, <4>1
    <3> QED BY <3>1, <3>2
  <2>3. v = From(name, i + 1)
    BY <1>1, <1>4, <2>2, FirstDot, Zenon
  <2>4. v \in Ends
    <3>1. i + 1 \in 1..Len(name) + 1
      BY <1>1, <2>2
    <3> QED BY <2>3, <3>1
  <2>5. ~(name = v /\ ~Contains(v, "."))
    BY <1>1, <2>2, NoDot
  <2> DEFINE t == SubSeq(name, 1, i - 1)
  <2>6. t \in Starts /\ ~Contains(t, ".")
    <3>1. i - 1 \in 0..Len(name)
      BY <1>1, <2>2
    <3>2. t \in Seq(Byte) /\ Len(t) = i - 1 /\ \A j \in 1..i - 1 : t[j] = name[j]
      BY <1>1, <2>2, <3>1
    <3>3. ~Contains(t, ".")
      <4> HIDE DEF t
      <4> QED BY <2>2, <3>2, NoDot
    <3> QED BY <3>1, <3>3
  <2>7. name = t \o <<".">> \o v
    <3>1. t \o <<".">> = SubSeq(name, 1, i)
      <4>1. i - 1 \in Nat /\ i - 1 < Len(name) /\ (i - 1) + 1 = i
        BY <1>1, <2>2
      <4>2. SubSeq(name, 1, i) = Append(t, name[i])
        BY <1>1, <4>1, SubSeqNext
      <4>3. t \in Seq(Byte)
        BY <1>1, <4>1
      <4> HIDE DEF t
      <4>4. t \o <<".">> = Append(t, ".")
        BY <4>3, DotIs
      <4> QED BY <2>2, <4>2, <4>4, Zenon
    <3>2. name = From(name, 0 + 1) /\ 0 \in 0..Len(name) /\ i \in 0..Len(name) /\ 0 + 1 = 1
      BY <1>1, <2>2 DEF From
    <3>3. From(name, 0 + 1) = SubSeq(name, 0 + 1, i) \o From(name, i + 1)
      BY <1>1, <3>2, Adjacent
    <3> QED BY <2>3, <3>1, <3>2, <3>3, Zenon
  <2>8. ASSUME NEW u \in Ends, NEW r \in Starts, ~Contains(r, "."), name = r \o <<".">> \o u
        PROVE  u = v
    <3> DEFINE k == Len(r) + 1
    <3>1. /\ k \in 1..Len(name) /\ name[k] = "." /\ \A j \in 1..Len(r) : name[j] = r[j]
          /\ From(name, k + 1) = u
      BY <1>2, <1>3, <2>8, Dotted
    <3>2. r \in Seq(Byte) /\ Len(r) \in Nat
      BY <1>3
    <3>3. \A j \in 1..Len(r) : r[j] # "."
      BY <2>8, <3>2, NoDot
    <3>4. \A j \in 1..k - 1 : name[j] # "."
      <4>1. k - 1 = Len(r)
        BY <3>2
      <4> QED BY <3>1, <3>3, <4>1
    <3> HIDE DEF k
    <3>5. SelectInSeq(name, LAMBDA b : b = ".") = k
      BY <1>1, <3>1, <3>4, FirstDot
    <3> QED BY <1>4, <3>1, <3>5, Zenon
  <2> HIDE DEF v, t, Starts, Ends
  <2>9. Users(name) = {v}
    <3>1. \A u \in Users(name) : u = v
      <4> SUFFICES ASSUME NEW u \in Users(name) PROVE u = v
        OBVIOUS
      <4>1. u \in Ends
        BY Zenon DEF Users, Ends
      <4>2. CASE u = name /\ ~Contains(u, ".")
        BY <1>1, <2>2, <4>2, NoDot
      <4>3. CASE \E r \in Starts : ~Contains(r, ".") /\ name = r \o <<".">> \o u
        BY <2>8, <4>1, <4>3, Zenon
      <4> QED BY <4>2, <4>3, Zenon DEF Users, Starts
    <3>2. v \in Users(name)
      BY <2>4, <2>6, <2>7, Zenon DEF Users, Starts, Ends
    <3> QED BY <3>1, <3>2, Zenon
  <2> QED BY <2>4, <2>9, Zenon
<1>7. v \in Ends /\ Users(name) = {v}
  BY <1>5, <1>6, Zenon
<1>8. BulkBytes(v)
  <2> HIDE DEF v, Ends
  <2> QED BY <1>1, <1>2, <1>7, Limits DEF BulkBytes
<1> QED BY <1>7, <1>8, Zenon

(* ToAuthInfo takes from an AUTH what the client wrote in it.               *)
LEMMA AuthInfoIs ==
  ASSUME NEW c \in Requests
  PROVE  /\ ~IsAuthCmd(c) => NamedUser(c) = {}
         /\ IsAuthCmd(c) =>
              LET a == ToAuthInfo(c)
                  words == AuthWords(c)
              IN /\ a.username = Nil \/ BulkBytes(a.username)
                 /\ a.password = Nil \/ BulkBytes(a.password)
                 /\ a.username = Nil => NamedUser(c) = {}
                 /\ a.username # Nil => NamedUser(c) = {a.username} /\ Len(words) = 2
                 /\ a.password = IF Len(words) = 2 THEN words[2] ELSE words[1]
<1>1. ASSUME ~IsAuthCmd(c)
      PROVE  NamedUser(c) = {}
  <2>1. AuthWords(c) = << >>
    BY <1>1, AuthIs
  <2>2. Len(<< >>) # 2
    OBVIOUS
  <2> QED BY <2>1, <2>2, Zenon DEF NamedUser
<1>2. ASSUME IsAuthCmd(c)
      PROVE  LET a == ToAuthInfo(c)
                 words == AuthWords(c)
             IN /\ a.username = Nil \/ BulkBytes(a.username)
                /\ a.password = Nil \/ BulkBytes(a.password)
                /\ a.username = Nil => NamedUser(c) = {}
                /\ a.username # Nil => NamedUser(c) = {a.username} /\ Len(words) = 2
                /\ a.password = IF Len(words) = 2 THEN words[2] ELSE words[1]
  <2> DEFINE es == c.array
             words == AuthWords(c)
             a == ToAuthInfo(c)
  <2>1. /\ es \in Seq(Words) /\ Len(words) = Len(es) - 1 /\ Len(es) \in Nat /\ Len(es) >= 2
        /\ \A i \in 1..Len(es) - 1 : words[i] = es[i + 1].data
    BY <1>2, AuthIs, RequestIs
  <2>2. \A i \in 1..Len(es) : es[i].data = Nil \/ BulkBytes(es[i].data)
    BY <2>1, WordData
  <2>3. words[1] = es[2].data /\ (es[2].data = Nil \/ BulkBytes(es[2].data))
    <3>1. 1 \in 1..Len(es) - 1 /\ 2 \in 1..Len(es) /\ 1 + 1 = 2
      BY <2>1
    <3> HIDE DEF es, words
    <3> QED BY <2>1, <2>2, <3>1
  <2>4. NamedUser(c) = IF Len(words) # 2 \/ words[1] = Nil THEN {} ELSE Users(words[1])
    BY Zenon DEF NamedUser, Users
  <2>5. CASE Len(es) # 3
    <3>1. Len(words) # 2
      BY <2>1, <2>5
    <3>2. a = [username |-> Nil, password |-> es[2].data]
      BY <2>5, Zenon DEF ToAuthInfo
    <3>3. a.username = Nil /\ a.password = es[2].data
      BY <3>2
    <3>4. NamedUser(c) = {}
      BY <2>4, <3>1, Zenon
    <3> QED BY <2>3, <3>1, <3>3, <3>4, Zenon
  <2>6. CASE Len(es) = 3
    <3>1. Len(words) = 2 /\ 2 \in 1..Len(es) - 1 /\ 3 \in 1..Len(es) /\ 2 + 1 = 3
      BY <2>1, <2>6
    <3>2. words[2] = es[3].data /\ (es[3].data = Nil \/ BulkBytes(es[3].data))
      <4> HIDE DEF es, words
      <4> QED BY <2>1, <2>2, <3>1
    <3>3. a = [username |-> Untenanted(es[2].data), password |-> es[3].data]
      BY <2>6, Zenon DEF ToAuthInfo
    <3>4. a.username = Untenanted(es[2].data) /\ a.password = es[3].data
      BY <3>3
    <3>5. CASE es[2].data = Nil
      <4>1. a.username = Nil /\ NamedUser(c) = {}
        BY <2>3, <2>4, <3>4, <3>5, Zenon DEF Untenanted
      <4> QED BY <3>1, <3>2, <3>4, <4>1, Zenon
    <3>6. CASE es[2].data # Nil
      <4>1. BulkBytes(a.username) /\ Users(es[2].data) = {a.username}
        BY <2>3, <3>4, <3>6, UntenantedIs, Zenon
      <4>2. a.username # Nil
        BY <4>1, BulkBytesIs, Zenon
      <4>3. NamedUser(c) = {a.username}
        BY <2>3, <2>4, <3>1, <3>6, <4>1, Zenon
      <4> QED BY <3>1, <3>2, <3>4, <4>1, <4>2, <4>3, Zenon
    <3> QED BY <3>5, <3>6
  <2> QED BY <2>5, <2>6
<1> QED BY <1>1, <1>2, Zenon

(* An AUTH as the proxy writes it                                           *)
AuthPacket(ws) == Packet("*", Nil, [j \in 1..Len(ws) |-> DataPacket("$", ws[j])])
Sent == {Packet("*", Nil, es) : es \in Seq(Words)}

LEMMA AuthPacketIs ==
  ASSUME NEW n \in Nat, n > 0, NEW ws \in Seq({d \in {Nil} \cup Seq(Byte) : d = Nil \/ BulkBytes(d)}),
         Len(ws) = n, ws[1] = AuthCmd
  PROVE  /\ AuthPacket(ws) \in Sent /\ Write(AuthPacket(ws)) = Wire(AuthPacket(ws))
         /\ CommandLabel(AuthPacket(ws)) = AuthCmd
<1> DEFINE D == {d \in {Nil} \cup Seq(Byte) : d = Nil \/ BulkBytes(d)}
           es == [j \in 1..Len(ws) |-> DataPacket("$", ws[j])]
           p == AuthPacket(ws)
<1>1. \A j \in 1..Len(ws) : ws[j] \in D /\ DataPacket("$", ws[j]) \in Words
  BY BulkWords
<1>2. es \in Seq(Words) /\ Len(es) = n /\ es[1] = DataPacket("$", AuthCmd)
  BY <1>1
<1> HIDE DEF es
<1>3. p = Packet("*", Nil, es)
  BY DEF AuthPacket, es
<1>4. p \in Sent /\ Write(p) = Wire(p)
  BY <1>2, <1>3, ArrayWritten, Zenon DEF Sent
<1>5. p.type = "*" /\ Len(p.array) > 0 /\ p.array[1].data = AuthCmd
  BY <1>2, <1>3 DEF Packet, DataPacket
<1>6. AuthCmd # Nil
  BY AuthLetters DEF AuthCmd
<1>7. CommandLabel(p) = AuthCmd
  BY <1>5, <1>6, Zenon DEF CommandLabel, GetCommand
<1> QED BY <1>4, <1>7

LEMMA NewAuthIs ==
  ASSUME NEW u, u = Nil \/ BulkBytes(u), NEW w, w = Nil \/ BulkBytes(w)
  PROVE  /\ NewAuthPacket(u, w) \in Sent
         /\ CommandLabel(NewAuthPacket(u, w)) = AuthCmd
         /\ Write(NewAuthPacket(u, w)) =
              Wire(AuthPacket(IF u = Nil THEN <<<<"A">>, w>> ELSE <<<<"A">>, u, w>>))
<1> DEFINE D == {d \in {Nil} \cup Seq(Byte) : d = Nil \/ BulkBytes(d)}
<1>1. u \in D /\ w \in D /\ AuthCmd \in D
  BY AuthLetters DEF AuthCmd, BulkBytes
<1>2. NewAuthPacket(u, w) = AuthPacket(IF u = Nil THEN <<AuthCmd, w>> ELSE <<AuthCmd, u, w>>)
  BY Zenon DEF NewAuthPacket, AuthPacket
<1> HIDE DEF D
<1>3. CASE u = Nil
  <2> DEFINE ws == <<AuthCmd, w>>
  <2>1. ws \in Seq(D) /\ Len(ws) = 2 /\ ws[1] = AuthCmd /\ 2 \in Nat /\ 2 > 0
    BY <1>1
  <2> HIDE DEF ws
  <2>2. /\ AuthPacket(ws) \in Sent /\ Write(AuthPacket(ws)) = Wire(AuthPacket(ws))
        /\ CommandLabel(AuthPacket(ws)) = AuthCmd
    BY <2>1, AuthPacketIs DEF D
  <2> QED BY <1>2, <1>3, <2>2, Zenon DEF ws, AuthCmd
<1>4. CASE u # Nil
  <2> DEFINE ws == <<AuthCmd, u, w>>
  <2>1. ws \in Seq(D) /\ Len(ws) = 3 /\ ws[1] = AuthCmd /\ 3 \in Nat /\ 3 > 0
    BY <1>1
  <2> HIDE DEF ws
  <2>2. /\ AuthPacket(ws) \in Sent /\ Write(AuthPacket(ws)) = Wire(AuthPacket(ws))
        /\ CommandLabel(AuthPacket(ws)) = AuthCmd
    BY <2>1, AuthPacketIs DEF D
  <2> QED BY <1>2, <1>4, <2>2, Zenon DEF ws, AuthCmd
<1> QED BY <1>3, <1>4

----------------------------------------------------------------------------
(* dispatch                                                                 *)

LEMMA RepliedIs ==
  ASSUME NEW u, NEW given, NEW reply, NEW h \in Replied(u, given, reply)
  PROVE  /\ h.user = u /\ h.given = given /\ h.to = << >> /\ h.reply = reply
         /\ h.err \in BOOLEAN
<1>1. PICK e \in {FALSE} \cup {"write" \in Faults} : h = Handled(u, given, << >>, reply, e)
  BY Zenon DEF Replied
<1>2. e \in BOOLEAN
  <2>1. FALSE \in BOOLEAN /\ ("write" \in Faults) \in BOOLEAN
    OBVIOUS
  <2>2. e = FALSE \/ e = ("write" \in Faults)
    BY Zenon
  <2>3. CASE e = FALSE
    BY <2>1, <2>3, Zenon
  <2>4. CASE e = ("write" \in Faults)
    BY <2>1, <2>4, Zenon
  <2> QED BY <2>2, <2>3, <2>4, Zenon
<1>3. /\ h.user = u /\ h.given = given /\ h.to = << >> /\ h.reply = reply /\ h.err = e
  BY <1>1 DEF Handled
<1> QED BY <1>2, <1>3, Zenon

LEMMA ForwardIs ==
  ASSUME NEW u, NEW p, NEW h \in Forward(u, p)
  PROVE  /\ h.user = u /\ h.given = <<p>> /\ h.err \in BOOLEAN
         /\ \/ h.to = <<p>> /\ h.reply = "none" /\ ~h.err
            \/ h.to = << >> /\ h.reply = "error"
<1>1. CASE h = Handled(u, <<p>>, <<p>>, "none", FALSE)
  <2>1. /\ h.user = u /\ h.given = <<p>> /\ h.to = <<p>> /\ h.reply = "none" /\ h.err = FALSE
    BY <1>1 DEF Handled
  <2> QED BY <2>1, Zenon
<1>2. CASE h \in Replied(u, <<p>>, "error")
  <2>1. h.user = u /\ h.given = <<p>> /\ h.to = << >> /\ h.reply = "error" /\ h.err \in BOOLEAN
    BY <1>2, RepliedIs
  <2> QED BY <2>1, Zenon
<1> QED BY <1>1, <1>2, Zenon DEF Forward

Names(c) == NamedUser(c) \notin {{}, {<< >>}}

LEMMA LoggedInNext ==
  ASSUME NEW k \in Nat
  PROVE  LoggedIn(k + 1) <=> LoggedIn(k) \/ Names(commands[k + 1])
<1>1. \A i : i \in 1..k + 1 <=> i \in 1..k \/ i = k + 1
  OBVIOUS
<1> QED BY <1>1, Zenon DEF LoggedIn, Names

(* u may be the session's user after k commands: nobody until an AUTH has   *)
(* named a user, and then that one.                                         *)
UserOf(k, u) ==
  /\ u = Nil <=> ~LoggedIn(k)
  /\ \A i \in 1..k : ~LoggedIn(i - 1) /\ LoggedIn(i) => u \in NamedUser(commands[i])

(* What LoginConverted says of the bytes                                    *)
Converted(c) ==
  LET words == AuthWords(c)
      Auth(ws) == Wire(Packet("*", Nil, [j \in 1..Len(ws) |-> DataPacket("$", ws[j])]))
  IN IF NamedUser(c) = {} /\ Len(words) = 2 THEN {Auth(<<<<"A">>, words[2]>>)}
     ELSE IF NamedUser(c) = {} THEN {Auth(<<<<"A">>, words[1]>>)}
     ELSE {Auth(<<<<"A">>, u, words[2]>>) : u \in NamedUser(c)}

(* o is what may have become of command i.                                  *)
OutcomeOf(i, o) ==
  /\ (o.reply = "noauth") <=> ~LoggedIn(i - 1) /\ AuthWords(commands[i]) = << >>
  /\ LoggedIn(i - 1) /\ o.to # << >> => o.to = <<commands[i]>>
  /\ ~LoggedIn(i - 1) /\ o.to # << >> => Write(o.to[1]) \in Converted(commands[i])

Outcomes == [to : Seq(Sent), reply : {"none", "error", "noauth"}]
OutcomeFor(h) == [to |-> h.to, reply |-> h.reply]

LEMMA OutcomeType ==
  ASSUME NEW h, NEW p \in Sent, h.to \in {<< >>, <<p>>}, h.reply \in {"none", "error", "noauth"}
  PROVE  OutcomeFor(h) \in Outcomes
<1>1. h.to \in Seq(Sent)
  <2>1. << >> \in Seq(Sent) /\ <<p>> \in Seq(Sent)
    OBVIOUS
  <2> QED BY <2>1
<1> QED BY <1>1 DEF OutcomeFor, Outcomes

(* The name under which the forwarding of command i is counted              *)
SentAs(i) == IF LoggedIn(i - 1) THEN CommandLabel(commands[i]) ELSE AuthCmd

LEMMA ConvertedIs ==
  ASSUME NEW c \in Requests, IsAuthCmd(c)
  PROVE  LET a == ToAuthInfo(c) IN
           /\ NewAuthPacket(a.username, a.password) \in Sent
           /\ CommandLabel(NewAuthPacket(a.username, a.password)) = AuthCmd
           /\ Write(NewAuthPacket(a.username, a.password)) \in Converted(c)
<1> DEFINE u == ToAuthInfo(c).username
           w == ToAuthInfo(c).password
           words == AuthWords(c)
<1>1. /\ u = Nil \/ BulkBytes(u)
      /\ w = Nil \/ BulkBytes(w)
      /\ u = Nil => NamedUser(c) = {}
      /\ u # Nil => NamedUser(c) = {u} /\ Len(words) = 2
      /\ w = IF Len(words) = 2 THEN words[2] ELSE words[1]
  BY AuthInfoIs, Zenon
<1> HIDE DEF u, w, words
<1>2. /\ NewAuthPacket(u, w) \in Sent
      /\ CommandLabel(NewAuthPacket(u, w)) = AuthCmd
      /\ Write(NewAuthPacket(u, w)) =
           Wire(AuthPacket(IF u = Nil THEN <<<<"A">>, w>> ELSE <<<<"A">>, u, w>>))
  BY <1>1, NewAuthIs, Zenon
<1>3. Converted(c) = IF NamedUser(c) = {} /\ Len(words) = 2 THEN {Wire(AuthPacket(<<<<"A">>, words[2]>>))}
                     ELSE IF NamedUser(c) = {} THEN {Wire(AuthPacket(<<<<"A">>, words[1]>>))}
                     ELSE {Wire(AuthPacket(<<<<"A">>, v, words[2]>>)) : v \in NamedUser(c)}
  BY Zenon DEF Converted, AuthPacket, words
<1>4. Write(NewAuthPacket(u, w)) \in Converted(c)
  <2>1. CASE u = Nil
    BY <1>1, <1>2, <1>3, <2>1, Zenon
  <2>2. CASE u # Nil
    <3>1. NamedUser(c) = {u} /\ u \in NamedUser(c) /\ NamedUser(c) # {} /\ w = words[2]
      BY <1>1, <2>2, Zenon
    <3>2. Converted(c) = {Wire(AuthPacket(<<<<"A">>, v, words[2]>>)) : v \in NamedUser(c)}
      BY <1>3, <3>1, Zenon
    <3> QED BY <1>2, <2>2, <3>1, <3>2, Zenon
  <2> QED BY <2>1, <2>2
<1> QED BY <1>2, <1>4, Zenon DEF u, w

(* What a dispatch does, whatever has been dispatched before.               *)
LEMMA DispatchIs ==
  ASSUME commands \in Seq(Requests), NEW k \in Nat, k < Len(commands),
         NEW u, UserOf(k, u), NEW h \in DoDispatch(u, commands[k + 1])
  PROVE  /\ UserOf(k + 1, h.user) /\ OutcomeOf(k + 1, OutcomeFor(h)) /\ OutcomeFor(h) \in Outcomes
         /\ h.err \in BOOLEAN /\ (h.err => h.reply # "none")
         /\ h.given = << >> <=> h.reply = "noauth"
         /\ h.given # << >> => CommandLabel(h.given[1]) = SentAs(k + 1)
<1> DEFINE c == commands[k + 1]
<1>1. c \in Requests /\ c \in Sent
  <2>1. k + 1 \in 1..Len(commands)
    OBVIOUS
  <2>2. c \in Requests
    BY <2>1
  <2> QED BY <2>2, RequestIs, Zenon DEF Sent
<1>2. (k + 1) - 1 = k
  OBVIOUS
<1> HIDE DEF c
<1>3. LoggedIn(k + 1) <=> LoggedIn(k) \/ Names(c)
  BY LoggedInNext, Zenon DEF c
<1>4. ASSUME NEW v, v = Nil <=> ~LoggedIn(k + 1),
             ~LoggedIn(k) /\ LoggedIn(k + 1) => v \in NamedUser(c),
             LoggedIn(k) => v = u
      PROVE  UserOf(k + 1, v)
  <2>1. ASSUME NEW i \in 1..k + 1, ~LoggedIn(i - 1), LoggedIn(i)
        PROVE  v \in NamedUser(commands[i])
    <3>1. CASE i = k + 1
      BY <1>2, <1>4, <2>1, <3>1, Zenon DEF c
    <3>2. CASE i \in 1..k
      <4>1. LoggedIn(k)
        <5>1. \A j \in 1..i : j \in 1..k
          BY <3>2
        <5> QED BY <2>1, <5>1, Zenon DEF LoggedIn
      <4> QED BY <1>4, <2>1, <3>2, <4>1, Zenon DEF UserOf
    <3> QED BY <3>1, <3>2
  <2> QED BY <1>4, <2>1, Zenon DEF UserOf
<1>5. CASE u # Nil
  <2>1. LoggedIn(k) /\ LoggedIn(k + 1)
    BY <1>3, <1>5, Zenon DEF UserOf
  <2>2. h \in Forward(u, c)
    BY <1>5, Zenon DEF DoDispatch, c
  <2>3. /\ h.user = u /\ h.given = <<c>> /\ h.err \in BOOLEAN
        /\ \/ h.to = <<c>> /\ h.reply = "none" /\ ~h.err
           \/ h.to = << >> /\ h.reply = "error"
    BY <2>2, ForwardIs
  <2>4. UserOf(k + 1, h.user)
    BY <1>4, <1>5, <2>1, <2>3, Zenon
  <2>5. OutcomeFor(h).to = h.to /\ OutcomeFor(h).reply = h.reply
    BY DEF OutcomeFor
  <2>6. OutcomeFor(h) \in Outcomes
    BY <1>1, <2>3, OutcomeType, Zenon
  <2>7. h.reply # "noauth" /\ (h.err => h.reply # "none")
    BY <2>3
  <2>8. OutcomeOf(k + 1, OutcomeFor(h))
    <3> HIDE DEF c
    <3> QED BY <1>2, <2>1, <2>3, <2>5, <2>7, Zenon DEF OutcomeOf, c
  <2>9. h.given # << >> /\ h.given[1] = c
    BY <2>3
  <2>10. SentAs(k + 1) = CommandLabel(c)
    BY <1>2, <2>1, Zenon DEF SentAs, c
  <2> QED BY <2>3, <2>4, <2>6, <2>7, <2>8, <2>9, <2>10, Zenon
<1>6. CASE u = Nil /\ ~IsAuthCmd(c)
  <2>1. ~LoggedIn(k) /\ NamedUser(c) = {} /\ AuthWords(c) = << >>
    BY <1>1, <1>6, AuthInfoIs, AuthIs, Zenon DEF UserOf
  <2>2. ~LoggedIn(k + 1)
    BY <1>3, <2>1, Zenon DEF Names
  <2>3. h \in Replied(u, << >>, "noauth")
    BY <1>6, Zenon DEF DoDispatch, c
  <2>4. /\ h.user = u /\ h.given = << >> /\ h.to = << >> /\ h.reply = "noauth" /\ h.err \in BOOLEAN
    BY <2>3, RepliedIs
  <2>5. UserOf(k + 1, h.user)
    BY <1>4, <1>6, <2>1, <2>2, <2>4, Zenon
  <2>6. OutcomeFor(h).to = << >> /\ OutcomeFor(h).reply = "noauth"
    BY <2>4 DEF OutcomeFor
  <2>7. OutcomeFor(h) \in Outcomes
    BY <2>4 DEF OutcomeFor, Outcomes
  <2>8. OutcomeOf(k + 1, OutcomeFor(h))
    BY <1>2, <2>1, <2>6, Zenon DEF OutcomeOf, c
  <2>9. "noauth" # "none"
    OBVIOUS
  <2> QED BY <2>4, <2>5, <2>7, <2>8, <2>9, Zenon
<1>7. CASE u = Nil /\ IsAuthCmd(c)
  <2> DEFINE name == ToAuthInfo(c).username
             p == NewAuthPacket(name, ToAuthInfo(c).password)
  <2>1. ~LoggedIn(k) /\ AuthWords(c) # << >>
    BY <1>1, <1>7, AuthIs, Zenon DEF UserOf
  <2>2. /\ name = Nil \/ BulkBytes(name)
        /\ name = Nil => NamedUser(c) = {}
        /\ name # Nil => NamedUser(c) = {name}
    BY <1>1, <1>7, AuthInfoIs, Zenon
  <2>3. p \in Sent /\ CommandLabel(p) = AuthCmd /\ Write(p) \in Converted(c)
    BY <1>1, <1>7, ConvertedIs, Zenon
  <2>4. h \in Forward(SetAuthInfo(u, name), p)
    BY <1>7, Zenon DEF DoDispatch, c
  <2> HIDE DEF name, p
  <2>5. /\ h.user = SetAuthInfo(u, name) /\ h.given = <<p>> /\ h.err \in BOOLEAN
        /\ \/ h.to = <<p>> /\ h.reply = "none" /\ ~h.err
           \/ h.to = << >> /\ h.reply = "error"
    BY <2>4, ForwardIs
  <2>6. UserOf(k + 1, h.user)
    <3>1. CASE name \in {Nil, << >>}
      <4>1. h.user = Nil
        BY <1>7, <2>5, <3>1, Zenon DEF SetAuthInfo
      <4>2. ~Names(c)
        BY <2>2, <3>1, Zenon DEF Names
      <4> QED BY <1>3, <1>4, <2>1, <4>1, <4>2, Zenon
    <3>2. CASE name \notin {Nil, << >>}
      <4>1. h.user = name /\ name # Nil /\ name # << >>
        BY <2>5, <3>2, Zenon DEF SetAuthInfo
      <4>2. NamedUser(c) = {name}
        BY <2>2, <4>1
      <4>3. Names(c)
        BY <4>1, <4>2, Zenon DEF Names
      <4> QED BY <1>3, <1>4, <2>1, <4>1, <4>2, <4>3, Zenon
    <3> QED BY <3>1, <3>2
  <2>7. OutcomeFor(h).to = h.to /\ OutcomeFor(h).reply = h.reply
    BY DEF OutcomeFor
  <2>8. OutcomeFor(h) \in Outcomes
    BY <2>3, <2>5, OutcomeType, Zenon
  <2>9. h.reply # "noauth" /\ (h.err => h.reply # "none")
    BY <2>5
  <2>10. h.to # << >> => h.to[1] = p
    BY <2>5
  <2>11. OutcomeOf(k + 1, OutcomeFor(h))
    BY <1>2, <2>1, <2>3, <2>7, <2>9, <2>10, Zenon DEF OutcomeOf, c
  <2>12. h.given # << >> /\ h.given[1] = p
    BY <2>5
  <2>13. SentAs(k + 1) = AuthCmd
    BY <1>2, <2>1, Zenon DEF SentAs
  <2> QED BY <2>3, <2>5, <2>6, <2>8, <2>9, <2>11, <2>12, <2>13, Zenon
<1> QED BY <1>5, <1>6, <1>7

(* What became of the commands that were dispatched, and whose session it   *)
(* is.                                                                      *)
OutcomeInv ==
  /\ outcome \in Seq(Outcomes) /\ Len(outcome) = Done
  /\ UserOf(Done, user)
  /\ \A i \in 1..Done : OutcomeOf(i, outcome[i])

LEMMA SameCommands ==
  ASSUME commands' = commands
  PROVE  /\ \A n : LoggedIn(n)' <=> LoggedIn(n)
         /\ \A n, u : UserOf(n, u)' <=> UserOf(n, u)
         /\ \A i, o : OutcomeOf(i, o)' <=> OutcomeOf(i, o)
         /\ \A i : SentAs(i)' = SentAs(i)
<1>1. \A n : LoggedIn(n)' <=> LoggedIn(n)
  BY Zenon DEF LoggedIn
<1>2. \A n, u : UserOf(n, u)' <=> UserOf(n, u)
  BY <1>1, Zenon DEF UserOf
<1>3. \A i, o : OutcomeOf(i, o)' <=> OutcomeOf(i, o)
  BY <1>1, Zenon DEF OutcomeOf
<1>4. \A i : SentAs(i)' = SentAs(i)
  BY <1>1, Zenon DEF SentAs
<1> QED BY <1>1, <1>2, <1>3, <1>4

LEMMA OutcomeStarts ==
  ASSUME TrafficInit
  PROVE  OutcomeInv
<1>1. outcome = << >> /\ Done = 0 /\ user = Nil
  BY DEF TrafficInit, Done
<1>2. ~LoggedIn(0)
  BY DEF LoggedIn
<1>3. UserOf(0, Nil)
  BY <1>2 DEF UserOf
<1> QED BY <1>1, <1>3 DEF OutcomeInv

LEMMA OutcomeSame ==
  ASSUME OutcomeInv, UNCHANGED <<commands, dispatched, outcome, user>>
  PROVE  OutcomeInv'
<1>1. Done' = Done /\ outcome' = outcome /\ user' = user /\ commands' = commands
  BY DEF Done
<1>2. UserOf(Done, user)' <=> UserOf(Done, user)
  BY <1>1, SameCommands
<1>3. \A i : OutcomeOf(i, outcome[i])' <=> OutcomeOf(i, outcome[i])
  BY <1>1, SameCommands
<1> QED BY <1>1, <1>2, <1>3 DEF OutcomeInv

LEMMA OutcomeNext ==
  ASSUME StreamInv, OutcomeInv, OnEventPacket
  PROVE  OutcomeInv'
<1> DEFINE c == commands[Done + 1]
<1>1. commands' = commands /\ loop = "event"
  BY DEF OnEventPacket
<1>2. Done' = Done + 1 /\ \E rest : Dispatch(c, rest)
  BY StreamPacket
<1>3. PICK h \in DoDispatch(user, c) : outcome' = Append(outcome, OutcomeFor(h)) /\ user' = h.user
  BY <1>2, Zenon DEF Dispatch, OutcomeFor
<1>4. Done \in Nat /\ Done < Len(commands) /\ commands \in Seq(Requests)
  BY <1>1, StreamRead DEF StreamInv
<1>5. UserOf(Done, user) /\ outcome \in Seq(Outcomes) /\ Len(outcome) = Done
  BY DEF OutcomeInv
<1>6. UserOf(Done + 1, h.user) /\ OutcomeOf(Done + 1, OutcomeFor(h)) /\ OutcomeFor(h) \in Outcomes
  BY <1>3, <1>4, <1>5, DispatchIs
<1>7. UserOf(Done, user)'
  BY <1>1, <1>2, <1>3, <1>6, SameCommands
<1>8. /\ outcome' \in Seq(Outcomes) /\ Len(outcome') = Done + 1
      /\ outcome'[Done + 1] = OutcomeFor(h) /\ \A i \in 1..Done : outcome'[i] = outcome[i]
  <2> DEFINE o == OutcomeFor(h)
  <2>1. o \in Outcomes
    BY <1>6
  <2> HIDE DEF o
  <2>2. outcome' = Append(outcome, o)
    BY <1>3 DEF o
  <2>3. o = OutcomeFor(h)
    BY DEF o
  <2>4. /\ outcome' \in Seq(Outcomes) /\ Len(outcome') = Len(outcome) + 1
        /\ outcome'[Len(outcome) + 1] = o /\ \A i \in 1..Len(outcome) : outcome'[i] = outcome[i]
    BY <1>5, <2>1, <2>2, AppendProperties
  <2> QED BY <1>5, <2>3, <2>4
<1>9. ASSUME NEW i \in 1..Done + 1
      PROVE  OutcomeOf(i, outcome'[i])
  <2>1. CASE i = Done + 1
    BY <1>6, <1>8, <2>1, Zenon
  <2>2. CASE i # Done + 1
    <3>1. i \in 1..Done
      BY <1>4, <2>2
    <3>2. outcome'[i] = outcome[i] /\ OutcomeOf(i, outcome[i])
      BY <1>8, <3>1 DEF OutcomeInv
    <3> QED BY <3>2, Zenon
  <2> QED BY <2>1, <2>2
<1>10. \A i \in 1..Done' : OutcomeOf(i, outcome[i])'
  BY <1>1, <1>2, <1>9, SameCommands
<1> QED BY <1>2, <1>7, <1>8, <1>10 DEF OutcomeInv

----------------------------------------------------------------------------
(* Counting                                                                 *)

(* How often the collector was given e                                      *)
Copies(e, bag) == IF BagIn(e, bag) THEN bag[e] ELSE 0
In(e, S) == IF e \in S THEN 1 ELSE 0

Plus(A, B) == A (+) B

LEMMA CopiesIs ==
  /\ \A e : Copies(e, EmptyBag) = 0
  /\ \A e, S : Copies(e, SetToBag(S)) = In(e, S)
  /\ \A e, A, B : Copies(e, A) \in Nat /\ Copies(e, B) \in Nat =>
                    Copies(e, Plus(A, B)) = Copies(e, A) + Copies(e, B)
<1>1. \A e, S : Copies(e, SetToBag(S)) = In(e, S)
  BY DEF Copies, BagIn, BagToSet, SetToBag, In
<1>2. \A e : Copies(e, EmptyBag) = 0
  BY <1>1 DEF EmptyBag, In
<1>3. ASSUME NEW e, NEW A, NEW B, Copies(e, A) \in Nat, Copies(e, B) \in Nat
      PROVE  Copies(e, Plus(A, B)) = Copies(e, A) + Copies(e, B)
  BY <1>3 DEF Copies, BagIn, BagToSet, Plus, (+)
<1> QED BY <1>1, <1>2, <1>3

(* A sample or a count of the collector                                     *)
Entry(key, label) == [key |-> key, label |-> label]

(* What WrapForwarding and WrapDispatch give to it                          *)
ForwardingSamples(h) ==
  IF h.given = << >> THEN {}
  ELSE TrackForwardingLatency(CommandLabel(h.given[1])) \cup TrackError("forwarding_error", h.err)
DispatchSamples(p, h) ==
  {IncrementCommandCounter(CommandLabel(p))}
    \cup TrackLatency(CommandLabel(p)) \cup TrackError("dispatch_error", h.err)

LEMMA WrapDispatchIs ==
  ASSUME NEW p, NEW h
  PROVE  WrapDispatch(p, h) = Plus(SetToBag(ForwardingSamples(h)), SetToBag(DispatchSamples(p, h)))
<1>1. WrapForwarding(h) = SetToBag(ForwardingSamples(h))
  <2>1. CASE h.given = << >>
    BY <2>1, Zenon DEF WrapForwarding, ForwardingSamples, EmptyBag
  <2>2. CASE h.given # << >>
    BY <2>2, Zenon DEF WrapForwarding, ForwardingSamples
  <2> QED BY <2>1, <2>2
<1> QED BY <1>1, Zenon DEF WrapDispatch, DispatchSamples, Plus

LEMMA ForwardingSamplesAre ==
  ASSUME NEW h, NEW e
  PROVE  e \in ForwardingSamples(h) <=>
           /\ h.given # << >>
           /\ \/ e = Entry("command_forwarding_latency", CommandLabel(h.given[1]))
              \/ e = Entry("overall_forwarding_latency", Nil)
              \/ h.err /\ e = Entry("forwarding_error", Nil)
BY Zenon DEF ForwardingSamples, TrackForwardingLatency, TrackError, RecordCommandForwardingLatency,
   RecordOverallForwardingLatency, IncrementErrorCounter, AddSample, IncrCounter, Entry

LEMMA DispatchSamplesAre ==
  ASSUME NEW p, NEW h, NEW e
  PROVE  e \in DispatchSamples(p, h) <=>
           \/ e = Entry("command_count", CommandLabel(p))
           \/ e = Entry("command_end_to_end_latency", CommandLabel(p))
           \/ e = Entry("overall_end_to_end_latency", Nil)
           \/ h.err /\ e = Entry("dispatch_error", Nil)
BY Zenon DEF DispatchSamples, TrackLatency, TrackError, RecordCommandLatency, RecordOverallLatency,
   IncrementErrorCounter, IncrementCommandCounter, AddSample, IncrCounter, Entry

LEMMA SamplesOf ==
  ASSUME NEW p, NEW h, NEW w
  PROVE  LET F == ForwardingSamples(h)
             D == DispatchSamples(p, h)
             count == Entry("command_count", w)
             latency == Entry("command_end_to_end_latency", w)
             forwarding == Entry("command_forwarding_latency", w)
             overall == Entry("overall_forwarding_latency", Nil)
             ferr == Entry("forwarding_error", Nil)
             derr == Entry("dispatch_error", Nil)
         IN /\ count \notin F /\ latency \notin F /\ derr \notin F
            /\ forwarding \notin D /\ overall \notin D /\ ferr \notin D
            /\ count \in D <=> w = CommandLabel(p)
            /\ latency \in D <=> w = CommandLabel(p)
            /\ derr \in D <=> h.err
            /\ forwarding \in F <=> h.given # << >> /\ w = CommandLabel(h.given[1])
            /\ overall \in F <=> h.given # << >>
            /\ ferr \in F <=> h.given # << >> /\ h.err
<1> DEFINE F == ForwardingSamples(h)
           D == DispatchSamples(p, h)
           count == Entry("command_count", w)
           latency == Entry("command_end_to_end_latency", w)
           forwarding == Entry("command_forwarding_latency", w)
           overall == Entry("overall_forwarding_latency", Nil)
           ferr == Entry("forwarding_error", Nil)
           derr == Entry("dispatch_error", Nil)
           all == Entry("overall_end_to_end_latency", Nil)
           a == CommandLabel(p)
           b == CommandLabel(h.given[1])
<1>1. \A e : e \in F <=>
              /\ h.given # << >>
              /\ \/ e = Entry("command_forwarding_latency", b) \/ e = overall
                 \/ h.err /\ e = ferr
  BY ForwardingSamplesAre, Zenon, Zenon
<1>2. \A e : e \in D <=>
              \/ e = Entry("command_count", a)
              \/ e = Entry("command_end_to_end_latency", a)
              \/ e = all
              \/ h.err /\ e = derr
  BY DispatchSamplesAre, Zenon
<1> HIDE DEF a, b, F, D
<1>3. /\ count # Entry("command_forwarding_latency", b) /\ count # overall /\ count # ferr
      /\ latency # Entry("command_forwarding_latency", b) /\ latency # overall /\ latency # ferr
      /\ derr # Entry("command_forwarding_latency", b) /\ derr # overall /\ derr # ferr
  BY DEF Entry
<1>4. /\ forwarding # Entry("command_count", a) /\ forwarding # Entry("command_end_to_end_latency", a)
      /\ forwarding # all /\ forwarding # derr
      /\ overall # Entry("command_count", a) /\ overall # Entry("command_end_to_end_latency", a)
      /\ overall # all /\ overall # derr
      /\ ferr # Entry("command_count", a) /\ ferr # Entry("command_end_to_end_latency", a)
      /\ ferr # all /\ ferr # derr
  BY DEF Entry
<1>5. /\ count = Entry("command_count", a) <=> w = a
      /\ latency = Entry("command_end_to_end_latency", a) <=> w = a
      /\ forwarding = Entry("command_forwarding_latency", b) <=> w = b
  BY DEF Entry
<1>6. /\ count # Entry("command_end_to_end_latency", a) /\ count # all /\ count # derr
      /\ latency # Entry("command_count", a) /\ latency # all /\ latency # derr
      /\ derr # Entry("command_count", a) /\ derr # Entry("command_end_to_end_latency", a) /\ derr # all
      /\ forwarding # overall /\ forwarding # ferr /\ overall # ferr
      /\ ferr # Entry("command_forwarding_latency", b)
  BY DEF Entry
<1> HIDE DEF count, latency, forwarding, overall, ferr, derr, all
<1>7. count \notin F /\ latency \notin F /\ derr \notin F
  BY <1>1, <1>3, Zenon
<1>8. forwarding \notin D /\ overall \notin D /\ ferr \notin D
  BY <1>2, <1>4, Zenon
<1>9. /\ count \in D <=> w = a
      /\ latency \in D <=> w = a
      /\ derr \in D <=> h.err
  BY <1>2, <1>5, <1>6, Zenon
<1>10. /\ forwarding \in F <=> h.given # << >> /\ w = b
       /\ overall \in F <=> h.given # << >>
       /\ ferr \in F <=> h.given # << >> /\ h.err
  BY <1>1, <1>5, <1>6, Zenon
<1> QED BY <1>7, <1>8, <1>9, <1>10, Zenon DEF F, D, a, b, count, latency, forwarding, overall, ferr, derr

LEMMA PlusIs ==
  ASSUME NEW e, NEW A, NEW B, NEW a \in Nat, NEW b \in Nat, Copies(e, A) = a, Copies(e, B) = b
  PROVE  Copies(e, Plus(A, B)) = a + b /\ a + b \in Nat
<1>1. Copies(e, A) \in Nat /\ Copies(e, B) \in Nat
  BY Zenon
<1>2. Copies(e, Plus(A, B)) = Copies(e, A) + Copies(e, B)
  BY <1>1, CopiesIs, Zenon DEF Plus
<1> QED BY <1>2

(* A round of onEvent adds these to what was counted, and the latency of    *)
(* the event, which nothing here counts.                                    *)
LEMMA TrafficCounts ==
  ASSUME NEW p, NEW h, NEW e, NEW old, NEW new, Copies(e, old) \in Nat,
         e # Entry("overall_end_to_end_latency", Nil),
         new \in {Plus(old, WrapDispatch(p, h)),
                  Plus(Plus(old, WrapDispatch(p, h)), SetToBag({RecordOverallLatency}))}
  PROVE  /\ Copies(e, new) =
              Copies(e, old) + (In(e, ForwardingSamples(h)) + In(e, DispatchSamples(p, h)))
         /\ Copies(e, new) \in Nat
<1> DEFINE F == SetToBag(ForwardingSamples(h))
           D == SetToBag(DispatchSamples(p, h))
           L == SetToBag({RecordOverallLatency})
           bag == Plus(old, Plus(F, D))
           f == In(e, ForwardingSamples(h))
           d == In(e, DispatchSamples(p, h))
           m == Copies(e, old)
<1>1. f \in Nat /\ d \in Nat /\ m \in Nat
  BY DEF In
<1>2. Copies(e, F) = f /\ Copies(e, D) = d
  BY CopiesIs, Zenon
<1>3. Copies(e, L) = 0
  <2>1. e \notin {RecordOverallLatency}
    BY Zenon DEF RecordOverallLatency, AddSample, Entry
  <2> QED BY <2>1, CopiesIs, Zenon DEF In
<1>4. Plus(old, WrapDispatch(p, h)) = bag
  BY WrapDispatchIs, Zenon
<1>5. new = bag \/ new = Plus(bag, L)
  BY <1>4, Zenon
<1>m. Copies(e, old) = m
  OBVIOUS
<1> HIDE DEF F, D, L, f, d, m
<1>6. Copies(e, Plus(F, D)) = f + d /\ f + d \in Nat
  BY <1>1, <1>2, PlusIs
<1>7. Copies(e, bag) = m + (f + d) /\ m + (f + d) \in Nat
  <2> DEFINE B == Plus(F, D)
             n == f + d
  <2>1. Copies(e, B) = n /\ n \in Nat
    BY <1>6
  <2> HIDE DEF B, n
  <2>2. Copies(e, Plus(old, B)) = m + n /\ m + n \in Nat
    BY <1>1, <1>m, <2>1, PlusIs
  <2> QED BY <2>2, Zenon DEF B, n
<1> HIDE DEF bag
<1>8. Copies(e, Plus(bag, L)) = m + (f + d)
  <2> DEFINE n == m + (f + d)
  <2>0. 0 \in Nat
    OBVIOUS
  <2>1. n \in Nat /\ Copies(e, bag) = n
    BY <1>7
  <2> HIDE DEF n
  <2>2. Copies(e, Plus(bag, L)) = n + 0
    BY <1>3, <2>0, <2>1, PlusIs
  <2>3. n + 0 = n
    BY <2>1
  <2> QED BY <2>2, <2>3, Zenon DEF n
<1>9. Copies(e, new) = m + (f + d)
  BY <1>5, <1>7, <1>8, Zenon
<1> QED BY <1>7, <1>9, Zenon DEF m, f, d

(* Commands by name, those that were to be forwarded, by the name they have *)
(* then, and those that the event loop answered.                            *)
NamedBy(w) == {i \in 1..Done : CommandLabel(commands[i]) = w}
Given == {i \in 1..Done : outcome[i].reply # "noauth"}
GivenAs(w) == {i \in Given : SentAs(i) = w}
Answered == {i \in 1..Done : outcome[i].reply # "none"}

Tally(key, w) == Copies(Entry(key, w), metrics)

(* The counts are those of what was dispatched, for every name.             *)
MetricsInv ==
  /\ \A w : /\ Tally("command_count", w) = Cardinality(NamedBy(w))
            /\ Tally("command_end_to_end_latency", w) = Cardinality(NamedBy(w))
            /\ Tally("command_forwarding_latency", w) = Cardinality(GivenAs(w))
  /\ Tally("overall_forwarding_latency", Nil) = Cardinality(Given)
  /\ Tally("forwarding_error", Nil) \in Nat /\ Tally("dispatch_error", Nil) \in Nat
  /\ Tally("forwarding_error", Nil) <= Tally("dispatch_error", Nil)
  /\ Tally("dispatch_error", Nil) <= Cardinality(Answered)

LEMMA CountIn ==
  ASSUME NEW k \in Nat, NEW S \in SUBSET (1..k)
  PROVE  Cardinality(S) \in Nat /\ Cardinality(S \cup {k + 1}) = Cardinality(S) + 1
<1>1. IsFiniteSet(1..k)
  BY FS_Interval
<1>2. IsFiniteSet(S)
  BY <1>1, FS_Subset
<1>3. k + 1 \notin S
  OBVIOUS
<1>4. Cardinality(S) \in Nat
  BY <1>2, FS_CardinalityType
<1>5. Cardinality(S \cup {k + 1}) = Cardinality(S) + 1
  BY <1>2, <1>3, FS_AddElement
<1> QED BY <1>4, <1>5

(* One more command, which may be in a set or not                           *)
LEMMA CountNext ==
  ASSUME NEW k \in Nat, NEW S \in SUBSET (1..k), NEW T,
         \A i : i \in T => i \in S \/ i = k + 1, S \subseteq T,
         NEW n, n = IF k + 1 \in T THEN 1 ELSE 0
  PROVE  Cardinality(S) \in Nat /\ Cardinality(T) = Cardinality(S) + n
<1>1. Cardinality(S) \in Nat /\ Cardinality(S \cup {k + 1}) = Cardinality(S) + 1
  BY CountIn
<1>2. CASE k + 1 \in T
  <2>1. T = S \cup {k + 1}
    BY <1>2, Zenon
  <2> QED BY <1>1, <1>2, <2>1
<1>3. CASE k + 1 \notin T
  <2>1. T = S
    BY <1>3, Zenon
  <2> QED BY <1>1, <1>3, <2>1
<1> QED BY <1>2, <1>3

LEMMA MetricsStart ==
  ASSUME TrafficInit
  PROVE  MetricsInv
<1>1. metrics = EmptyBag /\ Done = 0 /\ 1..0 = {}
  BY DEF TrafficInit, Done
<1>2. \A w : NamedBy(w) = {} /\ GivenAs(w) = {}
  BY <1>1 DEF NamedBy, GivenAs, Given
<1>3. Given = {} /\ Answered = {}
  BY <1>1 DEF Given, Answered
<1>4. \A key, w : Tally(key, w) = 0
  BY <1>1, CopiesIs, Zenon DEF Tally
<1>5. Cardinality({}) = 0
  BY FS_EmptySet
<1> QED BY <1>2, <1>3, <1>4, <1>5 DEF MetricsInv

LEMMA CountsAre ==
  ASSUME Done \in Nat
  PROVE  /\ \A w : /\ NamedBy(w) \in SUBSET (1..Done) /\ Cardinality(NamedBy(w)) \in Nat
                   /\ GivenAs(w) \in SUBSET (1..Done) /\ Cardinality(GivenAs(w)) \in Nat
         /\ Given \in SUBSET (1..Done) /\ Cardinality(Given) \in Nat
         /\ Answered \in SUBSET (1..Done) /\ Cardinality(Answered) \in Nat
<1>1. \A w : NamedBy(w) \in SUBSET (1..Done) /\ GivenAs(w) \in SUBSET (1..Done)
  BY DEF NamedBy, GivenAs, Given
<1>2. Given \in SUBSET (1..Done) /\ Answered \in SUBSET (1..Done)
  BY DEF Given, Answered
<1> QED BY <1>1, <1>2, CountIn

LEMMA MetricsSame ==
  ASSUME Done \in Nat, MetricsInv, UNCHANGED <<commands, dispatched, outcome>>,
         \A key, w : key # "overall_end_to_end_latency" /\ Tally(key, w) \in Nat =>
                       Tally(key, w)' = Tally(key, w)
  PROVE  MetricsInv'
<1>1. Done' = Done /\ commands' = commands /\ outcome' = outcome
  BY DEF Done
<1>2. \A w : NamedBy(w)' = NamedBy(w)
  BY <1>1 DEF NamedBy
<1>3. Given' = Given /\ Answered' = Answered
  BY <1>1 DEF Given, Answered
<1>4. \A w : GivenAs(w)' = GivenAs(w)
  BY <1>1, <1>3, SameCommands DEF GivenAs
<1>5. ASSUME NEW w
      PROVE  /\ Tally("command_count", w)' = Cardinality(NamedBy(w)')
             /\ Tally("command_end_to_end_latency", w)' = Cardinality(NamedBy(w)')
             /\ Tally("command_forwarding_latency", w)' = Cardinality(GivenAs(w)')
  <2>1. /\ Tally("command_count", w) \in Nat /\ Tally("command_end_to_end_latency", w) \in Nat
        /\ Tally("command_forwarding_latency", w) \in Nat
    BY CountsAre DEF MetricsInv
  <2>2. /\ Tally("command_count", w)' = Tally("command_count", w)
        /\ Tally("command_end_to_end_latency", w)' = Tally("command_end_to_end_latency", w)
        /\ Tally("command_forwarding_latency", w)' = Tally("command_forwarding_latency", w)
    BY <2>1
  <2> QED BY <1>2, <1>4, <2>2 DEF MetricsInv
<1>6. /\ Tally("overall_forwarding_latency", Nil)' = Tally("overall_forwarding_latency", Nil)
      /\ Tally("forwarding_error", Nil)' = Tally("forwarding_error", Nil)
      /\ Tally("dispatch_error", Nil)' = Tally("dispatch_error", Nil)
  <2>1. /\ Tally("overall_forwarding_latency", Nil) \in Nat
        /\ Tally("forwarding_error", Nil) \in Nat /\ Tally("dispatch_error", Nil) \in Nat
    BY CountsAre DEF MetricsInv
  <2> QED BY <2>1
<1> QED BY <1>3, <1>5, <1>6 DEF MetricsInv

LEMMA MetricsErr ==
  ASSUME Done \in Nat, MetricsInv, OnEventErr
  PROVE  MetricsInv'
<1>1. UNCHANGED <<commands, dispatched, outcome>> /\ WrapTraffic(metrics)
  BY Zenon DEF OnEventErr
<1>2. metrics' = metrics \/ metrics' = Plus(metrics, SetToBag({RecordOverallLatency}))
  BY <1>1, Zenon DEF WrapTraffic, Plus
<1>3. ASSUME NEW key, NEW w, key # "overall_end_to_end_latency", Tally(key, w) \in Nat
      PROVE  Tally(key, w)' = Tally(key, w)
  <2> DEFINE e == Entry(key, w)
             L == SetToBag({RecordOverallLatency})
             n == Tally(key, w)
  <2>1. e \notin {RecordOverallLatency}
    <3>1. e # Entry("overall_end_to_end_latency", Nil)
      BY <1>3 DEF Entry
    <3> QED BY <3>1, Zenon DEF RecordOverallLatency, AddSample, Entry
  <2>2. Copies(e, L) = 0
    BY <2>1, CopiesIs, Zenon DEF In
  <2>3. Copies(e, metrics) = n /\ n \in Nat
    BY <1>3, Zenon DEF Tally
  <2> HIDE DEF e, L, n
  <2>4. Copies(e, Plus(metrics, L)) = n + 0 /\ n + 0 = n
    BY <2>2, <2>3, PlusIs
  <2>5. Copies(e, metrics') = n
    BY <1>2, <2>3, <2>4, Zenon DEF L
  <2> QED BY <2>5, Zenon DEF e, n, Tally
<1> QED BY <1>1, <1>3, MetricsSame

LEMMA MetricsNext ==
  ASSUME StreamInv, OutcomeInv, MetricsInv, OnEventPacket
  PROVE  MetricsInv'
<1> DEFINE c == commands[Done + 1]
           k == Done + 1
<1>1. commands' = commands /\ loop = "event"
  BY DEF OnEventPacket
<1>2. Done' = k /\ \E rest : Dispatch(c, rest)
  BY StreamPacket
<1>3. PICK h \in DoDispatch(user, c) :
         outcome' = Append(outcome, OutcomeFor(h)) /\ WrapTraffic(metrics (+) WrapDispatch(c, h))
  BY <1>2, Zenon DEF Dispatch, OutcomeFor
<1>4. Done \in Nat /\ Done < Len(commands) /\ commands \in Seq(Requests)
  BY <1>1, StreamRead DEF StreamInv
<1>5. UserOf(Done, user) /\ outcome \in Seq(Outcomes) /\ Len(outcome) = Done
  BY DEF OutcomeInv
<1>6. /\ OutcomeFor(h) \in Outcomes /\ h.err \in BOOLEAN /\ (h.err => h.reply # "none")
      /\ h.given = << >> <=> h.reply = "noauth"
      /\ h.given # << >> => CommandLabel(h.given[1]) = SentAs(k)
  BY <1>3, <1>4, <1>5, DispatchIs
<1>7. /\ outcome'[k].reply = h.reply /\ \A i \in 1..Done : outcome'[i] = outcome[i]
  <2> DEFINE o == OutcomeFor(h)
  <2>1. o \in Outcomes /\ o.reply = h.reply /\ outcome' = Append(outcome, o)
    BY <1>3, <1>6 DEF OutcomeFor
  <2> HIDE DEF o
  <2>2. /\ outcome'[Len(outcome) + 1] = o /\ \A i \in 1..Len(outcome) : outcome'[i] = outcome[i]
    BY <1>5, <2>1, AppendProperties
  <2> QED BY <1>5, <2>1, <2>2
<1> DEFINE F == ForwardingSamples(h)
           D == DispatchSamples(c, h)
<1>8. ASSUME NEW key, NEW w, key # "overall_end_to_end_latency", Tally(key, w) \in Nat
      PROVE  /\ Tally(key, w)' = Tally(key, w) + (In(Entry(key, w), F) + In(Entry(key, w), D))
             /\ Tally(key, w)' \in Nat
  <2> DEFINE e == Entry(key, w)
             new == metrics'
  <2>1. e # Entry("overall_end_to_end_latency", Nil)
    BY <1>8 DEF Entry
  <2>2. Copies(e, metrics) \in Nat
    BY <1>8, Zenon DEF Tally
  <2>3. new \in {Plus(metrics, WrapDispatch(c, h)),
                 Plus(Plus(metrics, WrapDispatch(c, h)), SetToBag({RecordOverallLatency}))}
    BY <1>3, Zenon DEF WrapTraffic, Plus
  <2> HIDE DEF e, c
  <2>4. /\ Copies(e, new) = Copies(e, metrics) + (In(e, F) + In(e, D)) /\ Copies(e, new) \in Nat
    BY <2>1, <2>2, <2>3, TrafficCounts
  <2> QED BY <2>4, Zenon DEF Tally, e
<1>r. \A i : i \in 1..k <=> i \in 1..Done \/ i = k
  BY <1>4
<1>n. k \in 1..k
  BY <1>4
<1> HIDE DEF c, F, D, k
<1>9. \A i : i \in Given' <=> i \in Given \/ (i = k /\ h.given # << >>)
  <2>1. \A i : i \in Given' <=> i \in 1..k /\ outcome'[i].reply # "noauth"
    BY <1>2, Zenon DEF Given
  <2> QED BY <1>6, <1>7, <1>r, <1>n, <1>4, <2>1 DEF Given, k
<1>10. \A w, i : i \in GivenAs(w)' <=>
         i \in GivenAs(w) \/ (i = k /\ h.given # << >> /\ w = CommandLabel(h.given[1]))
  <2>1. \A w, i : i \in GivenAs(w)' <=> i \in Given' /\ SentAs(i) = w
    BY <1>1, SameCommands DEF GivenAs
  <2>2. \A w, i : i \in GivenAs(w) <=> i \in Given /\ SentAs(i) = w
    BY Zenon DEF GivenAs
  <2> QED BY <1>6, <1>9, <2>1, <2>2, Zenon
<1>11. \A i : i \in Answered' <=> i \in Answered \/ (i = k /\ h.reply # "none")
  <2>1. \A i : i \in Answered' <=> i \in 1..k /\ outcome'[i].reply # "none"
    BY <1>2, Zenon DEF Answered
  <2> QED BY <1>7, <1>r, <1>n, <2>1 DEF Answered
<1>12. \A w, i : i \in NamedBy(w)' <=> i \in NamedBy(w) \/ (i = k /\ w = CommandLabel(c))
  <2>1. \A w, i : i \in NamedBy(w)' <=> i \in 1..k /\ CommandLabel(commands[i]) = w
    BY <1>1, <1>2, Zenon DEF NamedBy
  <2> QED BY <1>r, <1>n, <2>1, Zenon DEF NamedBy, c, k
<1>13. k = Done + 1 /\ k \notin 1..Done
  BY <1>4 DEF k
<1>14. ASSUME NEW S \in SUBSET (1..Done), NEW T, \A i : i \in T => i \in S \/ i = k, S \subseteq T
       PROVE  Cardinality(S) \in Nat /\ Cardinality(T) = Cardinality(S) + In(k, T)
  BY <1>4, <1>13, <1>14, CountNext DEF In
<1>15. ASSUME NEW w
       PROVE  /\ Tally("command_count", w)' = Cardinality(NamedBy(w)')
              /\ Tally("command_end_to_end_latency", w)' = Cardinality(NamedBy(w)')
              /\ Tally("command_forwarding_latency", w)' = Cardinality(GivenAs(w)')
  <2> DEFINE count == Entry("command_count", w)
             latency == Entry("command_end_to_end_latency", w)
             forwarding == Entry("command_forwarding_latency", w)
             N == NamedBy(w)
             G == GivenAs(w)
  <2>1. /\ count \notin F /\ latency \notin F /\ forwarding \notin D
        /\ count \in D <=> w = CommandLabel(c)
        /\ latency \in D <=> w = CommandLabel(c)
        /\ forwarding \in F <=> h.given # << >> /\ w = CommandLabel(h.given[1])
    BY SamplesOf, Zenon DEF F, D
  <2>2. N \in SUBSET (1..Done) /\ G \in SUBSET (1..Done) /\ k \notin N /\ k \notin G
    BY <1>4, <1>13, CountsAre, Zenon
  <2>3. /\ count \in D <=> k \in N'
        /\ latency \in D <=> k \in N'
        /\ forwarding \in F <=> k \in G'
    BY <1>10, <1>12, <2>1, <2>2, Zenon
  <2>4. /\ Cardinality(N) \in Nat /\ Cardinality(N') = Cardinality(N) + In(k, N')
        /\ Cardinality(G) \in Nat /\ Cardinality(G') = Cardinality(G) + In(k, G')
    <3>1. (\A i : i \in N' => i \in N \/ i = k) /\ N \subseteq N'
      BY <1>12, Zenon
    <3>2. (\A i : i \in G' => i \in G \/ i = k) /\ G \subseteq G'
      BY <1>10, Zenon
    <3> HIDE DEF N, G
    <3> QED BY <1>14, <2>2, <3>1, <3>2
  <2>5. /\ In(count, F) = 0 /\ In(count, D) = In(k, N') /\ In(latency, F) = 0
        /\ In(latency, D) = In(k, N') /\ In(forwarding, F) = In(k, G') /\ In(forwarding, D) = 0
    BY <2>1, <2>3, Zenon DEF In
  <2>6. In(k, N') \in Nat /\ In(k, G') \in Nat
    BY DEF In
  <2>7. /\ Tally("command_count", w) = Cardinality(N)
        /\ Tally("command_end_to_end_latency", w) = Cardinality(N)
        /\ Tally("command_forwarding_latency", w) = Cardinality(G)
    BY Zenon DEF MetricsInv
  <2>8. /\ Tally("command_count", w)' = Tally("command_count", w) + (In(count, F) + In(count, D))
        /\ Tally("command_end_to_end_latency", w)' =
             Tally("command_end_to_end_latency", w) + (In(latency, F) + In(latency, D))
        /\ Tally("command_forwarding_latency", w)' =
             Tally("command_forwarding_latency", w) + (In(forwarding, F) + In(forwarding, D))
    <3>1. /\ Tally("command_count", w) \in Nat /\ Tally("command_end_to_end_latency", w) \in Nat
          /\ Tally("command_forwarding_latency", w) \in Nat
      BY <2>4, <2>7, Zenon
    <3>2. /\ "command_count" # "overall_end_to_end_latency"
          /\ "command_end_to_end_latency" # "overall_end_to_end_latency"
          /\ "command_forwarding_latency" # "overall_end_to_end_latency"
      OBVIOUS
    <3> QED BY <1>8, <3>1, <3>2, Zenon
  <2> DEFINE x == In(k, N')
             y == In(k, G')
             n == Cardinality(N)
             g == Cardinality(G)
  <2>9. /\ Tally("command_count", w)' = n + (0 + x) /\ Cardinality(N') = n + x
        /\ Tally("command_end_to_end_latency", w)' = n + (0 + x)
        /\ Tally("command_forwarding_latency", w)' = g + (y + 0) /\ Cardinality(G') = g + y
    BY <2>4, <2>5, <2>7, <2>8, Zenon
  <2>10. n \in Nat /\ x \in Nat /\ g \in Nat /\ y \in Nat
    BY <2>4, <2>6
  <2> HIDE DEF n, x, g, y
  <2>11. n + (0 + x) = n + x /\ g + (y + 0) = g + y
    BY <2>10
  <2> QED BY <2>9, <2>11, Zenon
<1>16. /\ Tally("overall_forwarding_latency", Nil)' = Cardinality(Given')
       /\ Tally("forwarding_error", Nil)' \in Nat /\ Tally("dispatch_error", Nil)' \in Nat
       /\ Tally("forwarding_error", Nil)' <= Tally("dispatch_error", Nil)'
       /\ Tally("dispatch_error", Nil)' <= Cardinality(Answered')
  <2> DEFINE overall == Entry("overall_forwarding_latency", Nil)
             ferr == Entry("forwarding_error", Nil)
             derr == Entry("dispatch_error", Nil)
             o == Tally("overall_forwarding_latency", Nil)
             f == Tally("forwarding_error", Nil)
             d == Tally("dispatch_error", Nil)
  <2>1. /\ overall \notin D /\ ferr \notin D /\ derr \notin F
        /\ derr \in D <=> h.err
        /\ overall \in F <=> h.given # << >>
        /\ ferr \in F <=> h.given # << >> /\ h.err
    BY SamplesOf, Zenon DEF F, D
  <2>2. Given \in SUBSET (1..Done) /\ Answered \in SUBSET (1..Done) /\ k \notin Given
    BY <1>4, <1>13, CountsAre, Zenon
  <2>3. /\ overall \in F <=> k \in Given'
        /\ derr \in D => k \in Answered'
        /\ ferr \in F => derr \in D
    BY <1>6, <1>9, <1>11, <2>1, <2>2, Zenon
  <2>4. /\ Cardinality(Given) \in Nat /\ Cardinality(Given') = Cardinality(Given) + In(k, Given')
        /\ Cardinality(Answered) \in Nat
        /\ Cardinality(Answered') = Cardinality(Answered) + In(k, Answered')
    <3>1. (\A i : i \in Given' => i \in Given \/ i = k) /\ Given \subseteq Given'
      BY <1>9, Zenon
    <3>2. (\A i : i \in Answered' => i \in Answered \/ i = k) /\ Answered \subseteq Answered'
      BY <1>11, Zenon
    <3> QED BY <1>14, <2>2, <3>1, <3>2
  <2>5. o = Cardinality(Given) /\ f \in Nat /\ d \in Nat /\ f <= d /\ d <= Cardinality(Answered)
    BY Zenon DEF MetricsInv
  <2>6. /\ o' = o + (In(overall, F) + In(overall, D)) /\ o' \in Nat
        /\ f' = f + (In(ferr, F) + In(ferr, D)) /\ f' \in Nat
        /\ d' = d + (In(derr, F) + In(derr, D)) /\ d' \in Nat
    <3>1. o \in Nat /\ f \in Nat /\ d \in Nat
      BY <2>4, <2>5, Zenon
    <3>2. /\ "overall_forwarding_latency" # "overall_end_to_end_latency"
          /\ "forwarding_error" # "overall_end_to_end_latency"
          /\ "dispatch_error" # "overall_end_to_end_latency"
      OBVIOUS
    <3> QED BY <1>8, <3>1, <3>2, Zenon
  <2> HIDE DEF overall, ferr, derr, o, f, d
  <2>7. /\ In(overall, F) = In(k, Given') /\ In(overall, D) = 0 /\ In(ferr, D) = 0
        /\ In(derr, F) = 0 /\ In(ferr, F) <= In(derr, D) /\ In(derr, D) <= In(k, Answered')
        /\ In(k, Given') \in Nat /\ In(k, Answered') \in Nat /\ In(ferr, F) \in Nat
        /\ In(derr, D) \in Nat
    BY <2>1, <2>3 DEF In
  <2>8. o' = Cardinality(Given') /\ f' <= d' /\ d' <= Cardinality(Answered')
    BY <2>4, <2>5, <2>6, <2>7
  <2> QED BY <2>6, <2>8, Zenon DEF o, f, d
<1> QED BY <1>15, <1>16 DEF MetricsInv

----------------------------------------------------------------------------
(* The invariant and what follows from it                                   *)

TrafficInv == StreamInv /\ OutcomeInv /\ MetricsInv

LEMMA TrafficStarts ==
  ASSUME TrafficInit, commands \in Seq(Requests)
  PROVE  TrafficInv
BY StreamStarts, OutcomeStarts, MetricsStart DEF TrafficInv

LEMMA TrafficNext ==
  ASSUME ShortRead = {"other"}, TrafficInv, [Arrive \/ OnEvent]_trafficVars
  PROVE  TrafficInv'
<1>1. StreamInv /\ OutcomeInv /\ MetricsInv /\ Done \in Nat
  BY DEF TrafficInv, StreamInv
<1>s. ASSUME UNCHANGED <<commands, dispatched, outcome, metrics>>
      PROVE  MetricsInv'
  <2>1. \A key, w : Tally(key, w)' = Tally(key, w)
    BY <1>s, Zenon DEF Tally
  <2> QED BY <1>1, <1>s, <2>1, MetricsSame
<1>2. CASE Arrive
  <2>1. PICK n \in 1..Len(net) : OnTraffic(n)
    BY <1>2 DEF Arrive
  <2>2. StreamInv'
    BY <1>1, <2>1, StreamArrive
  <2>3. UNCHANGED <<commands, dispatched, outcome, user, metrics>>
    BY <2>1 DEF OnTraffic
  <2>4. OutcomeInv' /\ MetricsInv'
    BY <1>1, <1>s, <2>3, OutcomeSame
  <2> QED BY <2>2, <2>4 DEF TrafficInv
<1>3. CASE OnEventPacket
  <2>1. StreamInv' /\ OutcomeInv' /\ MetricsInv'
    BY <1>1, <1>3, StreamPacket, OutcomeNext, MetricsNext
  <2> QED BY <2>1 DEF TrafficInv
<1>4. CASE OnEventErr
  <2>1. StreamInv' /\ MetricsInv'
    BY <1>1, <1>4, StreamErr, MetricsErr
  <2>2. UNCHANGED <<commands, dispatched, outcome, user>>
    BY <1>4 DEF OnEventErr
  <2>3. OutcomeInv'
    BY <1>1, <2>2, OutcomeSame
  <2> QED BY <2>1, <2>3 DEF TrafficInv
<1>5. CASE UNCHANGED trafficVars
  <2>0. /\ UNCHANGED <<commands, net, buf, dispatched, outcome, user, metrics, loop>>
    BY <1>5 DEF trafficVars
  <2>1. StreamInv'
    BY <1>1, <2>0 DEF StreamInv, Done, Cut
  <2>2. OutcomeInv' /\ MetricsInv'
    BY <1>1, <1>s, <2>0, OutcomeSame
  <2> QED BY <2>1, <2>2 DEF TrafficInv
<1> QED BY <1>2, <1>3, <1>4, <1>5 DEF OnEvent

LEMMA InvDispatched ==
  ASSUME TrafficInv
  PROVE  DispatchedInOrder
<1>1. /\ commands \in Seq(Requests) /\ Done \in 0..Len(commands)
      /\ dispatched = SubSeq(commands, 1, Done) /\ Len(dispatched) = Done
  BY DEF TrafficInv, StreamInv, Done
<1>2. SubSeq(dispatched, 1, Len(dispatched)) = dispatched
  <2>1. dispatched \in Seq(Requests)
    BY <1>1
  <2> QED BY <2>1, SubSeqFull
<1> QED BY <1>1, <1>2 DEF DispatchedInOrder, IsPrefix

LEMMA InvPhases ==
  ASSUME TrafficInv
  PROVE  TwoPhases
BY DEF TrafficInv, OutcomeInv, OutcomeOf, TwoPhases

LEMMA InvTransparent ==
  ASSUME TrafficInv
  PROVE  Transparent
<1> SUFFICES ASSUME NEW i \in 1..Len(outcome), LoggedIn(i - 1), outcome[i].to # << >>
             PROVE  Write(outcome[i].to[1]) = Wire(commands[i])
  BY DEF Transparent
<1>1. outcome[i].to = <<commands[i]>> /\ i \in 1..Done
  BY DEF TrafficInv, OutcomeInv, OutcomeOf
<1>2. outcome[i].to[1] = commands[i]
  BY <1>1
<1>3. commands[i] \in Requests
  BY <1>1 DEF TrafficInv, StreamInv
<1>4. Write(commands[i]) = Wire(commands[i])
  BY <1>3, WriteRequest
<1> QED BY <1>2, <1>4, Zenon

LEMMA InvLogin ==
  ASSUME TrafficInv
  PROVE  LoginConverted
<1>1. ASSUME NEW i \in 1..Len(outcome), ~LoggedIn(i - 1), outcome[i].to # << >>
      PROVE  /\ Write(outcome[i].to[1]) \in Converted(commands[i])
             /\ LoggedIn(i) => user \in NamedUser(commands[i])
  <2>1. i \in 1..Done /\ OutcomeOf(i, outcome[i]) /\ UserOf(Done, user)
    BY <1>1 DEF TrafficInv, OutcomeInv
  <2>2. Write(outcome[i].to[1]) \in Converted(commands[i])
    BY <1>1, <2>1, Zenon DEF OutcomeOf
  <2>3. LoggedIn(i) => user \in NamedUser(commands[i])
    BY <1>1, <2>1, Zenon DEF UserOf
  <2> QED BY <2>2, <2>3
<1> QED BY <1>1, Zenon DEF LoginConverted, Converted

LEMMA InvClosed ==
  ASSUME TrafficInv
  PROVE  ClosedOnlyIfCut
<1> SUFFICES ASSUME loop = "closed", NEW n \in 0..Len(commands)
             PROVE  Len(net) # Len(Bytes(commands)) - Len(Bytes(SubSeq(commands, 1, n)))
  BY DEF ClosedOnlyIfCut
<1>1. /\ commands \in Seq(Requests) /\ Done \in 0..Len(commands) /\ Done < Len(commands)
      /\ Len(Unread(commands, Done + 1)) < Len(net) /\ Len(net) < Len(Unread(commands, Done))
      /\ Len(commands) \in Nat /\ Len(net) \in Nat
  BY DEF TrafficInv, StreamInv, Cut
<1>2. Done + 1 \in 0..Len(commands)
  BY <1>1
<1>3. /\ Len(Unread(commands, Done)) \in Nat /\ Len(Unread(commands, Done + 1)) \in Nat
      /\ Len(Unread(commands, n)) \in Nat
  BY <1>1, <1>2, UnreadType
<1>4. CASE n <= Done
  <2>1. Len(Unread(commands, Done)) <= Len(Unread(commands, n))
    BY <1>1, <1>4, UnreadShrinks
  <2> QED BY <1>1, <1>3, <2>1, UnreadSplit
<1>5. CASE ~(n <= Done)
  <2>1. Done + 1 <= n
    BY <1>1, <1>5
  <2>2. Len(Unread(commands, n)) <= Len(Unread(commands, Done + 1))
    BY <1>1, <1>2, <2>1, UnreadShrinks
  <2> QED BY <1>1, <1>3, <2>2, UnreadSplit
<1> QED BY <1>4, <1>5

LEMMA InvMetrics ==
  ASSUME TrafficInv
  PROVE  MetricsAgree
<1> DEFINE Of(key, label) == LET e == [key |-> key, label |-> label]
                             IN IF BagIn(e, metrics) THEN metrics[e] ELSE 0
           Named(w) == {i \in 1..Len(dispatched) : CommandLabel(dispatched[i]) = w}
           given == {i \in 1..Len(outcome) : outcome[i].reply # "noauth"}
           sent(i) == IF LoggedIn(i - 1) THEN CommandLabel(dispatched[i]) ELSE AuthCmd
           own == {i \in 1..Len(outcome) : outcome[i].reply # "none"}
<1>1. /\ Len(dispatched) = Done /\ Len(outcome) = Done
      /\ \A i \in 1..Done : dispatched[i] = commands[i]
  <2>1. /\ commands \in Seq(Requests) /\ Done \in 0..Len(commands)
        /\ dispatched = SubSeq(commands, 1, Done) /\ Len(outcome) = Done
    BY DEF TrafficInv, StreamInv, OutcomeInv
  <2> QED BY <2>1 DEF Done
<1>2. \A key, w : Of(key, w) = Tally(key, w)
  BY Zenon DEF Tally, Copies, Entry
<1>3. \A w : Named(w) = NamedBy(w)
  BY <1>1 DEF NamedBy
<1>4. given = Given /\ own = Answered
  BY <1>1, Zenon DEF Given, Answered
<1>5. \A w : {i \in given : sent(i) = w} = GivenAs(w)
  <2>1. \A i \in Given : sent(i) = SentAs(i)
    BY <1>1, Zenon DEF SentAs, Given
  <2> HIDE DEF sent
  <2> QED BY <1>4, <2>1, Zenon DEF GivenAs
<1>6. MetricsInv
  BY DEF TrafficInv
<1> HIDE DEF Of, Named, given, sent, own
<1>7. ASSUME NEW w
      PROVE  /\ Of("command_count", w) = Cardinality(Named(w))
             /\ Of("command_end_to_end_latency", w) = Cardinality(Named(w))
             /\ Of("command_forwarding_latency", w) = Cardinality({i \in given : sent(i) = w})
  BY <1>2, <1>3, <1>5, <1>6, Zenon DEF MetricsInv
<1>8. /\ Of("overall_forwarding_latency", Nil) = Cardinality(given)
      /\ Of("forwarding_error", Nil) <= Of("dispatch_error", Nil)
      /\ Of("dispatch_error", Nil) <= Cardinality(own)
  BY <1>2, <1>4, <1>6, Zenon DEF MetricsInv
<1> QED BY <1>7, <1>8, Zenon DEF MetricsAgree, Of, Named, given, sent, own

LEMMA TrafficInvariant ==
  ASSUME ShortRead = {"other"}
  PROVE  TrafficSpec /\ commands \in Seq(Requests) => []TrafficInv
<1>1. TrafficInit /\ commands \in Seq(Requests) => TrafficInv
  BY TrafficStarts
<1>2. TrafficInv /\ [Arrive \/ OnEvent]_trafficVars => TrafficInv'
  BY TrafficNext
<1> QED BY <1>1, <1>2, PTL DEF TrafficSpec

(* Wherever TCP cuts the stream, and whatever bytes the words of the        *)
(* commands have, onEvent dispatches the commands that the client sent,     *)
(* whole and in their order.                                                *)
THEOREM InOrder ==
  ASSUME ShortRead = {"other"}
  PROVE  TrafficSpec /\ commands \in Seq(Requests) => []DispatchedInOrder
<1>1. TrafficInv => DispatchedInOrder
  BY InvDispatched
<1> QED BY <1>1, TrafficInvariant, PTL

(* dispatch answers NOAUTH to exactly the commands that are no AUTH and     *)
(* come before an AUTH has named a user.                                    *)
THEOREM Phases ==
  ASSUME ShortRead = {"other"}
  PROVE  TrafficSpec /\ commands \in Seq(Requests) => []TwoPhases
<1>1. TrafficInv => TwoPhases
  BY InvPhases
<1> QED BY <1>1, TrafficInvariant, PTL

(* After that, what reaches the backend is byte for byte what the client    *)
(* sent: RespReader.Read and RespWriter.Write undo each other.              *)
THEOREM Relay ==
  ASSUME ShortRead = {"other"}
  PROVE  TrafficSpec /\ commands \in Seq(Requests) => []Transparent
<1>1. TrafficInv => Transparent
  BY InvTransparent
<1> QED BY <1>1, TrafficInvariant, PTL

(* An AUTH before that reaches the backend with the name without its tenant *)
(* (ToAuthInfo, NewAuthPacket), and the session is that user's from then    *)
(* on, whatever other AUTH commands follow.                                 *)
THEOREM Login ==
  ASSUME ShortRead = {"other"}
  PROVE  TrafficSpec /\ commands \in Seq(Requests) => []LoginConverted
<1>1. TrafficInv => LoginConverted
  BY InvLogin
<1> QED BY <1>1, TrafficInvariant, PTL

(* onEvent closes the connection of a client only while a part of a command *)
(* has arrived and the rest of it has not.                                  *)
THEOREM Closing ==
  ASSUME ShortRead = {"other"}
  PROVE  TrafficSpec /\ commands \in Seq(Requests) => []ClosedOnlyIfCut
<1>1. TrafficInv => ClosedOnlyIfCut
  BY InvClosed
<1> QED BY <1>1, TrafficInvariant, PTL

(* After any number of dispatches, failed ones and NOAUTH included, the     *)
(* samples and counts of WrapDispatch and WrapForwarding are those of the   *)
(* commands that were dispatched, for every name of a command.              *)
THEOREM Metrics ==
  ASSUME ShortRead = {"other"}
  PROVE  TrafficSpec /\ commands \in Seq(Requests) => []MetricsAgree
<1>1. TrafficInv => MetricsAgree
  BY InvMetrics
<1> QED BY <1>1, TrafficInvariant, PTL

============================================================================
