-------------------------------- MODULE Resp --------------------------------
(***************************************************************************)
(* The RESP codec (pkg/respio): RespReader.Read on a sequence of bytes and *)
(* RespWriter.Write to one.  A byte is a string of one character.          *)
(*                                                                         *)
(* Reading gives a record with err, what was read, and the bytes left.     *)
(* Errors: "short" when the connection has no more bytes (all that was     *)
(* there is consumed), "syntax" for ErrInvalidSyntax, ErrBadCRLFEnd and    *)
(* numbers that do not parse, "large" for ErrTooLarge and "panic" for a    *)
(* make with a negative length.                                            *)
(*                                                                         *)
(* Read and Write call themselves for the elements of an array.  Here they *)
(* have a level for a command, one for an array in it and one for what is  *)
(* in that: values nest no deeper ("deep").                                *)
(***************************************************************************)
EXTENDS Integers, SequencesExt

CONSTANTS
  Byte,             \* the bytes
  Nil,              \* the nil slice
  MaxBufferSize,    \* longest bulk string (512 MB in the code)
  MaxArray          \* longest array (1024*1024 in the code)

CRLF == <<"\r", "\n">>
LineTypes == {"+", "-", "("}
BulkTypes == {"$", "!", "="}
MapTypes == {"%", "|"}
ArrayTypes == {"*", ">", "~"} \cup MapTypes

Digits == <<"0", "1", "2", "3", "4", "5", "6", "7", "8", "9">>

(* RespPacket                                                               *)
Packet(type, data, array) == [type |-> type, data |-> data, array |-> array]

(* A packet from AcquireRespPacket has an empty array, not a nil one.       *)
DataPacket(type, data) == Packet(type, data, << >>)
NilPacket == Packet("_", Nil, Nil)

(* Packets with a string of bytes                                           *)
StringPackets ==
  [type : LineTypes \cup BulkTypes, data : {Nil} \cup Seq(Byte), array : {<< >>}]

(* nil is no string, no number and no list of packets.                      *)
ASSUME RespAssumption ==
  /\ MaxBufferSize \in Nat \ {0} /\ MaxArray \in Nat
  /\ LineTypes \cup BulkTypes \cup ArrayTypes \cup {":", "_", "#", ","} \subseteq Byte
  /\ ToSet(Digits) \cup ToSet(CRLF) \subseteq Byte
  /\ Nil \notin Seq(Byte) /\ Nil \notin Int /\ Nil \notin Seq(StringPackets)

From(s, i) == SubSeq(s, i, Len(s))

----------------------------------------------------------------------------
(* Conversions                                                              *)

(* The digits of a number                                                   *)
Decimal[n \in Nat] ==
  IF n < 10 THEN <<Digits[n + 1]>> ELSE Append(Decimal[n \div 10], Digits[(n % 10) + 1])

(* strconv.Itoa, strconv.FormatInt                                          *)
Itoa(n) == IF n < 0 THEN <<"-">> \o Decimal[-n] ELSE Decimal[n]

(* The number that some digits stand for                                    *)
Digit(c) == CHOOSE v \in 0..9 : Digits[v + 1] = c
Value(ds) ==
  LET value[i \in 0..Len(ds)] == IF i = 0 THEN 0 ELSE 10 * value[i - 1] + Digit(ds[i])
  IN value[Len(ds)]

(* encodeToInt64; Nil stands for an error.  The lengths and numbers used    *)
(* here are far from 64 bits.                                               *)
EncodeToInt64(b) ==
  LET signed == b # << >> /\ b[1] \in {"-", "+"}
      ds == IF signed THEN Tail(b) ELSE b
  IN IF ds = << >> \/ ~(ToSet(ds) \subseteq ToSet(Digits)) THEN Nil
     ELSE IF signed /\ b[1] = "-" THEN -Value(ds) ELSE Value(ds)

(* strconv.FormatBool                                                       *)
FormatBool(v) ==
  IF v THEN <<"t", "r", "u", "e">> ELSE <<"f", "a", "l", "s", "e">>

(* ParseFloat and "%g" on a decimal number of a few digits: zeros at the    *)
(* end of the fraction are dropped, and the point after them.               *)
FormatG(d) ==
  LET n == SelectLastInSeq(d, LAMBDA c : c # "0") IN
    IF ~Contains(d, ".") THEN d
    ELSE SubSeq(d, 1, IF d[n] = "." THEN n - 1 ELSE n)

----------------------------------------------------------------------------
(* RespReader                                                               *)

Ok(val, rest) == [err |-> "none", val |-> val, rest |-> rest]
Err(err, rest) == [err |-> err, val |-> Nil, rest |-> rest]
Short == Err("short", << >>)

(* Go on with what was read, or return the error.  The set of one element   *)
(* makes TLC evaluate r once.                                               *)
Then(r, F(_, _)) ==
  CHOOSE y \in {IF x.err = "none" THEN F(x.val, x.rest) ELSE x : x \in {r}} : TRUE

ReadLine(s) ==
  LET i == SelectInSeq(s, LAMBDA c : c = "\n") IN
    IF i = 0 THEN Short
    ELSE IF i < 2 \/ s[i - 1] # "\r" THEN Err("syntax", From(s, i + 1))
    ELSE Ok(SubSeq(s, 1, i - 2), From(s, i + 1))

SkipCRLF(s) ==
  CASE s = << >> \/ s = <<"\r">> -> Short
    [] s # << >> /\ s[1] # "\r" -> Err("syntax", Tail(s))
    [] Len(s) > 1 /\ s[1] = "\r" ->
         IF s[2] = "\n" THEN Ok(Nil, From(s, 3)) ELSE Err("syntax", From(s, 3))

(* ReadInt, which skips one of three markers.                               *)
ReadInt(s) ==
  Then(ReadLine(s), LAMBDA line, rest :
    LET marked == line # << >> /\ line[1] \in {":", "$", "*"}
        n == EncodeToInt64(IF marked THEN Tail(line) ELSE line)
    IN IF n = Nil THEN Err("syntax", rest) ELSE Ok(n, rest))

(* Mutant of BulkReadString: the data ends at the first end of line.        *)
BulkReadStringLine(s) ==
  Then(ReadInt(s), LAMBDA n, t : IF n = -1 THEN Ok(Nil, t) ELSE ReadLine(t))

BulkData(n, t) ==
  CASE n = -1 -> Ok(Nil, t)
    [] n < -1 -> Err("panic", t)
    [] n > MaxBufferSize -> Err("large", t)
    [] n \in 0..MaxBufferSize ->
         IF Len(t) < n THEN Short
         ELSE Then(SkipCRLF(From(t, n + 1)), LAMBDA x, rest : Ok(SubSeq(t, 1, n), rest))

(* BulkReadStringWithMarker, after the marker.                              *)
BulkReadString(s) == Then(ReadInt(s), BulkData)

ReadBool(s) ==
  IF s = << >> THEN Short
  ELSE IF s[1] \notin {"t", "f"} THEN Err("syntax", Tail(s))
  ELSE Then(SkipCRLF(Tail(s)), LAMBDA x, rest : Ok(FormatBool(s[1] = "t"), rest))

(* The loop of ReadArrayLike; elem, a function of the bytes, is Read for an *)
(* element.                                                                 *)
NextElement(elems, t, elem) ==
  Then(elem[t], LAMBDA e, rest : Ok(Append(elems, e), rest))
ReadElements(n, s, elem) ==
  LET loop[i \in 0..n] ==
        IF i = 0 THEN Ok(<< >>, s)
        ELSE Then(loop[i - 1], LAMBDA elems, t : NextElement(elems, t, elem))
  IN IF n <= 0 THEN Ok(<< >>, s) ELSE loop[n]

(* ReadResp3Len and ReadArrayLike; a null array has an empty array.         *)
ArrayData(type, n, t, elem) ==
  IF n > MaxArray THEN Err("large", t)
  ELSE Then(ReadElements(IF type \in MapTypes THEN 2 * n ELSE n, t, elem),
            LAMBDA elems, rest : Ok(Packet(type, Nil, elems), rest))
ReadArrayLike(type, s, elem) ==
  Then(ReadInt(s), LAMBDA n, t : ArrayData(type, n, t, elem))

ReadPacket(s, elem) ==
  LET type == Head(s)
      b == Tail(s)
      Data(d, rest) == Ok(DataPacket(type, d), rest)
  IN CASE s = << >> -> Short
       [] s # << >> /\ type \in LineTypes -> Then(ReadLine(b), Data)
       [] s # << >> /\ type \in BulkTypes -> Then(BulkReadString(b), Data)
       [] s # << >> /\ type \in ArrayTypes -> ReadArrayLike(type, b, elem)
       [] s # << >> /\ type = ":" -> Then(ReadInt(s), LAMBDA n, rest : Data(Itoa(n), rest))
       [] s # << >> /\ type = "_" -> Then(SkipCRLF(b), LAMBDA x, rest : Ok(NilPacket, rest))
       [] s # << >> /\ type = "#" -> Then(ReadBool(b), Data)
       [] s # << >> /\ type = "," -> Then(ReadLine(b), LAMBDA d, rest : Data(FormatG(d), rest))
       [] OTHER -> Err("syntax", b)

ReadLeaf == [s \in Seq(Byte) |-> ReadPacket(s, [t \in Seq(Byte) |-> Err("deep", t)])]
ReadInner == [s \in Seq(Byte) |-> ReadPacket(s, ReadLeaf)]
Read(s) == ReadPacket(s, ReadInner)

----------------------------------------------------------------------------
(* RespWriter, for packets that Read returns.                               *)

WriteBulkString(b) ==
  IF b = Nil THEN <<"$", "-", "1">> \o CRLF
  ELSE <<"$">> \o Itoa(Len(b)) \o CRLF \o b \o CRLF

ArrayHeader(type, n) ==
  <<type>> \o Itoa(IF type \in MapTypes THEN n \div 2 ELSE n) \o CRLF

(* writeNullArray, writeNullMap                                             *)
NullArray(type) == <<IF type = "%" THEN "%" ELSE "*", "-", "1">> \o CRLF

(* WriteArray, and writeArrayLike, which is never called for a "*"; elems   *)
(* is what Write makes of the elements.                                     *)
WriteArray(type, array, elems) ==
  IF array = Nil THEN NullArray(type)
  ELSE ArrayHeader(type, Len(array)) \o FlattenSeq(elems)

WritePacket(p, elems) ==
  CASE p.type \in LineTypes \cup {","} -> <<p.type>> \o p.data \o CRLF
    [] p.type = ":" -> <<":">> \o Itoa(EncodeToInt64(p.data)) \o CRLF
    [] p.type = "$" -> WriteBulkString(p.data)
    [] p.type \in {"!", "="} -> <<p.type>> \o WriteBulkString(p.data)
    [] p.type = "_" -> <<"_">> \o CRLF
    [] p.type = "#" -> <<"#", IF p.data = <<"t">> THEN "t" ELSE "f">> \o CRLF
    [] p.type \in ArrayTypes -> WriteArray(p.type, p.array, elems)

WriteLeaf(p) == WritePacket(p, [i \in 1..Len(p.array) |-> <<"deep">>])
WriteInner(p) == WritePacket(p, [i \in 1..Len(p.array) |-> WriteLeaf(p.array[i])])
Write(p) == WritePacket(p, [i \in 1..Len(p.array) |-> WriteInner(p.array[i])])

----------------------------------------------------------------------------
(* The formats that the comments on the type markers give (types.go:25-40), *)
(* for a value in the form of a packet; a null array's array is Nil.        *)

WirePacket(v, elems) ==
  CASE v.type \in LineTypes \cup {",", ":", "#"} -> <<v.type>> \o v.data \o CRLF
    [] v.type = "_" -> <<"_">> \o CRLF
    [] v.type \in BulkTypes ->
         IF v.data = Nil THEN <<v.type, "-", "1">> \o CRLF
         ELSE <<v.type>> \o Itoa(Len(v.data)) \o CRLF \o v.data \o CRLF
    [] v.type \in ArrayTypes ->
         IF v.array = Nil THEN <<v.type, "-", "1">> \o CRLF
         ELSE <<v.type>> \o Itoa(IF v.type \in MapTypes THEN Len(v.array) \div 2 ELSE Len(v.array))
                \o CRLF \o FlattenSeq(elems)

WireLeaf(v) == WirePacket(v, [i \in 1..Len(v.array) |-> <<"deep">>])
WireInner(v) == WirePacket(v, [i \in 1..Len(v.array) |-> WireLeaf(v.array[i])])
Wire(v) == WirePacket(v, [i \in 1..Len(v.array) |-> WireInner(v.array[i])])

============================================================================
