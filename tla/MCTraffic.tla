----------------------------- MODULE MCTraffic -----------------------------
(***************************************************************************)
(* Traffic for TLC: a login and a command whose words may look like parts  *)
(* of the protocol, or one with an argument of one of the types that the   *)
(* codec relays; and AUTH commands of all forms, before and after others.  *)
(***************************************************************************)
EXTENDS Traffic

CONSTANTS
  Kinds,          \* types of arguments other than bulk strings
  Logins          \* are there AUTH commands of all forms

MCByte ==
  LineTypes \cup BulkTypes \cup ArrayTypes \cup {":", "_", "#", ","}
    \cup ToSet(Digits) \cup ToSet(CRLF) \cup {"A", "a", ".", "p", "t", "u", "x"}

Bulk(word) == DataPacket("$", word)
Command(args) == Packet("*", Nil, args)
Get == Command(<<Bulk(<<"x">>)>>)
Auth(word, words) ==
  Command(<<DataPacket(word[1], word[2])>> \o [i \in 1..Len(words) |-> Bulk(words[i])])

A == <<"$", <<"A">>>>
Login == Auth(A, <<<<"u">>, <<"p">>>>)

(* With and without a tenant, a name or a password; in lower case, as a     *)
(* status, and with too few or too many words.                              *)
Auths ==
  {Auth(A, <<name, <<"p">>>>) : name \in
     {<<"t", ".", "u">>, <<"t", ".">>, <<".", ".", "u">>, << >>, Nil}}
  \cup {Auth(A, words) : words \in {<< >>, <<<<"p">>>>, <<Nil>>, <<<<"u">>, <<"p">>, <<"x">>>>}}
  \cup {Auth(w, <<<<"u">>, <<"p">>>>) : w \in {<<"$", <<"a">>>>, <<"+", <<"A">>>>, <<"$", Nil>>}}

Words == {<<"x">>, <<"\r", "\n">>, <<"$", "0">>}

Data(type) ==
  CASE type = ":" -> {<<"0">>, <<"-", "1">>, <<"1", "2">>}
    [] type = "," -> {<<"1">>, <<"1", ".", "5">>}
    [] type = "#" -> {<<"t">>, <<"f">>}
    [] type = "_" -> {Nil}
    [] type \in BulkTypes -> {Nil, << >>, <<"\r", "\n">>}
    [] type \in LineTypes -> {<< >>, <<"x">>}

Leaves ==
  UNION {{IF t = "_" THEN NilPacket ELSE DataPacket(t, d) : d \in Data(t)}
           : t \in Kinds \ (ArrayTypes \cup {"null"})}
Nulls == IF "null" \in Kinds THEN {Packet("*", Nil, Nil)} ELSE {}
Arrays ==
  {Packet(t, Nil, a) : t \in Kinds \cap ArrayTypes,
                       a \in {<< >>} \cup {<<Bulk(<<"x">>), v>> : v \in Leaves}}
Argument(v) == Command(<<Bulk(<<"x">>), v>>)

MCCommands ==
  {<<Login, Command(<<Bulk(v), Bulk(w)>>)>> : v, w \in Words}
    \cup {<<Login, Argument(v)>> : v \in Leaves \cup Nulls \cup Arrays}
    \cup {<<Login, Get, Get>>}
    \cup IF Logins THEN UNION {{<<Get, a, Get>>, <<a, Login, a>>} : a \in Auths}
         ELSE {}

============================================================================
