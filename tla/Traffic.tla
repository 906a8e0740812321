------------------------------ MODULE Traffic ------------------------------
(***************************************************************************)
(* How the bytes of a client become requests (pkg/proxy/elika_proxy.go,    *)
(* OnTraffic and onEvent).  TCP cuts the client's stream into chunks; for  *)
(* each chunk that has arrived gnet calls OnTraffic on the client's event  *)
(* loop, which reads packets from the chunk with RespReader.Read and       *)
(* dispatches them until nothing is buffered.  Reading past the chunk does *)
(* not wait: gnet's Read returns an error then.                            *)
(*                                                                         *)
(* dispatch lets nothing but an AUTH pass until an AUTH has named a user,  *)
(* and passes every command on to a backend after that.  The AUTH commands *)
(* until then are taken apart and written anew (resp_packet.go); all other *)
(* packets go through RespReader.Read and RespWriter.Write.  The metrics   *)
(* of the middleware (pkg/metrics) are counted on the way.                 *)
(***************************************************************************)
EXTENDS Resp

CONSTANTS
  Commands,     \* the sequences of commands that a client may send
  ShortRead,    \* errors of gnet's Read without data: "EOF", "other"
  Faults        \* "route": Forward may fail; "write": a reply of the event
                \* loop cannot be written to the client

(* The letters of AUTH in either case, and the separator of a tenant's name *)
ASSUME TrafficAssumption ==
  /\ {"A", "a", "."} \subseteq Byte
  /\ ShortRead \subseteq {"EOF", "other"} /\ ShortRead # {}
  /\ Faults \subseteq {"route", "write"}

VARIABLES
  commands,     \* what the client sends
  net,          \* its bytes that have not arrived
  buf,          \* the bytes that have arrived and were not read
  dispatched,   \* the packets handed to dispatch
  outcome,      \* for each of them, the packet that went to a backend, if one
                \* did, and the reply that the event loop wrote itself
  user,         \* the user name in the session's AuthInfo, Nil without one
  metrics,      \* the samples and counts that the collector was given
  loop          \* "wait" for traffic, in an "event", "closed", or waiting for
                \* traffic after a dispatch has "failed"

trafficVars == <<commands, net, buf, dispatched, outcome, user, metrics, loop>>

Bytes(values) == FlattenSeq([i \in 1..Len(values) |-> Wire(values[i])])

TrafficInit ==
  /\ commands \in Commands
  /\ net = Bytes(commands)
  /\ buf = << >> /\ dispatched = << >> /\ outcome = << >>
  /\ user = Nil /\ metrics = EmptyBag
  /\ loop = "wait"

----------------------------------------------------------------------------
(* AUTH                                                                     *)

(* One letter stands for the four of the word.                              *)
AuthCmd == <<"A">>

(* external: bytes.EqualFold with AuthCmd                                   *)
EqualFold(word) == word \in {AuthCmd, <<"a">>}

GetCommand(p) == IF p.type = "*" /\ Len(p.array) > 0 THEN p.array[1].data ELSE p.data

IsAuthCmd(p) ==
  /\ p.type = "*"
  /\ Len(p.array) >= 2
  /\ p.array[1].type = "$"
  /\ EqualFold(p.array[1].data)

(* Mutant of Untenanted: what follows the last separator.                   *)
UntenantedLast(name) ==
  IF name = Nil THEN Nil ELSE From(name, SelectLastInSeq(name, LAMBDA b : b = ".") + 1)

(* What follows the first TenantKeySeparator, or everything without one.    *)
Untenanted(name) ==
  IF name = Nil THEN Nil ELSE From(name, SelectInSeq(name, LAMBDA b : b = ".") + 1)

(* ToAuthInfo of an AUTH command                                            *)
ToAuthInfo(p) ==
  IF Len(p.array) # 3
    THEN [username |-> Nil, password |-> p.array[2].data]
    ELSE [username |-> Untenanted(p.array[2].data), password |-> p.array[3].data]

NewAuthPacket(username, password) ==
  LET Words(ws) == Packet("*", Nil, [i \in 1..Len(ws) |-> DataPacket("$", ws[i])])
  IN IF username = Nil THEN Words(<<AuthCmd, password>>)
     ELSE Words(<<AuthCmd, username, password>>)

----------------------------------------------------------------------------
(* dispatch                                                                 *)

(* What a dispatch may do: the session's user after it, the packet given to *)
(* forward and the one that reached a backend (a sequence of at most one),  *)
(* the reply of the event loop and whether that could not be written.       *)
Handled(u, given, to, reply, err) ==
  [user |-> u, given |-> given, to |-> to, reply |-> reply, err |-> err]

Replied(u, given, reply) ==
  {Handled(u, given, << >>, reply, e) : e \in {FALSE} \cup {"write" \in Faults}}

(* forward and doForward                                                    *)
Forward(u, p) ==
  {Handled(u, <<p>>, <<p>>, "none", FALSE)}
    \cup IF "route" \in Faults THEN Replied(u, <<p>>, "error") ELSE {}

(* Mutant of SetAuthInfo: every AUTH ends the first phase.                  *)
SetAuthInfoAny(u, username) == IF username = Nil THEN << >> ELSE username

(* The session's user after an AUTH: only one with a name sets it.          *)
SetAuthInfo(u, username) == IF username \in {Nil, << >>} THEN u ELSE username

DoDispatch(u, p) ==
  IF u # Nil THEN Forward(u, p)
  ELSE IF ~IsAuthCmd(p) THEN Replied(u, << >>, "noauth")
  ELSE LET auth == ToAuthInfo(p) IN
         Forward(SetAuthInfo(u, auth.username),
                 NewAuthPacket(auth.username, auth.password))

----------------------------------------------------------------------------
(* Metrics                                                                  *)

(* What a sink is given: a sample or a count, of a command or of none.  All *)
(* the sinks behind fanoutSink are given the same.                          *)
AddSample(key, label) == [key |-> key, label |-> label]
IncrCounter(key, label) == [key |-> key, label |-> label]

RecordCommandLatency(command) == AddSample("command_end_to_end_latency", command)
RecordCommandForwardingLatency(command) == AddSample("command_forwarding_latency", command)
RecordOverallLatency == AddSample("overall_end_to_end_latency", Nil)
RecordOverallForwardingLatency == AddSample("overall_forwarding_latency", Nil)
IncrementCommandCounter(command) == IncrCounter("command_count", command)
IncrementErrorCounter(type) == IncrCounter(type, Nil)

TrackLatency(command) == {RecordCommandLatency(command), RecordOverallLatency}
TrackForwardingLatency(command) ==
  {RecordCommandForwardingLatency(command), RecordOverallForwardingLatency}
TrackError(type, err) == IF err THEN {IncrementErrorCounter(type)} ELSE {}

(* The label of a command; a nil slice is the empty string.                 *)
CommandLabel(p) == IF GetCommand(p) = Nil THEN << >> ELSE GetCommand(p)

(* Around forward, if doDispatch gets there                                 *)
WrapForwarding(h) ==
  IF h.given = << >> THEN EmptyBag
  ELSE SetToBag(TrackForwardingLatency(CommandLabel(h.given[1]))
                  \cup TrackError("forwarding_error", h.err))

(* Mutant of WrapDispatch: returns with an error before the latency.        *)
WrapDispatchReturns(p, h) ==
  WrapForwarding(h)
    (+) SetToBag({IncrementCommandCounter(CommandLabel(p))}
                   \cup (IF h.err THEN {} ELSE TrackLatency(CommandLabel(p)))
                   \cup TrackError("dispatch_error", h.err))

(* Around doDispatch                                                        *)
WrapDispatch(p, h) ==
  WrapForwarding(h)
    (+) SetToBag({IncrementCommandCounter(CommandLabel(p))}
                   \cup TrackLatency(CommandLabel(p))
                   \cup TrackError("dispatch_error", h.err))

(* WrapTraffic: one sample at the end of an event.                          *)
WrapTraffic(bag) ==
  metrics' = IF loop' = "event" THEN bag ELSE bag (+) SetToBag({RecordOverallLatency})

----------------------------------------------------------------------------
(* The event loop                                                           *)

(* external: a chunk of n bytes arrives and OnTraffic is called.            *)
OnTraffic(n) ==
  /\ loop \in {"wait", "failed"}
  /\ buf' = buf \o SubSeq(net, 1, n)
  /\ net' = From(net, n + 1)
  /\ loop' = "event"
  /\ UNCHANGED <<commands, dispatched, outcome, user, metrics>>

(* Mutant of Buffered: one packet is read for each event.                   *)
BufferedOne(rest) == "wait"

(* Mutant of Buffered: the loop reads on when nothing is buffered.          *)
BufferedReadsOn(rest) == "event"

(* The loop ends when nothing is buffered.                                  *)
Buffered(rest) == IF rest = << >> THEN "wait" ELSE "event"

(* dispatch, with its metrics                                               *)
Dispatch(p, rest) ==
  \E h \in DoDispatch(user, p) :
    /\ dispatched' = Append(dispatched, p)
    /\ outcome' = Append(outcome, [to |-> h.to, reply |-> h.reply])
    /\ user' = h.user
    /\ loop' = IF h.err THEN "failed" ELSE Buffered(rest)
    /\ WrapTraffic(metrics (+) WrapDispatch(p, h))

(* A round of onEvent that reads a packet and dispatches it.  An error of   *)
(* dispatch ends the event; what is buffered waits for the next one.        *)
OnEventPacket ==
  /\ loop = "event"
  /\ \E r \in {Read(buf)} : r.err = "none" /\ buf' = r.rest /\ Dispatch(r.val, r.rest)
  /\ UNCHANGED <<commands, net>>

(* Mutant of OnEventErr: the connection is not closed.                      *)
OnEventErrGoesOn ==
  /\ loop = "event"
  /\ \E r \in {Read(buf)} : r.err # "none" /\ buf' = r.rest
  /\ loop' = "wait"
  /\ UNCHANGED <<commands, net, dispatched, outcome, user, metrics>>

(* A round that fails: io.EOF ends the event, anything else closes the      *)
(* client's connection.  What was read of the packet is gone.               *)
OnEventErr ==
  /\ loop = "event"
  /\ \E r \in {Read(buf)} :
       /\ r.err # "none"
       /\ buf' = r.rest
       /\ loop' \in IF r.err = "short"
                      THEN {IF e = "EOF" THEN "wait" ELSE "closed" : e \in ShortRead}
                      ELSE {"closed"}
       /\ WrapTraffic(metrics)
  /\ UNCHANGED <<commands, net, dispatched, outcome, user>>

Arrive == \E n \in 1..Len(net) : OnTraffic(n)
OnEvent == OnEventPacket \/ OnEventErr

(* What a client has sent arrives, and the event loop runs.                 *)
TrafficSpec ==
  /\ TrafficInit /\ [][Arrive \/ OnEvent]_trafficVars
  /\ WF_trafficVars(Arrive) /\ WF_trafficVars(OnEvent)

----------------------------------------------------------------------------
(* Properties                                                               *)

(* What is dispatched are commands that the client has sent, in the order   *)
(* it sent them, none left out and nothing made up of parts, wherever TCP   *)
(* cuts the stream (onEvent).                                               *)
DispatchedInOrder == IsPrefix(dispatched, commands)

(* The words of a command that is AUTH, in either case; of any other, none. *)
AuthWords(c) ==
  IF c.type = "*" /\ c.array # Nil /\ Len(c.array) > 1 /\ Wire(c.array[1]) \in
       {Wire(DataPacket("$", <<"A">>)), Wire(DataPacket("$", <<"a">>))}
    THEN [i \in 1..Len(c.array) - 1 |-> c.array[i + 1].data] ELSE << >>

(* The user that an AUTH with a name and a password is for: the name has    *)
(* the form tenant.user or user, and a tenant has no dot in it.             *)
NamedUser(c) ==
  LET name == AuthWords(c)[1]
      Starts == {SubSeq(name, 1, n) : n \in 0..Len(name)}
  IN IF Len(AuthWords(c)) # 2 \/ name = Nil THEN {}
     ELSE {u \in {From(name, n) : n \in 1..Len(name) + 1} :
             \/ u = name /\ ~Contains(u, ".")
             \/ \E t \in Starts : ~Contains(t, ".") /\ name = t \o <<".">> \o u}

(* Commands after which the session has a user.                             *)
LoggedIn(n) == \E i \in 1..n : NamedUser(commands[i]) \notin {{}, {<< >>}}

(* "We model connection lifecycle in two phases: AUTH and Command"          *)
(* (OnTraffic): as long as no AUTH has named a user, nothing but AUTH       *)
(* reaches a backend and everything else is answered with NOAUTH; NOAUTH is *)
(* answered to nothing else, whatever became of the AUTH.                   *)
TwoPhases ==
  \A i \in 1..Len(outcome) :
    (outcome[i].reply = "noauth") <=> ~LoggedIn(i - 1) /\ AuthWords(commands[i]) = << >>

(* A command reaches the backend with the bytes it had when it came from    *)
(* the client (RespReader.Read, RespWriter.Write), lengths, markers and     *)
(* line ends inside bulk strings included; only the AUTH of the first phase *)
(* does not.                                                                *)
Transparent ==
  \A i \in 1..Len(outcome) : LoggedIn(i - 1) /\ outcome[i].to # << >> =>
    Write(outcome[i].to[1]) = Wire(commands[i])

(* An AUTH of the first phase reaches the backend as AUTH with the user's   *)
(* name without its tenant and the password that the client gave, or with   *)
(* the password alone (ToAuthInfo, NewAuthPacket); and the session is then  *)
(* that user's.                                                             *)
LoginConverted ==
  \A i \in 1..Len(outcome) : ~LoggedIn(i - 1) /\ outcome[i].to # << >> =>
    LET words == AuthWords(commands[i])
        Auth(ws) == Wire(Packet("*", Nil, [j \in 1..Len(ws) |-> DataPacket("$", ws[j])]))
    IN /\ Write(outcome[i].to[1]) \in
            IF NamedUser(commands[i]) = {} /\ Len(words) = 2 THEN {Auth(<<<<"A">>, words[2]>>)}
            ELSE IF NamedUser(commands[i]) = {} THEN {Auth(<<<<"A">>, words[1]>>)}
            ELSE {Auth(<<<<"A">>, u, words[2]>>) : u \in NamedUser(commands[i])}
       /\ LoggedIn(i) => user \in NamedUser(commands[i])

(* A client's connection is closed only in the middle of a command: as long *)
(* as TCP delivers whole commands, however many at a time, no read fails    *)
(* (onEvent, ReadBuffered).                                                 *)
ClosedOnlyIfCut ==
  loop = "closed" =>
    \A n \in 0..Len(commands) :
      Len(net) # Len(Bytes(commands)) - Len(Bytes(SubSeq(commands, 1, n)))

(* The metrics agree with what happened: every command that was dispatched  *)
(* is counted and has its latency, under the name it came with and whether  *)
(* or not it failed; every packet that was to be forwarded has a forwarding *)
(* latency under the name it is sent with; and errors are counted only for  *)
(* replies of the event loop (WrapDispatch, WrapForwarding).                *)
MetricsAgree ==
  LET Of(key, label) ==
        LET e == [key |-> key, label |-> label]
        IN IF BagIn(e, metrics) THEN metrics[e] ELSE 0
      Named(w) == {i \in 1..Len(dispatched) : CommandLabel(dispatched[i]) = w}
      given == {i \in 1..Len(outcome) : outcome[i].reply # "noauth"}
      sent(i) == IF LoggedIn(i - 1) THEN CommandLabel(dispatched[i]) ELSE AuthCmd
      words == {CommandLabel(dispatched[i]) : i \in 1..Len(dispatched)} \cup {AuthCmd}
      own == {i \in 1..Len(outcome) : outcome[i].reply # "none"}
  IN /\ \A w \in words :
          /\ Of("command_count", w) = Cardinality(Named(w))
          /\ Of("command_end_to_end_latency", w) = Cardinality(Named(w))
          /\ Of("command_forwarding_latency", w) = Cardinality({i \in given : sent(i) = w})
     /\ Of("overall_forwarding_latency", Nil) = Cardinality(given)
     /\ Of("forwarding_error", Nil) <= Of("dispatch_error", Nil)
     /\ Of("dispatch_error", Nil) <= Cardinality(own)

(* Every command that the client sends is dispatched (OnTraffic: "Command"  *)
(* from the client is followed by "Command" to the backend).                *)
CommandsDispatched == <>(dispatched = commands)

(* The client's commands are all dispatched, unless its connection is       *)
(* closed because of a read that failed, or an event ended with a dispatch  *)
(* that failed (onEvent); no command is left in a buffer for ever.          *)
CommandsHandled ==
  <>[](dispatched = commands \/ loop = "closed" \/ loop = "failed")

============================================================================
