-------------------------------- MODULE Mux --------------------------------
(***************************************************************************)
(* What shared backend connections promise to the sessions that use them:  *)
(* each connection is a line of requests, and each session has a box of    *)
(* replies.  A request joins the end of a line; the request at the front   *)
(* of a line is answered, once, into the box of the session that asked;    *)
(* and replies are taken out of a box in the order they came in.  There    *)
(* are no loops, queues of pending requests or sockets here.               *)
(***************************************************************************)
EXTENDS Sequences

CONSTANTS
  Session,    \* who asks
  Conn,       \* the shared connections
  Request     \* requests; r.session is who asked

VARIABLES
  line,       \* the unanswered requests of each connection
  box         \* the requests whose reply waits for the session to take it

vars == <<line, box>>

Init ==
  /\ line = [c \in Conn |-> << >>]
  /\ box = [s \in Session |-> << >>]

Accept(c, r) ==
  /\ line' = [line EXCEPT ![c] = Append(@, r)]
  /\ UNCHANGED box

Answer(c) ==
  /\ line[c] # << >>
  /\ box' = [box EXCEPT ![Head(line[c]).session] = Append(@, Head(line[c]))]
  /\ line' = [line EXCEPT ![c] = Tail(@)]

Take(s) ==
  /\ box[s] # << >>
  /\ box' = [box EXCEPT ![s] = Tail(@)]
  /\ UNCHANGED line

Next ==
  \/ \E c \in Conn : Answer(c)
  \/ \E s \in Session : Take(s)
  \/ \E c \in Conn, r \in Request : Accept(c, r)

Spec == Init /\ [][Next]_vars

============================================================================
