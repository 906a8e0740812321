------------------------------ MODULE Session ------------------------------
(***************************************************************************)
(* A client session of the proxy (pkg/be_cluster/session.go and            *)
(* session_context.go): the queue of replies waiting for the client, the   *)
(* ReplyLoop goroutine that writes them, the session's authentication      *)
(* record and its closing.                                                 *)
(*                                                                         *)
(* Packets carry no payload.  A reply is named by the request it answers,  *)
(* which is all that the properties tell apart; "err" marks a reply that   *)
(* the proxy made up itself in place of the backend's.                     *)
(***************************************************************************)
EXTENDS Naturals, Sequences

CONSTANTS
  Session,    \* client sessions, one per client connection
  LoggedIn,   \* the sessions whose AUTH has been answered before we look
  Cmds,       \* the commands the clients of this instance send
  MaxReqs,    \* bound: requests a client sends
  None,       \* not a session, not a request
  OutQSize    \* capacity of a session's OutQ channel (10240 in the code)

(* The command classes that the proxy treats differently (respio/types.go); *)
(* "get" stands for every command that is none of the others.               *)
Commands == {"get", "auth", "multi", "watch", "exec", "discard"}

VARIABLES
  OutQ,        \* replies queued for each client
  sessionQuit, \* is the session's quit channel closed
  replyLoop,   \* is the session's ReplyLoop goroutine still running
  authInfo,    \* the session's AuthInfo: none, user name only, or complete
  rcvd         \* history: the replies written to each client, in order

sessionVars == <<OutQ, sessionQuit, replyLoop, authInfo, rcvd>>

(* common.AuthInfo by what the code tests: is it nil, is Password nil.      *)
AuthInfo == {"none", "user", "full"}

(* RequestContext: the request (its sender's n-th), its session and the     *)
(* AuthInfo it was forwarded with.                                          *)
RequestContext ==
  [session: Session, n: 1..MaxReqs, cmd: Cmds, auth: AuthInfo]

(* ResponseContext: the packet (the request it replies to; None for bytes   *)
(* that are no reply at all), is it an error made by the proxy, and the     *)
(* AuthInfo that its callback stores ("none" when Callback is nil).         *)
ResponseContext ==
  [req: RequestContext \cup {None}, err: BOOLEAN, callback: AuthInfo]

ASSUME SessionAssumption ==
  /\ LoggedIn \subseteq Session
  /\ Cmds \subseteq Commands
  /\ MaxReqs \in Nat
  /\ OutQSize \in Nat \ {0}
  /\ None \notin Session
  /\ None \notin RequestContext
  /\ None \notin ResponseContext

(* The reply the proxy makes up for request r (NewErrResponseContext).      *)
NewErrResponseContext(r) == [req |-> r, err |-> TRUE, callback |-> "none"]

SessionTypeOK ==
  /\ OutQ \in [Session -> Seq(ResponseContext)]
  /\ sessionQuit \in [Session -> BOOLEAN]
  /\ replyLoop \in [Session -> BOOLEAN]
  /\ authInfo \in [Session -> AuthInfo]
  /\ rcvd \in [Session -> Seq(ResponseContext)]

(* NewSession, with its ReplyLoop started by OpenSession; and the sessions  *)
(* whose AUTH is done.                                                      *)
SessionInit ==
  /\ OutQ = [s \in Session |-> << >>]
  /\ sessionQuit = [s \in Session |-> FALSE]
  /\ replyLoop = [s \in Session |-> TRUE]
  /\ authInfo = [s \in Session |-> IF s \in LoggedIn THEN "full" ELSE "none"]
  /\ rcvd = [s \in Session |-> << >>]

----------------------------------------------------------------------------

(* OutQ <- rsp: a send on the bounded channel, which waits for room.        *)
SendOutQ(s, rsp) ==
  /\ Len(OutQ[s]) < OutQSize
  /\ OutQ' = [OutQ EXCEPT ![s] = Append(@, rsp)]

(* ReplyLoop, case rspCtx := <-OutQ: run the callback, write the packet.    *)
(* Once the client is gone the write fails and the packet is dropped.       *)
ReplyLoopWrite(s) ==
  /\ replyLoop[s]
  /\ OutQ[s] # << >>
  /\ LET rsp == Head(OutQ[s]) IN
       /\ OutQ' = [OutQ EXCEPT ![s] = Tail(@)]
       /\ authInfo' = IF rsp.callback = "none" THEN authInfo
                      ELSE [authInfo EXCEPT ![s] = rsp.callback]
       /\ rcvd' = IF sessionQuit[s] THEN rcvd
                  ELSE [rcvd EXCEPT ![s] = Append(@, rsp)]
  /\ UNCHANGED <<sessionQuit, replyLoop>>

(* ReplyLoop, case <-quit.  Go's select is free to take either ready case.  *)
ReplyLoopQuit(s) ==
  /\ replyLoop[s]
  /\ sessionQuit[s]
  /\ replyLoop' = [replyLoop EXCEPT ![s] = FALSE]
  /\ UNCHANGED <<OutQ, sessionQuit, authInfo, rcvd>>

(* WriteAndFlush called by the event loop itself: the reply reaches the     *)
(* client without passing through OutQ.                                     *)
WriteAndFlush(s, rsp) ==
  /\ ~sessionQuit[s]
  /\ rcvd' = [rcvd EXCEPT ![s] = Append(@, rsp)]
  /\ UNCHANGED <<OutQ, sessionQuit, replyLoop>>

(* Session.Close: close(quit) unless it is closed already.                  *)
SessionClose(s) ==
  /\ ~sessionQuit[s]
  /\ sessionQuit' = [sessionQuit EXCEPT ![s] = TRUE]
  /\ UNCHANGED <<OutQ, replyLoop, authInfo, rcvd>>

============================================================================
