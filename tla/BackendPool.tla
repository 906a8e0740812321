---------------------------- MODULE BackendPool ----------------------------
(***************************************************************************)
(* The connection pool (pkg/be_cluster/backend_pool.go): Get, Put, Close   *)
(* and the goroutines that checkMinIdleConns starts to keep the pool       *)
(* filled.  A section of code that holds mu is one step.  tryRemoveConn is *)
(* called with and without mu; without it, what it has read may be stale   *)
(* when it writes.                                                         *)
(*                                                                         *)
(* Connections are named by the dial that makes them; the goroutine that   *)
(* adds an idle connection bears the name of the connection it dials.      *)
(***************************************************************************)
EXTENDS Integers, Sequences, FiniteSets

CONSTANTS
  Conn,           \* names for connections; bound: dials that exist at a time
  User,           \* callers of Get and Put, one call each at a time
  PoolSize, MinIdleSize, MaxIdleSize, MaxActiveSize,   \* PoolConfig
  Faults,         \* which of {"dial", "stale", "buffered", "close"} may happen
  None

ASSUME PoolAssumption ==
  /\ IsFiniteSet(Conn) /\ IsFiniteSet(User)
  /\ PoolSize \in Nat \ {0}
  /\ MinIdleSize \in Nat /\ MaxIdleSize \in Nat /\ MaxActiveSize \in Nat
  /\ Faults \subseteq {"dial", "stale", "buffered", "close"}
  /\ None \notin Conn
  /\ None \notin [conns: SUBSET Conn, createConn: Int, idleConnLen: Int]

VARIABLES
  queue,        \* slots taken (the length of the channel queue)
  conns,        \* the pool's connections
  idleConns,    \* those not handed out, the last one is handed out next
  createConn,   \* the counters kept beside the two lists
  idleConnLen,
  closed,
  open,         \* external: connections whose socket is open
  adder,        \* the goroutines started by checkMinIdleConns
  user,         \* progress of each caller
  closer,       \* progress of Close
  overtaken     \* history: a removal without mu has met changes made under it;
                \* bound: after that there are no more removals of this kind,
                \* because each one may put the counters further off

lists == <<conns, idleConns, createConn, idleConnLen>>
poolVars == <<queue, lists, closed, open, adder, user, closer, overtaken>>

UserPc ==
  {"out", "slot", "idle", "health", "make", "dial", "add",
   "has", "remove", "store", "free"}
Snapshot == [conns: SUBSET Conn, createConn: Int, idleConnLen: Int]
UserState ==
  [pc: UserPc, conn: Conn \cup {None}, next: {"idle", "free"},
   read: Snapshot \cup {None}]
U(pc, conn) == [pc |-> pc, conn |-> conn, next |-> "free", read |-> None]

(* Types; the semaphore never holds more slots than the pool's size.        *)
PoolTypeOK ==
  /\ queue \in 0..PoolSize
  /\ conns \subseteq Conn
  /\ idleConns \in Seq(Conn)
  /\ createConn \in Int /\ idleConnLen \in Int
  /\ closed \in BOOLEAN
  /\ open \subseteq Conn
  /\ adder \in [Conn -> {"none", "dial", "append", "failed", "free"}]
  /\ user \in [User -> UserState]
  /\ closer \in {"none", "lock", "done"}
  /\ overtaken \in BOOLEAN

----------------------------------------------------------------------------
(* checkMinIdleConns                                                        *)

(* Names for new dials: those that nothing refers to.                       *)
Fresh ==
  {c \in Conn : /\ adder[c] = "none" /\ c \notin open \cup conns
                /\ \A i \in 1..Len(idleConns) : idleConns[i] # c
                /\ \A u \in User : /\ user[u].conn # c
                                   /\ user[u].read # None => c \notin user[u].read.conns}

(* Mutant of ToAdd: the loop does not take slots.                           *)
ToAddAnySlot(created, idleLen) ==
  IF MinIdleSize <= idleLen \/ PoolSize <= created THEN 0 ELSE 1

(* How often the loop goes round from these counters: until one of the      *)
(* limits is met or no slot is free.                                        *)
ToAdd(created, idleLen) ==
  IF MinIdleSize = 0 THEN 0
  ELSE CHOOSE n \in 0..PoolSize :
         /\ n = 0 \/ (created + n <= PoolSize /\ idleLen + n <= MinIdleSize
                        /\ queue + n <= PoolSize)
         /\ ~(created + n < PoolSize /\ idleLen + n < MinIdleSize
                /\ queue + n < PoolSize)

(* Each round takes a slot and starts a goroutine.                          *)
CheckMinIdleConns(created, idleLen) ==
  \E new \in SUBSET Fresh :
    /\ Cardinality(new) = ToAdd(created, idleLen)
    /\ createConn' = created + Cardinality(new)
    /\ idleConnLen' = idleLen + Cardinality(new)
    /\ queue' = queue + Cardinality(new)
    /\ adder' = [c \in Conn |-> IF c \in new THEN "dial" ELSE adder[c]]

(* NewBackendConnPool, which runs checkMinIdleConns on the empty pool.      *)
PoolInit ==
  /\ conns = {} /\ idleConns = << >>
  /\ closed = FALSE /\ open = {} /\ closer = "none" /\ overtaken = FALSE
  /\ user = [u \in User |-> U("out", None)]
  /\ queue = (IF MinIdleSize < PoolSize THEN MinIdleSize ELSE PoolSize)
  /\ createConn = queue /\ idleConnLen = queue
  /\ \E new \in SUBSET Conn :
       /\ Cardinality(new) = queue
       /\ adder = [c \in Conn |-> IF c \in new THEN "dial" ELSE "none"]

(* dialConn in addIdleConn.  ErrClosed is not counted as a failure.         *)
AdderDial(c) ==
  /\ adder[c] = "dial"
  /\ \/ closed /\ adder' = [adder EXCEPT ![c] = "free"] /\ UNCHANGED open
     \/ /\ ~closed
        /\ adder' = [adder EXCEPT ![c] = "append"]
        /\ open' = open \cup {c}
     \/ /\ ~closed /\ "dial" \in Faults
        /\ adder' = [adder EXCEPT ![c] = "failed"]
        /\ UNCHANGED open
  /\ UNCHANGED <<queue, lists, closed, user, closer, overtaken>>

(* Mutant of AddIdleConn: the connection is not listed in conns.            *)
AddIdleConnOnlyIdle(c) ==
  /\ adder[c] = "append"
  /\ idleConns' = Append(idleConns, c)
  /\ adder' = [adder EXCEPT ![c] = "free"]
  /\ UNCHANGED <<queue, conns, createConn, idleConnLen, closed, open, user, closer, overtaken>>

(* The rest of addIdleConn, under mu.                                       *)
AddIdleConn(c) ==
  /\ adder[c] = "append"
  /\ conns' = conns \cup {c}
  /\ idleConns' = Append(idleConns, c)
  /\ adder' = [adder EXCEPT ![c] = "free"]
  /\ UNCHANGED <<queue, createConn, idleConnLen, closed, open, user, closer, overtaken>>

(* Mutant of AdderFailed: only one of the counters is taken back.           *)
AdderFailedCounts(c) ==
  /\ adder[c] = "failed"
  /\ createConn' = createConn - 1
  /\ adder' = [adder EXCEPT ![c] = "free"]
  /\ UNCHANGED <<queue, conns, idleConns, idleConnLen, closed, open, user, closer, overtaken>>

AdderFailed(c) ==
  /\ adder[c] = "failed"
  /\ createConn' = createConn - 1
  /\ idleConnLen' = idleConnLen - 1
  /\ adder' = [adder EXCEPT ![c] = "free"]
  /\ UNCHANGED <<queue, conns, idleConns, closed, open, user, closer, overtaken>>

(* Mutant of AdderFree: two slots are freed.                                *)
AdderFreeTwice(c) ==
  /\ adder[c] = "free"
  /\ queue > 0
  /\ queue' = queue - 2
  /\ adder' = [adder EXCEPT ![c] = "none"]
  /\ UNCHANGED <<lists, closed, open, user, closer, overtaken>>

(* freeSlot                                                                 *)
AdderFree(c) ==
  /\ adder[c] = "free"
  /\ queue > 0
  /\ queue' = queue - 1
  /\ adder' = [adder EXCEPT ![c] = "none"]
  /\ UNCHANGED <<lists, closed, open, user, closer, overtaken>>

Adder(c) == AdderDial(c) \/ AddIdleConn(c) \/ AdderFailed(c) \/ AdderFree(c)

----------------------------------------------------------------------------
(* Get                                                                      *)

Goto(u, pc) == user' = [user EXCEPT ![u].pc = pc]

Get(u) ==
  /\ user[u].pc = "out"
  /\ ~closed
  /\ Goto(u, "slot")
  /\ UNCHANGED <<queue, lists, closed, open, adder, closer, overtaken>>

GetSlot(u) ==
  /\ user[u].pc = "slot"
  /\ queue < PoolSize
  /\ queue' = queue + 1
  /\ Goto(u, "idle")
  /\ UNCHANGED <<lists, closed, open, adder, closer, overtaken>>

(* getSlot timed out or its context is done.                                *)
GetSlotErr(u) ==
  /\ user[u].pc = "slot"
  /\ Goto(u, "out")
  /\ UNCHANGED <<queue, lists, closed, open, adder, closer, overtaken>>

(* Mutant of GetIdleConn: the connection handed out stays on idleConns.     *)
GetIdleConnKept(u) ==
  /\ user[u].pc = "idle"
  /\ \/ /\ closed \/ idleConns = << >>
        /\ Goto(u, IF closed THEN "free" ELSE "make")
        /\ UNCHANGED <<queue, lists, adder>>
     \/ /\ ~closed /\ idleConns # << >>
        /\ user' = [user EXCEPT ![u] = U("health", idleConns[Len(idleConns)])]
        /\ CheckMinIdleConns(createConn, idleConnLen - 1)
        /\ UNCHANGED <<conns, idleConns>>
  /\ UNCHANGED <<closed, open, closer, overtaken>>

(* getIdleConn, under mu.                                                   *)
GetIdleConn(u) ==
  /\ user[u].pc = "idle"
  /\ \/ /\ closed \/ idleConns = << >>
        /\ Goto(u, IF closed THEN "free" ELSE "make")
        /\ UNCHANGED <<queue, lists, adder>>
     \/ /\ ~closed /\ idleConns # << >>
        /\ LET last == Len(idleConns) IN
             /\ user' = [user EXCEPT ![u] = U("health", idleConns[last])]
             /\ idleConns' = SubSeq(idleConns, 1, last - 1)
        /\ CheckMinIdleConns(createConn, idleConnLen - 1)
        /\ UNCHANGED conns
  /\ UNCHANGED <<closed, open, closer, overtaken>>

(* health: a stale connection is removed and Get tries the next one.        *)
Health(u) ==
  /\ user[u].pc = "health"
  /\ \/ Goto(u, "has")
     \/ /\ "stale" \in Faults /\ ~overtaken
        /\ user' = [user EXCEPT ![u].pc = "remove", ![u].next = "idle"]
  /\ UNCHANGED <<queue, lists, closed, open, adder, closer, overtaken>>

Exhausted == MaxActiveSize > 0 /\ createConn >= MaxActiveSize

(* Where a Get that has failed in makeConn is next: its slot is not freed.  *)
MakeConnFailed == "out"

(* makeConn up to the dial.                                                 *)
MakeConn(u) ==
  /\ user[u].pc = "make"
  /\ Goto(u, IF closed \/ Exhausted THEN MakeConnFailed ELSE "dial")
  /\ UNCHANGED <<queue, lists, closed, open, adder, closer, overtaken>>

MakeConnDial(u) ==
  /\ user[u].pc = "dial"
  /\ \/ /\ closed \/ "dial" \in Faults
        /\ Goto(u, MakeConnFailed)
        /\ UNCHANGED open
     \/ /\ ~closed
        /\ \E c \in Fresh :
             /\ user' = [user EXCEPT ![u] = U("add", c)]
             /\ open' = open \cup {c}
  /\ UNCHANGED <<queue, lists, closed, adder, closer, overtaken>>

(* Mutant of MakeConnAdd: the new connection is counted and not listed.     *)
MakeConnAddForgets(u) ==
  /\ user[u].pc = "add"
  /\ createConn' = createConn + 1
  /\ Goto(u, "has")
  /\ UNCHANGED <<queue, conns, idleConns, idleConnLen, closed, open, adder, closer, overtaken>>

(* makeConn after the dial, under mu.                                       *)
MakeConnAdd(u) ==
  /\ user[u].pc = "add"
  /\ \/ /\ Exhausted
        /\ open' = open \ {user[u].conn}
        /\ user' = [user EXCEPT ![u] = U(MakeConnFailed, None)]
        /\ UNCHANGED lists
     \/ /\ ~Exhausted
        /\ conns' = conns \cup {user[u].conn}
        /\ createConn' = createConn + 1
        /\ Goto(u, "has")
        /\ UNCHANGED <<idleConns, idleConnLen, open>>
  /\ UNCHANGED <<queue, closed, adder, closer, overtaken>>

----------------------------------------------------------------------------
(* Put and the removal of a connection                                      *)

(* tryRemoveConn from what was read of the lists, then checkMinIdleConns.   *)
TryRemoveConn(c, cs, created, idleLen) ==
  IF c \in cs
    THEN conns' = cs \ {c} /\ CheckMinIdleConns(created - 1, idleLen)
    ELSE UNCHANGED <<queue, conns, createConn, idleConnLen, adder>>

(* Put on a closed pool drops the connection and keeps the slot.            *)
PutClosed(u) ==
  /\ user[u].pc = "has"
  /\ closed
  /\ user' = [user EXCEPT ![u] = U("out", None)]
  /\ UNCHANGED <<queue, lists, closed, open, adder, closer, overtaken>>

PutBuffered(u) ==
  /\ user[u].pc = "has"
  /\ ~closed /\ "buffered" \in Faults /\ ~overtaken
  /\ user' = [user EXCEPT ![u].pc = "remove", ![u].next = "free"]
  /\ UNCHANGED <<queue, lists, closed, open, adder, closer, overtaken>>

(* Put, under mu.  A connection that is not kept is closed after freeSlot.  *)
Put(u) ==
  /\ user[u].pc = "has"
  /\ ~closed
  /\ LET c == user[u].conn IN
       \/ /\ MaxIdleSize = 0 \/ idleConnLen < MaxIdleSize
          /\ idleConns' = Append(idleConns, c)
          /\ idleConnLen' = idleConnLen + 1
          /\ user' = [user EXCEPT ![u] = U("free", None)]
          /\ UNCHANGED <<queue, conns, createConn, adder>>
       \/ /\ MaxIdleSize # 0 /\ idleConnLen >= MaxIdleSize
          /\ TryRemoveConn(c, conns, createConn, idleConnLen)
          /\ user' = [user EXCEPT ![u] = U("free", c)]
          /\ UNCHANGED idleConns
  /\ UNCHANGED <<closed, open, closer, overtaken>>

ListsRead == [conns |-> conns, createConn |-> createConn, idleConnLen |-> idleConnLen]

(* removeConnAndClose, without mu: the lists and counters are read ...      *)
RemoveConnLoad(u) ==
  /\ user[u].pc = "remove"
  /\ user' = [user EXCEPT ![u].pc = "store", ![u].read = ListsRead]
  /\ UNCHANGED <<queue, lists, closed, open, adder, closer, overtaken>>

(* ... and written: each from a value that may have been overtaken.         *)
RemoveConnAndClose(u) ==
  /\ user[u].pc = "store"
  /\ LET c == user[u].conn
         read == user[u].read
     IN /\ \E cs \in {read.conns, conns}, created \in {read.createConn, createConn},
              idleLen \in {read.idleConnLen, idleConnLen} :
             TryRemoveConn(c, cs, created, idleLen)
        /\ open' = open \ {c}
        /\ overtaken' = (overtaken \/ read # ListsRead)
  /\ user' = [user EXCEPT ![u] = U(user[u].next, None)]
  /\ UNCHANGED <<idleConns, closed, closer>>

(* Mutant of FreeSlot: a second slot is freed.                              *)
FreeSlotTwice(u) ==
  /\ user[u].pc = "free"
  /\ queue > 1
  /\ queue' = queue - 2
  /\ open' = open \ {user[u].conn}
  /\ user' = [user EXCEPT ![u] = U("out", None)]
  /\ UNCHANGED <<lists, closed, adder, closer, overtaken>>

(* freeSlot, and Close of a connection that Put did not keep.               *)
FreeSlot(u) ==
  /\ user[u].pc = "free"
  /\ queue > 0
  /\ queue' = queue - 1
  /\ open' = open \ {user[u].conn}
  /\ user' = [user EXCEPT ![u] = U("out", None)]
  /\ UNCHANGED <<lists, closed, adder, closer, overtaken>>

Caller(u) ==
  \/ Get(u) \/ GetSlot(u) \/ GetSlotErr(u) \/ GetIdleConn(u) \/ Health(u)
  \/ MakeConn(u) \/ MakeConnDial(u) \/ MakeConnAdd(u)
  \/ PutClosed(u) \/ PutBuffered(u) \/ Put(u)
  \/ RemoveConnLoad(u) \/ RemoveConnAndClose(u) \/ FreeSlot(u)

----------------------------------------------------------------------------
(* Close                                                                    *)

CloseBegin ==
  /\ "close" \in Faults
  /\ ~closed
  /\ closed' = TRUE
  /\ closer' = "lock"
  /\ UNCHANGED <<queue, lists, open, adder, user, overtaken>>

(* Close the connections and resetPool, under mu.                           *)
ResetPool ==
  /\ closer = "lock"
  /\ open' = open \ conns
  /\ conns' = {} /\ idleConns' = << >>
  /\ createConn' = 0 /\ idleConnLen' = 0
  /\ closer' = "done"
  /\ UNCHANGED <<queue, closed, adder, user, overtaken>>

PoolNext ==
  \/ \E c \in Conn : Adder(c)
  \/ \E u \in User : Caller(u)
  \/ CloseBegin
  \/ ResetPool

PoolSpec == PoolInit /\ [][PoolNext]_poolVars

----------------------------------------------------------------------------
(* Properties                                                               *)

Adding == {c \in Conn : adder[c] \in {"dial", "append", "failed"}}
Holding == {"idle", "health", "make", "dial", "add", "has", "remove", "store", "free"}

(* A connection is handed to one caller at a time, and not while it is on   *)
(* idleConns (Get, Put).                                                    *)
Exclusive ==
  /\ \A i, j \in 1..Len(idleConns) : i # j => idleConns[i] # idleConns[j]
  /\ \A u \in User : user[u].pc = "has" =>
       /\ \A i \in 1..Len(idleConns) : idleConns[i] # user[u].conn
       /\ \A v \in User \ {u} : user[v].pc = "has" => user[v].conn # user[u].conn

(* The counters agree with the lists and the goroutines under way, so that  *)
(* the limits they are compared with are limits on connections - until a    *)
(* removal that does not take mu is overtaken (removeConnAndClose).         *)
CountersAgree ==
  closed \/ overtaken
    \/ /\ createConn = Cardinality(conns) + Cardinality(Adding)
       /\ idleConnLen = Len(idleConns) + Cardinality(Adding)

(* Every Get in progress, every connection handed out and every goroutine   *)
(* that adds one has its slot, whatever fails: no slot is given back twice, *)
(* which would let more callers in than PoolSize (getSlot, freeSlot: "An    *)
(* operation equivalent to a semaphore", line 143).                         *)
SlotsHeld ==
  queue >= Cardinality({u \in User : user[u].pc \in Holding})
           + Cardinality({c \in Conn : adder[c] # "none"})

(* A connection that Get has handed out is open, and listed in conns, which *)
(* is where Close looks for it, until a removal is overtaken.               *)
HandedOutListed ==
  \A u \in User : user[u].pc = "has" /\ ~closed =>
    user[u].conn \in open /\ (overtaken \/ user[u].conn \in conns)

============================================================================
