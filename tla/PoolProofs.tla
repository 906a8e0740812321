--------------------------------- MODULE PoolProofs ---------------------------------
(***************************************************************************)
(* Theorems about BackendPool and FixedPool, for any number of callers and *)
(* connections and any configuration of the pools.                         *)
(***************************************************************************)
EXTENDS FixedPool, SequenceTheorems, FiniteSetTheorems, TLAPS

(* Which callers have a connection: those between taking or dialling one    *)
(* and handing it back, and no others.                                      *)
HasConn == {"health", "add", "has", "remove", "store"}
NoConn == {"out", "slot", "idle", "make", "dial"}
CallersHold ==
  \A u \in User :
    /\ user[u].pc \in HasConn => user[u].conn # None
    /\ user[u].pc \in NoConn => user[u].conn = None
    /\ user[u].pc = "store" => user[u].read # None

(* A goroutine that is about to put its connection on the lists.            *)
Arriving(c) == adder[c] \in {"dial", "append"}

(* A connection is in one place: with one caller, once on idleConns or with *)
(* the goroutine that dials it.                                             *)
OnePlace ==
  /\ \A u, v \in User : user[u].conn = user[v].conn => u = v \/ user[u].conn = None
  /\ \A i, j \in 1..Len(idleConns) : idleConns[i] = idleConns[j] => i = j
  /\ \A u \in User : \A i \in 1..Len(idleConns) : idleConns[i] # user[u].conn
  /\ \A u \in User : user[u].conn # None => ~Arriving(user[u].conn)
  /\ \A i \in 1..Len(idleConns) : ~Arriving(idleConns[i])

(* What is in use or may be handed out is open, and listed where Close      *)
(* looks; what is on its way to the list is not on it.                      *)
InUse(c) ==
  \/ \E i \in 1..Len(idleConns) : idleConns[i] = c
  \/ \E u \in User : user[u].conn = c /\ user[u].pc \in {"health", "has", "remove", "store"}
OnItsWay(c) == Arriving(c) \/ \E u \in User : user[u].conn = c /\ user[u].pc = "add"

Listed ==
  /\ ~closed => \A c \in Conn : InUse(c) => c \in open /\ (overtaken \/ c \in conns)
  /\ ~closed => \A c \in Conn :
       adder[c] = "append" \/ (\E u \in User : user[u].conn = c /\ user[u].pc = "add") => c \in open
  /\ ~overtaken => \A c \in Conn : OnItsWay(c) => c \notin conns

ClosedFirst == closer # "none" => closed

(* The inductive invariant.                                                 *)
Places == CallersHold /\ OnePlace /\ Listed /\ ClosedFirst
PoolInv == PoolTypeOK /\ Places /\ SlotsHeld /\ CountersAgree

----------------------------------------------------------------------------
(* What a step does to the callers and to the goroutines, point by point.   *)

Busy == {u \in User : user[u].pc \in Holding}
Started == {c \in Conn : adder[c] # "none"}

(* Caller u goes to pc with connection k, the others stay.                  *)
Moved(u, pc, k) ==
  /\ user' \in [User -> UserState]
  /\ user'[u].pc = pc /\ user'[u].conn = k
  /\ pc = "store" => user'[u].read # None
  /\ \A v \in User : v # u => user'[v] = user[v]

(* Goroutines for the names in new start, each with its slot.               *)
Goes(new) ==
  /\ new \subseteq Fresh
  /\ adder' \in [Conn -> {"none", "dial", "append", "failed", "free"}]
  /\ \A c \in Conn : c \in new => adder'[c] = "dial"
  /\ \A c \in Conn : c \notin new => adder'[c] = adder[c]
Starts(new) == Goes(new) /\ queue' = queue + Cardinality(new) /\ queue' \in 0..PoolSize

(* The loop of checkMinIdleConns stops, and takes no slot that is not free. *)
LEMMA AddsWithinSize ==
  ASSUME PoolTypeOK, NEW created \in Int, NEW idleLen \in Int
  PROVE  /\ ToAdd(created, idleLen) \in 0..PoolSize
         /\ queue + ToAdd(created, idleLen) <= PoolSize
<1> DEFINE Good(n) ==
      /\ n = 0 \/ (created + n <= PoolSize /\ idleLen + n <= MinIdleSize
                     /\ queue + n <= PoolSize)
      /\ ~(created + n < PoolSize /\ idleLen + n < MinIdleSize
             /\ queue + n < PoolSize)
<1>t. /\ PoolSize \in Nat /\ MinIdleSize \in Nat
      /\ queue \in 0..PoolSize
  BY PoolAssumption DEF PoolTypeOK
<1>1. CASE MinIdleSize = 0
  BY <1>1, <1>t DEF ToAdd
<1>2. CASE MinIdleSize # 0
  <2>1. \E n \in 0..PoolSize : Good(n)
    <3>1. CASE Good(0)
      BY <3>1, <1>t
    <3>2. CASE ~Good(0)
      <4> DEFINE a == PoolSize - created
                 b == MinIdleSize - idleLen
                 q == PoolSize - queue
      <4>1. a \in Nat /\ b \in Nat /\ q \in 0..PoolSize /\ a > 0 /\ b > 0 /\ q > 0
        BY <3>2, <1>t
      <4>2. CASE a <= b /\ a <= q
        BY <4>1, <4>2, <1>t
      <4>3. CASE b <= a /\ b <= q
        <5>1. b \in 0..PoolSize /\ Good(b)
          BY <4>1, <4>3, <1>t
        <5> QED BY <5>1
      <4>4. CASE q <= a /\ q <= b
        BY <4>1, <4>4, <1>t
      <4> QED BY <4>1, <4>2, <4>3, <4>4
    <3> QED BY <3>1, <3>2
  <2>2. ToAdd(created, idleLen) = CHOOSE n \in 0..PoolSize : Good(n)
    BY <1>2 DEF ToAdd
  <2>3. ToAdd(created, idleLen) \in 0..PoolSize /\ Good(ToAdd(created, idleLen))
    BY <2>1, <2>2
  <2> QED BY <2>3, <1>t
<1> QED BY <1>1, <1>2

LEMMA FiniteSets ==
  /\ \A S \in SUBSET Conn : IsFiniteSet(S) /\ Cardinality(S) \in Nat
  /\ \A S \in SUBSET User : IsFiniteSet(S) /\ Cardinality(S) \in Nat
  BY PoolAssumption, FS_Subset, FS_CardinalityType

LEMMA CheckStarts ==
  ASSUME PoolTypeOK, NEW created \in Int, NEW idleLen \in Int,
         CheckMinIdleConns(created, idleLen)
  PROVE  \E new \in SUBSET Conn :
           /\ Starts(new)
           /\ createConn' = created + Cardinality(new)
           /\ idleConnLen' = idleLen + Cardinality(new)
<1>1. PICK new \in SUBSET Fresh :
        /\ Cardinality(new) = ToAdd(created, idleLen)
        /\ createConn' = created + Cardinality(new)
        /\ idleConnLen' = idleLen + Cardinality(new)
        /\ queue' = queue + Cardinality(new)
        /\ adder' = [c \in Conn |-> IF c \in new THEN "dial" ELSE adder[c]]
  BY DEF CheckMinIdleConns
<1>2. new \in SUBSET Conn
  BY DEF Fresh
<1>3. queue' \in 0..PoolSize
  <2>1. /\ ToAdd(created, idleLen) \in 0..PoolSize
        /\ queue + ToAdd(created, idleLen) <= PoolSize
    BY AddsWithinSize
  <2>2. queue' = queue + ToAdd(created, idleLen) /\ queue \in 0..PoolSize
    BY <1>1 DEF PoolTypeOK
  <2> QED BY <2>1, <2>2, PoolAssumption
<1>4. Starts(new)
  BY <1>1, <1>2, <1>3 DEF Starts, Goes, PoolTypeOK
<1> QED BY <1>1, <1>2, <1>4

(* Nothing starts.                                                          *)
LEMMA NoneStarts ==
  ASSUME PoolTypeOK, queue' = queue, adder' = adder
  PROVE  Starts({}) /\ Cardinality({}) = 0
  BY FS_EmptySet, PoolAssumption DEF Starts, Goes, PoolTypeOK

LEMMA NoneGoes ==
  ASSUME PoolTypeOK, adder' = adder
  PROVE  Goes({})
  BY DEF Goes, PoolTypeOK

LEMMA StartsSets ==
  ASSUME PoolTypeOK, NEW new \in SUBSET Conn, Goes(new)
  PROVE  /\ Cardinality(new) \in Nat
         /\ Cardinality(Started') = Cardinality(Started) + Cardinality(new)
         /\ Cardinality(Adding') = Cardinality(Adding) + Cardinality(new)
<1>1. Started' = Started \cup new /\ Started \cap new = {}
  BY DEF Started, Goes, Fresh
<1>2. Adding' = Adding \cup new /\ Adding \cap new = {}
  BY DEF Adding, Goes, Fresh
<1>3. /\ IsFiniteSet(Started) /\ Cardinality(Started) \in Nat
      /\ IsFiniteSet(Adding) /\ Cardinality(Adding) \in Nat
      /\ IsFiniteSet(new) /\ Cardinality(new) \in Nat
  BY FiniteSets DEF Started, Adding
<1>4. Cardinality(Started \cup new)
        = Cardinality(Started) + Cardinality(new) - Cardinality({})
  BY <1>1, <1>3, FS_Union
<1>5. Cardinality(Adding \cup new)
        = Cardinality(Adding) + Cardinality(new) - Cardinality({})
  BY <1>2, <1>3, FS_Union
<1> QED BY <1>1, <1>2, <1>3, <1>4, <1>5, FS_EmptySet

(* Callers: how the ways of writing user' in the actions move a caller.     *)
LEMMA MovedTo ==
  ASSUME PoolTypeOK, NEW u \in User, NEW pc \in UserPc, NEW k \in Conn \cup {None},
         user' = [user EXCEPT ![u] = U(pc, k)], pc # "store"
  PROVE  Moved(u, pc, k)
<1>1. U(pc, k) \in UserState /\ U(pc, k).pc = pc /\ U(pc, k).conn = k
  BY DEF U, UserState
<1> DEFINE r == U(pc, k)
<1> HIDE DEF r
<1>2. r \in UserState /\ r.pc = pc /\ r.conn = k /\ user' = [user EXCEPT ![u] = r]
  BY <1>1 DEF r
<1> QED BY <1>2 DEF Moved, PoolTypeOK

LEMMA MovedOn ==
  ASSUME PoolTypeOK, NEW u \in User, NEW pc \in UserPc, Goto(u, pc), pc # "store"
  PROVE  Moved(u, pc, user[u].conn)
<1> DEFINE r == [user[u] EXCEPT !.pc = pc]
<1>1. user[u] \in UserState
  BY DEF PoolTypeOK
<1>2. r \in UserState /\ r.pc = pc /\ r.conn = user[u].conn
  BY <1>1 DEF UserState
<1>3. user' = [user EXCEPT ![u] = r]
  BY DEF Goto
<1> HIDE DEF r
<1> QED BY <1>2, <1>3 DEF Moved, PoolTypeOK

LEMMA MovedRemove ==
  ASSUME PoolTypeOK, NEW u \in User, NEW n \in {"idle", "free"},
         user' = [user EXCEPT ![u].pc = "remove", ![u].next = n]
  PROVE  Moved(u, "remove", user[u].conn)
<1> DEFINE r == [user[u] EXCEPT !.pc = "remove", !.next = n]
<1>1. user[u] \in UserState
  BY DEF PoolTypeOK
<1>2. r \in UserState /\ r.pc = "remove" /\ r.conn = user[u].conn
  BY <1>1 DEF UserState, UserPc
<1>3. user' = [user EXCEPT ![u] = r]
  OBVIOUS
<1> HIDE DEF r
<1> QED BY <1>2, <1>3 DEF Moved, PoolTypeOK

LEMMA MovedStore ==
  ASSUME PoolTypeOK, NEW u \in User,
         user' = [user EXCEPT ![u].pc = "store", ![u].read = ListsRead]
  PROVE  Moved(u, "store", user[u].conn)
<1> DEFINE r == [user[u] EXCEPT !.pc = "store", !.read = ListsRead]
<1>1. user[u] \in UserState
  BY DEF PoolTypeOK
<1>0. ListsRead \in Snapshot
  BY DEF ListsRead, Snapshot, PoolTypeOK
<1>2. r \in UserState /\ r.pc = "store" /\ r.conn = user[u].conn /\ r.read = ListsRead
  BY <1>1, <1>0 DEF UserState, UserPc
<1>3. user' = [user EXCEPT ![u] = r]
  OBVIOUS
<1>4. ListsRead # None
  BY <1>0, PoolAssumption DEF Snapshot
<1> HIDE DEF r
<1> QED BY <1>2, <1>3, <1>4 DEF Moved, PoolTypeOK

----------------------------------------------------------------------------
(* The slots                                                                *)

LEMMA SlotSets ==
  ASSUME PoolTypeOK
  PROVE  /\ IsFiniteSet(Busy) /\ Cardinality(Busy) \in Nat
         /\ IsFiniteSet(Started) /\ Cardinality(Started) \in Nat
         /\ queue \in Nat
  BY FiniteSets, PoolAssumption DEF Busy, Started, PoolTypeOK

(* Callers may give up their claim; what starts takes its slots.            *)
LEMMA SlotsStart ==
  ASSUME PoolTypeOK, SlotsHeld, NEW new \in SUBSET Conn, Starts(new), Busy' \subseteq Busy
  PROVE  SlotsHeld'
<1>1. Cardinality(Busy') \in Nat /\ Cardinality(Busy') <= Cardinality(Busy)
  BY SlotSets, FS_Subset, FS_CardinalityType
<1>2. queue >= Cardinality(Busy) + Cardinality(Started)
  BY DEF SlotsHeld, Busy, Started
<1>3. /\ Cardinality(Started') = Cardinality(Started) + Cardinality(new)
      /\ Cardinality(new) \in Nat
      /\ queue' = queue + Cardinality(new)
  BY StartsSets DEF Starts
<1>4. queue' >= Cardinality(Busy') + Cardinality(Started')
  BY <1>1, <1>2, <1>3, SlotSets
<1> QED BY <1>4 DEF SlotsHeld, Busy, Started

(* A caller enters with a slot it has taken.                                *)
LEMMA SlotTaken ==
  ASSUME PoolTypeOK, SlotsHeld, NEW u \in User, u \notin Busy,
         Busy' = Busy \cup {u}, Started' = Started, queue' = queue + 1
  PROVE  SlotsHeld'
<1>1. Cardinality(Busy') = Cardinality(Busy) + 1
  BY SlotSets, FS_AddElement
<1>2. queue >= Cardinality(Busy) + Cardinality(Started)
  BY DEF SlotsHeld, Busy, Started
<1>3. queue' >= Cardinality(Busy') + Cardinality(Started')
  BY <1>1, <1>2, SlotSets
<1> QED BY <1>3 DEF SlotsHeld, Busy, Started

(* A caller gives back the slot it has.                                     *)
LEMMA SlotFreed ==
  ASSUME PoolTypeOK, SlotsHeld, NEW u \in Busy,
         Busy' = Busy \ {u}, Started' = Started, queue' = queue - 1
  PROVE  SlotsHeld'
<1>1. Cardinality(Busy') = Cardinality(Busy) - 1
  BY SlotSets, FS_RemoveElement
<1>2. queue >= Cardinality(Busy) + Cardinality(Started)
  BY DEF SlotsHeld, Busy, Started
<1>3. queue' >= Cardinality(Busy') + Cardinality(Started')
  BY <1>1, <1>2, SlotSets
<1> QED BY <1>3 DEF SlotsHeld, Busy, Started

LEMMA AdderSlotFreed ==
  ASSUME PoolTypeOK, SlotsHeld, NEW c \in Started,
         Started' = Started \ {c}, Busy' = Busy, queue' = queue - 1
  PROVE  SlotsHeld'
<1>1. Cardinality(Started') = Cardinality(Started) - 1
  BY SlotSets, FS_RemoveElement
<1>2. queue >= Cardinality(Busy) + Cardinality(Started)
  BY DEF SlotsHeld, Busy, Started
<1>3. queue' >= Cardinality(Busy') + Cardinality(Started')
  BY <1>1, <1>2, SlotSets
<1> QED BY <1>3 DEF SlotsHeld, Busy, Started

LEMMA SlotsSame ==
  ASSUME SlotsHeld, Started' = Started, Busy' = Busy, queue' = queue
  PROVE  SlotsHeld'
  BY DEF SlotsHeld, Busy, Started

LEMMA BusyMoved ==
  ASSUME NEW u \in User, NEW pc, NEW k, Moved(u, pc, k)
  PROVE  /\ pc \in Holding => Busy' = Busy \cup {u}
         /\ pc \notin Holding => Busy' = Busy \ {u}
  BY DEF Moved, Busy

----------------------------------------------------------------------------
(* Where the connections are                                                *)

Using == {"health", "has", "remove", "store"}

(* A caller goes on with the connection it has, or lets go of it, while the *)
(* lists may lose that connection and goroutines may start.                 *)
LEMMA PlacesMoved ==
  ASSUME PoolTypeOK, Places,
         NEW u \in User, NEW pc \in UserPc, NEW k \in {None, user[u].conn}, Moved(u, pc, k),
         NEW new \in SUBSET Conn, Goes(new),
         idleConns' = idleConns, closed' = closed, closer' = closer, overtaken => overtaken',
         pc \in NoConn => k = None,
         pc \in Using =>
           user[u].pc \in Using /\ k = user[u].conn /\ open' = open /\ conns' = conns,
         pc = "add" =>
           user[u].pc = "add" /\ k = user[u].conn /\ open' = open /\ conns' = conns,
         open' \in {open, open \ {user[u].conn}},
         overtaken' \/ conns' \in {conns, conns \ {user[u].conn}}
  PROVE  Places'
<1>c. CallersHold
  BY DEF Places
<1>o. OnePlace
  BY DEF Places
<1>l. Listed
  BY DEF Places
<1>m. /\ user'[u].pc = pc /\ user'[u].conn = k
      /\ pc = "store" => user'[u].read # None
      /\ \A v \in User : v # u => user'[v] = user[v]
  BY DEF Moved
<1>k. /\ \A v \in User : user[v].conn \in Conn \cup {None}
      /\ \A i \in 1..Len(idleConns) : idleConns[i] \in Conn
      /\ None \notin Conn
  BY PoolAssumption DEF PoolTypeOK, UserState
<1>a. /\ \A c \in Conn : c \in new =>
           /\ adder[c] = "none" /\ c \notin open \cup conns
           /\ \A i \in 1..Len(idleConns) : idleConns[i] # c
           /\ \A v \in User : user[v].conn # c
      /\ \A c \in Conn : c \in new => adder'[c] = "dial"
      /\ \A c \in Conn : c \notin new => adder'[c] = adder[c]
  BY DEF Goes, Fresh
<1>1. CallersHold'
  <2> SUFFICES ASSUME NEW v \in User
               PROVE  /\ user'[v].pc \in HasConn => user'[v].conn # None
                      /\ user'[v].pc \in NoConn => user'[v].conn = None
                      /\ user'[v].pc = "store" => user'[v].read # None
    BY DEF CallersHold
  <2>1. CASE v = u
    BY <2>1, <1>m, <1>c, Zenon DEF CallersHold, HasConn, Using
  <2>2. CASE v # u
    BY <2>2, <1>m, <1>c DEF CallersHold
  <2> QED BY <2>1, <2>2
<1>2. OnePlace'
  <2>1. \A v \in User : user'[v].conn # None => user'[v].conn = user[v].conn
    BY <1>m
  <2>2. \A c \in Conn : Arriving(c)' => Arriving(c) \/ c \in new
    BY <1>a DEF Arriving
  <2> QED BY <1>o, <1>a, <1>k, <2>1, <2>2 DEF OnePlace
<1>3. Listed'
  <2>1. ASSUME NEW c \in Conn, InUse(c)'
        PROVE  InUse(c) /\ (c # user[u].conn \/ (open' = open /\ conns' = conns))
    <3>1. CASE \E i \in 1..Len(idleConns) : idleConns[i] = c
      BY <3>1, <1>o DEF InUse, OnePlace
    <3>2. CASE \E v \in User : user'[v].conn = c /\ user'[v].pc \in Using
      <4>1. PICK v \in User : user'[v].conn = c /\ user'[v].pc \in Using
        BY <3>2
      <4>2. CASE v = u
        BY <4>1, <4>2, <1>m DEF InUse, Using
      <4>3. CASE v # u
        BY <4>1, <4>3, <1>m, <1>o, <1>k DEF InUse, Using, OnePlace
      <4> QED BY <4>2, <4>3
    <3> QED BY <2>1, <3>1, <3>2 DEF InUse, Using
  <2>2. ASSUME NEW c \in Conn, \E v \in User : user'[v].conn = c /\ user'[v].pc = "add"
        PROVE  /\ \E v \in User : user[v].conn = c /\ user[v].pc = "add"
               /\ c # user[u].conn \/ (open' = open /\ conns' = conns)
    <3>1. PICK v \in User : user'[v].conn = c /\ user'[v].pc = "add"
      BY <2>2
    <3>2. CASE v = u
      BY <3>1, <3>2, <1>m
    <3>3. CASE v # u
      BY <3>1, <3>3, <1>m, <1>o, <1>k DEF OnePlace
    <3> QED BY <3>2, <3>3
  <2>3. ASSUME NEW c \in Conn, adder'[c] = "append"
        PROVE  adder[c] = "append" /\ c # user[u].conn
    BY <2>3, <1>a, <1>o, <1>k DEF OnePlace, Arriving
  <2>4. ASSUME NEW c \in Conn, OnItsWay(c)'
        PROVE  OnItsWay(c) \/ c \notin conns
    BY <2>4, <2>2, <1>a DEF OnItsWay, Arriving
  <2>5. ~closed' => \A c \in Conn : InUse(c)' => c \in open' /\ (overtaken' \/ c \in conns')
    BY <2>1, <1>l DEF Listed
  <2>6. ~closed' => \A c \in Conn :
          adder'[c] = "append" \/ (\E v \in User : user'[v].conn = c /\ user'[v].pc = "add")
            => c \in open'
    BY <2>2, <2>3, <1>l DEF Listed
  <2>7. ~overtaken' => \A c \in Conn : OnItsWay(c)' => c \notin conns'
    BY <2>4, <1>l DEF Listed
  <2> QED BY <2>5, <2>6, <2>7 DEF Listed
<1>4. ClosedFirst'
  BY DEF Places, ClosedFirst
<1> QED BY <1>1, <1>2, <1>3, <1>4 DEF Places

----------------------------------------------------------------------------
(* The counters                                                             *)

LEMMA CountSets ==
  ASSUME PoolTypeOK
  PROVE  /\ IsFiniteSet(conns) /\ Cardinality(conns) \in Nat
         /\ IsFiniteSet(Adding) /\ Cardinality(Adding) \in Nat
         /\ Len(idleConns) \in Nat
  BY FiniteSets DEF Adding, PoolTypeOK

(* checkMinIdleConns counts what it starts.                                 *)
LEMMA CountersStart ==
  ASSUME PoolTypeOK, NEW new \in SUBSET Conn, Goes(new),
         NEW created \in Int, NEW idleLen \in Int,
         createConn' = created + Cardinality(new),
         idleConnLen' = idleLen + Cardinality(new),
         NEW n \in Nat, Cardinality(conns') = n, NEW m \in Nat, Len(idleConns') = m,
         created = n + Cardinality(Adding), idleLen = m + Cardinality(Adding)
  PROVE  CountersAgree'
<1>1. /\ createConn' = Cardinality(conns') + Cardinality(Adding')
      /\ idleConnLen' = Len(idleConns') + Cardinality(Adding')
  <2> DEFINE a == Cardinality(Adding)
             b == Cardinality(Adding')
             w == Cardinality(new)
  <2>1. a \in Nat /\ w \in Nat /\ b = a + w
    BY StartsSets, CountSets
  <2>2. /\ createConn' = (n + a) + w /\ Cardinality(conns') = n
        /\ idleConnLen' = (m + a) + w /\ Len(idleConns') = m
    OBVIOUS
  <2> HIDE DEF a, b, w
  <2>3. createConn' = n + b /\ idleConnLen' = m + b
    BY <2>1, <2>2
  <2> QED BY <2>2, <2>3 DEF b
<1> QED BY <1>1 DEF CountersAgree

LEMMA CountersSame ==
  ASSUME CountersAgree, UNCHANGED <<lists, closed, overtaken>>, Adding' = Adding
  PROVE  CountersAgree'
  BY DEF CountersAgree, lists

----------------------------------------------------------------------------
(* The steps of a caller                                                    *)

(* Steps that move a caller on and touch nothing else.                      *)
LEMMA JustMoves ==
  ASSUME PoolInv, NEW u \in User, NEW pc \in UserPc, Moved(u, pc, user[u].conn),
         UNCHANGED <<queue, lists, closed, open, adder, closer, overtaken>>,
         pc \in NoConn => user[u].pc \in NoConn,
         pc \in Using => user[u].pc \in Using,
         pc # "add",
         pc \in Holding => user[u].pc \in Holding
  PROVE  PoolInv'
<1>0. PoolTypeOK /\ Places /\ SlotsHeld /\ CountersAgree
  BY DEF PoolInv
<1>1. PoolTypeOK'
  BY <1>0 DEF PoolTypeOK, Moved, lists
<1>2. Starts({})
  BY <1>0, NoneStarts
<1>u. UNCHANGED <<conns, idleConns>>
  BY DEF lists
<1>3. Places'
  <2>1. pc \in NoConn => user[u].conn = None
    BY <1>0 DEF Places, CallersHold
  <2>2. Goes({})
    BY <1>0, NoneGoes
  <2> QED BY <1>0, <1>u, <2>1, <2>2, PlacesMoved
<1>4. SlotsHeld'
  <2>1. Busy' \subseteq Busy
    BY BusyMoved DEF Busy
  <2> QED BY <1>0, <1>2, <2>1, SlotsStart
<1>5. CountersAgree'
  BY <1>0, CountersSame DEF Adding
<1> QED BY <1>1, <1>3, <1>4, <1>5 DEF PoolInv

(* The steps of that kind that write user' with Goto.                       *)
LEMMA JustGoes ==
  ASSUME PoolInv, NEW u \in User, NEW pc \in UserPc, Goto(u, pc),
         UNCHANGED <<queue, lists, closed, open, adder, closer, overtaken>>,
         pc \in NoConn => user[u].pc \in NoConn,
         pc \in Using => user[u].pc \in Using,
         pc # "add", pc # "store",
         pc \in Holding => user[u].pc \in Holding
  PROVE  PoolInv'
<1>1. PoolTypeOK
  BY DEF PoolInv
<1>2. Moved(u, pc, user[u].conn)
  BY <1>1, MovedOn
<1> QED BY <1>2, JustMoves

LEMMA GetStep ==
  ASSUME PoolInv, NEW u \in User, Get(u)
  PROVE  PoolInv'
<1>1. user[u].pc = "out" /\ Goto(u, "slot")
  BY DEF Get
<1>2. UNCHANGED <<queue, lists, closed, open, adder, closer, overtaken>>
  BY DEF Get
<1> QED BY <1>1, <1>2, JustGoes DEF UserPc, NoConn, Using, Holding

LEMMA GetSlotErrStep ==
  ASSUME PoolInv, NEW u \in User, GetSlotErr(u)
  PROVE  PoolInv'
<1>1. user[u].pc = "slot" /\ Goto(u, "out")
  BY DEF GetSlotErr
<1>2. UNCHANGED <<queue, lists, closed, open, adder, closer, overtaken>>
  BY DEF GetSlotErr
<1> QED BY <1>1, <1>2, JustGoes DEF UserPc, NoConn, Using, Holding

LEMMA MakeConnStep ==
  ASSUME PoolInv, NEW u \in User, MakeConn(u)
  PROVE  PoolInv'
<1>1. user[u].pc = "make"
  BY DEF MakeConn
<1>2. UNCHANGED <<queue, lists, closed, open, adder, closer, overtaken>>
  BY DEF MakeConn
<1>3. CASE Goto(u, "out")
  BY <1>1, <1>2, <1>3, JustGoes DEF UserPc, NoConn, Using, Holding
<1>4. CASE Goto(u, "dial")
  BY <1>1, <1>2, <1>4, JustGoes DEF UserPc, NoConn, Using, Holding
<1> QED BY <1>3, <1>4 DEF MakeConn, MakeConnFailed

LEMMA HealthStep ==
  ASSUME PoolInv, NEW u \in User, Health(u)
  PROVE  PoolInv'
<1>0. PoolTypeOK
  BY DEF PoolInv
<1>1. user[u].pc = "health"
  BY DEF Health
<1>2. UNCHANGED <<queue, lists, closed, open, adder, closer, overtaken>>
  BY DEF Health
<1>3. CASE Goto(u, "has")
  BY <1>1, <1>2, <1>3, JustGoes DEF UserPc, NoConn, Using, Holding
<1>4. CASE user' = [user EXCEPT ![u].pc = "remove", ![u].next = "idle"]
  <2>1. Moved(u, "remove", user[u].conn)
    BY <1>0, <1>4, MovedRemove
  <2> QED BY <1>1, <1>2, <2>1, JustMoves DEF UserPc, NoConn, Using, Holding
<1> QED BY <1>3, <1>4 DEF Health

LEMMA PutBufferedStep ==
  ASSUME PoolInv, NEW u \in User, PutBuffered(u)
  PROVE  PoolInv'
<1>0. PoolTypeOK
  BY DEF PoolInv
<1>1. user[u].pc = "has" /\ user' = [user EXCEPT ![u].pc = "remove", ![u].next = "free"]
  BY DEF PutBuffered
<1>2. UNCHANGED <<queue, lists, closed, open, adder, closer, overtaken>>
  BY DEF PutBuffered
<1>3. Moved(u, "remove", user[u].conn)
  BY <1>0, <1>1, MovedRemove
<1> QED BY <1>1, <1>2, <1>3, JustMoves DEF UserPc, NoConn, Using, Holding

LEMMA RemoveConnLoadStep ==
  ASSUME PoolInv, NEW u \in User, RemoveConnLoad(u)
  PROVE  PoolInv'
<1>0. PoolTypeOK
  BY DEF PoolInv
<1>1. user[u].pc = "remove"
  BY DEF RemoveConnLoad
<1>2. UNCHANGED <<queue, lists, closed, open, adder, closer, overtaken>>
  BY DEF RemoveConnLoad
<1>3. Moved(u, "store", user[u].conn)
  BY <1>0, MovedStore DEF RemoveConnLoad
<1> QED BY <1>1, <1>2, <1>3, JustMoves DEF UserPc, NoConn, Using, Holding

(* getSlot takes the slot that the caller holds from here on.               *)
LEMMA GetSlotStep ==
  ASSUME PoolInv, NEW u \in User, GetSlot(u)
  PROVE  PoolInv'
<1>0. PoolTypeOK /\ Places /\ SlotsHeld /\ CountersAgree
  BY DEF PoolInv
<1>1. /\ user[u].pc = "slot" /\ Goto(u, "idle")
      /\ queue < PoolSize /\ queue' = queue + 1
  BY DEF GetSlot
<1>2. UNCHANGED <<conns, idleConns, createConn, idleConnLen, closed, open, adder, closer, overtaken>>
  BY DEF GetSlot, lists
<1>3. Moved(u, "idle", user[u].conn)
  BY <1>0, <1>1, MovedOn DEF UserPc
<1>4. PoolTypeOK'
  <2>1. queue' \in 0..PoolSize
    BY <1>0, <1>1, PoolAssumption DEF PoolTypeOK
  <2> QED BY <1>0, <1>2, <1>3, <2>1 DEF PoolTypeOK, Moved
<1>5. Places'
  <2>1. user[u].conn = None
    BY <1>0, <1>1 DEF Places, CallersHold, NoConn
  <2>2. Goes({})
    BY <1>0, <1>2, NoneGoes
  <2> QED BY <1>0, <1>2, <1>3, <2>1, <2>2, PlacesMoved DEF UserPc, Using
<1>6. SlotsHeld'
  <2>1. u \notin Busy /\ Busy' = Busy \cup {u}
    BY <1>1, <1>3, BusyMoved DEF Busy, Holding
  <2>2. Started' = Started
    BY <1>2 DEF Started
  <2> QED BY <1>0, <1>1, <2>1, <2>2, SlotTaken
<1>7. CountersAgree'
  BY <1>0, <1>2, CountersSame DEF Adding, lists
<1> QED BY <1>4, <1>5, <1>6, <1>7 DEF PoolInv

(* Put on a closed pool: the connection is dropped, the slot stays taken.   *)
LEMMA PutClosedStep ==
  ASSUME PoolInv, NEW u \in User, PutClosed(u)
  PROVE  PoolInv'
<1>0. PoolTypeOK /\ Places /\ SlotsHeld /\ CountersAgree
  BY DEF PoolInv
<1>1. user' = [user EXCEPT ![u] = U("out", None)]
  BY DEF PutClosed
<1>2. UNCHANGED <<queue, conns, idleConns, createConn, idleConnLen, closed, open, adder, closer,
                  overtaken>>
  BY DEF PutClosed, lists
<1>3. Moved(u, "out", None)
  BY <1>0, <1>1, MovedTo DEF UserPc
<1>4. PoolTypeOK'
  BY <1>0, <1>2, <1>3 DEF PoolTypeOK, Moved
<1>5. Places'
  <2>1. Goes({})
    BY <1>0, <1>2, NoneGoes
  <2> QED BY <1>0, <1>2, <1>3, <2>1, PlacesMoved DEF UserPc, Using
<1>6. SlotsHeld'
  <2>1. Busy' \subseteq Busy
    BY <1>3, BusyMoved DEF Holding
  <2>2. Starts({})
    BY <1>0, <1>2, NoneStarts
  <2> QED BY <1>0, <2>1, <2>2, SlotsStart
<1>7. CountersAgree'
  BY <1>0, <1>2, CountersSame DEF Adding, lists
<1> QED BY <1>4, <1>5, <1>6, <1>7 DEF PoolInv

(* freeSlot of a caller gives back the caller's own slot.                   *)
LEMMA FreeSlotStep ==
  ASSUME PoolInv, NEW u \in User, FreeSlot(u)
  PROVE  PoolInv'
<1>0. PoolTypeOK /\ Places /\ SlotsHeld /\ CountersAgree
  BY DEF PoolInv
<1>1. /\ user[u].pc = "free" /\ user' = [user EXCEPT ![u] = U("out", None)]
      /\ queue > 0 /\ queue' = queue - 1
      /\ open' = open \ {user[u].conn}
  BY DEF FreeSlot
<1>2. UNCHANGED <<conns, idleConns, createConn, idleConnLen, closed, adder, closer, overtaken>>
  BY DEF FreeSlot, lists
<1>3. Moved(u, "out", None)
  BY <1>0, <1>1, MovedTo DEF UserPc
<1>4. PoolTypeOK'
  <2>1. queue' \in 0..PoolSize
    BY <1>0, <1>1, PoolAssumption DEF PoolTypeOK
  <2> QED BY <1>0, <1>1, <1>2, <1>3, <2>1 DEF PoolTypeOK, Moved
<1>5. Places'
  <2>1. Goes({})
    BY <1>0, <1>2, NoneGoes
  <2> QED BY <1>0, <1>1, <1>2, <1>3, <2>1, PlacesMoved DEF UserPc, Using
<1>6. SlotsHeld'
  <2>1. u \in Busy /\ Busy' = Busy \ {u}
    BY <1>1, <1>3, BusyMoved DEF Busy, Holding
  <2>2. Started' = Started
    BY <1>2 DEF Started
  <2> QED BY <1>0, <1>1, <2>1, <2>2, SlotFreed
<1>7. CountersAgree'
  BY <1>0, <1>2, CountersSame DEF Adding, lists
<1> QED BY <1>4, <1>5, <1>6, <1>7 DEF PoolInv

(* tryRemoveConn either finds the connection in the list it has read, drops *)
(* it and refills the pool, or does nothing.                                *)
LEMMA Removed ==
  ASSUME PoolTypeOK, NEW c \in Conn, NEW cs \in SUBSET Conn, NEW created \in Int,
         NEW idleLen \in Int, TryRemoveConn(c, cs, created, idleLen)
  PROVE  \E new \in SUBSET Conn :
           /\ Starts(new)
           /\ conns' \subseteq Conn /\ createConn' \in Int /\ idleConnLen' \in Int
           /\ \/ /\ c \in cs /\ conns' = cs \ {c}
                 /\ createConn' = created - 1 + Cardinality(new)
                 /\ idleConnLen' = idleLen + Cardinality(new)
              \/ /\ c \notin cs /\ UNCHANGED <<conns, createConn, idleConnLen, adder>>
<1>1. CASE c \in cs
  <2>1. conns' = cs \ {c} /\ CheckMinIdleConns(created - 1, idleLen)
    BY <1>1 DEF TryRemoveConn
  <2>2. created - 1 \in Int
    OBVIOUS
  <2>3. PICK new \in SUBSET Conn :
          /\ Starts(new)
          /\ createConn' = created - 1 + Cardinality(new)
          /\ idleConnLen' = idleLen + Cardinality(new)
    BY <2>1, <2>2, CheckStarts
  <2>4. createConn' \in Int /\ idleConnLen' \in Int /\ conns' \subseteq Conn
    BY <2>1, <2>2, <2>3, FiniteSets
  <2> QED BY <1>1, <2>1, <2>3, <2>4
<1>2. CASE c \notin cs
  <2>1. UNCHANGED <<queue, conns, createConn, idleConnLen, adder>>
    BY <1>2 DEF TryRemoveConn
  <2>2. Starts({})
    BY <2>1, NoneStarts
  <2> QED BY <1>2, <2>1, <2>2 DEF PoolTypeOK
<1> QED BY <1>1, <1>2

(* The counters after a removal that has read what is there.                *)
LEMMA CountersRemoved ==
  ASSUME PoolTypeOK, CountersAgree, NEW c \in conns, NEW new \in SUBSET Conn, Goes(new),
         idleConns' = idleConns, closed' = closed, overtaken => overtaken',
         conns' = conns \ {c},
         createConn' = createConn - 1 + Cardinality(new),
         idleConnLen' = idleConnLen + Cardinality(new)
  PROVE  CountersAgree'
<1>1. CASE closed' \/ overtaken'
  BY <1>1 DEF CountersAgree
<1>2. CASE ~closed' /\ ~overtaken'
  <2> DEFINE n == Cardinality(conns \ {c})
             a == Cardinality(Adding)
             m == Len(idleConns)
  <2>1. n \in Nat /\ n = Cardinality(conns) - 1 /\ Cardinality(conns) \in Nat
    BY CountSets, FiniteSets, FS_RemoveElement DEF PoolTypeOK
  <2>2. createConn = Cardinality(conns) + a /\ idleConnLen = m + a
    BY <1>2 DEF CountersAgree
  <2>3. a \in Nat /\ m \in Nat
    BY CountSets
  <2>4. Cardinality(conns') = n /\ Len(idleConns') = m
    OBVIOUS
  <2>5. createConn \in Int /\ idleConnLen \in Int
    BY DEF PoolTypeOK
  <2> HIDE DEF n, a, m
  <2>6. /\ createConn - 1 \in Int /\ createConn - 1 = n + a
        /\ idleConnLen \in Int /\ idleConnLen = m + a
    BY <2>1, <2>2, <2>3, <2>5
  <2> QED BY <2>1, <2>3, <2>4, <2>6, CountersStart DEF a
<1> QED BY <1>1, <1>2

(* removeConnAndClose, whose reads may be stale.                            *)
LEMMA RemoveConnAndCloseStep ==
  ASSUME PoolInv, NEW u \in User, RemoveConnAndClose(u)
  PROVE  PoolInv'
<1>0. PoolTypeOK /\ Places /\ SlotsHeld /\ CountersAgree
  BY DEF PoolInv
<1> DEFINE c == user[u].conn
           read == user[u].read
           next == user[u].next
<1>1. user[u].pc = "store"
  BY DEF RemoveConnAndClose
<1>2. c \in Conn /\ read \in Snapshot /\ next \in {"idle", "free"}
  <2>1. c # None /\ read # None
    BY <1>0, <1>1 DEF Places, CallersHold, HasConn
  <2> QED BY <1>0, <2>1 DEF PoolTypeOK, UserState
<1>3. PICK cs \in {read.conns, conns}, created \in {read.createConn, createConn},
           idleLen \in {read.idleConnLen, idleConnLen} :
        TryRemoveConn(c, cs, created, idleLen)
  BY DEF RemoveConnAndClose
<1>4. /\ open' = open \ {c}
      /\ overtaken' = (overtaken \/ read # ListsRead)
      /\ user' = [user EXCEPT ![u] = U(next, None)]
      /\ UNCHANGED <<idleConns, closed, closer>>
  BY DEF RemoveConnAndClose
<1>5. /\ cs \in SUBSET Conn /\ created \in Int /\ idleLen \in Int
      /\ ~overtaken' => cs = conns /\ created = createConn /\ idleLen = idleConnLen
  <2>1. /\ read.conns \in SUBSET Conn /\ read.createConn \in Int /\ read.idleConnLen \in Int
        /\ conns \in SUBSET Conn /\ createConn \in Int /\ idleConnLen \in Int
    BY <1>0, <1>2 DEF PoolTypeOK, Snapshot
  <2>2. ~overtaken' =>
          read.conns = conns /\ read.createConn = createConn /\ read.idleConnLen = idleConnLen
    <3> HIDE DEF read
    <3>1. ~overtaken' => read = ListsRead
      BY <1>4, Zenon
    <3> QED BY <3>1 DEF ListsRead
  <2> HIDE DEF read
  <2> QED BY <1>3, <2>1, <2>2
<1>6. PICK new \in SUBSET Conn :
        /\ Starts(new)
        /\ conns' \subseteq Conn /\ createConn' \in Int /\ idleConnLen' \in Int
        /\ \/ /\ c \in cs /\ conns' = cs \ {c}
              /\ createConn' = created - 1 + Cardinality(new)
              /\ idleConnLen' = idleLen + Cardinality(new)
           \/ /\ c \notin cs /\ UNCHANGED <<conns, createConn, idleConnLen, adder>>
  BY <1>0, <1>2, <1>3, <1>5, Removed
<1>7. Moved(u, next, None)
  BY <1>0, <1>2, <1>4, MovedTo DEF UserPc
<1> HIDE DEF c, read, next
<1>b. overtaken' \in BOOLEAN /\ (overtaken => overtaken')
  BY <1>4, <1>0 DEF PoolTypeOK
<1>g. Goes(new)
  BY <1>6 DEF Starts
<1>8. PoolTypeOK'
  BY <1>0, <1>4, <1>6, <1>7, <1>b DEF PoolTypeOK, Moved, Starts, Goes
<1>9. Places'
  <2>1. overtaken' \/ conns' \in {conns, conns \ {user[u].conn}}
    BY <1>5, <1>6 DEF c
  <2>2. next \in UserPc \ Using /\ next # "add"
    BY <1>2 DEF UserPc, Using
  <2>3. open' = open \ {user[u].conn}
    BY <1>4 DEF c
  <2> QED BY <1>0, <1>4, <1>7, <1>b, <1>g, <2>1, <2>2, <2>3, PlacesMoved
<1>10. SlotsHeld'
  <2>1. Busy' \subseteq Busy
    BY <1>1, <1>2, <1>7, BusyMoved DEF Busy, Holding
  <2> QED BY <1>0, <1>6, <2>1, SlotsStart
<1>11. CountersAgree'
  <2>1. CASE overtaken'
    BY <2>1 DEF CountersAgree
  <2>2. CASE ~overtaken' /\ c \in conns
    <3>1. /\ conns' = conns \ {c}
          /\ createConn' = createConn - 1 + Cardinality(new)
          /\ idleConnLen' = idleConnLen + Cardinality(new)
      BY <2>2, <1>5, <1>6
    <3> QED BY <1>0, <1>4, <1>b, <1>g, <2>2, <3>1, CountersRemoved
  <2>3. CASE ~overtaken' /\ c \notin conns
    <3>1. UNCHANGED <<conns, createConn, idleConnLen, adder>>
      BY <2>3, <1>5, <1>6
    <3>2. UNCHANGED overtaken
      BY <2>3, <1>b, <1>0 DEF PoolTypeOK
    <3> QED BY <1>0, <1>4, <3>1, <3>2, CountersSame DEF Adding, lists
  <2> QED BY <2>1, <2>2, <2>3
<1> QED BY <1>8, <1>9, <1>10, <1>11 DEF PoolInv

(* Put that does not keep the connection.                                   *)
LEMMA PutDropStep ==
  ASSUME PoolInv, NEW u \in User, user[u].pc = "has",
         TryRemoveConn(user[u].conn, conns, createConn, idleConnLen),
         user' = [user EXCEPT ![u] = U("free", user[u].conn)],
         UNCHANGED <<idleConns, closed, open, closer, overtaken>>
  PROVE  PoolInv'
<1>0. PoolTypeOK /\ Places /\ SlotsHeld /\ CountersAgree
  BY DEF PoolInv
<1> DEFINE c == user[u].conn
<1>2. c \in Conn
  <2>1. c # None
    BY <1>0 DEF Places, CallersHold, HasConn
  <2> QED BY <1>0, <2>1 DEF PoolTypeOK, UserState
<1>3. conns \in SUBSET Conn /\ createConn \in Int /\ idleConnLen \in Int
  BY <1>0 DEF PoolTypeOK
<1>6. PICK new \in SUBSET Conn :
        /\ Starts(new)
        /\ conns' \subseteq Conn /\ createConn' \in Int /\ idleConnLen' \in Int
        /\ \/ /\ c \in conns /\ conns' = conns \ {c}
              /\ createConn' = createConn - 1 + Cardinality(new)
              /\ idleConnLen' = idleConnLen + Cardinality(new)
           \/ /\ c \notin conns /\ UNCHANGED <<conns, createConn, idleConnLen, adder>>
  BY <1>0, <1>2, <1>3, Removed
<1>7. Moved(u, "free", c)
  BY <1>0, <1>2, MovedTo DEF UserPc
<1> HIDE DEF c
<1>g. Goes(new)
  BY <1>6 DEF Starts
<1>8. PoolTypeOK'
  BY <1>0, <1>6, <1>7 DEF PoolTypeOK, Moved, Starts, Goes
<1>9. Places'
  <2>1. conns' \in {conns, conns \ {user[u].conn}}
    BY <1>6 DEF c
  <2> QED BY <1>0, <1>7, <1>g, <2>1, PlacesMoved DEF UserPc, Using, NoConn, c
<1>10. SlotsHeld'
  <2>1. Busy' \subseteq Busy
    BY <1>7, BusyMoved DEF Busy, Holding
  <2> QED BY <1>0, <1>6, <2>1, SlotsStart
<1>11. CountersAgree'
  <2>2. CASE c \in conns
    <3>1. /\ conns' = conns \ {c}
          /\ createConn' = createConn - 1 + Cardinality(new)
          /\ idleConnLen' = idleConnLen + Cardinality(new)
      BY <2>2, <1>6
    <3> QED BY <1>0, <1>g, <2>2, <3>1, CountersRemoved
  <2>3. CASE c \notin conns
    <3>1. UNCHANGED <<conns, createConn, idleConnLen, adder>>
      BY <2>3, <1>6
    <3> QED BY <1>0, <3>1, CountersSame DEF Adding, lists
  <2> QED BY <2>2, <2>3
<1> QED BY <1>8, <1>9, <1>10, <1>11 DEF PoolInv

(* What every caller has, in the words the next lemmas need.                *)
LEMMA ConnTypes ==
  ASSUME PoolTypeOK
  PROVE  /\ \A v \in User : user[v].conn \in Conn \cup {None}
         /\ \A i \in 1..Len(idleConns) : idleConns[i] \in Conn
         /\ Len(idleConns) \in Nat
         /\ None \notin Conn
  BY PoolAssumption DEF PoolTypeOK, UserState

(* Put that keeps the connection moves it from the caller to idleConns.     *)
LEMMA PutKeepStep ==
  ASSUME PoolInv, NEW u \in User, user[u].pc = "has",
         idleConns' = Append(idleConns, user[u].conn),
         idleConnLen' = idleConnLen + 1,
         user' = [user EXCEPT ![u] = U("free", None)],
         UNCHANGED <<queue, conns, createConn, adder, closed, open, closer, overtaken>>
  PROVE  PoolInv'
<1>0. PoolTypeOK /\ Places /\ SlotsHeld /\ CountersAgree
  BY DEF PoolInv
<1> DEFINE c == user[u].conn
           m == Len(idleConns)
<1>2. c \in Conn
  <2>1. c # None
    BY <1>0 DEF Places, CallersHold, HasConn
  <2> QED BY <1>0, <2>1 DEF PoolTypeOK, UserState
<1>3. /\ Len(idleConns') = m + 1 /\ idleConns'[m + 1] = c
      /\ \A i \in 1..m : idleConns'[i] = idleConns[i]
      /\ m \in Nat /\ idleConns' \in Seq(Conn)
  BY <1>0, <1>2 DEF PoolTypeOK
<1>7. Moved(u, "free", None)
  BY <1>0, MovedTo DEF UserPc
<1>m. /\ user'[u].pc = "free" /\ user'[u].conn = None
      /\ \A v \in User : v # u => user'[v] = user[v]
  BY <1>7 DEF Moved
<1>8. PoolTypeOK'
  BY <1>0, <1>3, <1>7 DEF PoolTypeOK, Moved
<1>i. /\ \A i \in 1..Len(idleConns') : (i \in 1..m /\ idleConns'[i] = idleConns[i]) \/ (i = m + 1 /\ idleConns'[i] = c)
  BY <1>3
<1>c. c = user[u].conn
  OBVIOUS
<1>n. m = Len(idleConns)
  OBVIOUS
<1> HIDE DEF c, m
<1>9. Places'
  <2>1. CallersHold'
    BY <1>0, <1>m DEF Places, CallersHold, HasConn, NoConn
  <2>2. OnePlace'
    <3>o. OnePlace
      BY <1>0 DEF Places
    <3>1. \A v, w \in User : user'[v].conn = user'[w].conn => v = w \/ user'[v].conn = None
      BY <3>o, <1>m DEF OnePlace
    <3>2. ASSUME NEW i \in 1..Len(idleConns'), NEW j \in 1..Len(idleConns'),
                 idleConns'[i] = idleConns'[j]
          PROVE  i = j
      BY <3>o, <3>2, <1>i, <1>c, <1>n DEF OnePlace
    <3>3. ASSUME NEW v \in User, NEW i \in 1..Len(idleConns')
          PROVE  idleConns'[i] # user'[v].conn
      BY <3>o, <1>i, <1>c, <1>n, <1>m, <1>2, ConnTypes, <1>0 DEF OnePlace
    <3>4. \A v \in User : (user[v].conn # None => ~Arriving(user[v].conn))'
      BY <3>o, <1>m DEF OnePlace, Arriving
    <3>5. \A i \in 1..Len(idleConns') : (~Arriving(idleConns[i]))'
      BY <3>o, <1>i, <1>c, <1>n, <1>2, ConnTypes, <1>0 DEF OnePlace, Arriving
    <3> QED BY <3>1, <3>2, <3>3, <3>4, <3>5 DEF OnePlace
  <2>3. Listed'
    <3>1. \A d \in Conn : InUse(d)' => InUse(d)
      <4> SUFFICES ASSUME NEW d \in Conn, InUse(d)' PROVE InUse(d)
        OBVIOUS
      <4>1. CASE \E i \in 1..Len(idleConns') : idleConns'[i] = d
        BY <4>1, <1>i, <1>c, <1>n DEF InUse
      <4>2. CASE \E v \in User : user'[v].conn = d /\ user'[v].pc \in Using
        BY <4>2, <1>m DEF InUse, Using
      <4> QED BY <4>1, <4>2 DEF InUse, Using
    <3>2. \A v \in User : user'[v].pc = "add" => user'[v] = user[v]
      BY <1>m
    <3> QED BY <1>0, <3>1, <3>2 DEF Places, Listed, OnItsWay, Arriving
  <2>4. ClosedFirst'
    BY <1>0 DEF Places, ClosedFirst
  <2> QED BY <2>1, <2>2, <2>3, <2>4 DEF Places
<1>10. SlotsHeld'
  <2>1. Busy' \subseteq Busy
    BY <1>7, BusyMoved DEF Busy, Holding
  <2> QED BY <1>0, <2>1, SlotsStart, NoneStarts
<1>11. CountersAgree'
  <2>1. CASE closed \/ overtaken
    BY <2>1 DEF CountersAgree
  <2>2. CASE ~closed /\ ~overtaken
    <3> DEFINE a == Cardinality(Adding)
    <3>1. createConn = Cardinality(conns) + a /\ idleConnLen = m + a
      BY <2>2, <1>0, <1>n DEF CountersAgree
    <3>2. a \in Nat /\ m \in Nat
      BY <1>0, <1>n, CountSets
    <3>3. Adding' = Adding
      BY DEF Adding
    <3> HIDE DEF a
    <3>4. idleConnLen' = (m + 1) + a
      BY <3>1, <3>2
    <3>5. createConn' = Cardinality(conns') + Cardinality(Adding')
      BY <3>1, <3>3 DEF a
    <3>6. idleConnLen' = Len(idleConns') + Cardinality(Adding')
      BY <3>4, <3>3, <1>3 DEF a
    <3> QED BY <3>5, <3>6 DEF CountersAgree
  <2> QED BY <2>1, <2>2
<1> QED BY <1>8, <1>9, <1>10, <1>11 DEF PoolInv

LEMMA PutStep ==
  ASSUME PoolInv, NEW u \in User, Put(u)
  PROVE  PoolInv'
<1>1. user[u].pc = "has" /\ UNCHANGED <<closed, open, closer, overtaken>>
  BY DEF Put
<1>2. \/ /\ idleConns' = Append(idleConns, user[u].conn)
         /\ idleConnLen' = idleConnLen + 1
         /\ user' = [user EXCEPT ![u] = U("free", None)]
         /\ UNCHANGED <<queue, conns, createConn, adder>>
      \/ /\ TryRemoveConn(user[u].conn, conns, createConn, idleConnLen)
         /\ user' = [user EXCEPT ![u] = U("free", user[u].conn)]
         /\ UNCHANGED idleConns
  BY DEF Put
<1> QED BY <1>1, <1>2, PutKeepStep, PutDropStep

(* makeConn lists the connection it has dialled.                            *)
LEMMA MakeConnListsStep ==
  ASSUME PoolInv, NEW u \in User, user[u].pc = "add",
         conns' = conns \cup {user[u].conn}, createConn' = createConn + 1, Goto(u, "has"),
         UNCHANGED <<idleConns, idleConnLen, open, queue, closed, adder, closer, overtaken>>
  PROVE  PoolInv'
<1>0. PoolTypeOK /\ Places /\ SlotsHeld /\ CountersAgree
  BY DEF PoolInv
<1> DEFINE c == user[u].conn
<1>2. c \in Conn
  <2>1. c # None
    BY <1>0 DEF Places, CallersHold, HasConn
  <2> QED BY <1>0, <2>1 DEF PoolTypeOK, UserState
<1>7. Moved(u, "has", c)
  BY <1>0, MovedOn DEF UserPc
<1>m. /\ user'[u].pc = "has" /\ user'[u].conn = c /\ c = user[u].conn
      /\ conns' = conns \cup {c}
      /\ \A v \in User : v # u => user'[v] = user[v]
      /\ \A v \in User : user'[v].conn = user[v].conn
  BY <1>7 DEF Moved
<1> HIDE DEF c
<1>8. PoolTypeOK'
  BY <1>0, <1>2, <1>7, <1>m DEF PoolTypeOK, Moved
<1>o. OnePlace
  BY <1>0 DEF Places
<1>l. Listed
  BY <1>0 DEF Places
<1>n. OnItsWay(c)
  BY <1>m DEF OnItsWay
<1>9. Places'
  <2>1. CallersHold'
    BY <1>0, <1>m, <1>2, ConnTypes DEF Places, CallersHold, HasConn, NoConn
  <2>2. OnePlace'
    BY <1>o, <1>m DEF OnePlace, Arriving
  <2>3. Listed'
    <3>1. \A d \in Conn : InUse(d)' => InUse(d) \/ d = c
      BY <1>m DEF InUse
    <3>2. ~closed => c \in open
      BY <1>l, <1>m, <1>2 DEF Listed
    <3>3. \A d \in Conn : OnItsWay(d)' => OnItsWay(d) /\ d # c
      <4> SUFFICES ASSUME NEW d \in Conn, OnItsWay(d)' PROVE OnItsWay(d) /\ d # c
        OBVIOUS
      <4>1. CASE Arriving(d)'
        BY <4>1, <1>o, <1>m, <1>2, ConnTypes, <1>0 DEF OnItsWay, Arriving, OnePlace
      <4>2. CASE \E v \in User : user'[v].conn = d /\ user'[v].pc = "add"
        BY <4>2, <1>o, <1>m, <1>2, ConnTypes, <1>0 DEF OnItsWay, OnePlace
      <4> QED BY <4>1, <4>2 DEF OnItsWay
    <3>4. \A v \in User : user'[v].pc = "add" => user'[v] = user[v]
      BY <1>m
    <3>5. ~closed' => \A d \in Conn : InUse(d)' => d \in open' /\ (overtaken' \/ d \in conns')
      BY <1>l, <1>m, <3>1, <3>2 DEF Listed
    <3>6. ~closed' => \A d \in Conn :
            adder'[d] = "append" \/ (\E v \in User : user'[v].conn = d /\ user'[v].pc = "add")
              => d \in open'
      BY <1>l, <3>4 DEF Listed
    <3>7. ~overtaken' => \A d \in Conn : OnItsWay(d)' => d \notin conns'
      BY <1>l, <1>m, <3>3 DEF Listed
    <3> QED BY <3>5, <3>6, <3>7 DEF Listed
  <2>4. ClosedFirst'
    BY <1>0 DEF Places, ClosedFirst
  <2> QED BY <2>1, <2>2, <2>3, <2>4 DEF Places
<1>10. SlotsHeld'
  <2>1. Busy' \subseteq Busy
    BY <1>7, BusyMoved DEF Busy, Holding
  <2> QED BY <1>0, <2>1, SlotsStart, NoneStarts
<1>11. CountersAgree'
  <2>1. CASE closed \/ overtaken
    BY <2>1 DEF CountersAgree
  <2>2. CASE ~closed /\ ~overtaken
    <3> DEFINE a == Cardinality(Adding)
               n == Cardinality(conns)
    <3>1. createConn = n + a /\ idleConnLen = Len(idleConns) + a
      BY <2>2, <1>0 DEF CountersAgree
    <3>2. a \in Nat /\ n \in Nat
      BY <1>0, CountSets
    <3>3. Adding' = Adding
      BY DEF Adding
    <3>4. Cardinality(conns') = n + 1
      <4>1. c \notin conns
        BY <2>2, <1>l, <1>n, <1>2 DEF Listed
      <4> QED BY <4>1, <1>0, <1>m, CountSets, FS_AddElement
    <3> HIDE DEF a, n
    <3>5. createConn' = (n + 1) + a
      BY <3>1, <3>2
    <3>6. createConn' = Cardinality(conns') + Cardinality(Adding')
      BY <3>5, <3>3, <3>4 DEF a
    <3>7. idleConnLen' = Len(idleConns') + Cardinality(Adding')
      BY <3>1, <3>3 DEF a
    <3> QED BY <3>6, <3>7 DEF CountersAgree
  <2> QED BY <2>1, <2>2
<1> QED BY <1>8, <1>9, <1>10, <1>11 DEF PoolInv

(* makeConn that finds the limit reached after its dial: the connection is  *)
(* closed, the slot stays taken.                                            *)
LEMMA MakeConnFullStep ==
  ASSUME PoolInv, NEW u \in User, user[u].pc = "add",
         open' = open \ {user[u].conn}, user' = [user EXCEPT ![u] = U("out", None)],
         UNCHANGED <<lists, queue, closed, adder, closer, overtaken>>
  PROVE  PoolInv'
<1>0. PoolTypeOK /\ Places /\ SlotsHeld /\ CountersAgree
  BY DEF PoolInv
<1>2. UNCHANGED <<conns, idleConns, createConn, idleConnLen>>
  BY DEF lists
<1>3. Moved(u, "out", None)
  BY <1>0, MovedTo DEF UserPc
<1>4. PoolTypeOK'
  BY <1>0, <1>2, <1>3 DEF PoolTypeOK, Moved
<1>5. Places'
  <2>1. Goes({})
    BY <1>0, NoneGoes
  <2> QED BY <1>0, <1>2, <1>3, <2>1, PlacesMoved DEF UserPc, Using
<1>6. SlotsHeld'
  <2>1. Busy' \subseteq Busy
    BY <1>3, BusyMoved DEF Holding
  <2>2. Starts({})
    BY <1>0, NoneStarts
  <2> QED BY <1>0, <2>1, <2>2, SlotsStart
<1>7. CountersAgree'
  BY <1>0, <1>2, CountersSame DEF Adding, lists
<1> QED BY <1>4, <1>5, <1>6, <1>7 DEF PoolInv

LEMMA MakeConnAddStep ==
  ASSUME PoolInv, NEW u \in User, MakeConnAdd(u)
  PROVE  PoolInv'
<1>1. user[u].pc = "add" /\ UNCHANGED <<queue, closed, adder, closer, overtaken>>
  BY DEF MakeConnAdd
<1>2. \/ /\ open' = open \ {user[u].conn}
         /\ user' = [user EXCEPT ![u] = U("out", None)]
         /\ UNCHANGED lists
      \/ /\ conns' = conns \cup {user[u].conn}
         /\ createConn' = createConn + 1
         /\ Goto(u, "has")
         /\ UNCHANGED <<idleConns, idleConnLen, open>>
  BY DEF MakeConnAdd, MakeConnFailed
<1> QED BY <1>1, <1>2, MakeConnFullStep, MakeConnListsStep

(* makeConn's dial gives the caller a connection nobody knows of.           *)
LEMMA MakeConnDialsStep ==
  ASSUME PoolInv, NEW u \in User, user[u].pc = "dial", NEW c \in Fresh,
         user' = [user EXCEPT ![u] = U("add", c)], open' = open \cup {c},
         UNCHANGED <<queue, lists, closed, adder, closer, overtaken>>
  PROVE  PoolInv'
<1>0. PoolTypeOK /\ Places /\ SlotsHeld /\ CountersAgree
  BY DEF PoolInv
<1>1. UNCHANGED <<conns, idleConns, createConn, idleConnLen>>
  BY DEF lists
<1>2. /\ c \in Conn /\ adder[c] = "none" /\ c \notin open \cup conns
      /\ \A i \in 1..Len(idleConns) : idleConns[i] # c
      /\ \A v \in User : user[v].conn # c
  BY DEF Fresh
<1>7. Moved(u, "add", c)
  BY <1>0, <1>2, MovedTo DEF UserPc
<1>m. /\ user'[u].pc = "add" /\ user'[u].conn = c
      /\ \A v \in User : v # u => user'[v] = user[v]
  BY <1>7 DEF Moved
<1>8. PoolTypeOK'
  BY <1>0, <1>1, <1>2, <1>7 DEF PoolTypeOK, Moved
<1>o. OnePlace
  BY <1>0 DEF Places
<1>l. Listed
  BY <1>0 DEF Places
<1>9. Places'
  <2>1. CallersHold'
    BY <1>0, <1>m, <1>2, ConnTypes DEF Places, CallersHold, HasConn, NoConn
  <2>2. OnePlace'
    BY <1>o, <1>1, <1>2, <1>m DEF OnePlace, Arriving
  <2>3. Listed'
    <3>1. \A d \in Conn : InUse(d)' => InUse(d)
      BY <1>1, <1>m DEF InUse
    <3>2. \A v \in User : user'[v].pc = "add" => user'[v] = user[v] \/ user'[v].conn = c
      BY <1>m
    <3>5. ~closed' => \A d \in Conn : InUse(d)' => d \in open' /\ (overtaken' \/ d \in conns')
      BY <1>l, <1>1, <3>1 DEF Listed
    <3>6. ~closed' => \A d \in Conn :
            adder'[d] = "append" \/ (\E v \in User : user'[v].conn = d /\ user'[v].pc = "add")
              => d \in open'
      BY <1>l, <3>2 DEF Listed
    <3>7. \A d \in Conn : OnItsWay(d)' => OnItsWay(d) \/ d = c
      BY <3>2 DEF OnItsWay, Arriving
    <3>8. ~overtaken' => \A d \in Conn : OnItsWay(d)' => d \notin conns'
      BY <1>l, <1>1, <1>2, <3>7 DEF Listed
    <3> QED BY <3>5, <3>6, <3>8 DEF Listed
  <2>4. ClosedFirst'
    BY <1>0 DEF Places, ClosedFirst
  <2> QED BY <2>1, <2>2, <2>3, <2>4 DEF Places
<1>10. SlotsHeld'
  <2>1. Busy' \subseteq Busy
    BY <1>7, BusyMoved DEF Busy, Holding
  <2> QED BY <1>0, <2>1, SlotsStart, NoneStarts
<1>11. CountersAgree'
  BY <1>0, CountersSame DEF Adding
<1> QED BY <1>8, <1>9, <1>10, <1>11 DEF PoolInv

LEMMA MakeConnDialStep ==
  ASSUME PoolInv, NEW u \in User, MakeConnDial(u)
  PROVE  PoolInv'
<1>1. user[u].pc = "dial" /\ UNCHANGED <<queue, lists, closed, adder, closer, overtaken>>
  BY DEF MakeConnDial
<1>2. CASE Goto(u, "out") /\ UNCHANGED open
  BY <1>1, <1>2, JustGoes DEF UserPc, NoConn, Using, Holding
<1>3. CASE \E c \in Fresh : user' = [user EXCEPT ![u] = U("add", c)] /\ open' = open \cup {c}
  BY <1>1, <1>3, MakeConnDialsStep
<1> QED BY <1>2, <1>3 DEF MakeConnDial, MakeConnFailed

(* getIdleConn moves the last idle connection to the caller and refills.    *)
LEMMA TakeIdleStep ==
  ASSUME PoolInv, NEW u \in User, user[u].pc = "idle", idleConns # << >>,
         user' = [user EXCEPT ![u] = U("health", idleConns[Len(idleConns)])],
         idleConns' = SubSeq(idleConns, 1, Len(idleConns) - 1),
         CheckMinIdleConns(createConn, idleConnLen - 1),
         UNCHANGED <<conns, closed, open, closer, overtaken>>
  PROVE  PoolInv'
<1>0. PoolTypeOK /\ Places /\ SlotsHeld /\ CountersAgree
  BY DEF PoolInv
<1> DEFINE m == Len(idleConns) - 1
           c == idleConns[Len(idleConns)]
<1>1. Len(idleConns) \in Nat /\ Len(idleConns) # 0 /\ idleConns \in Seq(Conn)
  BY <1>0, EmptySeq DEF PoolTypeOK
<1>2. m \in Nat /\ Len(idleConns) = m + 1 /\ c \in Conn /\ c = idleConns[m + 1]
  BY <1>1
<1>3. /\ idleConns' \in Seq(Conn) /\ Len(idleConns') = m
      /\ \A i \in 1..m : idleConns'[i] = idleConns[i]
  BY <1>1, <1>2, SubSeqProperties
<1>4. createConn \in Int /\ idleConnLen \in Int /\ idleConnLen - 1 \in Int
  BY <1>0 DEF PoolTypeOK
<1>5. PICK new \in SUBSET Conn :
        /\ Starts(new)
        /\ createConn' = createConn + Cardinality(new)
        /\ idleConnLen' = idleConnLen - 1 + Cardinality(new)
  BY <1>0, <1>4, CheckStarts
<1>7. Moved(u, "health", c)
  BY <1>0, <1>2, MovedTo DEF UserPc
<1> HIDE DEF m, c
<1>m. /\ user'[u].pc = "health" /\ user'[u].conn = c
      /\ \A v \in User : v # u => user'[v] = user[v]
  BY <1>7 DEF Moved
<1>g. Goes(new)
  BY <1>5 DEF Starts
<1>a. /\ \A d \in Conn : d \in new =>
           /\ adder[d] = "none" /\ d \notin open \cup conns
           /\ \A i \in 1..Len(idleConns) : idleConns[i] # d
           /\ \A v \in User : user[v].conn # d
      /\ \A d \in Conn : d \in new => adder'[d] = "dial"
      /\ \A d \in Conn : d \notin new => adder'[d] = adder[d]
  BY <1>g DEF Goes, Fresh
<1>i. /\ m + 1 \in 1..Len(idleConns) /\ c = idleConns[m + 1]
      /\ \A i \in 1..Len(idleConns') :
           i \in 1..Len(idleConns) /\ i # m + 1 /\ idleConns'[i] = idleConns[i]
  BY <1>2, <1>3
<1>t. /\ \A v \in User : user[v].conn \in Conn \cup {None}
      /\ \A i \in 1..Len(idleConns) : idleConns[i] \in Conn
      /\ None \notin Conn
  BY <1>0, ConnTypes
<1>o. OnePlace
  BY <1>0 DEF Places
<1>l. Listed
  BY <1>0 DEF Places
<1>8. PoolTypeOK'
  <2>1. createConn' \in Int /\ idleConnLen' \in Int
    BY <1>4, <1>5, FiniteSets
  <2> QED BY <1>0, <1>3, <1>5, <1>7, <2>1 DEF PoolTypeOK, Moved, Starts, Goes
<1>n. \A d \in Conn : Arriving(d)' => Arriving(d) \/ d \in new
  BY <1>a DEF Arriving
<1>9. Places'
  <2>1. CallersHold'
    BY <1>0, <1>m, <1>2, <1>t DEF Places, CallersHold, HasConn, NoConn
  <2>2. OnePlace'
    <3>1. \A v, w \in User : user'[v].conn = user'[w].conn => v = w \/ user'[v].conn = None
      BY <1>o, <1>m, <1>i DEF OnePlace
    <3>2. \A i, j \in 1..Len(idleConns') : idleConns'[i] = idleConns'[j] => i = j
      BY <1>o, <1>i DEF OnePlace
    <3>3. \A v \in User : \A i \in 1..Len(idleConns') : idleConns'[i] # user'[v].conn
      BY <1>o, <1>m, <1>i DEF OnePlace
    <3>4. ASSUME NEW v \in User, user'[v].conn # None
          PROVE  ~Arriving(user[v].conn)'
      <4>1. CASE v = u
        BY <4>1, <1>o, <1>m, <1>i, <1>a, <1>2 DEF OnePlace, Arriving
      <4>2. CASE v # u
        BY <4>2, <3>4, <1>o, <1>m, <1>a, <1>t DEF OnePlace, Arriving
      <4> QED BY <4>1, <4>2
    <3>5. ASSUME NEW i \in 1..Len(idleConns')
          PROVE  ~Arriving(idleConns[i])'
      <4>1. i \in 1..Len(idleConns) /\ idleConns'[i] = idleConns[i]
        BY <1>i
      <4>2. idleConns[i] \in Conn /\ idleConns[i] \notin new /\ ~Arriving(idleConns[i])
        BY <4>1, <1>o, <1>a, <1>t DEF OnePlace
      <4> QED BY <4>1, <4>2, <1>a DEF Arriving
    <3> QED BY <3>1, <3>2, <3>3, <3>4, <3>5 DEF OnePlace
  <2>3. Listed'
    <3>1. \A d \in Conn : InUse(d)' => InUse(d)
      <4> SUFFICES ASSUME NEW d \in Conn, InUse(d)' PROVE InUse(d)
        OBVIOUS
      <4>1. CASE \E i \in 1..Len(idleConns') : idleConns'[i] = d
        BY <4>1, <1>i DEF InUse
      <4>2. CASE \E v \in User : user'[v].conn = d /\ user'[v].pc \in Using
        BY <4>2, <1>m, <1>i DEF InUse, Using
      <4> QED BY <4>1, <4>2 DEF InUse, Using
    <3>2. \A v \in User : user'[v].pc = "add" => user'[v] = user[v]
      BY <1>m
    <3>5. ~closed' => \A d \in Conn : InUse(d)' => d \in open' /\ (overtaken' \/ d \in conns')
      BY <1>l, <3>1 DEF Listed
    <3>6. ~closed' => \A d \in Conn :
            adder'[d] = "append" \/ (\E v \in User : user'[v].conn = d /\ user'[v].pc = "add")
              => d \in open'
      BY <1>l, <1>a, <3>2 DEF Listed
    <3>7. \A d \in Conn : OnItsWay(d)' => OnItsWay(d) \/ d \in new
      BY <3>2, <1>n DEF OnItsWay
    <3>8. ~overtaken' => \A d \in Conn : OnItsWay(d)' => d \notin conns'
      BY <1>l, <1>a, <3>7 DEF Listed
    <3> QED BY <3>5, <3>6, <3>8 DEF Listed
  <2>4. ClosedFirst'
    BY <1>0 DEF Places, ClosedFirst
  <2> QED BY <2>1, <2>2, <2>3, <2>4 DEF Places
<1>10. SlotsHeld'
  <2>1. Busy' \subseteq Busy
    BY <1>7, BusyMoved DEF Busy, Holding
  <2> QED BY <1>0, <1>5, <2>1, SlotsStart
<1>11. CountersAgree'
  <2>1. CASE closed \/ overtaken
    BY <2>1 DEF CountersAgree
  <2>2. CASE ~closed /\ ~overtaken
    <3> DEFINE a == Cardinality(Adding)
               n == Cardinality(conns)
    <3>1. createConn = n + a /\ idleConnLen = (m + 1) + a
      BY <2>2, <1>0, <1>2 DEF CountersAgree
    <3>2. a \in Nat /\ n \in Nat
      BY <1>0, CountSets
    <3>3. Cardinality(conns') = n
      OBVIOUS
    <3> HIDE DEF a, n
    <3>4. idleConnLen - 1 = m + a
      BY <3>1, <3>2, <1>2
    <3> QED BY <1>0, <1>2, <1>3, <1>4, <1>5, <1>g, <3>1, <3>2, <3>3, <3>4, CountersStart DEF a
  <2> QED BY <2>1, <2>2
<1> QED BY <1>8, <1>9, <1>10, <1>11 DEF PoolInv

LEMMA GetIdleConnStep ==
  ASSUME PoolInv, NEW u \in User, GetIdleConn(u)
  PROVE  PoolInv'
<1>1. user[u].pc = "idle" /\ UNCHANGED <<closed, open, closer, overtaken>>
  BY DEF GetIdleConn
<1>2. CASE (Goto(u, "free") \/ Goto(u, "make")) /\ UNCHANGED <<queue, lists, adder>>
  BY <1>1, <1>2, JustGoes DEF UserPc, NoConn, Using, Holding
<1>3. CASE /\ idleConns # << >>
           /\ user' = [user EXCEPT ![u] = U("health", idleConns[Len(idleConns)])]
           /\ idleConns' = SubSeq(idleConns, 1, Len(idleConns) - 1)
           /\ CheckMinIdleConns(createConn, idleConnLen - 1)
           /\ UNCHANGED conns
  BY <1>1, <1>3, TakeIdleStep
<1> QED BY <1>2, <1>3 DEF GetIdleConn

LEMMA CallerStep ==
  ASSUME PoolInv, NEW u \in User, Caller(u)
  PROVE  PoolInv'
  BY GetStep, GetSlotStep, GetSlotErrStep, GetIdleConnStep, HealthStep, MakeConnStep,
     MakeConnDialStep, MakeConnAddStep, PutClosedStep, PutBufferedStep, PutStep,
     RemoveConnLoadStep, RemoveConnAndCloseStep, FreeSlotStep
     DEF Caller

----------------------------------------------------------------------------
(* The goroutines of checkMinIdleConns                                      *)

(* A goroutine goes on: it may open its connection, it hands over nothing.  *)
LEMMA AdderPlaces ==
  ASSUME PoolTypeOK, Places, NEW c \in Conn, NEW x, adder' = [adder EXCEPT ![c] = x],
         x \in {"dial", "append"} => adder[c] \in {"dial", "append"},
         x = "append" => c \in open', open \subseteq open',
         UNCHANGED <<conns, idleConns, user, closed, closer, overtaken>>
  PROVE  Places'
<1>a. adder'[c] = x /\ \A d \in Conn : d # c => adder'[d] = adder[d]
  BY DEF PoolTypeOK
<1>1. \A d \in Conn : Arriving(d)' => Arriving(d)
  BY <1>a DEF Arriving
<1>t. /\ \A v \in User : user[v].conn \in Conn \cup {None}
      /\ \A i \in 1..Len(idleConns) : idleConns[i] \in Conn
  BY ConnTypes
<1>2. CallersHold'
  BY DEF Places, CallersHold
<1>3. OnePlace'
  <2>o. OnePlace
    BY DEF Places
  <2>1. \A v \in User : (user[v].conn # None => ~Arriving(user[v].conn))'
    BY <2>o, <1>1, <1>t DEF OnePlace
  <2>2. \A i \in 1..Len(idleConns') : (~Arriving(idleConns[i]))'
    BY <2>o, <1>1, <1>t DEF OnePlace
  <2> QED BY <2>o, <2>1, <2>2 DEF OnePlace
<1>4. Listed'
  <2>l. Listed
    BY DEF Places
  <2>1. \A d \in Conn : InUse(d)' => InUse(d)
    BY DEF InUse
  <2>2. \A d \in Conn : OnItsWay(d)' => OnItsWay(d)
    BY <1>1 DEF OnItsWay
  <2>3. \A d \in Conn : adder'[d] = "append" => adder[d] = "append" \/ d \in open'
    BY <1>a
  <2> QED BY <2>l, <2>1, <2>2, <2>3 DEF Listed
<1>5. ClosedFirst'
  BY DEF Places, ClosedFirst
<1> QED BY <1>2, <1>3, <1>4, <1>5 DEF Places

LEMMA AdderDialStep ==
  ASSUME PoolInv, NEW c \in Conn, AdderDial(c)
  PROVE  PoolInv'
<1>0. PoolTypeOK /\ Places /\ SlotsHeld /\ CountersAgree
  BY DEF PoolInv
<1>1. adder[c] = "dial"
  BY DEF AdderDial
<1>2. UNCHANGED <<queue, conns, idleConns, createConn, idleConnLen, closed, user, closer, overtaken>>
  BY DEF AdderDial, lists
<1>3. PICK x \in {"free", "append", "failed"} :
        /\ adder' = [adder EXCEPT ![c] = x]
        /\ x = "free" => closed
        /\ open' = open \/ open' = open \cup {c}
        /\ x = "append" => open' = open \cup {c}
  BY DEF AdderDial
<1>a. adder'[c] = x /\ \A d \in Conn : d # c => adder'[d] = adder[d]
  BY <1>0, <1>3 DEF PoolTypeOK
<1>4. PoolTypeOK'
  BY <1>0, <1>2, <1>3 DEF PoolTypeOK
<1>5. Places'
  <2>1. x = "append" => c \in open'
    BY <1>3
  <2>2. open \subseteq open'
    BY <1>3
  <2>3. x \in {"dial", "append"} => adder[c] \in {"dial", "append"}
    BY <1>1
  <2> QED BY <1>0, <1>2, <1>3, <2>1, <2>2, <2>3, AdderPlaces
<1>6. SlotsHeld'
  <2>1. Started' = Started
    BY <1>a, <1>1 DEF Started
  <2>2. Busy' = Busy
    BY <1>2 DEF Busy
  <2> QED BY <1>0, <1>2, <2>1, <2>2, SlotsSame
<1>7. CountersAgree'
  <2>1. CASE closed
    BY <2>1, <1>2 DEF CountersAgree
  <2>2. CASE ~closed
    <3>1. Adding' = Adding
      BY <2>2, <1>a, <1>1, <1>3 DEF Adding
    <3> QED BY <1>0, <1>2, <3>1, CountersSame DEF lists
  <2> QED BY <2>1, <2>2
<1> QED BY <1>4, <1>5, <1>6, <1>7 DEF PoolInv

(* A dial that has failed is taken off both counters.                       *)
LEMMA AdderFailedStep ==
  ASSUME PoolInv, NEW c \in Conn, AdderFailed(c)
  PROVE  PoolInv'
<1>0. PoolTypeOK /\ Places /\ SlotsHeld /\ CountersAgree
  BY DEF PoolInv
<1>1. /\ adder[c] = "failed" /\ adder' = [adder EXCEPT ![c] = "free"]
      /\ createConn' = createConn - 1 /\ idleConnLen' = idleConnLen - 1
  BY DEF AdderFailed
<1>2. UNCHANGED <<queue, conns, idleConns, closed, open, user, closer, overtaken>>
  BY DEF AdderFailed
<1>a. adder'[c] = "free" /\ \A d \in Conn : d # c => adder'[d] = adder[d]
  BY <1>0, <1>1 DEF PoolTypeOK
<1>4. PoolTypeOK'
  BY <1>0, <1>1, <1>2 DEF PoolTypeOK
<1>5. Places'
  BY <1>0, <1>1, <1>2, AdderPlaces
<1>6. SlotsHeld'
  <2>1. Started' = Started
    BY <1>a, <1>1 DEF Started
  <2>2. Busy' = Busy
    BY <1>2 DEF Busy
  <2> QED BY <1>0, <1>2, <2>1, <2>2, SlotsSame
<1>7. CountersAgree'
  <2>1. CASE closed \/ overtaken
    BY <2>1, <1>2 DEF CountersAgree
  <2>2. CASE ~closed /\ ~overtaken
    <3> DEFINE a == Cardinality(Adding)
               n == Cardinality(conns)
               m == Len(idleConns)
    <3>1. createConn = n + a /\ idleConnLen = m + a
      BY <2>2, <1>0 DEF CountersAgree
    <3>2. a \in Nat /\ n \in Nat /\ m \in Nat
      BY <1>0, CountSets
    <3>3. Adding' = Adding \ {c} /\ c \in Adding
      BY <1>a, <1>1 DEF Adding
    <3>4. Cardinality(Adding') = a - 1
      BY <1>0, <3>3, CountSets, FS_RemoveElement
    <3>5. Cardinality(conns') = n /\ Len(idleConns') = m
      BY <1>2
    <3> HIDE DEF a, n, m
    <3>6. createConn' = n + (a - 1) /\ idleConnLen' = m + (a - 1)
      BY <3>1, <3>2, <1>1
    <3> QED BY <3>4, <3>5, <3>6 DEF CountersAgree
  <2> QED BY <2>1, <2>2
<1> QED BY <1>4, <1>5, <1>6, <1>7 DEF PoolInv

(* freeSlot of a goroutine gives back the goroutine's own slot.             *)
LEMMA AdderFreeStep ==
  ASSUME PoolInv, NEW c \in Conn, AdderFree(c)
  PROVE  PoolInv'
<1>0. PoolTypeOK /\ Places /\ SlotsHeld /\ CountersAgree
  BY DEF PoolInv
<1>1. /\ adder[c] = "free" /\ adder' = [adder EXCEPT ![c] = "none"]
      /\ queue > 0 /\ queue' = queue - 1
  BY DEF AdderFree
<1>2. UNCHANGED <<conns, idleConns, createConn, idleConnLen, closed, open, user, closer, overtaken>>
  BY DEF AdderFree, lists
<1>a. adder'[c] = "none" /\ \A d \in Conn : d # c => adder'[d] = adder[d]
  BY <1>0, <1>1 DEF PoolTypeOK
<1>4. PoolTypeOK'
  <2>1. queue' \in 0..PoolSize
    BY <1>0, <1>1, PoolAssumption DEF PoolTypeOK
  <2> QED BY <1>0, <1>1, <1>2, <2>1 DEF PoolTypeOK
<1>5. Places'
  BY <1>0, <1>1, <1>2, AdderPlaces
<1>6. SlotsHeld'
  <2>1. Started' = Started \ {c} /\ c \in Started
    BY <1>a, <1>1 DEF Started
  <2>2. Busy' = Busy
    BY <1>2 DEF Busy
  <2> QED BY <1>0, <1>1, <2>1, <2>2, AdderSlotFreed
<1>7. CountersAgree'
  <2>1. Adding' = Adding
    BY <1>a, <1>1 DEF Adding
  <2> QED BY <1>0, <1>2, <2>1, CountersSame DEF lists
<1> QED BY <1>4, <1>5, <1>6, <1>7 DEF PoolInv

(* addIdleConn puts its connection on both lists; it was counted before.    *)
LEMMA AddIdleConnStep ==
  ASSUME PoolInv, NEW c \in Conn, AddIdleConn(c)
  PROVE  PoolInv'
<1>0. PoolTypeOK /\ Places /\ SlotsHeld /\ CountersAgree
  BY DEF PoolInv
<1> DEFINE m == Len(idleConns)
<1>1. /\ adder[c] = "append" /\ adder' = [adder EXCEPT ![c] = "free"]
      /\ conns' = conns \cup {c} /\ idleConns' = Append(idleConns, c)
  BY DEF AddIdleConn
<1>2. UNCHANGED <<queue, createConn, idleConnLen, closed, open, user, closer, overtaken>>
  BY DEF AddIdleConn
<1>3. /\ Len(idleConns') = m + 1 /\ idleConns'[m + 1] = c
      /\ \A i \in 1..m : idleConns'[i] = idleConns[i]
      /\ m \in Nat /\ idleConns' \in Seq(Conn)
  BY <1>0, <1>1 DEF PoolTypeOK
<1>a. adder'[c] = "free" /\ \A d \in Conn : d # c => adder'[d] = adder[d]
  BY <1>0, <1>1 DEF PoolTypeOK
<1>i. \A i \in 1..Len(idleConns') :
        \/ i \in 1..Len(idleConns) /\ idleConns'[i] = idleConns[i]
        \/ i = m + 1 /\ idleConns'[i] = c
  BY <1>3
<1>t. /\ \A v \in User : user[v].conn \in Conn \cup {None}
      /\ \A i \in 1..Len(idleConns) : idleConns[i] \in Conn
      /\ None \notin Conn
  BY <1>0, ConnTypes
<1>n. m = Len(idleConns)
  OBVIOUS
<1> HIDE DEF m
<1>o. OnePlace
  BY <1>0 DEF Places
<1>l. Listed
  BY <1>0 DEF Places
<1>4. PoolTypeOK'
  BY <1>0, <1>1, <1>2, <1>3 DEF PoolTypeOK
<1>p. /\ \A v \in User : user[v].conn # c
      /\ \A i \in 1..Len(idleConns) : idleConns[i] # c
      /\ OnItsWay(c)
  BY <1>o, <1>1, <1>t DEF OnePlace, Arriving, OnItsWay
<1>r. \A d \in Conn : Arriving(d)' => Arriving(d) /\ d # c
  BY <1>a DEF Arriving
<1>5. Places'
  <2>1. CallersHold'
    BY <1>0, <1>2 DEF Places, CallersHold
  <2>2. OnePlace'
    <3>1. \A v, w \in User : user'[v].conn = user'[w].conn => v = w \/ user'[v].conn = None
      BY <1>o, <1>2 DEF OnePlace
    <3>2. \A i, j \in 1..Len(idleConns') : idleConns'[i] = idleConns'[j] => i = j
      BY <1>o, <1>i, <1>p DEF OnePlace
    <3>3. \A v \in User : \A i \in 1..Len(idleConns') : idleConns'[i] # user'[v].conn
      BY <1>o, <1>2, <1>i, <1>p DEF OnePlace
    <3>4. ASSUME NEW v \in User, user'[v].conn # None
          PROVE  ~Arriving(user[v].conn)'
      BY <3>4, <1>o, <1>2, <1>a, <1>t DEF OnePlace, Arriving
    <3>5. ASSUME NEW i \in 1..Len(idleConns')
          PROVE  ~Arriving(idleConns[i])'
      <4>1. CASE i \in 1..Len(idleConns) /\ idleConns'[i] = idleConns[i]
        BY <4>1, <1>o, <1>a, <1>t DEF OnePlace, Arriving
      <4>2. CASE idleConns'[i] = c
        BY <4>2, <1>a DEF Arriving
      <4> QED BY <4>1, <4>2, <1>i
    <3> QED BY <3>1, <3>2, <3>3, <3>4, <3>5 DEF OnePlace
  <2>3. Listed'
    <3>1. \A d \in Conn : InUse(d)' => InUse(d) \/ d = c
      BY <1>2, <1>i DEF InUse
    <3>2. ~closed => c \in open
      BY <1>l, <1>1 DEF Listed
    <3>3. \A d \in Conn : OnItsWay(d)' => OnItsWay(d) /\ d # c
      BY <1>r, <1>p, <1>2 DEF OnItsWay
    <3>5. ~closed' => \A d \in Conn : InUse(d)' => d \in open' /\ (overtaken' \/ d \in conns')
      BY <1>l, <1>1, <1>2, <3>1, <3>2 DEF Listed
    <3>6. ~closed' => \A d \in Conn :
            adder'[d] = "append" \/ (\E v \in User : user'[v].conn = d /\ user'[v].pc = "add")
              => d \in open'
      BY <1>l, <1>2, <1>a DEF Listed
    <3>7. ~overtaken' => \A d \in Conn : OnItsWay(d)' => d \notin conns'
      BY <1>l, <1>1, <1>2, <3>3 DEF Listed
    <3> QED BY <3>5, <3>6, <3>7 DEF Listed
  <2>4. ClosedFirst'
    BY <1>0, <1>2 DEF Places, ClosedFirst
  <2> QED BY <2>1, <2>2, <2>3, <2>4 DEF Places
<1>6. SlotsHeld'
  <2>1. Started' = Started
    BY <1>a, <1>1 DEF Started
  <2>2. Busy' = Busy
    BY <1>2 DEF Busy
  <2> QED BY <1>0, <1>2, <2>1, <2>2, SlotsSame
<1>7. CountersAgree'
  <2>1. CASE closed \/ overtaken
    BY <2>1, <1>2 DEF CountersAgree
  <2>2. CASE ~closed /\ ~overtaken
    <3> DEFINE a == Cardinality(Adding)
               n == Cardinality(conns)
    <3>1. createConn = n + a /\ idleConnLen = m + a
      BY <2>2, <1>0, <1>n DEF CountersAgree
    <3>2. a \in Nat /\ n \in Nat /\ m \in Nat
      BY <1>0, <1>n, CountSets
    <3>3. Adding' = Adding \ {c} /\ c \in Adding
      BY <1>a, <1>1 DEF Adding
    <3>4. Cardinality(Adding') = a - 1
      BY <1>0, <3>3, CountSets, FS_RemoveElement
    <3>5. Cardinality(conns') = n + 1
      <4>1. c \notin conns
        BY <2>2, <1>l, <1>p DEF Listed
      <4> QED BY <4>1, <1>0, <1>1, CountSets, FS_AddElement
    <3> HIDE DEF a, n
    <3>6. n + a = (n + 1) + (a - 1) /\ m + a = (m + 1) + (a - 1)
      BY <3>2
    <3> QED BY <1>2, <1>3, <3>1, <3>4, <3>5, <3>6 DEF CountersAgree
  <2> QED BY <2>1, <2>2
<1> QED BY <1>4, <1>5, <1>6, <1>7 DEF PoolInv

LEMMA AdderStep ==
  ASSUME PoolInv, NEW c \in Conn, Adder(c)
  PROVE  PoolInv'
  BY AdderDialStep, AddIdleConnStep, AdderFailedStep, AdderFreeStep DEF Adder

----------------------------------------------------------------------------
(* Close                                                                    *)

LEMMA CloseBeginStep ==
  ASSUME PoolInv, CloseBegin
  PROVE  PoolInv'
<1>0. PoolTypeOK /\ Places /\ SlotsHeld /\ CountersAgree
  BY DEF PoolInv
<1>1. closed' = TRUE /\ closer' = "lock"
  BY DEF CloseBegin
<1>2. UNCHANGED <<queue, conns, idleConns, createConn, idleConnLen, open, adder, user, overtaken>>
  BY DEF CloseBegin, lists
<1>3. PoolTypeOK'
  BY <1>0, <1>1, <1>2 DEF PoolTypeOK
<1>4. CallersHold' /\ OnePlace' /\ ClosedFirst'
  BY <1>0, <1>1, <1>2 DEF Places, CallersHold, OnePlace, Arriving, ClosedFirst
<1>5. Listed'
  BY <1>0, <1>1, <1>2 DEF Places, Listed, OnItsWay, Arriving
<1>6. SlotsHeld'
  BY <1>0, <1>2, SlotsSame DEF Started, Busy
<1>7. CountersAgree'
  BY <1>1 DEF CountersAgree
<1> QED BY <1>3, <1>4, <1>5, <1>6, <1>7 DEF PoolInv, Places

LEMMA ResetPoolStep ==
  ASSUME PoolInv, ResetPool
  PROVE  PoolInv'
<1>0. PoolTypeOK /\ Places /\ SlotsHeld /\ CountersAgree
  BY DEF PoolInv
<1>1. /\ closer = "lock" /\ closer' = "done" /\ open' = open \ conns
      /\ conns' = {} /\ idleConns' = << >> /\ createConn' = 0 /\ idleConnLen' = 0
  BY DEF ResetPool
<1>2. UNCHANGED <<queue, closed, adder, user, overtaken>>
  BY DEF ResetPool
<1>c. closed /\ closed'
  BY <1>0, <1>1, <1>2 DEF Places, ClosedFirst
<1>3. PoolTypeOK'
  BY <1>0, <1>1, <1>2 DEF PoolTypeOK
<1>4. CallersHold' /\ OnePlace' /\ ClosedFirst'
  <2>1. 1..Len(idleConns') = {}
    BY <1>1
  <2> QED BY <1>0, <1>1, <1>2, <1>c, <2>1 DEF Places, CallersHold, OnePlace, Arriving, ClosedFirst
<1>5. Listed'
  BY <1>1, <1>c DEF Listed
<1>6. SlotsHeld'
  BY <1>0, <1>2, SlotsSame DEF Started, Busy
<1>7. CountersAgree'
  BY <1>c DEF CountersAgree
<1> QED BY <1>3, <1>4, <1>5, <1>6, <1>7 DEF PoolInv, Places

----------------------------------------------------------------------------
(* The theorem                                                              *)

LEMMA PoolInitInv ==
  ASSUME PoolInit
  PROVE  PoolInv
<1>1. /\ conns = {} /\ idleConns = << >> /\ closed = FALSE /\ open = {}
      /\ closer = "none" /\ overtaken = FALSE
      /\ createConn = queue /\ idleConnLen = queue
  BY DEF PoolInit
<1>2. PICK new \in SUBSET Conn :
        /\ Cardinality(new) = queue
        /\ adder = [c \in Conn |-> IF c \in new THEN "dial" ELSE "none"]
  BY DEF PoolInit
<1>3. queue \in 0..PoolSize
  BY PoolAssumption DEF PoolInit
<1>4. U("out", None) \in UserState /\ U("out", None).pc = "out" /\ U("out", None).conn = None
  BY DEF U, UserState, UserPc
<1>5. /\ user \in [User -> UserState]
      /\ \A u \in User : user[u].pc = "out" /\ user[u].conn = None
  BY <1>4 DEF PoolInit
<1>6. 1..Len(idleConns) = {}
  BY <1>1
<1>7. PoolTypeOK
  <2>1. createConn \in Int /\ idleConnLen \in Int
    BY <1>1, <1>3, PoolAssumption
  <2>2. idleConns \in Seq(Conn)
    BY <1>1, EmptySeq
  <2>3. adder \in [Conn -> {"none", "dial", "append", "failed", "free"}]
    BY <1>2
  <2> QED BY <1>1, <1>3, <1>5, <2>1, <2>2, <2>3 DEF PoolTypeOK
<1>8. Places
  <2>1. CallersHold /\ OnePlace /\ ClosedFirst
    BY <1>1, <1>5, <1>6 DEF CallersHold, OnePlace, ClosedFirst, HasConn
  <2>2. Listed
    BY <1>1, <1>2, <1>5, <1>6 DEF Listed, InUse, OnItsWay, Arriving
  <2> QED BY <2>1, <2>2 DEF Places
<1>9. Busy = {} /\ Started = new /\ Adding = new
  BY <1>2, <1>5 DEF Busy, Started, Adding, Holding
<1>10. SlotsHeld
  <2>1. Cardinality(Busy) = 0 /\ Cardinality(Started) = queue
    BY <1>2, <1>9, FS_EmptySet
  <2>2. queue >= Cardinality(Busy) + Cardinality(Started)
    BY <2>1, <1>3, PoolAssumption
  <2> QED BY <2>2 DEF SlotsHeld, Busy, Started
<1>11. CountersAgree
  <2>1. Cardinality(conns) = 0 /\ Len(idleConns) = 0 /\ Cardinality(Adding) = queue
    BY <1>1, <1>2, <1>9, FS_EmptySet
  <2> QED BY <2>1, <1>1, <1>3, PoolAssumption DEF CountersAgree
<1> QED BY <1>7, <1>8, <1>10, <1>11 DEF PoolInv

LEMMA PoolStep ==
  ASSUME PoolInv, [PoolNext]_poolVars
  PROVE  PoolInv'
<1>1. CASE PoolNext
  BY <1>1, AdderStep, CallerStep, CloseBeginStep, ResetPoolStep DEF PoolNext
<1>2. CASE UNCHANGED poolVars
  <2>1. UNCHANGED <<queue, conns, idleConns, createConn, idleConnLen, closed, open, adder, user,
                    closer, overtaken>>
    BY <1>2 DEF poolVars, lists
  <2>2. PoolTypeOK' /\ SlotsHeld' /\ CountersAgree'
    BY <2>1 DEF PoolInv, PoolTypeOK, SlotsHeld, CountersAgree, Adding
  <2>3. Places'
    BY <2>1 DEF PoolInv, Places, CallersHold, OnePlace, Listed, ClosedFirst, InUse, OnItsWay,
                Arriving
  <2> QED BY <2>2, <2>3 DEF PoolInv
<1> QED BY <1>1, <1>2

LEMMA PoolInvProps ==
  ASSUME PoolInv
  PROVE  Exclusive /\ HandedOutListed
<1>0. PoolTypeOK /\ CallersHold /\ OnePlace /\ Listed
  BY DEF PoolInv, Places
<1>1. Exclusive
  BY <1>0 DEF Exclusive, OnePlace, CallersHold, HasConn
<1>2. HandedOutListed
  <2> SUFFICES ASSUME NEW u \in User, user[u].pc = "has", ~closed
               PROVE  user[u].conn \in open /\ (overtaken \/ user[u].conn \in conns)
    BY DEF HandedOutListed
  <2>1. user[u].conn \in Conn
    BY <1>0, ConnTypes DEF CallersHold, HasConn
  <2>2. InUse(user[u].conn)
    BY DEF InUse
  <2> QED BY <1>0, <2>1, <2>2 DEF Listed
<1> QED BY <1>1, <1>2

(* The pool's promises hold whatever callers, goroutines and Close do, for  *)
(* every number of callers and connections and every configuration: a       *)
(* connection is handed to one caller at a time (Get, Put); the counters    *)
(* agree with the lists until an unlocked removal is overtaken; no slot is  *)
(* given back twice (freeSlot); what is handed out is open and listed.      *)
THEOREM PoolCorrect ==
  PoolSpec => [](PoolTypeOK /\ Exclusive /\ CountersAgree /\ SlotsHeld /\ HandedOutListed)
<1>1. PoolInit => PoolInv
  BY PoolInitInv
<1>2. PoolInv /\ [PoolNext]_poolVars => PoolInv'
  BY PoolStep
<1>3. PoolInv => PoolTypeOK /\ Exclusive /\ CountersAgree /\ SlotsHeld /\ HandedOutListed
  BY PoolInvProps DEF PoolInv
<1> QED BY <1>1, <1>2, <1>3, PTL DEF PoolSpec

(***************************************************************************)
(* FixedPool is a BackendPool, so what is proved of the pool holds of it,  *)
(* and on top of that what WaitPoolReady and Close promise.                *)
(***************************************************************************)

(* While the pool is filled, connections and dials together stay within     *)
(* PoolSize: each AdderFailed only lowers createConn, and nothing calls     *)
(* checkMinIdleConns again.                                                 *)
WithinSize == ~closed => createConn <= PoolSize

(* The listed connections are open until Close, and nothing else is open    *)
(* but what a goroutine is about to list.                                   *)
OpenListed ==
  /\ ~closed => conns \subseteq open
  /\ open \subseteq conns \cup {c \in Conn : adder[c] = "append"}

(* What ready means: the pool was complete, so no goroutine is dialling,    *)
(* and only such a pool is closed.                                          *)
ReadyMeans ==
  /\ closed => ready
  /\ ready => Adding = {} /\ Cardinality(onLines) = PoolSize
  /\ ready /\ ~closed => onLines \subseteq conns
  /\ ~ready => onLines = {}
  /\ closer = "done" => conns = {}

(* The second load of GetNoTxConn is of a candidate.                        *)
LoadsCandidate == get.pc = "second" => get.conn \in onLines

GetState(lines) ==
  [pc: {"idle", "collect", "pick", "second", "panic"},
   todo: SUBSET lines, cand: SUBSET lines, conn: lines \cup {None}]
GetOK ==
  /\ onLines \subseteq Conn /\ ready \in BOOLEAN /\ up \in BOOLEAN
  /\ txState \in [Conn -> TxState]
  /\ get \in GetState(onLines)
  /\ LoadsCandidate

FixedInv ==
  /\ PoolInv /\ ~overtaken
  /\ WithinSize /\ OpenListed /\ ReadyMeans
  /\ GetOK

----------------------------------------------------------------------------
(* The steps that are not the pool's                                        *)

PoolSame ==
  UNCHANGED <<queue, conns, idleConns, createConn, idleConnLen, closed, open, adder, user, closer,
              overtaken>>

LEMMA PoolSameBy ==
  ASSUME UNCHANGED poolVars
  PROVE  PoolSame
  BY DEF PoolSame, poolVars, lists

(* GetNoTxConn and the transactions leave the pool alone.                   *)
LEMMA PoolKept ==
  ASSUME FixedInv, PoolSame, UNCHANGED <<onLines, ready>>
  PROVE  PoolInv' /\ ~overtaken' /\ WithinSize' /\ OpenListed' /\ ReadyMeans'
<1>1. PoolInv'
  BY PoolStep DEF FixedInv, PoolSame, poolVars, lists
<1>2. ~overtaken' /\ WithinSize' /\ OpenListed'
  BY DEF FixedInv, PoolSame, WithinSize, OpenListed
<1>3. Adding' = Adding
  BY DEF PoolSame, Adding
<1>4. ReadyMeans'
  BY <1>3 DEF FixedInv, PoolSame, ReadyMeans
<1> QED BY <1>1, <1>2, <1>4

LEMMA GType ==
  ASSUME NEW lines, NEW pc \in {"idle", "collect", "pick", "panic"},
         NEW todo \in SUBSET lines, NEW cand \in SUBSET lines
  PROVE  G(pc, todo, cand) \in GetState(lines) /\ G(pc, todo, cand).pc = pc
  BY DEF G, GetState

(* A step of GetNoTxConn that leaves it in a state of its type.             *)
LEMMA GetKept ==
  ASSUME FixedInv, PoolSame, UNCHANGED <<onLines, ready, up, txState>>,
         get' \in GetState(onLines), get'.pc = "second" => get'.conn \in onLines
  PROVE  FixedInv'
<1>1. GetOK'
  BY DEF FixedInv, GetOK, LoadsCandidate
<1> QED BY <1>1, PoolKept DEF FixedInv

LEMMA GetNoTxConnStep ==
  ASSUME FixedInv, GetNoTxConn
  PROVE  FixedInv'
<1>1. get' = G("collect", onLines, {}) /\ UNCHANGED <<onLines, ready, up, txState>>
  BY DEF GetNoTxConn
<1>2. PoolSame
  BY PoolSameBy DEF GetNoTxConn
<1>3. get' \in GetState(onLines) /\ get'.pc = "collect"
  BY <1>1, GType
<1> QED BY <1>1, <1>2, <1>3, GetKept

LEMMA CollectNoTxStep ==
  ASSUME FixedInv, CollectNoTx
  PROVE  FixedInv'
<1>0. get \in GetState(onLines)
  BY DEF FixedInv, GetOK
<1>1. UNCHANGED <<onLines, ready, up, txState>>
  BY DEF CollectNoTx
<1>2. PoolSame
  BY PoolSameBy DEF CollectNoTx
<1>3. PICK c \in get.todo :
        LET todo == get.todo \ {c}
            cand == IF txState[c] = "begin" THEN get.cand ELSE get.cand \cup {c}
        IN get' = IF todo # {} THEN G("collect", todo, cand)
                  ELSE IF Cardinality(cand) <= 1 THEN G("idle", {}, {})
                  ELSE G("pick", {}, cand)
  BY DEF CollectNoTx
<1> DEFINE todo == get.todo \ {c}
           cand == IF txState[c] = "begin" THEN get.cand ELSE get.cand \cup {c}
<1>4. get.todo \in SUBSET onLines /\ get.cand \in SUBSET onLines
  BY <1>0 DEF GetState
<1>5. todo \in SUBSET onLines /\ cand \in SUBSET onLines
  BY <1>4
<1>6. get' \in {G("collect", todo, cand), G("idle", {}, {}), G("pick", {}, cand)}
  BY <1>3
<1> HIDE DEF todo, cand
<1>7. get' \in GetState(onLines) /\ get'.pc # "second"
  <2>1. CASE get' = G("collect", todo, cand)
    <3>1. G("collect", todo, cand) \in GetState(onLines) /\ G("collect", todo, cand).pc = "collect"
      BY <1>5, GType
    <3> QED BY <2>1, <3>1
  <2>2. CASE get' = G("idle", {}, {})
    <3>1. G("idle", {}, {}) \in GetState(onLines) /\ G("idle", {}, {}).pc = "idle"
      BY GType
    <3> QED BY <2>2, <3>1
  <2>3. CASE get' = G("pick", {}, cand)
    <3>1. G("pick", {}, cand) \in GetState(onLines) /\ G("pick", {}, cand).pc = "pick"
      BY <1>5, GType
    <3> QED BY <2>3, <3>1
  <2> QED BY <1>6, <2>1, <2>2, <2>3
<1> QED BY <1>1, <1>2, <1>7, GetKept

LEMMA PickNoTxStep ==
  ASSUME FixedInv, NEW c \in Conn, PickNoTx(c)
  PROVE  FixedInv'
<1>0. get \in GetState(onLines)
  BY DEF FixedInv, GetOK
<1>1. UNCHANGED <<onLines, ready, up, txState>>
  BY DEF PickNoTx
<1>2. PoolSame
  BY PoolSameBy DEF PickNoTx
<1>3. c \in onLines
  BY <1>0 DEF PickNoTx, GetState
<1>4. CASE get' = G("idle", {}, {})
  <2>1. get' \in GetState(onLines) /\ get'.pc = "idle"
    BY <1>4, GType
  <2> QED BY <1>1, <1>2, <2>1, GetKept
<1>5. CASE get' = [get EXCEPT !.pc = "second", !.conn = c]
  <2>1. get' \in GetState(onLines) /\ get'.conn = c
    BY <1>0, <1>3, <1>5 DEF GetState
  <2> QED BY <1>1, <1>2, <1>3, <2>1, GetKept
<1> QED BY <1>4, <1>5 DEF PickNoTx

LEMMA PickSecondLoadStep ==
  ASSUME FixedInv, PickSecondLoad
  PROVE  FixedInv'
<1>0. get \in GetState(onLines) /\ get.pc = "second"
  BY DEF FixedInv, GetOK, PickSecondLoad
<1>1. UNCHANGED <<onLines, ready, up, txState>>
  BY DEF PickSecondLoad
<1>2. PoolSame
  BY PoolSameBy DEF PickSecondLoad
<1>3. txState[get.conn] \in {"none", "begin", "end"}
  <2>1. get.conn \in Conn /\ txState \in [Conn -> TxState]
    BY <1>0 DEF FixedInv, GetOK, LoadsCandidate
  <2> QED BY <2>1 DEF TxState
<1>4. \/ get' = G("idle", {}, {})
      \/ get' = [get EXCEPT !.pc = "pick", !.conn = None]
      \/ get' = G("panic", {}, {})
  BY <1>3 DEF PickSecondLoad
<1>5. get' \in GetState(onLines) /\ get'.pc # "second"
  <2>1. [get EXCEPT !.pc = "pick", !.conn = None] \in GetState(onLines)
    BY <1>0 DEF GetState
  <2>2. [get EXCEPT !.pc = "pick", !.conn = None].pc = "pick"
    BY <1>0 DEF GetState
  <2>3. G("idle", {}, {}) \in GetState(onLines) /\ G("idle", {}, {}).pc = "idle"
    BY GType
  <2>4. G("panic", {}, {}) \in GetState(onLines) /\ G("panic", {}, {}).pc = "panic"
    BY GType
  <2>5. CASE get' = [get EXCEPT !.pc = "pick", !.conn = None]
    BY <2>1, <2>2, <2>5
  <2> QED BY <1>4, <2>3, <2>4, <2>5
<1> QED BY <1>1, <1>2, <1>5, GetKept

LEMMA TxChangeStep ==
  ASSUME FixedInv, NEW c \in Conn, TxChange(c)
  PROVE  FixedInv'
<1>1. UNCHANGED <<onLines, ready, up, get>>
  BY DEF TxChange
<1>2. PoolSame
  BY PoolSameBy DEF TxChange
<1>3. txState' \in [Conn -> TxState]
  BY DEF TxChange, FixedInv, GetOK
<1>4. GetOK'
  BY <1>1, <1>3 DEF FixedInv, GetOK, LoadsCandidate
<1> QED BY <1>1, <1>2, <1>4, PoolKept DEF FixedInv

LEMMA BackendUpStep ==
  ASSUME FixedInv, BackendUp
  PROVE  FixedInv'
<1>1. UNCHANGED <<onLines, ready, txState, get>> /\ up' = TRUE
  BY DEF BackendUp, getVars
<1>2. PoolSame
  BY PoolSameBy DEF BackendUp
<1>4. GetOK'
  BY <1>1 DEF FixedInv, GetOK, LoadsCandidate
<1> QED BY <1>1, <1>2, <1>4, PoolKept DEF FixedInv

(* WaitPoolReady sees PoolSize connections: by the counters there is no     *)
(* room for a dial.                                                         *)
LEMMA WaitPoolReadyStep ==
  ASSUME FixedInv, WaitPoolReady
  PROVE  FixedInv'
<1>1. /\ ~ready /\ ready' = TRUE /\ Cardinality(conns) = PoolSize
      /\ onLines' = conns /\ UNCHANGED <<up, txState, get>>
  BY DEF WaitPoolReady, getVars
<1>2. PoolSame
  BY PoolSameBy DEF WaitPoolReady
<1>c. ~closed /\ ~closed' /\ onLines = {}
  BY <1>1, <1>2 DEF FixedInv, ReadyMeans, PoolSame
<1>t. PoolTypeOK /\ PoolInv
  BY DEF FixedInv, PoolInv
<1>3. Adding = {}
  <2>1. createConn = Cardinality(conns) + Cardinality(Adding)
    BY <1>c DEF FixedInv, PoolInv, CountersAgree
  <2>2. createConn <= PoolSize
    BY <1>c DEF FixedInv, WithinSize
  <2>3. Cardinality(Adding) \in Nat /\ IsFiniteSet(Adding)
    BY <1>t, CountSets
  <2>4. Cardinality(Adding) = 0
    BY <2>1, <2>2, <2>3, <1>1, PoolAssumption
  <2> QED BY <2>3, <2>4, FS_EmptySet
<1>4. Adding' = {} /\ closer' = closer /\ conns' = conns /\ closed' = closed
  BY <1>2, <1>3 DEF PoolSame, Adding
<1>5. closer # "done"
  BY <1>c DEF FixedInv, PoolInv, Places, ClosedFirst
<1>6. ReadyMeans'
  BY <1>1, <1>4, <1>5, <1>c DEF ReadyMeans
<1>7. GetOK'
  <2>1. onLines' \subseteq Conn
    BY <1>1, <1>t DEF PoolTypeOK
  <2>2. get \in GetState({}) /\ get.pc # "second"
    BY <1>c DEF FixedInv, GetOK, LoadsCandidate
  <2>3. get' \in GetState(onLines')
    BY <2>2, <1>1 DEF GetState
  <2> QED BY <1>1, <2>1, <2>2, <2>3 DEF FixedInv, GetOK, LoadsCandidate
<1>8. PoolInv' /\ ~overtaken' /\ WithinSize' /\ OpenListed'
  <2>1. PoolInv'
    BY <1>2, PoolStep DEF FixedInv, PoolSame, poolVars, lists
  <2> QED BY <2>1, <1>2 DEF FixedInv, PoolSame, WithinSize, OpenListed
<1> QED BY <1>6, <1>7, <1>8 DEF FixedInv

----------------------------------------------------------------------------
(* The steps of the pool                                                    *)

LEMMA GetOKKept ==
  ASSUME FixedInv, UNCHANGED <<onLines, ready, up, getVars>>
  PROVE  GetOK'
  BY DEF FixedInv, GetOK, LoadsCandidate, getVars

LEMMA FillStep ==
  ASSUME FixedInv, NEW c \in Conn, Fill(c)
  PROVE  FixedInv'
<1>0. PoolInv /\ PoolTypeOK /\ ~overtaken
  BY DEF FixedInv, PoolInv
<1>1. Adder(c) /\ UNCHANGED <<onLines, ready, up, getVars>>
  BY DEF Fill
<1>2. PoolInv'
  BY <1>0, <1>1, AdderStep
<1>3. GetOK'
  BY <1>1, GetOKKept
<1>4. UNCHANGED <<closed, closer, overtaken, onLines, ready>>
  BY <1>1 DEF Adder, AdderDial, AddIdleConn, AdderFailed, AdderFree, lists
<1>a. PICK x \in {"append", "failed", "free", "none"} : adder' = [adder EXCEPT ![c] = x]
  BY <1>1 DEF Adder, AdderDial, AddIdleConn, AdderFailed, AdderFree
<1>b. adder'[c] = x /\ \A d \in Conn : d # c => adder'[d] = adder[d]
  BY <1>0, <1>a DEF PoolTypeOK
<1>5. CASE AdderDial(c)
  <2>1. UNCHANGED <<conns, createConn>> /\ adder[c] = "dial"
    BY <1>5 DEF AdderDial, lists
  <2>2. \/ open' = open /\ adder' = [adder EXCEPT ![c] = "free"]
        \/ open' = open /\ adder' = [adder EXCEPT ![c] = "failed"]
        \/ open' = open \cup {c} /\ adder' = [adder EXCEPT ![c] = "append"]
    BY <1>5 DEF AdderDial
  <2>3. (open' = open) \/ (open' = open \cup {c} /\ adder'[c] = "append")
    BY <2>2, <1>0 DEF PoolTypeOK
  <2>4. WithinSize' /\ OpenListed'
    BY <2>1, <2>3, <1>b, <1>4 DEF FixedInv, WithinSize, OpenListed
  <2>5. c \in Adding
    BY <2>1 DEF Adding
  <2>6. ReadyMeans'
    BY <2>1, <2>5, <1>4 DEF FixedInv, ReadyMeans
  <2> QED BY <1>0, <1>2, <1>3, <1>4, <2>4, <2>6 DEF FixedInv
<1>6. CASE AddIdleConn(c)
  <2>1. UNCHANGED <<open, createConn>> /\ adder[c] = "append" /\ conns' = conns \cup {c}
    BY <1>6 DEF AddIdleConn
  <2>2. c \in Adding
    BY <2>1 DEF Adding
  <2>3. ~closed => c \in open
    BY <1>0, <2>1 DEF PoolInv, Places, Listed
  <2>4. WithinSize' /\ OpenListed'
    BY <2>1, <2>3, <1>b, <1>4 DEF FixedInv, WithinSize, OpenListed
  <2>6. ReadyMeans'
    BY <2>2, <1>4, <1>0 DEF FixedInv, ReadyMeans, PoolInv, Places, ClosedFirst
  <2> QED BY <1>0, <1>2, <1>3, <1>4, <2>4, <2>6 DEF FixedInv
<1>7. CASE AdderFailed(c)
  <2>1. UNCHANGED <<open, conns>> /\ adder[c] = "failed" /\ createConn' = createConn - 1
    BY <1>7 DEF AdderFailed
  <2>2. c \in Adding
    BY <2>1 DEF Adding
  <2>3. WithinSize'
    BY <2>1, <1>4, <1>0, PoolAssumption DEF FixedInv, WithinSize, PoolTypeOK
  <2>4. OpenListed'
    BY <2>1, <1>b, <1>4 DEF FixedInv, OpenListed
  <2>6. ReadyMeans'
    BY <2>1, <2>2, <1>4 DEF FixedInv, ReadyMeans
  <2> QED BY <1>0, <1>2, <1>3, <1>4, <2>3, <2>4, <2>6 DEF FixedInv
<1>8. CASE AdderFree(c)
  <2>1. UNCHANGED <<open, conns, createConn>> /\ adder[c] = "free"
    BY <1>8 DEF AdderFree, lists
  <2>2. adder' = [adder EXCEPT ![c] = "none"]
    BY <1>8 DEF AdderFree
  <2>3. adder'[c] = "none"
    BY <2>2, <1>0 DEF PoolTypeOK
  <2>4. WithinSize' /\ OpenListed'
    BY <2>1, <1>b, <1>4 DEF FixedInv, WithinSize, OpenListed
  <2>5. Adding' = Adding
    BY <2>1, <2>3, <1>b DEF Adding
  <2>6. ReadyMeans'
    BY <2>1, <2>5, <1>4 DEF FixedInv, ReadyMeans
  <2> QED BY <1>0, <1>2, <1>3, <1>4, <2>4, <2>6 DEF FixedInv
<1> QED BY <1>1, <1>5, <1>6, <1>7, <1>8 DEF Adder

LEMMA FixedCloseStep ==
  ASSUME FixedInv, FixedClose
  PROVE  FixedInv'
<1>0. PoolInv /\ ~overtaken /\ ready
  BY DEF FixedInv, FixedClose
<1>1. UNCHANGED <<onLines, ready, up, getVars>>
  BY DEF FixedClose
<1>3. GetOK'
  BY <1>1, GetOKKept
<1>4. CASE CloseBegin
  <2>1. /\ closed' = TRUE /\ closer' = "lock" /\ UNCHANGED <<conns, open, adder, overtaken>>
    BY <1>4 DEF CloseBegin, lists
  <2>2. PoolInv'
    BY <1>0, <1>4, CloseBeginStep
  <2>3. WithinSize' /\ OpenListed'
    BY <2>1 DEF FixedInv, WithinSize, OpenListed
  <2>4. Adding' = Adding
    BY <2>1 DEF Adding
  <2>5. ReadyMeans'
    BY <2>1, <2>4, <1>0, <1>1 DEF FixedInv, ReadyMeans
  <2> QED BY <1>0, <1>3, <2>1, <2>2, <2>3, <2>5 DEF FixedInv
<1>5. CASE ResetPool
  <2>1. /\ closer = "lock" /\ conns' = {} /\ open' = open \ conns
        /\ UNCHANGED <<closed, adder, overtaken>>
    BY <1>5 DEF ResetPool
  <2>2. PoolInv'
    BY <1>0, <1>5, ResetPoolStep
  <2>3. closed
    BY <1>0, <2>1 DEF PoolInv, Places, ClosedFirst
  <2>4. WithinSize' /\ OpenListed'
    BY <2>1, <2>3 DEF FixedInv, WithinSize, OpenListed
  <2>5. Adding' = Adding
    BY <2>1 DEF Adding
  <2>6. ReadyMeans'
    BY <2>1, <2>3, <2>5, <1>0, <1>1 DEF FixedInv, ReadyMeans
  <2> QED BY <1>0, <1>3, <2>1, <2>2, <2>4, <2>6 DEF FixedInv
<1> QED BY <1>4, <1>5 DEF FixedClose

----------------------------------------------------------------------------
(* The theorems                                                             *)

LEMMA FixedInitInv ==
  ASSUME FixedInit
  PROVE  FixedInv
<1>1. PoolInit /\ PoolInv
  BY PoolInitInv DEF FixedInit
<1>2. /\ conns = {} /\ closed = FALSE /\ open = {} /\ closer = "none" /\ overtaken = FALSE
      /\ onLines = {} /\ ready = FALSE
  BY DEF FixedInit, PoolInit
<1>3. WithinSize
  BY PoolAssumption DEF FixedInit, PoolInit, WithinSize
<1>4. OpenListed /\ ReadyMeans
  BY <1>2 DEF OpenListed, ReadyMeans
<1>5. G("idle", {}, {}) \in GetState({}) /\ G("idle", {}, {}).pc = "idle"
  BY GType
<1>6. GetOK
  BY <1>2, <1>5 DEF FixedInit, GetOK, LoadsCandidate, TxState
<1> QED BY <1>1, <1>2, <1>3, <1>4, <1>6 DEF FixedInv

LEMMA FixedStep ==
  ASSUME FixedInv, [FixedNext]_fixedVars
  PROVE  FixedInv'
<1>1. CASE FixedNext
  BY <1>1, FillStep, WaitPoolReadyStep, FixedCloseStep, BackendUpStep, TxChangeStep,
     PickNoTxStep, GetNoTxConnStep, CollectNoTxStep, PickSecondLoadStep
     DEF FixedNext
<1>2. CASE UNCHANGED fixedVars
  <2>1. PoolSame /\ UNCHANGED <<onLines, ready, up, getVars>>
    BY <1>2, PoolSameBy DEF fixedVars
  <2> QED BY <2>1, PoolKept, GetOKKept DEF FixedInv
<1> QED BY <1>1, <1>2

(* Whatever the fixed pool does is something the pool it wraps does: its    *)
(* goroutines, Close and nothing else (NewFixedPool, Close).  PoolCorrect   *)
(* therefore holds of the fixed pool too.                                   *)
THEOREM FixedIsPool == FixedSpec => PoolSpec
<1>1. FixedInit => PoolInit
  BY DEF FixedInit
<1>2. [FixedNext]_fixedVars => [PoolNext]_poolVars
  <2>1. ASSUME FixedNext PROVE [PoolNext]_poolVars
    <3>1. CASE \E c \in Conn : Fill(c)
      BY <3>1 DEF Fill, PoolNext
    <3>2. CASE FixedClose
      BY <3>2 DEF FixedClose, PoolNext
    <3>3. CASE WaitPoolReady \/ BackendUp \/ GetNoTxConn \/ CollectNoTx \/ PickSecondLoad
      BY <3>3 DEF WaitPoolReady, BackendUp, GetNoTxConn, CollectNoTx, PickSecondLoad
    <3>4. CASE \E c \in Conn : TxChange(c) \/ PickNoTx(c)
      BY <3>4 DEF TxChange, PickNoTx
    <3> QED BY <2>1, <3>1, <3>2, <3>3, <3>4 DEF FixedNext
  <2>2. ASSUME UNCHANGED fixedVars PROVE [PoolNext]_poolVars
    BY <2>2 DEF fixedVars
  <2> QED BY <2>1, <2>2
<1>3. FixedInit /\ [][FixedNext]_fixedVars => PoolSpec
  BY <1>1, <1>2, PTL DEF PoolSpec
<1> QED BY <1>3, PTL DEF FixedSpec

(* Requests are only routed to open connections, and once the pool is ready *)
(* to all PoolSize of them (WaitPoolReady); after Close no connection is    *)
(* left open, because ready leaves no dial under way (FixedPool.Close).     *)
THEOREM FixedCorrect == FixedSpec => [](FixedTypeOK /\ OnLinesOpen /\ ClosedIsClosed)
<1>1. FixedInit => FixedInv
  BY FixedInitInv
<1>2. FixedInv /\ [FixedNext]_fixedVars => FixedInv'
  BY FixedStep
<1>3. ASSUME FixedInv PROVE FixedTypeOK /\ OnLinesOpen /\ ClosedIsClosed
  <2>1. FixedTypeOK
    BY <1>3 DEF FixedInv, PoolInv, GetOK, GetState, FixedTypeOK
  <2>2. OnLinesOpen
    BY <1>3 DEF FixedInv, OpenListed, ReadyMeans, OnLinesOpen
  <2>3. ClosedIsClosed
    <3> SUFFICES ASSUME closer = "done" PROVE open = {}
      BY DEF ClosedIsClosed
    <3>1. closed /\ Adding = {} /\ conns = {}
      BY <1>3 DEF FixedInv, PoolInv, Places, ClosedFirst, ReadyMeans
    <3>2. \A c \in Conn : adder[c] # "append"
      BY <3>1 DEF Adding
    <3> QED BY <1>3, <3>1, <3>2 DEF FixedInv, OpenListed
  <2> QED BY <2>1, <2>2, <2>3
<1>4. FixedInit /\ [][FixedNext]_fixedVars => []FixedInv
  BY <1>1, <1>2, PTL
<1>5. FixedInv => FixedTypeOK /\ OnLinesOpen /\ ClosedIsClosed
  BY <1>3
<1> QED BY <1>4, <1>5, PTL DEF FixedSpec
=============================================================================
