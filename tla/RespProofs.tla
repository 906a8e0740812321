----------------------------- MODULE RespProofs -----------------------------
(***************************************************************************)
(* Theorems about the RESP codec.  A command as clients send it is an      *)
(* array of words, which are bulk strings or lines; RespReader.Read        *)
(* returns it however many bytes follow it, fails with "short" on each     *)
(* part of it, and RespWriter.Write writes it as it was.                   *)
(***************************************************************************)
EXTENDS Resp, SequenceTheorems, WellFoundedInduction, TLAPS

LEMMA Limits ==
  /\ MaxBufferSize \in Nat /\ MaxBufferSize # 0 /\ MaxArray \in Nat /\ Nil \notin Int
  /\ Nil \notin Seq(Byte) /\ Nil \notin Seq(StringPackets)
BY RespAssumption, Zenon

----------------------------------------------------------------------------
(* Induction and recursion on numbers                                       *)

(* A set of numbers has a least one.                                        *)
LEMMA LeastNat ==
  ASSUME NEW T \in SUBSET Nat, T # {}
  PROVE  \E x \in T : \A y \in T : x <= y
<1> DEFINE R == OpToRel(<, Nat)
<1>1. IsWellFoundedOn(R, Nat)
  BY NatLessThanWellFounded
<1>2. \A x, y \in Nat : <<y, x>> \in R <=> y < x
  BY DEF OpToRel
<1> HIDE DEF R
<1>3. PICK x \in T : \A y \in T : ~(<<y, x>> \in R)
  BY <1>1, WFMin, Zenon
<1>4. \A y \in T : ~(y < x)
  BY <1>2, <1>3
<1> QED BY <1>3, <1>4

(* Induction on the numbers that are in a set.                              *)
LEMMA InductionNat ==
  ASSUME NEW S \in SUBSET Nat, 0 \in S, \A n \in Nat : n \in S => n + 1 \in S
  PROVE  S = Nat
<1> SUFFICES ASSUME Nat \ S # {} PROVE FALSE
  OBVIOUS
<1>1. PICK x \in Nat \ S : \A y \in Nat \ S : x <= y
  BY LeastNat
<1>2. x - 1 \in Nat /\ (x - 1) + 1 = x
  OBVIOUS
<1>3. x - 1 \in S
  BY <1>1, <1>2
<1> QED BY <1>2, <1>3

(* f is given by A on B, and elsewhere by F from its value at p.            *)
Recursive(f, E, B, A, p, F) ==
  \A n \in E : f[n] = IF n \in B THEN A[n] ELSE F[n][f[p[n]]]

(* A function on numbers may be defined from its values at smaller ones.    *)
LEMMA Recursion ==
  ASSUME NEW D \in SUBSET Nat, NEW B \in SUBSET D, NEW S, NEW A \in [B -> S],
         NEW p \in [D \ B -> D], \A n \in D \ B : p[n] < n, NEW F \in [D -> [S -> S]]
  PROVE  \E f \in [D -> S] : Recursive(f, D, B, A, p, F)
<1> DEFINE Below(m) == {n \in D : n < m}
           Sol(f, m) == f \in [Below(m) -> S] /\ Recursive(f, Below(m), B, A, p, F)
           T == {m \in Nat : \E f : Sol(f, m)}
<1>n. \A n \in D : n \in Nat
  OBVIOUS
<1>0. \A n \in D \ B : n \in Nat /\ p[n] \in D /\ p[n] \in Nat /\ p[n] < n
  OBVIOUS
<1>1. T = Nat
  <2>1. 0 \in T
    <3> DEFINE f == [n \in Below(0) |-> A[n]]
    <3>1. Below(0) = {}
      <4>1. \A n \in Nat : ~(n < 0)
        OBVIOUS
      <4> QED BY <1>n, <4>1, Zenon
    <3>2. Sol(f, 0)
      BY <3>1 DEF Recursive
    <3> QED BY <3>2
  <2>2. ASSUME NEW m \in Nat, m \in T
        PROVE  m + 1 \in T
    <3>1. PICK f : Sol(f, m)
      BY <2>2
    <3> DEFINE g == [n \in Below(m + 1) |->
                       IF n < m THEN f[n] ELSE IF n \in B THEN A[n] ELSE F[n][f[p[n]]]]
    <3>2. \A n \in Below(m + 1) : n \in Below(m) \/ n = m
      OBVIOUS
    <3>3. ASSUME NEW n \in Below(m + 1), n \notin B
          PROVE  p[n] \in Below(m) /\ n \in D /\ f[p[n]] \in S
      <4>1. n \in D \ B /\ n < m + 1
        BY <3>3
      <4>2. p[n] \in D /\ p[n] < m
        BY <1>0, <4>1
      <4> QED BY <3>1, <4>1, <4>2
    <3>4. g \in [Below(m + 1) -> S]
      <4> SUFFICES ASSUME NEW n \in Below(m + 1)
                   PROVE  g[n] \in S
        OBVIOUS
      <4>1. CASE n < m
        BY <4>1, <3>1
      <4>2. CASE ~(n < m) /\ n \in B
        BY <4>2
      <4>3. CASE ~(n < m) /\ n \notin B
        <5>1. F[n] \in [S -> S] /\ f[p[n]] \in S
          BY <4>3, <3>3
        <5> QED BY <4>3, <5>1
      <4> QED BY <4>1, <4>2, <4>3
    <3>5. Recursive(g, Below(m + 1), B, A, p, F)
      <4> SUFFICES ASSUME NEW n \in Below(m + 1)
                   PROVE  g[n] = IF n \in B THEN A[n] ELSE F[n][g[p[n]]]
        BY DEF Recursive
      <4>1. n \notin B => g[p[n]] = f[p[n]]
        <5>1. \A q \in Below(m) : q \in Below(m + 1) /\ q < m
          OBVIOUS
        <5> QED BY <3>3, <5>1
      <4>2. CASE n < m
        BY <4>2, <4>1, <3>1 DEF Recursive
      <4> QED BY <4>1, <4>2
    <3> HIDE DEF g
    <3>6. Sol(g, m + 1)
      BY <3>4, <3>5
    <3> QED BY <3>6
  <2> QED BY <2>1, <2>2, InductionNat
<1>2. ASSUME NEW f, NEW g, NEW m \in Nat, NEW k \in Nat, Sol(f, m), Sol(g, k)
      PROVE  \A n \in Below(m) \cap Below(k) : f[n] = g[n]
  <2> DEFINE U == {n \in Below(m) \cap Below(k) : f[n] # g[n]}
  <2> SUFFICES ASSUME U # {} PROVE FALSE
    OBVIOUS
  <2>1. PICK x \in U : \A y \in U : x <= y
    BY LeastNat
  <2>2. x \in B => f[x] = A[x] /\ g[x] = A[x]
    BY <1>2 DEF Recursive
  <2>3. x \notin B /\ x \in D /\ x < m /\ x < k
    BY <2>2
  <2>a. p[x] \in D /\ p[x] \in Nat /\ x \in Nat /\ p[x] < x
    BY <1>0, <2>3
  <2>b. p[x] \in Below(m) \cap Below(k)
    BY <2>3, <2>a
  <2>4. f[p[x]] = g[p[x]]
    BY <2>1, <2>a, <2>b
  <2>5. f[x] = F[x][f[p[x]]] /\ g[x] = F[x][g[p[x]]]
    BY <1>2, <2>3 DEF Recursive
  <2> QED BY <2>4, <2>5
<1>3. \E h : \A m \in Nat : Sol(h[m], m)
  <2> DEFINE h == [m \in Nat |-> CHOOSE f : Sol(f, m)]
  <2> HIDE DEF Sol
  <2>1. \A m \in Nat : Sol(h[m], m)
    BY <1>1
  <2> QED BY <2>1
<1>4. PICK h : \A m \in Nat : Sol(h[m], m)
  BY <1>3
<1>5. \A n \in D : n \in Nat /\ n + 1 \in Nat /\ n \in Below(n + 1)
  OBVIOUS
<1>6. \A n \in D : h[n + 1][n] \in S
  BY <1>4, <1>5
<1> DEFINE r == [n \in D |-> h[n + 1][n]]
<1>7. Recursive(r, D, B, A, p, F)
  <2> SUFFICES ASSUME NEW n \in D
               PROVE  r[n] = IF n \in B THEN A[n] ELSE F[n][r[p[n]]]
    BY DEF Recursive
  <2>1. h[n + 1][n] = IF n \in B THEN A[n] ELSE F[n][h[n + 1][p[n]]]
    BY <1>4, <1>5 DEF Recursive
  <2>2. CASE n \notin B
    <3>1. p[n] \in D /\ p[n] \in Nat /\ n \in Nat /\ p[n] < n
      BY <1>0, <2>2
    <3>2. Sol(h[n + 1], n + 1) /\ Sol(h[p[n] + 1], p[n] + 1)
      BY <1>4, <1>5, <3>1
    <3>3. p[n] \in Below(n + 1) \cap Below(p[n] + 1)
      BY <3>1
    <3>4. h[p[n] + 1][p[n]] = h[n + 1][p[n]]
      <4> HIDE DEF Sol, Below
      <4>1. n + 1 \in Nat /\ p[n] + 1 \in Nat
        BY <3>1
      <4> QED BY <1>2, <3>2, <3>3, <4>1
    <3> QED BY <2>1, <2>2, <3>1, <3>4
  <2> QED BY <2>1, <2>2
<1>8. r \in [D -> S]
  BY <1>6
<1> HIDE DEF r
<1> QED BY <1>7, <1>8

----------------------------------------------------------------------------
(* Concatenations of many sequences                                         *)

Flattens(f, ss) == \A i \in 1..Len(ss) : f[i] = IF i = 1 THEN ss[i] ELSE f[i - 1] \o ss[i]

LEMMA FlattenExists ==
  ASSUME NEW S, NEW ss \in Seq(Seq(S))
  PROVE  \E f \in [1..Len(ss) -> Seq(S)] : Flattens(f, ss)
<1> DEFINE D == 1..Len(ss)
           A == [i \in {1} \cap D |-> ss[i]]
           p == [i \in D \ ({1} \cap D) |-> i - 1]
           F == [i \in D |-> [x \in Seq(S) |-> x \o ss[i]]]
<1>1. D \in SUBSET Nat /\ {1} \cap D \in SUBSET D
  OBVIOUS
<1>2. A \in [{1} \cap D -> Seq(S)] /\ p \in [D \ ({1} \cap D) -> D]
  OBVIOUS
<1>3. F \in [D -> [Seq(S) -> Seq(S)]]
  OBVIOUS
<1>4. \A n \in D \ ({1} \cap D) : p[n] < n
  OBVIOUS
<1> HIDE DEF A, p, F, D
<1>5. PICK f \in [D -> Seq(S)] : Recursive(f, D, {1} \cap D, A, p, F)
  BY <1>1, <1>2, <1>3, <1>4, Recursion
<1>6. Flattens(f, ss)
  <2> SUFFICES ASSUME NEW i \in D
               PROVE  f[i] = IF i = 1 THEN ss[i] ELSE f[i - 1] \o ss[i]
    BY DEF Flattens, D
  <2>1. f[i] = IF i \in {1} \cap D THEN A[i] ELSE F[i][f[p[i]]]
    BY <1>5 DEF Recursive
  <2>2. CASE i = 1
    BY <2>1, <2>2 DEF A
  <2>3. CASE i # 1
    <3>1. i - 1 \in D /\ f[i - 1] \in Seq(S) /\ p[i] = i - 1
      BY <2>3 DEF D, p
    <3> QED BY <2>1, <2>3, <3>1 DEF F
  <2> QED BY <2>2, <2>3
<1> QED BY <1>6 DEF D

LEMMA FlattensOnce ==
  ASSUME NEW S, NEW ss \in Seq(Seq(S)), NEW f, NEW g, Flattens(f, ss), Flattens(g, ss)
  PROVE  \A i \in 1..Len(ss) : f[i] = g[i]
<1> DEFINE U == {i \in 1..Len(ss) : f[i] # g[i]}
<1> SUFFICES ASSUME U # {} PROVE FALSE
  OBVIOUS
<1>0. U \in SUBSET Nat
  OBVIOUS
<1>1. PICK x \in U : \A y \in U : x <= y
  BY <1>0, LeastNat
<1>2. x # 1
  BY DEF Flattens
<1>3. x - 1 \in 1..Len(ss) /\ ~(x <= x - 1)
  BY <1>2
<1>4. f[x - 1] = g[x - 1]
  BY <1>1, <1>3
<1> QED BY <1>2, <1>4 DEF Flattens

LEMMA FlattenIs ==
  ASSUME NEW S, NEW ss \in Seq(Seq(S)), ss # << >>, NEW f, Flattens(f, ss)
  PROVE  FlattenSeq(ss) = f[Len(ss)]
<1> DEFINE n == Len(ss)
           flatten == CHOOSE g : g = [i \in 1..n |-> IF i = 1 THEN ss[i] ELSE g[i - 1] \o ss[i]]
<1>0. n \in Nat /\ n > 0
  OBVIOUS
<1>1. FlattenSeq(ss) = flatten[n]
  <2>1. ~(Len(ss) = 0)
    BY <1>0
  <2> QED BY <2>1, Zenon DEF FlattenSeq
<1>2. \E g : g = [i \in 1..n |-> IF i = 1 THEN ss[i] ELSE g[i - 1] \o ss[i]]
  <2>1. PICK h \in [1..n -> Seq(S)] : Flattens(h, ss)
    BY FlattenExists
  <2>2. h = [i \in 1..n |-> IF i = 1 THEN ss[i] ELSE h[i - 1] \o ss[i]]
    BY <2>1 DEF Flattens
  <2> QED BY <2>2
<1>3. flatten = [i \in 1..n |-> IF i = 1 THEN ss[i] ELSE flatten[i - 1] \o ss[i]]
  BY <1>2, Zenon
<1> HIDE DEF flatten
<1>4. Flattens(flatten, ss)
  BY <1>3 DEF Flattens
<1> QED BY <1>0, <1>1, <1>4, FlattensOnce

LEMMA FlattenEmpty ==
  FlattenSeq(<< >>) = << >>
BY DEF FlattenSeq

LEMMA FlattenType ==
  ASSUME NEW S, NEW ss \in Seq(Seq(S))
  PROVE  FlattenSeq(ss) \in Seq(S)
<1>1. CASE ss = << >>
  BY <1>1, FlattenEmpty, EmptySeq
<1>2. CASE ss # << >>
  <2>1. PICK f \in [1..Len(ss) -> Seq(S)] : Flattens(f, ss)
    BY FlattenExists
  <2>2. Len(ss) \in 1..Len(ss)
    BY <1>2
  <2>3. FlattenSeq(ss) = f[Len(ss)]
    BY <1>2, <2>1, FlattenIs, Zenon
  <2> QED BY <2>1, <2>2, <2>3
<1> QED BY <1>1, <1>2

LEMMA FlattenAppend ==
  ASSUME NEW S, NEW ss \in Seq(Seq(S)), NEW s \in Seq(S)
  PROVE  FlattenSeq(Append(ss, s)) = FlattenSeq(ss) \o s
<1> DEFINE tt == Append(ss, s)
           n == Len(ss)
<1>n. n \in Nat
  OBVIOUS
<1>1. tt \in Seq(Seq(S)) /\ Len(tt) = n + 1 /\ tt # << >> /\ tt[n + 1] = s
  BY AppendProperties
<1>2. \A i \in 1..n : tt[i] = ss[i] /\ i \in 1..n + 1
  BY AppendProperties
<1> HIDE DEF tt
<1>3. PICK f \in [1..n + 1 -> Seq(S)] : Flattens(f, tt)
  BY <1>1, FlattenExists
<1>4. FlattenSeq(tt) = f[n + 1]
  BY <1>1, <1>3, FlattenIs
<1>5. CASE ss = << >>
  <2>1. f[1] = s /\ n = 0
    BY <1>1, <1>3, <1>5 DEF Flattens
  <2> QED BY <1>4, <1>5, <2>1, FlattenEmpty DEF tt
<1>6. CASE ss # << >>
  <2>0. n > 0
    BY <1>6
  <2>1. Flattens(f, ss)
    BY <1>1, <1>2, <1>3 DEF Flattens
  <2>2. FlattenSeq(ss) = f[n]
    BY <1>6, <2>1, FlattenIs
  <2>3. f[n + 1] = f[(n + 1) - 1] \o tt[n + 1]
    <3>1. n + 1 \in 1..Len(tt) /\ n + 1 # 1
      BY <1>1, <1>n, <2>0
    <3> QED BY <1>3, <3>1 DEF Flattens
  <2>4. (n + 1) - 1 = n
    BY <1>n
  <2> QED BY <1>1, <1>4, <2>2, <2>3, <2>4 DEF tt
<1> QED BY <1>5, <1>6

(* What is the first n elements and one more                                *)
LEMMA SubSeqNext ==
  ASSUME NEW S, NEW s \in Seq(S), NEW k \in Nat, k < Len(s)
  PROVE  SubSeq(s, 1, k + 1) = Append(SubSeq(s, 1, k), s[k + 1])
OBVIOUS

LEMMA ConcatAppend ==
  ASSUME NEW S, NEW s \in Seq(S), NEW t \in Seq(S), NEW e \in S
  PROVE  s \o Append(t, e) = Append(s \o t, e)
<1>1. Append(t, e) = t \o <<e>> /\ Append(s \o t, e) = (s \o t) \o <<e>> /\ <<e>> \in Seq(S)
  BY AppendIsConcat, ConcatProperties
<1> QED BY <1>1, ConcatAssociative

LEMMA FlattenConcatAppend ==
  ASSUME NEW S, NEW aa \in Seq(Seq(S)), NEW bb \in Seq(Seq(S)), NEW s \in Seq(S),
         FlattenSeq(aa \o bb) = FlattenSeq(aa) \o FlattenSeq(bb)
  PROVE  FlattenSeq(aa \o Append(bb, s)) = FlattenSeq(aa) \o FlattenSeq(Append(bb, s))
<1>1. aa \o bb \in Seq(Seq(S)) /\ FlattenSeq(aa) \in Seq(S) /\ FlattenSeq(bb) \in Seq(S)
  BY FlattenType
<1>2. aa \o Append(bb, s) = Append(aa \o bb, s)
  BY ConcatAppend
<1>3. FlattenSeq(Append(aa \o bb, s)) = (FlattenSeq(aa) \o FlattenSeq(bb)) \o s
  BY <1>1, FlattenAppend
<1>4. FlattenSeq(Append(bb, s)) = FlattenSeq(bb) \o s
  BY FlattenAppend
<1>5. (FlattenSeq(aa) \o FlattenSeq(bb)) \o s = FlattenSeq(aa) \o (FlattenSeq(bb) \o s)
  BY <1>1, ConcatAssociative
<1> QED BY <1>2, <1>3, <1>4, <1>5, Zenon

LEMMA FlattenConcat ==
  ASSUME NEW S, NEW aa \in Seq(Seq(S)), NEW bb \in Seq(Seq(S))
  PROVE  FlattenSeq(aa \o bb) = FlattenSeq(aa) \o FlattenSeq(bb)
<1> DEFINE Good(x) == FlattenSeq(aa \o x) = FlattenSeq(aa) \o FlattenSeq(x)
           T == {k \in Nat : k <= Len(bb) => Good(SubSeq(bb, 1, k))}
<1>1. Good(<< >>)
  <2>1. aa \o << >> = aa /\ FlattenSeq(aa) \in Seq(S)
    BY FlattenType
  <2>2. FlattenSeq(aa) \o << >> = FlattenSeq(aa)
    BY <2>1
  <2> QED BY <2>1, <2>2, FlattenEmpty
<1>2. \A x \in Seq(Seq(S)), s \in Seq(S) : Good(x) => Good(Append(x, s))
  BY FlattenConcatAppend
<1> HIDE DEF Good
<1>3. 0 \in T
  <2>1. SubSeq(bb, 1, 0) = << >>
    OBVIOUS
  <2> QED BY <1>1, <2>1
<1>4. ASSUME NEW k \in Nat, k \in T
      PROVE  k + 1 \in T
  <2> SUFFICES ASSUME k + 1 <= Len(bb)
               PROVE  Good(SubSeq(bb, 1, k + 1))
    OBVIOUS
  <2>1. SubSeq(bb, 1, k) \in Seq(Seq(S)) /\ bb[k + 1] \in Seq(S)
    OBVIOUS
  <2>2. SubSeq(bb, 1, k + 1) = Append(SubSeq(bb, 1, k), bb[k + 1])
    BY SubSeqNext
  <2>3. Good(SubSeq(bb, 1, k))
    BY <1>4
  <2> QED BY <1>2, <2>1, <2>2, <2>3
<1> HIDE DEF T
<1>5. T = Nat
  BY <1>3, <1>4, InductionNat DEF T
<1>6. SubSeq(bb, 1, Len(bb)) = bb /\ Len(bb) \in Nat /\ Len(bb) <= Len(bb)
  OBVIOUS
<1>7. Good(bb)
  <2>1. Len(bb) \in T
    BY <1>5, <1>6
  <2>2. Good(SubSeq(bb, 1, Len(bb)))
    BY <1>6, <2>1 DEF T
  <2> QED BY <1>6, <2>2
<1> QED BY <1>7 DEF Good


----------------------------------------------------------------------------
(* Numbers                                                                  *)

DigitSet == {Digits[i] : i \in 1..10}

LEMMA DigitsDiffer ==
  \A i, j \in 1..10 : Digits[i] = Digits[j] => i = j
BY DEF Digits

LEMMA DigitOf ==
  \A v \in 0..9 : Digits[v + 1] \in DigitSet /\ Digit(Digits[v + 1]) = v
<1> SUFFICES ASSUME NEW v \in 0..9
             PROVE  Digits[v + 1] \in DigitSet /\ Digit(Digits[v + 1]) = v
  OBVIOUS
<1>1. v + 1 \in 1..10
  OBVIOUS
<1>2. \A w \in 0..9 : Digits[w + 1] = Digits[v + 1] => w = v
  <2> SUFFICES ASSUME NEW w \in 0..9, Digits[w + 1] = Digits[v + 1]
               PROVE  w = v
    OBVIOUS
  <2>1. w + 1 \in 1..10
    OBVIOUS
  <2>2. w + 1 = v + 1
    BY <1>1, <2>1, DigitsDiffer
  <2> QED BY <2>2
<1>3. Digit(Digits[v + 1]) = v
  <2> HIDE DEF Digits
  <2> QED BY <1>2 DEF Digit
<1> QED BY <1>1, <1>3 DEF DigitSet

(* The bytes of the protocol                                                *)
LEMMA BytesAre ==
  /\ DigitSet \subseteq Byte /\ {"\r", "\n", "-", "1", "+", "(", "$", "*"} \subseteq Byte
  /\ LineTypes \subseteq Byte
<1>1. ToSet(Digits) \subseteq Byte /\ ToSet(CRLF) \subseteq Byte
      /\ LineTypes \subseteq Byte /\ BulkTypes \subseteq Byte /\ ArrayTypes \subseteq Byte
  BY RespAssumption
<1>2. DigitSet \subseteq ToSet(Digits)
  BY DEF DigitSet, ToSet, Digits
<1>3. "1" \in DigitSet
  <2>1. 2 \in 1..10 /\ Digits[2] = "1"
    BY DEF Digits
  <2> QED BY <2>1 DEF DigitSet
<1>4. "\r" \in ToSet(CRLF) /\ "\n" \in ToSet(CRLF)
  BY DEF ToSet, CRLF
<1>5. {"-", "+", "("} \subseteq LineTypes /\ "$" \in BulkTypes /\ "*" \in ArrayTypes
  BY DEF LineTypes, BulkTypes, ArrayTypes
<1> QED BY <1>1, <1>2, <1>3, <1>4, <1>5

LEMMA DigitsAreNot ==
  DigitSet \subseteq Byte /\ {"\n", "\r", "-", "+", ":", "$", "*"} \cap DigitSet = {}
<1>1. \A i \in 1..10 : i = 1 \/ i = 2 \/ i = 3 \/ i = 4 \/ i = 5 \/ i = 6 \/ i = 7 \/ i = 8 \/ i = 9 \/ i = 10
  OBVIOUS
<1>2. \A i \in 1..10 : Digits[i] \in {"0", "1", "2", "3", "4", "5", "6", "7", "8", "9"}
  BY <1>1 DEF Digits
<1>3. DigitSet \subseteq {"0", "1", "2", "3", "4", "5", "6", "7", "8", "9"}
  BY <1>2 DEF DigitSet
<1>4. {"\n", "\r", "-", "+", ":", "$", "*"} \cap DigitSet = {}
  BY <1>3
<1> QED BY <1>4, BytesAre

LEMMA DigitNat ==
  \A c \in DigitSet : Digit(c) \in 0..9
<1> SUFFICES ASSUME NEW c \in DigitSet PROVE Digit(c) \in 0..9
  OBVIOUS
<1>1. PICK i \in 1..10 : c = Digits[i]
  BY DEF DigitSet
<1>2. i - 1 \in 0..9 /\ (i - 1) + 1 = i
  OBVIOUS
<1> QED BY <1>1, <1>2, DigitOf

LEMMA DivMod ==
  \A n \in Nat : /\ n \div 10 \in Nat /\ n % 10 \in 0..9
                 /\ n = 10 * (n \div 10) + (n % 10)
                 /\ n >= 10 => n \div 10 < n
OBVIOUS

IsDecimal(f) ==
  \A n \in Nat : f[n] = IF n < 10 THEN <<Digits[n + 1]>>
                        ELSE Append(f[n \div 10], Digits[(n % 10) + 1])

LEMMA DecimalIs ==
  Decimal \in [Nat -> Seq(DigitSet)] /\ IsDecimal(Decimal)
<1> DEFINE B == 0..9
           A == [n \in B |-> <<Digits[n + 1]>>]
           p == [n \in Nat \ B |-> n \div 10]
           F == [n \in Nat |-> [x \in Seq(DigitSet) |-> Append(x, Digits[(n % 10) + 1])]]
<1>1. A \in [B -> Seq(DigitSet)]
  BY DigitOf
<1>2. \A n \in Nat \ B : n \in Nat /\ n >= 10
  OBVIOUS
<1>3. p \in [Nat \ B -> Nat] /\ \A n \in Nat \ B : p[n] < n
  BY <1>2, DivMod
<1>4. F \in [Nat -> [Seq(DigitSet) -> Seq(DigitSet)]]
  <2>1. \A n \in Nat : Digits[(n % 10) + 1] \in DigitSet
    BY DivMod, DigitOf
  <2> QED BY <2>1
<1>5. Nat \in SUBSET Nat /\ B \in SUBSET Nat
  OBVIOUS
<1> HIDE DEF A, p, F, B
<1>6. PICK f \in [Nat -> Seq(DigitSet)] : Recursive(f, Nat, B, A, p, F)
  BY <1>1, <1>3, <1>4, <1>5, Recursion
<1>7. IsDecimal(f)
  <2> SUFFICES ASSUME NEW n \in Nat
               PROVE  f[n] = IF n < 10 THEN <<Digits[n + 1]>>
                             ELSE Append(f[n \div 10], Digits[(n % 10) + 1])
    BY DEF IsDecimal
  <2>1. f[n] = IF n \in B THEN A[n] ELSE F[n][f[p[n]]]
    BY <1>6 DEF Recursive
  <2>2. CASE n < 10
    <3>1. n \in B
      BY <2>2 DEF B
    <3> QED BY <2>1, <2>2, <3>1 DEF A
  <2>3. CASE ~(n < 10)
    <3>1. n \notin B /\ p[n] = n \div 10 /\ f[n \div 10] \in Seq(DigitSet)
      BY <2>3, DivMod DEF B, p
    <3> QED BY <2>1, <2>3, <3>1 DEF F
  <2> QED BY <2>2, <2>3
<1>8. f = [n \in Nat |-> IF n < 10 THEN <<Digits[n + 1]>>
                         ELSE Append(f[n \div 10], Digits[(n % 10) + 1])]
  BY <1>7 DEF IsDecimal
<1>9. Decimal = [n \in Nat |-> IF n < 10 THEN <<Digits[n + 1]>>
                         ELSE Append(Decimal[n \div 10], Digits[(n % 10) + 1])]
  BY <1>8, Zenon DEF Decimal
<1>10. IsDecimal(Decimal)
  BY <1>9 DEF IsDecimal
<1>11. \A n \in Nat : Decimal[n] = f[n]
  <2> DEFINE U == {n \in Nat : Decimal[n] # f[n]}
  <2> SUFFICES ASSUME U # {} PROVE FALSE
    OBVIOUS
  <2>1. PICK x \in U : \A y \in U : x <= y
    BY LeastNat
  <2>2. x >= 10
    BY <1>7, <1>10 DEF IsDecimal
  <2>3. x \div 10 \in Nat /\ x \div 10 < x
    BY <2>2, DivMod
  <2>4. Decimal[x \div 10] = f[x \div 10]
    BY <2>1, <2>3
  <2>5. ~(x < 10)
    BY <2>2
  <2> QED BY <1>7, <1>10, <2>4, <2>5 DEF IsDecimal
<1>12. Decimal = f
  BY <1>9, <1>11
<1> QED BY <1>10, <1>12

LEMMA DecimalNonempty ==
  ASSUME NEW n \in Nat
  PROVE  Decimal[n] \in Seq(DigitSet) /\ Decimal[n] # << >>
<1>0. Decimal[n] \in Seq(DigitSet)
  BY DecimalIs
<1>3. Decimal[n] = IF n < 10 THEN <<Digits[n + 1]>>
                   ELSE Append(Decimal[n \div 10], Digits[(n % 10) + 1])
  BY DecimalIs DEF IsDecimal
<1>1. CASE n < 10
  <2>1. Decimal[n] = <<Digits[n + 1]>>
    BY <1>1, <1>3
  <2> HIDE DEF Digits
  <2>2. \A x : <<x>> # << >>
    OBVIOUS
  <2> QED BY <1>0, <2>1, <2>2
<1>2. CASE ~(n < 10)
  <2>1. Decimal[n \div 10] \in Seq(DigitSet) /\ Digits[(n % 10) + 1] \in DigitSet
    BY DecimalIs, DivMod, DigitOf
  <2>2. Append(Decimal[n \div 10], Digits[(n % 10) + 1]) # << >>
    BY <2>1, AppendProperties
  <2> QED BY <1>0, <1>2, <1>3, <2>2
<1> QED BY <1>1, <1>2

IsValue(f, ds) == \A i \in 0..Len(ds) : f[i] = IF i = 0 THEN 0 ELSE 10 * f[i - 1] + Digit(ds[i])

LEMMA ValueExists ==
  ASSUME NEW ds \in Seq(DigitSet)
  PROVE  \E f \in [0..Len(ds) -> Nat] : IsValue(f, ds)
<1> DEFINE D == 0..Len(ds)
           A == [i \in {0} |-> 0]
           p == [i \in D \ {0} |-> i - 1]
           F == [i \in D |-> [x \in Nat |-> IF i = 0 THEN 0 ELSE 10 * x + Digit(ds[i])]]
<1>1. D \in SUBSET Nat /\ {0} \in SUBSET D
  OBVIOUS
<1>2. A \in [{0} -> Nat] /\ p \in [D \ {0} -> D]
  OBVIOUS
<1>3. F \in [D -> [Nat -> Nat]]
  <2>1. ASSUME NEW i \in D, NEW x \in Nat, i # 0
        PROVE  10 * x + Digit(ds[i]) \in Nat
    <3>1. Digit(ds[i]) \in 0..9
      BY <2>1, DigitNat
    <3> QED BY <3>1
  <2> QED BY <2>1
<1>4. \A n \in D \ {0} : p[n] < n
  OBVIOUS
<1> HIDE DEF A, p, F, D
<1>5. PICK f \in [D -> Nat] : Recursive(f, D, {0}, A, p, F)
  BY <1>1, <1>2, <1>3, <1>4, Recursion
<1>6. IsValue(f, ds)
  <2> SUFFICES ASSUME NEW i \in D
               PROVE  f[i] = IF i = 0 THEN 0 ELSE 10 * f[i - 1] + Digit(ds[i])
    BY DEF IsValue, D
  <2>1. f[i] = IF i \in {0} THEN A[i] ELSE F[i][f[p[i]]]
    BY <1>5 DEF Recursive
  <2>2. CASE i = 0
    BY <2>1, <2>2 DEF A
  <2>3. CASE i # 0
    <3>1. i - 1 \in D /\ f[i - 1] \in Nat /\ p[i] = i - 1
      BY <2>3 DEF D, p
    <3> QED BY <2>1, <2>3, <3>1 DEF F
  <2> QED BY <2>2, <2>3
<1> QED BY <1>6 DEF D

LEMMA ValueOnce ==
  ASSUME NEW ds \in Seq(DigitSet), NEW f, NEW g, IsValue(f, ds), IsValue(g, ds)
  PROVE  \A i \in 0..Len(ds) : f[i] = g[i]
<1> DEFINE U == {i \in 0..Len(ds) : f[i] # g[i]}
<1> SUFFICES ASSUME U # {} PROVE FALSE
  OBVIOUS
<1>0. U \in SUBSET Nat
  OBVIOUS
<1>1. PICK x \in U : \A y \in U : x <= y
  BY <1>0, LeastNat
<1>2. x # 0
  BY DEF IsValue
<1>3. x - 1 \in 0..Len(ds) /\ ~(x <= x - 1)
  BY <1>2
<1>4. f[x - 1] = g[x - 1]
  BY <1>1, <1>3
<1> QED BY <1>2, <1>4 DEF IsValue

LEMMA ValueIs ==
  ASSUME NEW ds \in Seq(DigitSet), NEW f, IsValue(f, ds)
  PROVE  Value(ds) = f[Len(ds)]
<1> DEFINE n == Len(ds)
           v == CHOOSE g : g = [i \in 0..n |-> IF i = 0 THEN 0 ELSE 10 * g[i - 1] + Digit(ds[i])]
<1>1. Value(ds) = v[n]
  BY Zenon DEF Value
<1>2. \E g : g = [i \in 0..n |-> IF i = 0 THEN 0 ELSE 10 * g[i - 1] + Digit(ds[i])]
  <2>1. PICK h \in [0..n -> Nat] : IsValue(h, ds)
    BY ValueExists
  <2>2. h = [i \in 0..n |-> IF i = 0 THEN 0 ELSE 10 * h[i - 1] + Digit(ds[i])]
    BY <2>1 DEF IsValue
  <2> QED BY <2>2
<1>3. v = [i \in 0..n |-> IF i = 0 THEN 0 ELSE 10 * v[i - 1] + Digit(ds[i])]
  BY <1>2, Zenon
<1> HIDE DEF v
<1>4. IsValue(v, ds)
  BY <1>3 DEF IsValue
<1>5. n \in 0..n
  OBVIOUS
<1> QED BY <1>1, <1>4, <1>5, ValueOnce

LEMMA ValueEmpty ==
  Value(<< >>) = 0
<1>1. << >> \in Seq(DigitSet) /\ Len(<< >>) = 0
  BY EmptySeq
<1>2. PICK f \in [0..0 -> Nat] : IsValue(f, << >>)
  BY <1>1, ValueExists
<1>3. f[0] = 0
  BY <1>1, <1>2 DEF IsValue
<1> QED BY <1>1, <1>2, <1>3, ValueIs

LEMMA ValueAppend ==
  ASSUME NEW ds \in Seq(DigitSet), NEW c \in DigitSet
  PROVE  Value(Append(ds, c)) = 10 * Value(ds) + Digit(c)
<1> DEFINE tt == Append(ds, c)
           n == Len(ds)
<1>n. n \in Nat
  OBVIOUS
<1>1. tt \in Seq(DigitSet) /\ Len(tt) = n + 1 /\ tt[n + 1] = c
  BY AppendProperties
<1>2. \A i \in 1..n : tt[i] = ds[i]
  BY AppendProperties
<1> HIDE DEF tt
<1>3. PICK f \in [0..n + 1 -> Nat] : IsValue(f, tt)
  BY <1>1, ValueExists
<1>4. Value(tt) = f[n + 1]
  BY <1>1, <1>3, ValueIs
<1>5. IsValue(f, ds)
  BY <1>1, <1>2, <1>3 DEF IsValue
<1>6. Value(ds) = f[n]
  BY <1>5, ValueIs
<1>7. f[n + 1] = 10 * f[(n + 1) - 1] + Digit(tt[n + 1])
  <2>1. n + 1 \in 0..Len(tt) /\ n + 1 # 0
    BY <1>1, <1>n
  <2> QED BY <1>3, <2>1 DEF IsValue
<1>8. (n + 1) - 1 = n
  BY <1>n
<1> QED BY <1>1, <1>4, <1>6, <1>7, <1>8 DEF tt

(* A number that is written and read is the same.                           *)
LEMMA DecimalValue ==
  \A n \in Nat : Value(Decimal[n]) = n
<1> DEFINE U == {n \in Nat : Value(Decimal[n]) # n}
<1> SUFFICES ASSUME U # {} PROVE FALSE
  OBVIOUS
<1>1. PICK x \in U : \A y \in U : x <= y
  BY LeastNat
<1>2. CASE x < 10
  <2>0. x \in 0..9
    BY <1>2
  <2>a. Digits[x + 1] \in DigitSet /\ Digit(Digits[x + 1]) = x
    BY <2>0, DigitOf
  <2>b. Decimal[x] = <<Digits[x + 1]>>
    BY <1>2, DecimalIs DEF IsDecimal
  <2>c. \A c : <<c>> = Append(<< >>, c)
    OBVIOUS
  <2>1. Decimal[x] = Append(<< >>, Digits[x + 1])
    BY <2>b, <2>c
  <2>2. Value(Append(<< >>, Digits[x + 1])) = 10 * Value(<< >>) + Digit(Digits[x + 1])
    BY <2>a, ValueAppend, EmptySeq
  <2> QED BY <2>a, <2>1, <2>2, ValueEmpty
<1>3. CASE ~(x < 10)
  <2>1. x \div 10 \in Nat /\ x % 10 \in 0..9 /\ x = 10 * (x \div 10) + (x % 10) /\ x \div 10 < x
    BY <1>3, DivMod
  <2>2. Decimal[x] = Append(Decimal[x \div 10], Digits[(x % 10) + 1])
    BY <1>3, DecimalIs DEF IsDecimal
  <2>3. Decimal[x \div 10] \in Seq(DigitSet)
    BY <2>1, DecimalIs
  <2>4. Digits[(x % 10) + 1] \in DigitSet /\ Digit(Digits[(x % 10) + 1]) = x % 10
    BY <2>1, DigitOf
  <2>5. Value(Decimal[x \div 10]) = x \div 10
    BY <1>1, <2>1
  <2>6. Value(Decimal[x]) = 10 * (x \div 10) + (x % 10)
    BY <2>2, <2>3, <2>4, <2>5, ValueAppend
  <2> QED BY <2>1, <2>6
<1> QED BY <1>2, <1>3

(* encodeToInt64 reads what Itoa writes.                                    *)
LEMMA ItoaIs ==
  ASSUME NEW n \in Nat
  PROVE  Itoa(n) = Decimal[n] /\ Itoa(n) \in Seq(DigitSet) /\ Itoa(n) # << >>
<1>1. Itoa(n) = Decimal[n]
  BY DEF Itoa
<1> QED BY <1>1, DecimalNonempty

LEMMA EncodeItoa ==
  ASSUME NEW n \in Nat
  PROVE  EncodeToInt64(Itoa(n)) = n
<1> DEFINE b == Itoa(n)
<1>1. b = Decimal[n] /\ b \in Seq(DigitSet) /\ b # << >>
  BY ItoaIs
<1>2. b[1] \in DigitSet
  BY <1>1
<1>3. ~(b[1] \in {"-", "+"})
  BY <1>2, DigitsAreNot
<1>4. ToSet(b) \subseteq ToSet(Digits)
  <2>1. ToSet(b) \subseteq DigitSet
    BY <1>1 DEF ToSet
  <2>2. DigitSet \subseteq ToSet(Digits)
    BY DEF DigitSet, ToSet, Digits
  <2> QED BY <2>1, <2>2
<1>5. Value(b) = n
  BY <1>1, DecimalValue
<1> HIDE DEF b
<1>6. EncodeToInt64(b) = Value(b)
  BY <1>1, <1>3, <1>4, Zenon DEF EncodeToInt64
<1> QED BY <1>5, <1>6 DEF b

LEMMA EncodeMinusOne ==
  EncodeToInt64(<<"-", "1">>) = -1
<1> DEFINE b == <<"-", "1">>
<1>1. b # << >> /\ b[1] = "-" /\ Tail(b) = <<"1">>
  OBVIOUS
<1>2. <<"1">> # << >> /\ ToSet(<<"1">>) \subseteq ToSet(Digits)
  <2>1. 2 \in 1..10 /\ Digits[2] = "1" /\ Len(Digits) = 10
    BY DEF Digits
  <2>2. "1" \in ToSet(Digits)
    BY <2>1 DEF ToSet
  <2> QED BY <2>2 DEF ToSet
<1>3. Value(<<"1">>) = 1
  <2>1. "1" = Digits[1 + 1] /\ 1 \in 0..9
    BY DEF Digits
  <2>2. "1" \in DigitSet /\ Digit("1") = 1
    BY <2>1, DigitOf
  <2>3. <<"1">> = Append(<< >>, "1") /\ << >> \in Seq(DigitSet)
    OBVIOUS
  <2>4. Value(Append(<< >>, "1")) = 10 * Value(<< >>) + Digit("1")
    BY <2>2, <2>3, ValueAppend
  <2> QED BY <2>2, <2>3, <2>4, ValueEmpty
<1> HIDE DEF b
<1>4. EncodeToInt64(b) = -Value(<<"1">>)
  BY <1>1, <1>2, Zenon DEF EncodeToInt64
<1> QED BY <1>3, <1>4 DEF b

----------------------------------------------------------------------------
(* Parts of concatenations                                                  *)

LEMMA PrefixOfConcat ==
  ASSUME NEW S, NEW a \in Seq(S), NEW b \in Seq(S), NEW k \in Nat, k <= Len(a \o b)
  PROVE  /\ k < Len(a) => SubSeq(a \o b, 1, k) = SubSeq(a, 1, k)
         /\ k >= Len(a) => /\ SubSeq(a \o b, 1, k) = a \o SubSeq(b, 1, k - Len(a))
                           /\ k - Len(a) \in Nat /\ k - Len(a) <= Len(b)
<1>1. CASE k < Len(a)
  BY <1>1
<1>2. CASE k >= Len(a)
  BY <1>2
<1> QED BY <1>1, <1>2

LEMMA PrefixBeyond ==
  ASSUME NEW S, NEW a \in Seq(S), NEW b \in Seq(S), NEW k \in Nat, k <= Len(a \o b), k >= Len(a)
  PROVE  SubSeq(a \o b, 1, k) = a \o SubSeq(b, 1, k - Len(a))
BY PrefixOfConcat

LEMMA FromConcat ==
  ASSUME NEW S, NEW a \in Seq(S), NEW b \in Seq(S)
  PROVE  /\ SubSeq(a \o b, 1, Len(a)) = a
         /\ From(a \o b, Len(a) + 1) = b
BY DEF From

----------------------------------------------------------------------------
(* Lines                                                                    *)

NoNewline(s) == \A i \in 1..Len(s) : s[i] # "\n"

LEMMA CRLFIs ==
  /\ CRLF \in Seq(Byte) /\ Len(CRLF) = 2 /\ CRLF[1] = "\r" /\ CRLF[2] = "\n"
  /\ CRLF # << >>
BY BytesAre DEF CRLF

LEMMA MinIs ==
  ASSUME NEW I \in SUBSET Nat, NEW i \in I, \A j \in I : i <= j
  PROVE  Min(I) = i
<1>1. \A x \in I : (\A y \in I : x <= y) => x = i
  <2> SUFFICES ASSUME NEW x \in I, x <= i PROVE x = i
    OBVIOUS
  <2> QED OBVIOUS
<1> QED BY <1>1 DEF Min

LEMMA LineIs ==
  ASSUME NEW line \in Seq(Byte)
  PROVE  /\ line \o CRLF \in Seq(Byte) /\ Len(line \o CRLF) = Len(line) + 2
         /\ \A j \in 1..Len(line) : (line \o CRLF)[j] = line[j]
         /\ (line \o CRLF)[Len(line) + 1] = "\r"
         /\ (line \o CRLF)[Len(line) + 2] = "\n"
<1>1. /\ line \o CRLF \in Seq(Byte) /\ Len(line \o CRLF) = Len(line) + 2
      /\ \A i \in 1..Len(line) + 2 : (line \o CRLF)[i] =
                     IF i <= Len(line) THEN line[i] ELSE CRLF[i - Len(line)]
  BY CRLFIs, ConcatProperties
<1>2. /\ Len(line) \in Nat /\ (Len(line) + 1) - Len(line) = 1
      /\ (Len(line) + 2) - Len(line) = 2
  OBVIOUS
<1> QED BY <1>1, <1>2, CRLFIs

LEMMA ReadLineShort ==
  ASSUME NEW s \in Seq(Byte), NoNewline(s)
  PROVE  ReadLine(s) = Short
BY DEF ReadLine, SelectInSeq, NoNewline

LEMMA ReadLineIs ==
  ASSUME NEW line \in Seq(Byte), NoNewline(line), NEW rest \in Seq(Byte)
  PROVE  ReadLine((line \o CRLF) \o rest) = Ok(line, rest)
<1> DEFINE a == line \o CRLF
           s == a \o rest
           i == Len(line) + 2
           I == {j \in 1..Len(s) : s[j] = "\n"}
<1>1. a \in Seq(Byte) /\ Len(a) = i /\ a[i] = "\n" /\ a[i - 1] = "\r"
  <2>1. i - 1 = Len(line) + 1
    OBVIOUS
  <2> QED BY <2>1, LineIs
<1>2. \A j \in 1..i - 1 : a[j] # "\n"
  <2>1. \A j \in 1..i - 1 : j \in 1..Len(line) \/ j = Len(line) + 1
    OBVIOUS
  <2> QED BY <2>1, LineIs DEF NoNewline
<1>3. SubSeq(a, 1, i - 2) = line
  BY CRLFIs, FromConcat
<1>i. i \in Nat /\ i >= 2
  OBVIOUS
<1> HIDE DEF a, i
<1>4. s \in Seq(Byte) /\ Len(s) >= i /\ \A j \in 1..i : s[j] = a[j]
  BY <1>1, <1>i
<1>5. From(s, i + 1) = rest
  BY <1>1, FromConcat
<1>6. SubSeq(s, 1, i - 2) = line
  <2>1. SubSeq(s, 1, i - 2) = SubSeq(a, 1, i - 2)
    BY <1>1, <1>4, <1>i, PrefixOfConcat
  <2> QED BY <1>3, <2>1
<1> HIDE DEF s
<1>7. i \in I /\ I \in SUBSET Nat
  BY <1>1, <1>4, <1>i
<1>8. \A j \in I : i <= j
  BY <1>2, <1>4, <1>i
<1>9. Min(I) = i
  BY <1>7, <1>8, MinIs
<1>10. SelectInSeq(s, LAMBDA c : c = "\n") = i
  BY <1>7, <1>9, Zenon DEF SelectInSeq
<1>11. ~(i = 0) /\ ~(i < 2) /\ s[i - 1] = "\r"
  BY <1>1, <1>4, <1>i
<1>12. ReadLine(s) = Ok(line, rest)
  BY <1>5, <1>6, <1>10, <1>11, Zenon DEF ReadLine
<1> QED BY <1>12 DEF s, a

LEMMA ReadLineCut ==
  ASSUME NEW line \in Seq(Byte), NoNewline(line), NEW k \in Nat, k < Len(line \o CRLF)
  PROVE  ReadLine(SubSeq(line \o CRLF, 1, k)) = Short
<1> DEFINE a == line \o CRLF
<1>1. a \in Seq(Byte) /\ k < Len(line) + 2
  BY LineIs
<1>2. \A j \in 1..k : a[j] # "\n" /\ j \in 1..Len(a)
  <2>1. \A j \in 1..k : j \in 1..Len(line) \/ j = Len(line) + 1
    BY <1>1
  <2> QED BY <2>1, LineIs DEF NoNewline
<1> HIDE DEF a
<1>3. SubSeq(a, 1, k) \in Seq(Byte) /\ NoNewline(SubSeq(a, 1, k))
  BY <1>1, <1>2 DEF NoNewline
<1> QED BY <1>3, ReadLineShort DEF a

----------------------------------------------------------------------------
(* Lengths                                                                  *)

Count(n) == IF n = -1 THEN <<"-", "1">> ELSE Itoa(n)

LEMMA CountIs ==
  ASSUME NEW n \in Nat \cup {-1}
  PROVE  /\ Count(n) \in Seq(Byte) /\ NoNewline(Count(n)) /\ Count(n) # << >>
         /\ ~(Count(n)[1] \in {":", "$", "*"})
         /\ EncodeToInt64(Count(n)) = n
<1>1. CASE n = -1
  <2>1. Count(n) = <<"-", "1">>
    BY <1>1 DEF Count
  <2>2. {"-", "1"} \subseteq Byte
    BY BytesAre
  <2>3. /\ <<"-", "1">> \in Seq(Byte) /\ NoNewline(<<"-", "1">>) /\ <<"-", "1">> # << >>
        /\ ~(<<"-", "1">>[1] \in {":", "$", "*"})
    BY <2>2 DEF NoNewline
  <2> QED BY <1>1, <2>1, <2>3, EncodeMinusOne
<1>2. CASE n # -1
  <2>0. n \in Nat
    BY <1>2
  <2>1. Count(n) = Itoa(n)
    BY <1>2 DEF Count
  <2>2. Itoa(n) \in Seq(DigitSet) /\ Itoa(n) # << >>
    BY <2>0, ItoaIs
  <2>3. Itoa(n) \in Seq(Byte) /\ \A i \in 1..Len(Itoa(n)) : Itoa(n)[i] \in DigitSet
    BY <2>2, DigitsAreNot
  <2>4. Itoa(n)[1] \in DigitSet
    BY <2>2
  <2>5. NoNewline(Itoa(n)) /\ ~(Itoa(n)[1] \in {":", "$", "*"})
    BY <2>3, <2>4, DigitsAreNot DEF NoNewline
  <2> QED BY <2>0, <2>1, <2>2, <2>3, <2>5, EncodeItoa
<1> QED BY <1>1, <1>2

LEMMA ReadIntIs ==
  ASSUME NEW n \in Nat \cup {-1}, NEW rest \in Seq(Byte)
  PROVE  ReadInt((Count(n) \o CRLF) \o rest) = Ok(n, rest)
<1> DEFINE line == Count(n)
           s == (line \o CRLF) \o rest
<1>1. line \in Seq(Byte) /\ NoNewline(line) /\ line # << >>
      /\ ~(line[1] \in {":", "$", "*"}) /\ EncodeToInt64(line) = n
  BY CountIs
<1> HIDE DEF line
<1>2. ReadLine(s) = Ok(line, rest)
  BY <1>1, ReadLineIs
<1>3. n # Nil
  BY Limits
<1> DEFINE Number(l, r) ==
             LET marked == l # << >> /\ l[1] \in {":", "$", "*"}
                 m == EncodeToInt64(IF marked THEN Tail(l) ELSE l)
             IN IF m = Nil THEN Err("syntax", r) ELSE Ok(m, r)
<1>4. Number(line, rest) = Ok(n, rest)
  BY <1>1, <1>3, Zenon
<1>5. ReadInt(s) = Then(ReadLine(s), Number)
  BY Zenon DEF ReadInt, Then
<1> HIDE DEF Number, s
<1>6. ReadInt(s) = Number(line, rest)
  BY <1>2, <1>5 DEF Then, Ok
<1> QED BY <1>4, <1>6 DEF s, line

LEMMA ReadIntCut ==
  ASSUME NEW n \in Nat \cup {-1}, NEW k \in Nat, k < Len(Count(n) \o CRLF)
  PROVE  ReadInt(SubSeq(Count(n) \o CRLF, 1, k)) = Short
<1> DEFINE s == SubSeq(Count(n) \o CRLF, 1, k)
<1>1. ReadLine(s) = Short
  BY CountIs, ReadLineCut
<1> HIDE DEF s
<1>2. ReadInt(s) = Short
  BY <1>1 DEF ReadInt, Then, Short, Err
<1> QED BY <1>2 DEF s

----------------------------------------------------------------------------
(* Bulk strings                                                             *)

LEMMA SkipCRLFIs ==
  ASSUME NEW rest \in Seq(Byte)
  PROVE  SkipCRLF(CRLF \o rest) = Ok(Nil, rest)
<1> DEFINE s == CRLF \o rest
<1>c. CRLF \in Seq(Byte) /\ Len(CRLF) = 2
  BY CRLFIs
<1>l. Len(rest) \in Nat
  OBVIOUS
<1>0. /\ s \in Seq(Byte) /\ Len(s) = Len(CRLF) + Len(rest)
      /\ \A i \in 1..Len(CRLF) + Len(rest) :
           s[i] = IF i <= Len(CRLF) THEN CRLF[i] ELSE rest[i - Len(CRLF)]
  BY <1>c, ConcatProperties, Zenon
<1>1. s \in Seq(Byte) /\ Len(s) > 1 /\ s[1] = "\r" /\ s[2] = "\n"
  BY <1>0, <1>c, <1>l, CRLFIs
<1>2. From(s, 3) = rest
  <2>1. From(s, Len(CRLF) + 1) = rest
    BY <1>c, FromConcat
  <2> QED BY <1>c, <2>1
<1> HIDE DEF s
<1>3. s # << >> /\ s # <<"\r">>
  BY <1>1
<1>4. SkipCRLF(s) = Ok(Nil, rest)
  BY <1>1, <1>2, <1>3, Zenon DEF SkipCRLF
<1> QED BY <1>4 DEF s

LEMMA SkipCRLFCut ==
  ASSUME NEW k \in Nat, k < 2
  PROVE  SkipCRLF(SubSeq(CRLF, 1, k)) = Short
<1> DEFINE s == SubSeq(CRLF, 1, k)
<1>1. s = << >> \/ s = <<"\r">>
  <2>1. CASE k = 0
    BY <2>1, CRLFIs
  <2>2. CASE k = 1
    <3>1. /\ s \in Seq(Byte) /\ Len(s) = 1 /\ s[1] = "\r"
      BY <2>2, CRLFIs
    <3> HIDE DEF s
    <3> QED BY <3>1
  <2> QED BY <2>1, <2>2
<1> HIDE DEF s
<1>2. ~(s # << >> /\ s[1] # "\r") /\ ~(Len(s) > 1 /\ s[1] = "\r")
  BY <1>1
<1>3. SkipCRLF(s) = Short
  BY <1>1, <1>2, Zenon DEF SkipCRLF
<1> QED BY <1>3 DEF s

(* The data of a bulk string                                                *)
BulkBytes(d) == d \in Seq(Byte) /\ Len(d) <= MaxBufferSize

LEMMA BulkBytesIs ==
  ASSUME NEW d, BulkBytes(d)
  PROVE  d \in Seq(Byte) /\ d # Nil /\ Len(d) \in 0..MaxBufferSize
<1>1. d \in Seq(Byte) /\ Len(d) \in Nat /\ Len(d) <= MaxBufferSize
  BY DEF BulkBytes
<1>4. d # Nil
  BY <1>1, Limits
<1>5. Len(d) \in 0..MaxBufferSize
  BY <1>1, Limits
<1> QED BY <1>1, <1>4, <1>5

LEMMA BulkDataUnfold ==
  ASSUME NEW n \in 0..MaxBufferSize, NEW t \in Seq(Byte)
  PROVE  BulkData(n, t) =
           IF Len(t) < n THEN Short
           ELSE Then(SkipCRLF(From(t, n + 1)), LAMBDA x, rest : Ok(SubSeq(t, 1, n), rest))
<1>1. n # -1 /\ ~(n < -1) /\ ~(n > MaxBufferSize)
  BY Limits
<1> QED BY <1>1, Zenon DEF BulkData, Then

LEMMA BulkDataIs ==
  ASSUME NEW d, BulkBytes(d), NEW rest \in Seq(Byte)
  PROVE  BulkData(Len(d), (d \o CRLF) \o rest) = Ok(d, rest)
<1> DEFINE t == (d \o CRLF) \o rest
           n == Len(d)
<1>1. d \in Seq(Byte) /\ n \in 0..MaxBufferSize /\ n \in Nat
  BY BulkBytesIs
<1>c. CRLF \in Seq(Byte)
  BY CRLFIs
<1> DEFINE b == CRLF \o rest
<1>2. t = d \o b /\ b \in Seq(Byte)
  BY <1>1, <1>c, ConcatAssociative, ConcatProperties
<1>a. From(t, n + 1) = b /\ SubSeq(t, 1, n) = d
  <2> HIDE DEF b
  <2> QED BY <1>1, <1>2, FromConcat
<1>b. t \in Seq(Byte) /\ ~(Len(t) < n)
  <2> HIDE DEF b
  <2>1. t \in Seq(Byte) /\ Len(t) = n + Len(b) /\ Len(b) \in Nat
    BY <1>1, <1>2, ConcatProperties, LenProperties
  <2> QED BY <1>1, <2>1
<1>3. t \in Seq(Byte) /\ ~(Len(t) < n) /\ From(t, n + 1) = CRLF \o rest /\ SubSeq(t, 1, n) = d
  BY <1>a, <1>b
<1> HIDE DEF t, n
<1>4. SkipCRLF(From(t, n + 1)) = Ok(Nil, rest)
  BY <1>3, SkipCRLFIs
<1>5. BulkData(n, t) =
        Then(SkipCRLF(From(t, n + 1)), LAMBDA x, r : Ok(SubSeq(t, 1, n), r))
  BY <1>1, <1>3, BulkDataUnfold
<1>6. BulkData(n, t) = Ok(SubSeq(t, 1, n), rest)
  BY <1>4, <1>5 DEF Then, Ok
<1> QED BY <1>3, <1>6 DEF t, n

LEMMA BulkDataCut ==
  ASSUME NEW d, BulkBytes(d), NEW k \in Nat, k < Len(d \o CRLF)
  PROVE  BulkData(Len(d), SubSeq(d \o CRLF, 1, k)) = Short
<1> DEFINE t == SubSeq(d \o CRLF, 1, k)
           n == Len(d)
<1>1. d \in Seq(Byte) /\ n \in 0..MaxBufferSize /\ n \in Nat /\ Len(d \o CRLF) = n + 2
  BY BulkBytesIs, LineIs
<1>2. t \in Seq(Byte) /\ Len(t) = k
  BY <1>1, LineIs
<1>3. CASE k < n
  <2> HIDE DEF t, n
  <2> QED BY <1>1, <1>2, <1>3, BulkDataUnfold DEF t, n
<1>4. CASE ~(k < n)
  <2>1. k - n \in Nat /\ k - n < 2 /\ t = d \o SubSeq(CRLF, 1, k - n)
    BY <1>1, <1>4, CRLFIs, PrefixOfConcat
  <2>2. SubSeq(CRLF, 1, k - n) \in Seq(Byte)
    BY <2>1, CRLFIs
  <2>3. From(t, n + 1) = SubSeq(CRLF, 1, k - n)
    BY <1>1, <2>1, <2>2, FromConcat
  <2>4. SkipCRLF(From(t, n + 1)) = Short
    BY <2>1, <2>3, SkipCRLFCut
  <2> HIDE DEF t, n
  <2>5. BulkData(n, t) =
          Then(SkipCRLF(From(t, n + 1)), LAMBDA x, r : Ok(SubSeq(t, 1, n), r))
    BY <1>1, <1>2, <1>4, BulkDataUnfold
  <2>6. BulkData(n, t) = Short
    BY <2>4, <2>5 DEF Then, Short, Err
  <2> QED BY <2>6 DEF t, n
<1> QED BY <1>3, <1>4

BulkWord(d) ==
  IF d = Nil THEN Count(-1) \o CRLF ELSE (Count(Len(d)) \o CRLF) \o (d \o CRLF)

LEMMA BulkNil ==
  ASSUME NEW t
  PROVE  BulkData(-1, t) = Ok(Nil, t)
<1> DEFINE n == -1
<1>1. n = -1 /\ ~(n < -1) /\ ~(n > MaxBufferSize) /\ n \notin 0..MaxBufferSize
  BY Limits
<1> HIDE DEF n
<1>2. BulkData(n, t) = Ok(Nil, t)
  BY <1>1, Zenon DEF BulkData
<1> QED BY <1>2 DEF n

LEMMA BulkReadThen ==
  ASSUME NEW s
  PROVE  /\ \A n, t : ReadInt(s) = Ok(n, t) => BulkReadString(s) = BulkData(n, t)
         /\ ReadInt(s) = Short => BulkReadString(s) = Short
<1>1. ASSUME NEW n, NEW t, ReadInt(s) = Ok(n, t)
      PROVE  BulkReadString(s) = BulkData(n, t)
  BY <1>1 DEF BulkReadString, Then, Ok
<1>2. ASSUME ReadInt(s) = Short
      PROVE  BulkReadString(s) = Short
  BY <1>2 DEF BulkReadString, Then, Short, Err
<1> QED BY <1>1, <1>2

LEMMA BulkReadIs ==
  ASSUME NEW d, d = Nil \/ BulkBytes(d)
  PROVE  /\ BulkWord(d) \in Seq(Byte)
         /\ \A rest \in Seq(Byte) : BulkReadString(BulkWord(d) \o rest) = Ok(d, rest)
         /\ \A k \in Nat : k < Len(BulkWord(d)) =>
              BulkReadString(SubSeq(BulkWord(d), 1, k)) = Short
<1>1. CASE d = Nil
  <2> DEFINE w == Count(-1) \o CRLF
  <2>0. -1 \in Nat \cup {-1}
    OBVIOUS
  <2>1. BulkWord(d) = w
    BY <1>1 DEF BulkWord
  <2>2. w \in Seq(Byte)
    BY <2>0, CountIs, LineIs
  <2>3. ASSUME NEW rest \in Seq(Byte)
        PROVE  BulkReadString(w \o rest) = Ok(d, rest)
    <3>1. ReadInt(w \o rest) = Ok(-1, rest)
      BY <2>0, ReadIntIs
    <3> QED BY <1>1, <3>1, BulkReadThen, BulkNil
  <2>4. ASSUME NEW k \in Nat, k < Len(w)
        PROVE  BulkReadString(SubSeq(w, 1, k)) = Short
    <3>1. ReadInt(SubSeq(w, 1, k)) = Short
      BY <2>0, <2>4, ReadIntCut
    <3> QED BY <3>1, BulkReadThen
  <2> HIDE DEF w
  <2> QED BY <2>1, <2>2, <2>3, <2>4
<1>2. CASE BulkBytes(d)
  <2> DEFINE n == Len(d)
             a == Count(n) \o CRLF
             b == d \o CRLF
             w == a \o b
  <2>0. d \in Seq(Byte) /\ d # Nil /\ n \in Nat /\ n \in Nat \cup {-1}
    BY <1>2, BulkBytesIs
  <2>1. BulkWord(d) = w
    BY <2>0 DEF BulkWord
  <2>2. a \in Seq(Byte) /\ b \in Seq(Byte)
    BY <2>0, CountIs, LineIs
  <2>3. \A rest \in Seq(Byte) : ReadInt(a \o rest) = Ok(n, rest)
    BY <2>0, ReadIntIs
  <2>4. \A k \in Nat : k < Len(a) => ReadInt(SubSeq(a, 1, k)) = Short
    BY <2>0, ReadIntCut
  <2>5. \A rest \in Seq(Byte) : BulkData(n, b \o rest) = Ok(d, rest)
    BY <1>2, BulkDataIs
  <2>6. \A k \in Nat : k < Len(b) => BulkData(n, SubSeq(b, 1, k)) = Short
    BY <1>2, BulkDataCut
  <2> HIDE DEF a, b
  <2>7. w \in Seq(Byte) /\ Len(w) = Len(a) + Len(b) /\ Len(a) \in Nat /\ Len(b) \in Nat
    BY <2>2, ConcatProperties, LenProperties
  <2>8. ASSUME NEW rest \in Seq(Byte)
        PROVE  BulkReadString(w \o rest) = Ok(d, rest)
    <3>1. w \o rest = a \o (b \o rest) /\ b \o rest \in Seq(Byte)
      BY <2>2, ConcatAssociative, ConcatProperties
    <3>2. ReadInt(w \o rest) = Ok(n, b \o rest)
      BY <2>3, <3>1
    <3>3. BulkReadString(w \o rest) = BulkData(n, b \o rest)
      BY <3>2, BulkReadThen, Zenon
    <3> QED BY <2>5, <3>3
  <2>9. ASSUME NEW k \in Nat, k < Len(w)
        PROVE  BulkReadString(SubSeq(w, 1, k)) = Short
    <3>1. CASE k < Len(a)
      <4>1. SubSeq(w, 1, k) = SubSeq(a, 1, k)
        BY <2>2, <2>7, <2>9, <3>1, PrefixOfConcat
      <4>2. ReadInt(SubSeq(w, 1, k)) = Short
        BY <2>4, <3>1, <4>1
      <4> QED BY <4>2, BulkReadThen, Zenon
    <3>2. CASE ~(k < Len(a))
      <4> DEFINE j == k - Len(a)
                 q == SubSeq(b, 1, j)
      <4>1. SubSeq(w, 1, k) = a \o q /\ j \in Nat /\ j < Len(b)
        BY <2>2, <2>7, <2>9, <3>2, PrefixOfConcat
      <4>2. q \in Seq(Byte)
        BY <2>2, <4>1
      <4>3. ReadInt(SubSeq(w, 1, k)) = Ok(n, q)
        BY <2>3, <4>1, <4>2
      <4>4. BulkReadString(SubSeq(w, 1, k)) = BulkData(n, q)
        BY <4>3, BulkReadThen, Zenon
      <4> QED BY <2>6, <4>1, <4>4
    <3> QED BY <3>1, <3>2
  <2> HIDE DEF w
  <2> QED BY <2>1, <2>7, <2>8, <2>9
<1> QED BY <1>1, <1>2

----------------------------------------------------------------------------
(* The words of a command: bulk strings, and lines without their end.       *)

BulkPacket(p) == \E d : (d = Nil \/ BulkBytes(d)) /\ p = DataPacket("$", d)
LinePacket(p) ==
  \E t \in LineTypes, d \in Seq(Byte) : NoNewline(d) /\ p = DataPacket(t, d)
Word(p) == BulkPacket(p) \/ LinePacket(p)

LEMMA TypesAre ==
  /\ LineTypes \subseteq Byte /\ "$" \in BulkTypes /\ "$" \in Byte
  /\ \A t \in LineTypes : t \notin BulkTypes \cup ArrayTypes \cup {":", "_", "#", ",", "!", "=", "$"}
  /\ "$" \notin LineTypes \cup ArrayTypes \cup {":", "_", "#", ",", "!", "="}
  /\ "*" \notin LineTypes \cup BulkTypes \cup MapTypes \cup {":", "_", "#", ",", "!", "=", "$"}
  /\ "*" \in ArrayTypes /\ "*" \in Byte
<1>1. LineTypes \subseteq Byte /\ "$" \in Byte /\ "*" \in Byte
  BY BytesAre
<1> QED BY <1>1 DEF LineTypes, BulkTypes, ArrayTypes, MapTypes

LEMMA Marked ==
  ASSUME NEW t \in Byte, NEW w \in Seq(Byte)
  PROVE  /\ <<t>> \o w \in Seq(Byte) /\ Len(<<t>> \o w) = Len(w) + 1 /\ <<t>> \o w # << >>
         /\ Head(<<t>> \o w) = t /\ Tail(<<t>> \o w) = w
         /\ \A rest \in Seq(Byte) : (<<t>> \o w) \o rest = <<t>> \o (w \o rest)
         /\ \A k \in Nat : k > 0 /\ k <= Len(w) + 1 =>
              SubSeq(<<t>> \o w, 1, k) = <<t>> \o SubSeq(w, 1, k - 1)
<1> DEFINE m == <<t>>
<1>1. m \in Seq(Byte) /\ Len(m) = 1 /\ m[1] = t
  OBVIOUS
<1>2. \A rest \in Seq(Byte) : (m \o w) \o rest = m \o (w \o rest)
  BY <1>1, ConcatAssociative
<1> HIDE DEF m
<1>3. /\ m \o w \in Seq(Byte) /\ Len(m \o w) = Len(w) + 1 /\ m \o w # << >>
      /\ Head(m \o w) = t /\ Tail(m \o w) = w
  <2> DEFINE s == m \o w
  <2>l. Len(w) \in Nat
    OBVIOUS
  <2>1. /\ s \in Seq(Byte) /\ Len(s) = Len(m) + Len(w)
        /\ \A i \in 1..Len(m) + Len(w) : s[i] = IF i <= Len(m) THEN m[i] ELSE w[i - Len(m)]
    BY <1>1, ConcatProperties, Zenon
  <2>2. From(s, Len(m) + 1) = w
    BY <1>1, FromConcat, Zenon
  <2> HIDE DEF s
  <2>3. Len(s) = Len(w) + 1 /\ s # << >> /\ s[1] = t
    BY <1>1, <2>1, <2>l
  <2>4. Head(s) = s[1] /\ Tail(s) = SubSeq(s, 2, Len(s))
    BY <2>1, <2>3, TailIsSubSeq
  <2> QED BY <1>1, <2>1, <2>2, <2>3, <2>4 DEF s, From
<1>4. ASSUME NEW k \in Nat, k > 0, k <= Len(w) + 1
      PROVE  SubSeq(m \o w, 1, k) = m \o SubSeq(w, 1, k - 1)
  BY <1>1, <1>3, <1>4, PrefixOfConcat
<1> QED BY <1>2, <1>3, <1>4 DEF m

LEMMA ReadEmpty ==
  ReadInner[<< >>] = Short /\ Read(<< >>) = Short
<1> DEFINE s == << >>
<1>1. s = << >> /\ s \in Seq(Byte)
  OBVIOUS
<1> HIDE DEF s
<1>2. ReadInner[s] = Short
  BY <1>1, Zenon DEF ReadInner, ReadPacket
<1>3. Read(s) = Short
  BY <1>1, Zenon DEF Read, ReadPacket
<1> QED BY <1>2, <1>3 DEF s

LEMMA ReadInnerBulk ==
  ASSUME NEW w \in Seq(Byte)
  PROVE  /\ \A d, rest : BulkReadString(w) = Ok(d, rest) =>
              ReadInner[<<"$">> \o w] = Ok(DataPacket("$", d), rest)
         /\ BulkReadString(w) = Short => ReadInner[<<"$">> \o w] = Short
<1> DEFINE s == <<"$">> \o w
<1>1. s # << >> /\ Head(s) = "$" /\ Tail(s) = w /\ s \in Seq(Byte)
  BY TypesAre, Marked
<1> HIDE DEF s
<1>2. Head(s) \in BulkTypes /\ Head(s) \notin LineTypes \cup ArrayTypes \cup {":", "_", "#", ","}
  BY <1>1, TypesAre
<1>3. ReadInner[s] = Then(BulkReadString(w), LAMBDA x, y : Ok(DataPacket("$", x), y))
  BY <1>1, <1>2, Zenon DEF ReadInner, ReadPacket, Then
<1>4. ASSUME NEW d, NEW rest, BulkReadString(w) = Ok(d, rest)
      PROVE  ReadInner[s] = Ok(DataPacket("$", d), rest)
  BY <1>3, <1>4 DEF Then, Ok
<1>5. ASSUME BulkReadString(w) = Short
      PROVE  ReadInner[s] = Short
  BY <1>3, <1>5 DEF Then, Short, Err
<1> QED BY <1>4, <1>5 DEF s

LEMMA ReadInnerLine ==
  ASSUME NEW t \in LineTypes, NEW w \in Seq(Byte)
  PROVE  /\ \A d, rest : ReadLine(w) = Ok(d, rest) =>
              ReadInner[<<t>> \o w] = Ok(DataPacket(t, d), rest)
         /\ ReadLine(w) = Short => ReadInner[<<t>> \o w] = Short
<1> DEFINE s == <<t>> \o w
<1>1. s # << >> /\ Head(s) = t /\ Tail(s) = w /\ s \in Seq(Byte)
  BY TypesAre, Marked
<1> HIDE DEF s
<1>2. Head(s) \in LineTypes /\ Head(s) \notin BulkTypes \cup ArrayTypes \cup {":", "_", "#", ","}
  BY <1>1, TypesAre
<1>3. ReadInner[s] = Then(ReadLine(w), LAMBDA x, y : Ok(DataPacket(t, x), y))
  BY <1>1, <1>2, Zenon DEF ReadInner, ReadPacket, Then
<1>4. ASSUME NEW d, NEW rest, ReadLine(w) = Ok(d, rest)
      PROVE  ReadInner[s] = Ok(DataPacket(t, d), rest)
  BY <1>3, <1>4 DEF Then, Ok
<1>5. ASSUME ReadLine(w) = Short
      PROVE  ReadInner[s] = Short
  BY <1>3, <1>5 DEF Then, Short, Err
<1> QED BY <1>4, <1>5 DEF s

(* How a word is written                                                    *)
Cat(a, b) == a \o b

LEMMA CatIs ==
  /\ \A a, b \in Seq(Byte) : Cat(a, b) \in Seq(Byte)
  /\ \A a, b, c \in Seq(Byte) : Cat(Cat(a, b), c) = Cat(a, Cat(b, c))
BY ConcatProperties, ConcatAssociative DEF Cat

LEMMA Bracket5 ==
  ASSUME NEW a \in Seq(Byte), NEW b \in Seq(Byte), NEW c \in Seq(Byte),
         NEW d \in Seq(Byte), NEW e \in Seq(Byte)
  PROVE  Cat(Cat(Cat(Cat(a, b), c), d), e) = Cat(a, Cat(Cat(b, c), Cat(d, e)))
<1>1. Cat(Cat(a, b), c) = Cat(a, Cat(b, c)) /\ Cat(b, c) \in Seq(Byte) /\ Cat(d, e) \in Seq(Byte)
  BY CatIs
<1>2. Cat(a, Cat(b, c)) \in Seq(Byte)
  BY <1>1, CatIs
<1>3. Cat(Cat(Cat(a, Cat(b, c)), d), e) = Cat(Cat(a, Cat(b, c)), Cat(d, e))
  BY <1>2, CatIs
<1>4. Cat(Cat(a, Cat(b, c)), Cat(d, e)) = Cat(a, Cat(Cat(b, c), Cat(d, e)))
  BY <1>1, CatIs
<1> QED BY <1>1, <1>3, <1>4, Zenon

LEMMA BulkBytesWritten ==
  ASSUME NEW d, d = Nil \/ BulkBytes(d), NEW t \in Byte
  PROVE  <<t>> \o BulkWord(d) =
           IF d = Nil THEN <<t, "-", "1">> \o CRLF
           ELSE <<t>> \o Itoa(Len(d)) \o CRLF \o d \o CRLF
<1>0. <<t>> \in Seq(Byte)
  OBVIOUS
<1>1. CASE d = Nil
  <2>1. <<"-", "1">> \in Seq(Byte) /\ CRLF \in Seq(Byte)
    BY CRLFIs, BytesAre
  <2>2. <<t, "-", "1">> = <<t>> \o <<"-", "1">>
    OBVIOUS
  <2>3. (<<t>> \o <<"-", "1">>) \o CRLF = <<t>> \o (<<"-", "1">> \o CRLF)
    BY <1>0, <2>1, ConcatAssociative
  <2>4. BulkWord(d) = <<"-", "1">> \o CRLF
    BY <1>1 DEF BulkWord, Count
  <2> QED BY <1>1, <2>2, <2>3, <2>4, Zenon
<1>2. CASE d # Nil
  <2>1. d \in Seq(Byte) /\ Len(d) \in Nat /\ Len(d) # -1 /\ CRLF \in Seq(Byte)
    BY <1>2, BulkBytesIs, CRLFIs
  <2>2. Count(Len(d)) = Itoa(Len(d)) /\ Itoa(Len(d)) \in Seq(Byte)
    BY <2>1, CountIs DEF Count
  <2>3. BulkWord(d) = (Itoa(Len(d)) \o CRLF) \o (d \o CRLF)
    BY <1>2, <2>2 DEF BulkWord
  <2>4. <<t>> \o Itoa(Len(d)) \o CRLF \o d \o CRLF =
          <<t>> \o ((Itoa(Len(d)) \o CRLF) \o (d \o CRLF))
    <3> DEFINE m == <<t>>
               n == Itoa(Len(d))
    <3>1. m \in Seq(Byte) /\ n \in Seq(Byte)
      BY <1>0, <2>2
    <3> HIDE DEF m, n
    <3>c. CRLF \in Seq(Byte) /\ d \in Seq(Byte)
      BY <2>1
    <3>2. Cat(Cat(Cat(Cat(m, n), CRLF), d), CRLF) = Cat(m, Cat(Cat(n, CRLF), Cat(d, CRLF)))
      BY <3>1, <3>c, Bracket5
    <3> QED BY <3>2, Zenon DEF m, n, Cat
  <2> QED BY <1>2, <2>3, <2>4, Zenon
<1> QED BY <1>1, <1>2

LEMMA WireBulk ==
  ASSUME NEW d, d = Nil \/ BulkBytes(d)
  PROVE  /\ WireInner(DataPacket("$", d)) = <<"$">> \o BulkWord(d)
         /\ WriteInner(DataPacket("$", d)) = <<"$">> \o BulkWord(d)
         /\ Wire(DataPacket("$", d)) = <<"$">> \o BulkWord(d)
<1> DEFINE p == DataPacket("$", d)
<1>1. p.type = "$" /\ p.data = d
  BY DEF DataPacket, Packet
<1> HIDE DEF p
<1>2. /\ p.type \notin LineTypes \cup {",", ":", "#"} /\ p.type # "_" /\ p.type \in BulkTypes
      /\ p.type \notin ArrayTypes /\ p.type \notin LineTypes \cup {","} /\ p.type # ":"
      /\ p.type \notin {"!", "="} /\ p.type # "#"
  BY <1>1, TypesAre
<1>3. <<"$">> \o BulkWord(d) =
           IF d = Nil THEN <<"$", "-", "1">> \o CRLF
           ELSE <<"$">> \o Itoa(Len(d)) \o CRLF \o d \o CRLF
  BY TypesAre, BulkBytesWritten, Zenon
<1>4. WireInner(p) = <<"$">> \o BulkWord(d)
  BY <1>1, <1>2, <1>3, Zenon DEF WireInner, WirePacket
<1>5. Wire(p) = <<"$">> \o BulkWord(d)
  BY <1>1, <1>2, <1>3, Zenon DEF Wire, WirePacket
<1>6. WriteInner(p) = WriteBulkString(d)
  BY <1>1, <1>2, Zenon DEF WriteInner, WritePacket
<1>7. WriteInner(p) = <<"$">> \o BulkWord(d)
  BY <1>3, <1>6, Zenon DEF WriteBulkString
<1> QED BY <1>4, <1>5, <1>7 DEF p

LEMMA WireLine ==
  ASSUME NEW t \in LineTypes, NEW d \in Seq(Byte)
  PROVE  /\ WireInner(DataPacket(t, d)) = <<t>> \o (d \o CRLF)
         /\ WriteInner(DataPacket(t, d)) = <<t>> \o (d \o CRLF)
         /\ Wire(DataPacket(t, d)) = <<t>> \o (d \o CRLF)
<1> DEFINE p == DataPacket(t, d)
<1>1. p.type = t /\ p.data = d
  BY DEF DataPacket, Packet
<1> HIDE DEF p
<1>2. /\ p.type \in LineTypes \cup {",", ":", "#"} /\ p.type # "_" /\ p.type \notin BulkTypes
      /\ p.type \notin ArrayTypes /\ p.type \in LineTypes \cup {","} /\ p.type # ":"
      /\ p.type \notin {"!", "="} /\ p.type # "#" /\ p.type # "$"
  BY <1>1, TypesAre
<1>3. (<<t>> \o d) \o CRLF = <<t>> \o (d \o CRLF)
  <2>0. t \in Byte
    BY TypesAre
  <2>1. <<t>> \in Seq(Byte) /\ CRLF \in Seq(Byte)
    BY <2>0, CRLFIs
  <2> QED BY <2>1, ConcatAssociative
<1>4. WireInner(p) = (<<t>> \o d) \o CRLF
  BY <1>1, <1>2, Zenon DEF WireInner, WirePacket
<1>5. Wire(p) = (<<t>> \o d) \o CRLF
  BY <1>1, <1>2, Zenon DEF Wire, WirePacket
<1>6. WriteInner(p) = (<<t>> \o d) \o CRLF
  BY <1>1, <1>2, Zenon DEF WriteInner, WritePacket
<1> QED BY <1>3, <1>4, <1>5, <1>6, Zenon DEF p

(* A word is read when it is there, and written as it was.                  *)
LEMMA WordIs ==
  ASSUME NEW p, Word(p)
  PROVE  /\ WireInner(p) \in Seq(Byte) /\ WireInner(p) # << >>
         /\ \A rest \in Seq(Byte) : ReadInner[WireInner(p) \o rest] = Ok(p, rest)
         /\ \A k \in Nat : k < Len(WireInner(p)) => ReadInner[SubSeq(WireInner(p), 1, k)] = Short
         /\ WriteInner(p) = WireInner(p) /\ Wire(p) = WireInner(p)
<1>1. ASSUME NEW t \in Byte, NEW w \in Seq(Byte), WireInner(p) = <<t>> \o w,
             \A rest \in Seq(Byte) : ReadInner[<<t>> \o (w \o rest)] = Ok(p, rest),
             \A k \in Nat : k < Len(w) => ReadInner[<<t>> \o SubSeq(w, 1, k)] = Short
      PROVE  /\ WireInner(p) \in Seq(Byte) /\ WireInner(p) # << >>
             /\ \A rest \in Seq(Byte) : ReadInner[WireInner(p) \o rest] = Ok(p, rest)
             /\ \A k \in Nat : k < Len(WireInner(p)) => ReadInner[SubSeq(WireInner(p), 1, k)] = Short
  <2>1. WireInner(p) \in Seq(Byte) /\ WireInner(p) # << >> /\ Len(WireInner(p)) = Len(w) + 1
    BY <1>1, Marked
  <2>2. ASSUME NEW rest \in Seq(Byte)
        PROVE  ReadInner[WireInner(p) \o rest] = Ok(p, rest)
    <3>1. WireInner(p) \o rest = <<t>> \o (w \o rest)
      <4>1. (<<t>> \o w) \o rest = <<t>> \o (w \o rest)
        BY Marked, Zenon
      <4> QED BY <1>1, <4>1, Zenon
    <3> QED BY <1>1, <3>1, Zenon
  <2>3. ASSUME NEW k \in Nat, k < Len(WireInner(p))
        PROVE  ReadInner[SubSeq(WireInner(p), 1, k)] = Short
    <3>1. CASE k = 0
      <4>1. SubSeq(WireInner(p), 1, k) = << >>
        BY <3>1
      <4> QED BY <4>1, ReadEmpty
    <3>2. CASE k > 0
      <4>1. k <= Len(w) + 1 /\ k - 1 \in Nat /\ k - 1 < Len(w)
        BY <2>1, <2>3, <3>2
      <4>2. SubSeq(WireInner(p), 1, k) = <<t>> \o SubSeq(w, 1, k - 1)
        <5>1. SubSeq(<<t>> \o w, 1, k) = <<t>> \o SubSeq(w, 1, k - 1)
          BY <3>2, <4>1, Marked, Zenon
        <5> QED BY <1>1, <5>1, Zenon
      <4> QED BY <1>1, <4>1, <4>2
    <3> QED BY <3>1, <3>2
  <2> QED BY <2>1, <2>2, <2>3
<1>2. CASE BulkPacket(p)
  <2>1. PICK d : (d = Nil \/ BulkBytes(d)) /\ p = DataPacket("$", d)
    BY <1>2, Zenon DEF BulkPacket
  <2> DEFINE w == BulkWord(d)
  <2>2. w \in Seq(Byte)
    BY <2>1, BulkReadIs
  <2>3. /\ WireInner(p) = <<"$">> \o w /\ WriteInner(p) = WireInner(p) /\ Wire(p) = WireInner(p)
    BY <2>1, WireBulk
  <2>4. ASSUME NEW rest \in Seq(Byte)
        PROVE  ReadInner[<<"$">> \o (w \o rest)] = Ok(p, rest)
    <3>1. BulkReadString(w \o rest) = Ok(d, rest)
      BY <2>1, BulkReadIs
    <3>2. w \o rest \in Seq(Byte)
      BY <2>2, ConcatProperties
    <3> QED BY <2>1, <3>1, <3>2, ReadInnerBulk, Zenon
  <2>5. ASSUME NEW k \in Nat, k < Len(w)
        PROVE  ReadInner[<<"$">> \o SubSeq(w, 1, k)] = Short
    <3>1. BulkReadString(SubSeq(w, 1, k)) = Short
      BY <2>1, <2>5, BulkReadIs
    <3>2. SubSeq(w, 1, k) \in Seq(Byte)
      BY <2>2, <2>5
    <3> QED BY <3>1, <3>2, ReadInnerBulk, Zenon
  <2> HIDE DEF w
  <2>6. "$" \in Byte
    BY TypesAre
  <2> QED BY <1>1, <2>2, <2>3, <2>4, <2>5, <2>6
<1>3. CASE LinePacket(p)
  <2>1. PICK t \in LineTypes, d \in Seq(Byte) : NoNewline(d) /\ p = DataPacket(t, d)
    BY <1>3, Zenon DEF LinePacket
  <2> DEFINE w == d \o CRLF
  <2>2. d \in Seq(Byte) /\ t \in Byte
    BY TypesAre
  <2>a. w \in Seq(Byte)
    BY <2>2, LineIs
  <2>3. /\ WireInner(p) = <<t>> \o w /\ WriteInner(p) = WireInner(p) /\ Wire(p) = WireInner(p)
    BY <2>1, <2>2, WireLine
  <2>4. ASSUME NEW rest \in Seq(Byte)
        PROVE  ReadInner[<<t>> \o (w \o rest)] = Ok(p, rest)
    <3>1. ReadLine(w \o rest) = Ok(d, rest)
      BY <2>1, <2>2, ReadLineIs
    <3>2. w \o rest \in Seq(Byte)
      BY <2>a, ConcatProperties
    <3> HIDE DEF w
    <3>a. ASSUME NEW x \in Seq(Byte), ReadLine(x) = Ok(d, rest)
          PROVE  ReadInner[<<t>> \o x] = Ok(DataPacket(t, d), rest)
      BY <3>a, ReadInnerLine
    <3>3. ReadInner[<<t>> \o (w \o rest)] = Ok(DataPacket(t, d), rest)
      BY <3>1, <3>2, <3>a, Zenon
    <3> QED BY <2>1, <3>3, Zenon
  <2>5. ASSUME NEW k \in Nat, k < Len(w)
        PROVE  ReadInner[<<t>> \o SubSeq(w, 1, k)] = Short
    <3>1. ReadLine(SubSeq(w, 1, k)) = Short
      BY <2>1, <2>2, <2>5, ReadLineCut
    <3>2. SubSeq(w, 1, k) \in Seq(Byte)
      BY <2>a, <2>5
    <3> QED BY <3>1, <3>2, ReadInnerLine, Zenon
  <2> HIDE DEF w
  <2> QED BY <1>1, <2>2, <2>a, <2>3, <2>4, <2>5
<1> QED BY <1>2, <1>3 DEF Word

----------------------------------------------------------------------------
(* Commands: arrays of words                                                *)

Words ==
  {DataPacket("$", d) : d \in {Nil} \cup {b \in Seq(Byte) : Len(b) <= MaxBufferSize}}
    \cup UNION {{DataPacket(t, d) : d \in {b \in Seq(Byte) : Len(b) <= MaxBufferSize /\ NoNewline(b)}}
                   : t \in LineTypes}

Requests == {Packet("*", Nil, ws) : ws \in {es \in Seq(Words) : Len(es) <= MaxArray}}

LEMMA WordsAre ==
  ASSUME NEW p \in Words
  PROVE  Word(p)
<1> DEFINE LineData == {b \in Seq(Byte) : Len(b) <= MaxBufferSize /\ NoNewline(b)}
<1>1. CASE \E d \in {Nil} \cup {b \in Seq(Byte) : Len(b) <= MaxBufferSize} : p = DataPacket("$", d)
  <2>1. PICK d \in {Nil} \cup {b \in Seq(Byte) : Len(b) <= MaxBufferSize} : p = DataPacket("$", d)
    BY <1>1, Zenon
  <2>2. d = Nil \/ BulkBytes(d)
    BY Zenon DEF BulkBytes
  <2> QED BY <2>1, <2>2, Zenon DEF Word, BulkPacket
<1>2. CASE \E t \in LineTypes : \E d \in LineData : p = DataPacket(t, d)
  <2>1. PICK t \in LineTypes : \E d \in LineData : p = DataPacket(t, d)
    BY <1>2, Zenon
  <2>2. PICK d \in LineData : p = DataPacket(t, d)
    BY <2>1, Zenon
  <2> QED BY <2>2, Zenon DEF Word, LinePacket
<1> QED BY <1>1, <1>2, Zenon DEF Words

LoopStep(r) == Then(r, LAMBDA elems, t : NextElement(elems, t, ReadInner))
IsLoop(g, n, s) == g = [i \in 0..n |-> IF i = 0 THEN Ok(<< >>, s) ELSE LoopStep(g[i - 1])]

LEMMA LoopStepIs ==
  /\ LoopStep(Short) = Short
  /\ \A es, t : ReadInner[t] = Short => LoopStep(Ok(es, t)) = Short
  /\ \A es, t, p, rest : ReadInner[t] = Ok(p, rest) => LoopStep(Ok(es, t)) = Ok(Append(es, p), rest)
<1>1. LoopStep(Short) = Short
  BY DEF LoopStep, Then, Short, Err
<1>2. ASSUME NEW es, NEW t, ReadInner[t] = Short
      PROVE  LoopStep(Ok(es, t)) = Short
  <2>1. NextElement(es, t, ReadInner) = Short
    BY <1>2 DEF NextElement, Then, Short, Err
  <2> QED BY <2>1 DEF LoopStep, Then, Ok
<1>3. ASSUME NEW es, NEW t, NEW p, NEW rest, ReadInner[t] = Ok(p, rest)
      PROVE  LoopStep(Ok(es, t)) = Ok(Append(es, p), rest)
  <2>1. NextElement(es, t, ReadInner) = Ok(Append(es, p), rest)
    BY <1>3 DEF NextElement, Then, Ok
  <2> QED BY <2>1 DEF LoopStep, Then, Ok
<1> QED BY <1>1, <1>2, <1>3

LEMMA LoopOnce ==
  ASSUME NEW n \in Nat, NEW s, NEW f, NEW g, IsLoop(f, n, s), IsLoop(g, n, s)
  PROVE  f = g
<1> DEFINE U == {i \in 0..n : f[i] # g[i]}
<1>0. \A i \in 0..n : /\ f[i] = IF i = 0 THEN Ok(<< >>, s) ELSE LoopStep(f[i - 1])
                     /\ g[i] = IF i = 0 THEN Ok(<< >>, s) ELSE LoopStep(g[i - 1])
  BY Zenon DEF IsLoop
<1>1. U = {}
  <2> SUFFICES ASSUME U # {} PROVE FALSE
    OBVIOUS
  <2>0. U \in SUBSET Nat
    OBVIOUS
  <2>1. PICK x \in U : \A y \in U : x <= y
    BY <2>0, LeastNat
  <2>2. x # 0
    BY <1>0
  <2>3. x - 1 \in 0..n /\ ~(x <= x - 1)
    BY <2>2
  <2>4. f[x - 1] = g[x - 1]
    BY <2>1, <2>3
  <2> QED BY <1>0, <2>2, <2>4
<1>2. \A i \in 0..n : f[i] = g[i]
  BY <1>1
<1>3. /\ f = [i \in 0..n |-> IF i = 0 THEN Ok(<< >>, s) ELSE LoopStep(f[i - 1])]
      /\ g = [i \in 0..n |-> IF i = 0 THEN Ok(<< >>, s) ELSE LoopStep(g[i - 1])]
  BY DEF IsLoop
<1>4. f = [i \in 0..n |-> f[i]] /\ g = [i \in 0..n |-> g[i]]
  BY <1>3
<1> QED BY <1>2, <1>4

LEMMA LoopIs ==
  ASSUME NEW n \in Nat, NEW s, NEW g, IsLoop(g, n, s)
  PROVE  ReadElements(n, s, ReadInner) = g[n]
<1>1. CASE n = 0
  <2>1. n <= 0
    BY <1>1
  <2>2. ReadElements(n, s, ReadInner) = Ok(<< >>, s)
    BY <2>1, Zenon DEF ReadElements
  <2>3. g[n] = Ok(<< >>, s)
    BY <1>1 DEF IsLoop
  <2> QED BY <2>2, <2>3
<1>2. CASE n > 0
  <2> DEFINE L == CHOOSE h : IsLoop(h, n, s)
  <2>1. L = g
    BY LoopOnce, Zenon
  <2>2. ~(n <= 0)
    BY <1>2
  <2>3. ReadElements(n, s, ReadInner) = IF n <= 0 THEN Ok(<< >>, s) ELSE L[n]
    BY Zenon DEF ReadElements, IsLoop, LoopStep, Then
  <2> QED BY <2>1, <2>2, <2>3, Zenon
<1> QED BY <1>1, <1>2

Wires(es) == [i \in 1..Len(es) |-> WireInner(es[i])]

LEMMA WiresAre ==
  ASSUME NEW es \in Seq(Words)
  PROVE  /\ Wires(es) \in Seq(Seq(Byte)) /\ Len(Wires(es)) = Len(es)
         /\ \A i \in 1..Len(es) : Wires(es)[i] = WireInner(es[i]) /\ es[i] \in Words
<1>1. \A i \in 1..Len(es) : es[i] \in Words /\ WireInner(es[i]) \in Seq(Byte)
  BY WordsAre, WordIs
<1> QED BY <1>1 DEF Wires

LEMMA FlattenOne ==
  ASSUME NEW S, NEW s \in Seq(S)
  PROVE  FlattenSeq(<<s>>) = s
<1>1. << >> \in Seq(Seq(S)) /\ <<s>> = Append(<< >>, s)
  OBVIOUS
<1>2. FlattenSeq(Append(<< >>, s)) = << >> \o s
  BY <1>1, FlattenAppend, FlattenEmpty
<1> QED BY <1>1, <1>2

LEMMA FlattenFirst ==
  ASSUME NEW S, NEW ss \in Seq(Seq(S)), NEW i \in 1..Len(ss), NEW m \in i..Len(ss)
  PROVE  /\ FlattenSeq(SubSeq(ss, i, m)) = ss[i] \o FlattenSeq(SubSeq(ss, i + 1, m))
         /\ FlattenSeq(SubSeq(ss, i + 1, m)) \in Seq(S)
<1>1. SubSeq(ss, i, m) = <<ss[i]>> \o SubSeq(ss, i + 1, m)
  BY SubSeqRecursiveFirst
<1>2. <<ss[i]>> \in Seq(Seq(S)) /\ SubSeq(ss, i + 1, m) \in Seq(Seq(S)) /\ ss[i] \in Seq(S)
  OBVIOUS
<1>3. FlattenSeq(SubSeq(ss, i, m)) = FlattenSeq(<<ss[i]>>) \o FlattenSeq(SubSeq(ss, i + 1, m))
  BY <1>1, <1>2, FlattenConcat
<1> QED BY <1>2, <1>3, FlattenOne, FlattenType

(* The first m words of a command are there, and then bytes in which there  *)
(* is no whole word.                                                        *)
LEMMA ReadElementsIs ==
  ASSUME NEW es \in Seq(Words), NEW m \in 0..Len(es), NEW q \in Seq(Byte),
         m < Len(es) => ReadInner[q] = Short
  PROVE  ReadElements(Len(es), FlattenSeq(SubSeq(Wires(es), 1, m)) \o q, ReadInner) =
           IF m = Len(es) THEN Ok(es, q) ELSE Short
<1> DEFINE n == Len(es)
           ww == Wires(es)
           T == [i \in 0..m |-> FlattenSeq(SubSeq(ww, i + 1, m)) \o q]
           g == [i \in 0..n |-> IF i <= m THEN Ok(SubSeq(es, 1, i), T[i]) ELSE Short]
<1>0. n \in Nat /\ m \in Nat /\ m <= n
  OBVIOUS
<1>1. ww \in Seq(Seq(Byte)) /\ Len(ww) = n
  BY WiresAre
<1>2. T[m] = q
  <2>1. SubSeq(ww, m + 1, m) = << >>
    BY <1>0
  <2>2. T[m] = FlattenSeq(SubSeq(ww, m + 1, m)) \o q
    BY <1>0
  <2>3. << >> \o q = q
    OBVIOUS
  <2> QED BY <2>1, <2>2, <2>3, FlattenEmpty
<1>3. ASSUME NEW i \in 1..m
      PROVE  /\ T[i - 1] = WireInner(es[i]) \o T[i] /\ T[i] \in Seq(Byte)
             /\ ReadInner[T[i - 1]] = Ok(es[i], T[i])
  <2>0. i \in 1..n /\ m \in i..n /\ i \in 0..m /\ i - 1 \in 0..m /\ (i - 1) + 1 = i
    BY <1>0
  <2> DEFINE w == ww[i]
             f == FlattenSeq(SubSeq(ww, i + 1, m))
  <2>1. FlattenSeq(SubSeq(ww, i, m)) = w \o f /\ f \in Seq(Byte)
    BY <1>1, <2>0, FlattenFirst
  <2>2. w \in Seq(Byte) /\ w = WireInner(es[i]) /\ es[i] \in Words
    BY <1>1, <2>0, WiresAre
  <2>3. T[i - 1] = FlattenSeq(SubSeq(ww, i, m)) \o q /\ T[i] = f \o q
    BY <2>0
  <2> HIDE DEF w, f, T
  <2>4. (w \o f) \o q = w \o (f \o q) /\ f \o q \in Seq(Byte)
    BY <2>1, <2>2, ConcatAssociative, ConcatProperties
  <2>5. T[i - 1] = w \o T[i] /\ T[i] \in Seq(Byte)
    BY <2>1, <2>3, <2>4, Zenon
  <2>6. ReadInner[WireInner(es[i]) \o T[i]] = Ok(es[i], T[i])
    BY <2>2, <2>5, WordsAre, WordIs
  <2> QED BY <2>2, <2>5, <2>6, Zenon
<1> HIDE DEF T
<1>4. IsLoop(g, n, T[0])
  <2>1. \A i \in 0..n : g[i] = IF i = 0 THEN Ok(<< >>, T[0]) ELSE LoopStep(g[i - 1])
    <3> SUFFICES ASSUME NEW i \in 0..n
                 PROVE  g[i] = IF i = 0 THEN Ok(<< >>, T[0]) ELSE LoopStep(g[i - 1])
      OBVIOUS
    <3>1. CASE i = 0
      <4>1. SubSeq(es, 1, 0) = << >>
        OBVIOUS
      <4>2. 0 <= m /\ 0 \in 0..n
        BY <1>0
      <4>3. g[0] = Ok(SubSeq(es, 1, 0), T[0])
        BY <4>2, Zenon
      <4> QED BY <3>1, <4>1, <4>3, Zenon
    <3>2. CASE i > 0 /\ i <= m
      <4>1. /\ i \in 1..m /\ i \in 0..n /\ i - 1 \in 0..n /\ i - 1 <= m /\ i # 0 /\ i - 1 \in Nat
            /\ i - 1 < Len(es) /\ (i - 1) + 1 = i
        BY <1>0, <3>2
      <4>2. g[i - 1] = Ok(SubSeq(es, 1, i - 1), T[i - 1]) /\ g[i] = Ok(SubSeq(es, 1, i), T[i])
        BY <3>2, <4>1
      <4>3. LoopStep(Ok(SubSeq(es, 1, i - 1), T[i - 1])) = Ok(Append(SubSeq(es, 1, i - 1), es[i]), T[i])
        <5>1. ReadInner[T[i - 1]] = Ok(es[i], T[i])
          BY <1>3, <4>1, Zenon
        <5>2. ASSUME NEW a, NEW t, NEW p, NEW rest, ReadInner[t] = Ok(p, rest)
              PROVE  LoopStep(Ok(a, t)) = Ok(Append(a, p), rest)
          BY <5>2, LoopStepIs
        <5> HIDE DEF g
        <5> QED BY <5>1, <5>2
      <4>4. SubSeq(es, 1, i) = Append(SubSeq(es, 1, i - 1), es[i])
        BY <4>1, SubSeqNext
      <4> QED BY <4>1, <4>2, <4>3, <4>4, Zenon
    <3>3. CASE i = m + 1
      <4>1. i # 0 /\ ~(i <= m) /\ i - 1 = m /\ m < Len(es) /\ m \in 0..n /\ m <= m
        BY <1>0, <3>3
      <4>2. g[m] = Ok(SubSeq(es, 1, m), T[m]) /\ g[i] = Short
        BY <4>1
      <4>3. LoopStep(Ok(SubSeq(es, 1, m), T[m])) = Short
        BY <1>2, <4>1, LoopStepIs, Zenon
      <4> QED BY <4>1, <4>2, <4>3, Zenon
    <3>4. CASE i > m + 1
      <4>1. i # 0 /\ ~(i <= m) /\ ~(i - 1 <= m) /\ i - 1 \in 0..n
        BY <1>0, <3>4
      <4>2. g[i - 1] = Short /\ g[i] = Short
        BY <4>1
      <4> QED BY <4>1, <4>2, LoopStepIs, Zenon
    <3> QED BY <1>0, <3>1, <3>2, <3>3, <3>4
  <2>2. g = [i \in 0..n |-> g[i]]
    OBVIOUS
  <2> HIDE DEF g
  <2> QED BY <2>1, <2>2 DEF IsLoop
<1>5. T[0] = FlattenSeq(SubSeq(ww, 1, m)) \o q
  BY <1>0 DEF T
<1>6. g[n] = IF m = n THEN Ok(es, q) ELSE Short
  <2>1. CASE m = n
    <3>1. SubSeq(es, 1, n) = es /\ n \in 0..n /\ n <= m
      BY <1>0, <2>1
    <3> QED BY <1>2, <2>1, <3>1
  <2>2. CASE m # n
    <3>1. n \in 0..n /\ ~(n <= m)
      BY <1>0, <2>2
    <3> QED BY <2>2, <3>1
  <2> QED BY <2>1, <2>2
<1> HIDE DEF g
<1>7. ReadElements(n, T[0], ReadInner) = g[n]
  BY <1>0, <1>4, LoopIs
<1> QED BY <1>5, <1>6, <1>7, Zenon

(* Where a concatenation is cut                                             *)
LEMMA FlattenCut ==
  ASSUME NEW S, NEW ss \in Seq(Seq(S)), NEW k \in Nat, k < Len(FlattenSeq(ss))
  PROVE  \E m \in 0..Len(ss) - 1 : \E j \in Nat :
           /\ j < Len(ss[m + 1])
           /\ SubSeq(FlattenSeq(ss), 1, k) = FlattenSeq(SubSeq(ss, 1, m)) \o SubSeq(ss[m + 1], 1, j)
<1> DEFINE n == Len(ss)
           f == [m \in 0..n |-> FlattenSeq(SubSeq(ss, 1, m))]
           U == {m \in 0..n : k < Len(f[m])}
<1>0. n \in Nat
  OBVIOUS
<1>1. \A m \in 0..n : f[m] \in Seq(S) /\ Len(f[m]) \in Nat
  <2>1. \A m \in 0..n : SubSeq(ss, 1, m) \in Seq(Seq(S))
    OBVIOUS
  <2>2. \A m \in 0..n : FlattenSeq(SubSeq(ss, 1, m)) \in Seq(S)
    BY <2>1, FlattenType
  <2>3. \A m \in 0..n : f[m] \in Seq(S)
    BY <2>2
  <2> HIDE DEF f
  <2> QED BY <2>3, LenProperties
<1>2. f[n] = FlattenSeq(ss) /\ n \in U
  <2>1. SubSeq(ss, 1, n) = ss /\ n \in 0..n
    BY <1>0
  <2> QED BY <2>1
<1>3. f[0] = << >>
  <2>1. SubSeq(ss, 1, 0) = << >> /\ 0 \in 0..n
    BY <1>0
  <2> QED BY <2>1, FlattenEmpty
<1>4. PICK x \in U : \A y \in U : x <= y
  <2>1. U \in SUBSET Nat
    OBVIOUS
  <2> QED BY <1>2, <2>1, LeastNat
<1>5. x # 0
  <2>1. ~(k < Len(<< >>))
    OBVIOUS
  <2> QED BY <1>3, <2>1
<1> DEFINE m == x - 1
<1>6. m \in 0..n /\ m \in 0..n - 1 /\ m + 1 = x /\ x \in 1..n /\ m \in Nat /\ m < n /\ ~(x <= m)
  BY <1>0, <1>5
<1>7. ~(k < Len(f[m]))
  BY <1>4, <1>6
<1> DEFINE a == f[m]
           w == ss[x]
           c == FlattenSeq(SubSeq(ss, x + 1, n))
<1>8. FlattenSeq(ss) = f[x] \o c /\ f[x] = a \o w /\ c \in Seq(S) /\ w \in Seq(S)
  <2>1. SubSeq(ss, 1, x) \in Seq(Seq(S)) /\ SubSeq(ss, x + 1, n) \in Seq(Seq(S))
        /\ SubSeq(ss, 1, m) \in Seq(Seq(S)) /\ w \in Seq(S) /\ x \in 0..n
    BY <1>6
  <2>2. ss = SubSeq(ss, 1, x) \o SubSeq(ss, x + 1, n)
    BY <1>6
  <2>3. FlattenSeq(ss) = FlattenSeq(SubSeq(ss, 1, x)) \o c /\ c \in Seq(S)
    BY <2>1, <2>2, FlattenConcat, FlattenType
  <2>4. SubSeq(ss, 1, x) = Append(SubSeq(ss, 1, m), w)
    BY <1>6, SubSeqNext
  <2>5. FlattenSeq(Append(SubSeq(ss, 1, m), w)) = FlattenSeq(SubSeq(ss, 1, m)) \o w
    BY <2>1, FlattenAppend
  <2> QED BY <1>6, <2>1, <2>3, <2>4, <2>5
<1>9. a \in Seq(S) /\ f[x] \in Seq(S) /\ k < Len(f[x]) /\ ~(k < Len(a)) /\ Len(a) \in Nat
  BY <1>1, <1>6, <1>7
<1>10. a = FlattenSeq(SubSeq(ss, 1, m))
  BY <1>6
<1> HIDE DEF a, w, c, f
<1>11. SubSeq(FlattenSeq(ss), 1, k) = SubSeq(f[x], 1, k)
  BY <1>8, <1>9, PrefixOfConcat
<1>12. SubSeq(a \o w, 1, k) = a \o SubSeq(w, 1, k - Len(a)) /\ k - Len(a) \in Nat
       /\ k - Len(a) < Len(w)
  <2>1. k <= Len(a \o w) /\ k >= Len(a) /\ Len(a \o w) = Len(a) + Len(w) /\ Len(w) \in Nat
    BY <1>8, <1>9, ConcatProperties, LenProperties
  <2>2. k - Len(a) \in Nat /\ k - Len(a) < Len(w)
    BY <1>8, <1>9, <2>1
  <2>3. SubSeq(a \o w, 1, k) = a \o SubSeq(w, 1, k - Len(a))
    <3>1. a \in Seq(S) /\ w \in Seq(S) /\ k <= Len(a \o w) /\ k >= Len(a)
      BY <1>8, <1>9, <2>1
    <3> QED BY <3>1, PrefixBeyond
  <2> QED BY <2>2, <2>3
<1> DEFINE j == k - Len(a)
<1>13. j \in Nat /\ j < Len(ss[m + 1])
  BY <1>6, <1>12 DEF w
<1>14. SubSeq(FlattenSeq(ss), 1, k) = FlattenSeq(SubSeq(ss, 1, m)) \o SubSeq(ss[m + 1], 1, j)
  <2> HIDE DEF m
  <2> QED BY <1>6, <1>8, <1>10, <1>11, <1>12 DEF w
<1>15. m \in 0..Len(ss) - 1
  BY <1>6
<1> HIDE DEF m, j
<1> QED BY <1>13, <1>14, <1>15

LEMMA NotNil ==
  ASSUME NEW es \in Seq(Words)
  PROVE  es # Nil
<1>1. Words \subseteq StringPackets
  <2> SUFFICES ASSUME NEW p \in Words PROVE p \in StringPackets
    OBVIOUS
  <2>1. Word(p)
    BY WordsAre
  <2>2. CASE BulkPacket(p)
    BY <2>2 DEF BulkPacket, BulkBytes, DataPacket, Packet, StringPackets, BulkTypes
  <2>3. CASE LinePacket(p)
    BY <2>3 DEF LinePacket, DataPacket, Packet, StringPackets
  <2> QED BY <2>1, <2>2, <2>3 DEF Word
<1>2. es \in Seq(StringPackets)
  BY <1>1, SeqMonotonic, Zenon
<1> QED BY <1>2, Limits

LEMMA ReadArray ==
  ASSUME NEW s, NEW n \in Nat, n <= MaxArray, NEW t
  PROVE  /\ ReadInt(s) = Short => ReadArrayLike("*", s, ReadInner) = Short
         /\ ReadInt(s) = Ok(n, t) /\ ReadElements(n, t, ReadInner) = Short =>
              ReadArrayLike("*", s, ReadInner) = Short
         /\ \A es, rest : ReadInt(s) = Ok(n, t) /\ ReadElements(n, t, ReadInner) = Ok(es, rest) =>
              ReadArrayLike("*", s, ReadInner) = Ok(Packet("*", Nil, es), rest)
<1>0. ~(n > MaxArray)
  BY Limits
<1>1. ASSUME ReadInt(s) = Short
      PROVE  ReadArrayLike("*", s, ReadInner) = Short
  BY <1>1 DEF ReadArrayLike, Then, Short, Err
<1>2. ASSUME ReadInt(s) = Ok(n, t)
      PROVE  ReadArrayLike("*", s, ReadInner) = ArrayData("*", n, t, ReadInner)
  BY <1>2 DEF ReadArrayLike, Then, Ok
<1>3. ArrayData("*", n, t, ReadInner) =
        Then(ReadElements(n, t, ReadInner), LAMBDA elems, rest : Ok(Packet("*", Nil, elems), rest))
  <2>1. "*" \notin MapTypes
    BY TypesAre
  <2> QED BY <1>0, <2>1, Zenon DEF ArrayData, Then
<1>4. ASSUME ReadElements(n, t, ReadInner) = Short
      PROVE  ArrayData("*", n, t, ReadInner) = Short
  BY <1>3, <1>4 DEF Then, Short, Err
<1>5. ASSUME NEW es, NEW rest, ReadElements(n, t, ReadInner) = Ok(es, rest)
      PROVE  ArrayData("*", n, t, ReadInner) = Ok(Packet("*", Nil, es), rest)
  <2>1. Then(Ok(es, rest), LAMBDA elems, r : Ok(Packet("*", Nil, elems), r)) =
          Ok(Packet("*", Nil, es), rest)
    BY DEF Then, Ok
  <2> QED BY <1>3, <1>5, <2>1, Zenon
<1> QED BY <1>1, <1>2, <1>4, <1>5

LEMMA ReadStar ==
  ASSUME NEW w \in Seq(Byte)
  PROVE  Read(<<"*">> \o w) = ReadArrayLike("*", w, ReadInner)
<1> DEFINE s == <<"*">> \o w
<1>1. s # << >> /\ Head(s) = "*" /\ Tail(s) = w
  BY TypesAre, Marked
<1> HIDE DEF s
<1>2. Head(s) \in ArrayTypes /\ Head(s) \notin LineTypes \cup BulkTypes \cup {":", "_", "#", ","}
  BY <1>1, TypesAre
<1>3. Read(s) = ReadArrayLike("*", w, ReadInner)
  BY <1>1, <1>2, Zenon DEF Read, ReadPacket
<1> QED BY <1>3 DEF s

(* What follows the marker of a command                                     *)
ArrayWord(es) == (Count(Len(es)) \o CRLF) \o FlattenSeq(Wires(es))

LEMMA ArrayWordType ==
  ASSUME NEW es \in Seq(Words)
  PROVE  /\ Len(es) \in Nat \cup {-1} /\ Len(es) \in Nat /\ Count(Len(es)) = Itoa(Len(es))
         /\ Count(Len(es)) \in Seq(Byte) /\ Count(Len(es)) \o CRLF \in Seq(Byte)
         /\ FlattenSeq(Wires(es)) \in Seq(Byte) /\ ArrayWord(es) \in Seq(Byte)
<1>1. Len(es) \in Nat \cup {-1} /\ Len(es) \in Nat /\ Len(es) # -1
  OBVIOUS
<1>2. Count(Len(es)) = Itoa(Len(es))
  BY <1>1 DEF Count
<1>3. Count(Len(es)) \in Seq(Byte) /\ Count(Len(es)) \o CRLF \in Seq(Byte)
  BY <1>1, CountIs, LineIs
<1>4. FlattenSeq(Wires(es)) \in Seq(Byte)
  BY WiresAre, FlattenType
<1>5. ArrayWord(es) \in Seq(Byte)
  BY <1>3, <1>4, ConcatProperties DEF ArrayWord
<1> QED BY <1>1, <1>2, <1>3, <1>4, <1>5

LEMMA Bracket4 ==
  ASSUME NEW a \in Seq(Byte), NEW b \in Seq(Byte), NEW c \in Seq(Byte), NEW d \in Seq(Byte)
  PROVE  Cat(Cat(Cat(a, b), c), d) = Cat(a, Cat(Cat(b, c), d))
<1>1. Cat(Cat(a, b), c) = Cat(a, Cat(b, c)) /\ Cat(b, c) \in Seq(Byte)
  BY CatIs
<1>2. Cat(Cat(a, Cat(b, c)), d) = Cat(a, Cat(Cat(b, c), d))
  BY <1>1, CatIs
<1> QED BY <1>1, <1>2, Zenon

LEMMA ArrayWritten ==
  ASSUME NEW es \in Seq(Words)
  PROVE  /\ Wire(Packet("*", Nil, es)) = <<"*">> \o ArrayWord(es)
         /\ Write(Packet("*", Nil, es)) = <<"*">> \o ArrayWord(es)
<1> DEFINE c == Packet("*", Nil, es)
           F == FlattenSeq(Wires(es))
           h == <<"*">> \o Itoa(Len(es)) \o CRLF
<1>1. c.type = "*" /\ c.array = es /\ c.array # Nil
  BY NotNil DEF Packet
<1>2. h \o F = <<"*">> \o ArrayWord(es)
  <2> DEFINE m == <<"*">>
             n == Itoa(Len(es))
  <2>1. m \in Seq(Byte) /\ n \in Seq(Byte) /\ F \in Seq(Byte) /\ n = Count(Len(es)) /\ CRLF \in Seq(Byte)
    <3>1. "*" \in Byte
      BY TypesAre
    <3> QED BY <3>1, ArrayWordType, CRLFIs
  <2> HIDE DEF m, n, F
  <2>2. Cat(Cat(Cat(m, n), CRLF), F) = Cat(m, Cat(Cat(n, CRLF), F))
    BY <2>1, Bracket4
  <2> QED BY <2>1, <2>2, Zenon DEF m, n, F, Cat, ArrayWord
<1>3. \A i \in 1..Len(es) : es[i] \in Words /\ WriteInner(es[i]) = WireInner(es[i])
  BY WordsAre, WordIs
<1>4. [i \in 1..Len(es) |-> WriteInner(es[i])] = Wires(es)
  BY <1>3 DEF Wires
<1> HIDE DEF c
<1>5. /\ c.type \notin LineTypes \cup {",", ":", "#"} /\ c.type # "_" /\ c.type \notin BulkTypes
      /\ c.type \in ArrayTypes /\ c.type \notin LineTypes \cup {","} /\ c.type # ":"
      /\ c.type # "$" /\ c.type \notin {"!", "="} /\ c.type # "#" /\ c.type \notin MapTypes
  BY <1>1, TypesAre
<1>6. Wire(c) = h \o F
  BY <1>1, <1>5, Zenon DEF Wire, WirePacket, Wires
<1>7. Write(c) = WriteArray("*", es, Wires(es))
  BY <1>1, <1>4, <1>5, Zenon DEF Write, WritePacket
<1>8. ArrayHeader("*", Len(es)) = h
  BY <1>1, <1>5, Zenon DEF ArrayHeader
<1>9. WriteArray("*", es, Wires(es)) = h \o F
  BY <1>1, <1>4, <1>8, Zenon DEF WriteArray
<1> QED BY <1>2, <1>6, <1>7, <1>9, Zenon DEF c

LEMMA ReadArrayWord ==
  ASSUME NEW es \in Seq(Words), Len(es) <= MaxArray
  PROVE  /\ \A rest \in Seq(Byte) : ReadArrayLike("*", ArrayWord(es) \o rest, ReadInner) =
                                       Ok(Packet("*", Nil, es), rest)
         /\ \A k \in Nat : k < Len(ArrayWord(es)) =>
              ReadArrayLike("*", SubSeq(ArrayWord(es), 1, k), ReadInner) = Short
<1> DEFINE n == Len(es)
           ww == Wires(es)
           a == Count(n) \o CRLF
           b == FlattenSeq(ww)
           w == a \o b
<1>0. n \in Nat /\ n \in Nat \cup {-1} /\ n <= MaxArray
  BY ArrayWordType
<1>1. a \in Seq(Byte) /\ b \in Seq(Byte) /\ ww \in Seq(Seq(Byte)) /\ Len(ww) = n
      /\ Len(a) \in Nat /\ Len(b) \in Nat
  BY ArrayWordType, WiresAre, LenProperties
<1>2. \A rest \in Seq(Byte) : ReadInt(a \o rest) = Ok(n, rest)
  BY <1>0, ReadIntIs
<1>3. \A k \in Nat : k < Len(a) => ReadInt(SubSeq(a, 1, k)) = Short
  BY <1>0, ReadIntCut
<1>4. ASSUME NEW rest \in Seq(Byte)
      PROVE  ReadElements(n, b \o rest, ReadInner) = Ok(es, rest)
  <2>1. SubSeq(ww, 1, n) = ww /\ n \in 0..Len(es) /\ ~(n < Len(es))
    BY <1>0, <1>1
  <2>2. ReadElements(Len(es), FlattenSeq(SubSeq(Wires(es), 1, n)) \o rest, ReadInner) =
          IF n = Len(es) THEN Ok(es, rest) ELSE Short
    BY <2>1, ReadElementsIs
  <2> QED BY <2>1, <2>2, Zenon
<1>5. ASSUME NEW k \in Nat, k < Len(b)
      PROVE  ReadElements(n, SubSeq(b, 1, k), ReadInner) = Short
  <2>1. PICK m \in 0..Len(ww) - 1 : \E j \in Nat :
           /\ j < Len(ww[m + 1])
           /\ SubSeq(FlattenSeq(ww), 1, k) = FlattenSeq(SubSeq(ww, 1, m)) \o SubSeq(ww[m + 1], 1, j)
    <3> HIDE DEF ww
    <3> QED BY <1>1, <1>5, FlattenCut
  <2>2. PICK j \in Nat :
           /\ j < Len(ww[m + 1])
           /\ SubSeq(FlattenSeq(ww), 1, k) = FlattenSeq(SubSeq(ww, 1, m)) \o SubSeq(ww[m + 1], 1, j)
    BY <2>1
  <2>3. m \in 0..Len(es) /\ m < Len(es) /\ m # Len(es) /\ m + 1 \in 1..Len(es)
    BY <1>0, <1>1
  <2>4. ww[m + 1] = WireInner(es[m + 1]) /\ Word(es[m + 1])
    BY <2>3, WiresAre, WordsAre
  <2> DEFINE q == SubSeq(ww[m + 1], 1, j)
  <2>5. ReadInner[q] = Short
    BY <2>2, <2>4, WordIs
  <2>6. q \in Seq(Byte)
    <3>1. ww[m + 1] \in Seq(Byte)
      BY <2>4, WordIs
    <3> HIDE DEF ww
    <3> QED BY <2>2, <3>1
  <2> HIDE DEF q
  <2>7. ReadElements(Len(es), FlattenSeq(SubSeq(Wires(es), 1, m)) \o q, ReadInner) =
          IF m = Len(es) THEN Ok(es, q) ELSE Short
    BY <2>3, <2>5, <2>6, ReadElementsIs
  <2> QED BY <2>2, <2>3, <2>7, Zenon DEF q
<1>6. ArrayWord(es) = w
  BY DEF ArrayWord
<1> HIDE DEF a, b, ww
<1>7. w \in Seq(Byte) /\ Len(w) = Len(a) + Len(b)
  BY <1>1, ConcatProperties
<1>8. ASSUME NEW rest \in Seq(Byte)
      PROVE  ReadArrayLike("*", w \o rest, ReadInner) = Ok(Packet("*", Nil, es), rest)
  <2>1. w \o rest = a \o (b \o rest) /\ b \o rest \in Seq(Byte)
    BY <1>1, ConcatAssociative, ConcatProperties
  <2>2. ReadInt(w \o rest) = Ok(n, b \o rest)
    BY <1>2, <2>1, Zenon
  <2>3. ReadElements(n, b \o rest, ReadInner) = Ok(es, rest)
    BY <1>4
  <2>4. ASSUME NEW s, NEW t, ReadInt(s) = Ok(n, t), ReadElements(n, t, ReadInner) = Ok(es, rest)
        PROVE  ReadArrayLike("*", s, ReadInner) = Ok(Packet("*", Nil, es), rest)
    BY <1>0, <2>4, ReadArray
  <2> QED BY <2>2, <2>3, <2>4, Zenon
<1>9. ASSUME NEW k \in Nat, k < Len(w)
      PROVE  ReadArrayLike("*", SubSeq(w, 1, k), ReadInner) = Short
  <2>1. CASE k < Len(a)
    <3>1. SubSeq(w, 1, k) = SubSeq(a, 1, k)
      BY <1>1, <1>7, <1>9, <2>1, PrefixOfConcat
    <3>2. ReadInt(SubSeq(w, 1, k)) = Short
      BY <1>3, <2>1, <3>1
    <3> QED BY <1>0, <3>2, ReadArray, Zenon
  <2>2. CASE ~(k < Len(a))
    <3> DEFINE j == k - Len(a)
               q == SubSeq(b, 1, j)
    <3>1. SubSeq(w, 1, k) = a \o q /\ j \in Nat /\ j < Len(b)
      BY <1>1, <1>7, <1>9, <2>2, PrefixOfConcat
    <3>2. q \in Seq(Byte)
      BY <1>1, <3>1
    <3>3. ReadInt(SubSeq(w, 1, k)) = Ok(n, q)
      BY <1>2, <3>1, <3>2
    <3>4. ReadElements(n, q, ReadInner) = Short
      BY <1>5, <3>1
    <3>5. ASSUME NEW s, NEW t, ReadInt(s) = Ok(n, t), ReadElements(n, t, ReadInner) = Short
          PROVE  ReadArrayLike("*", s, ReadInner) = Short
      BY <1>0, <3>5, ReadArray
    <3> QED BY <3>3, <3>4, <3>5, Zenon
  <2> QED BY <2>1, <2>2
<1> HIDE DEF w
<1> QED BY <1>6, <1>8, <1>9

(* RespReader.Read returns a command with all its words when its bytes are  *)
(* there, takes no byte of what follows, and fails for want of bytes on     *)
(* each part of it: whatever is in the words, line ends and what looks like *)
(* a length or a marker included.                                           *)
THEOREM ReadRequest ==
  ASSUME NEW c \in Requests
  PROVE  /\ Wire(c) \in Seq(Byte) /\ Wire(c) # << >>
         /\ \A rest \in Seq(Byte) : Read(Wire(c) \o rest) = Ok(c, rest)
         /\ \A k \in Nat : k < Len(Wire(c)) => Read(SubSeq(Wire(c), 1, k)) = Short
<1>1. PICK es \in Seq(Words) : Len(es) <= MaxArray /\ c = Packet("*", Nil, es)
  BY Zenon DEF Requests
<1> DEFINE w == ArrayWord(es)
           m == <<"*">>
<1>2. w \in Seq(Byte) /\ "*" \in Byte /\ Wire(c) = m \o w
  BY <1>1, ArrayWordType, ArrayWritten, TypesAre
<1>3. \A rest \in Seq(Byte) : ReadArrayLike("*", w \o rest, ReadInner) = Ok(c, rest)
  BY <1>1, ReadArrayWord
<1>4. \A k \in Nat : k < Len(w) => ReadArrayLike("*", SubSeq(w, 1, k), ReadInner) = Short
  BY <1>1, ReadArrayWord
<1> HIDE DEF w
<1>5. /\ Wire(c) \in Seq(Byte) /\ Len(Wire(c)) = Len(w) + 1 /\ Wire(c) # << >>
  BY <1>2, Marked
<1>6. ASSUME NEW rest \in Seq(Byte)
      PROVE  Read(Wire(c) \o rest) = Ok(c, rest)
  <2>1. (m \o w) \o rest = m \o (w \o rest)
    BY <1>2, Marked, Zenon
  <2>2. w \o rest \in Seq(Byte)
    BY <1>2, ConcatProperties
  <2>3. Read(m \o (w \o rest)) = ReadArrayLike("*", w \o rest, ReadInner)
    BY <2>2, ReadStar, Zenon
  <2> QED BY <1>2, <1>3, <2>1, <2>3, Zenon
<1>7. ASSUME NEW k \in Nat, k < Len(Wire(c))
      PROVE  Read(SubSeq(Wire(c), 1, k)) = Short
  <2>1. CASE k = 0
    <3>1. SubSeq(Wire(c), 1, k) = << >>
      BY <1>5, <2>1
    <3> QED BY <3>1, ReadEmpty
  <2>2. CASE k > 0
    <3>1. k <= Len(w) + 1 /\ k - 1 \in Nat /\ k - 1 < Len(w)
      BY <1>5, <1>7, <2>2
    <3>2. SubSeq(m \o w, 1, k) = m \o SubSeq(w, 1, k - 1)
      BY <1>2, <2>2, <3>1, Marked, Zenon
    <3>3. SubSeq(w, 1, k - 1) \in Seq(Byte)
      BY <1>2, <3>1
    <3>4. Read(m \o SubSeq(w, 1, k - 1)) = ReadArrayLike("*", SubSeq(w, 1, k - 1), ReadInner)
      BY <3>3, ReadStar, Zenon
    <3> QED BY <1>2, <1>4, <3>1, <3>2, <3>4, Zenon
  <2> QED BY <2>1, <2>2
<1> QED BY <1>5, <1>6, <1>7

(* RespWriter.Write writes a command that was read with the bytes it had.   *)
THEOREM WriteRequest ==
  ASSUME NEW c \in Requests
  PROVE  Write(c) = Wire(c)
<1>1. PICK es \in Seq(Words) : Len(es) <= MaxArray /\ c = Packet("*", Nil, es)
  BY Zenon DEF Requests
<1> QED BY <1>1, ArrayWritten, Zenon

============================================================================
