-------------------------- MODULE HttpClient_proofs --------------------------
(***************************************************************************)
(* Theorems about HttpClient and the frames it sends, for every value of   *)
(* its constants: types, that the arguments of a request arrive, what a    *)
(* server reads of a framed body, and that no attempt repeats what an      *)
(* earlier one has sent.                                                   *)
(*                                                                         *)
(* A step of Next is first put as what it does to one call and its body    *)
(* (Moves); the invariants look only at that.  What a fold or a recursive  *)
(* function computes is taken from its definition as a function on an      *)
(* initial segment of Nat (Recursion, in Elements).                        *)
(***************************************************************************)
EXTENDS HttpClient, Elements, FiniteSetTheorems

-----------------------------------------------------------------------------
(* FlattenSeq *)

\* What the recursion of FlattenSeq computes.
LEMMA FlattenRuns ==
  ASSUME NEW S, NEW s \in Seq(Seq(S)), s # <<>>
  PROVE  \E f \in [1 .. Len(s) -> Seq(S)] :
             /\ f[1] = s[1] /\ \A i \in 2 .. Len(s) : f[i] = f[i - 1] \o s[i]
             /\ FlattenSeq(s) = f[Len(s)]
  <1>1. PICK n \in Nat : n = Len(s) /\ n > 0 /\ \A i \in 1 .. n : s[i] \in Seq(S)
    BY EmptySeq, LenProperties
  <1> DEFINE Runs(g) == g = [i \in 1 .. n |-> IF i = 1 THEN s[i] ELSE g[i - 1] \o s[i]]
             G == CHOOSE g : Runs(g)
  <1>2. \E g : Runs(g)
    <2> DEFINE step == [i \in 1 .. n |-> [q \in Seq(S) |-> q \o s[i]]]
    <2>1. step \in [1 .. n -> [Seq(S) -> Seq(S)]]
      BY <1>1, ConcatProperties
    <2>2. <<>> \in Seq(S)
      BY EmptySeq
    <2>3. \A i \in 1 .. n : \A q \in Seq(S) : step[i][q] = q \o s[i]
      OBVIOUS
    <2> HIDE DEF step
    <2>4. PICK f \in [0 .. n -> Seq(S)] :
              f[0] = <<>> /\ \A i \in 1 .. n : f[i] = step[i][f[i - 1]]
      <3>1. n \in Nat /\ step \in Steps(n, Seq(S))
        BY <1>1, <2>1 DEF Steps
      <3>2. PICK f : Follows(f, n, Seq(S), <<>>, step)
        BY <2>2, <3>1, Recursion
      <3> QED
        BY <3>2 DEF Follows
    <2>5. ASSUME NEW i \in 1 .. n PROVE f[i] = f[i - 1] \o s[i]
      <3>1. i - 1 \in 0 .. n
        BY <1>1
      <3>2. f[i - 1] \in Seq(S)
        BY <2>4, <3>1
      <3> QED
        BY <2>3, <2>4, <3>2
    <2>6. f[1] = s[1]
      <3>1. 1 \in 1 .. n /\ 1 - 1 = 0
        BY <1>1
      <3>2. f[1] = <<>> \o s[1]
        BY <2>4, <2>5, <3>1
      <3> QED
        BY <1>1, <3>1, <3>2, ConcatEmptySeq
    <2> DEFINE g == [i \in 1 .. n |-> f[i]]
    <2>7. Runs(g)
      <3>1. ASSUME NEW i \in 1 .. n PROVE g[i] = IF i = 1 THEN s[i] ELSE g[i - 1] \o s[i]
        <4>1. CASE i = 1
          BY <2>6, <4>1
        <4>2. CASE i # 1
          <5>1. i - 1 \in 1 .. n
            BY <1>1, <4>2
          <5> QED
            BY <2>5, <4>2, <5>1
        <4> QED
          BY <4>1, <4>2
      <3> QED
        BY <3>1
    <2> QED
      BY <2>7
  <1>3. Runs(G)
    <2> HIDE DEF Runs
    <2> QED
      BY <1>2
  <1>4. FlattenSeq(s) = G[n]
    BY <1>1 DEF FlattenSeq
  <1> HIDE DEF G
  <1>5. \A i \in 1 .. n : G[i] = IF i = 1 THEN s[i] ELSE G[i - 1] \o s[i]
    BY <1>3
  <1>6. \A i \in 1 .. n : G[i] \in Seq(S)
    <2> DEFINE T == {i \in Nat : i = 0 \/ G[i] \in Seq(S)}
    <2>1. \A i \in 1 .. n : i - 1 \in T => i \in T
      <3> SUFFICES ASSUME NEW i \in 1 .. n, i - 1 \in T PROVE G[i] \in Seq(S)
        OBVIOUS
      <3>1. CASE i = 1
        BY <1>1, <1>5, <3>1
      <3>2. CASE i # 1
        <4>1. G[i - 1] \in Seq(S)
          <5>1. i - 1 # 0
            BY <3>2
          <5> QED
            BY <5>1
        <4>2. s[i] \in Seq(S) /\ G[i] = G[i - 1] \o s[i]
          BY <1>1, <1>5, <3>2
        <4> QED
          BY <4>1, <4>2, ConcatProperties
      <3> QED
        BY <3>1, <3>2
    <2>2. 0 \in T
      OBVIOUS
    <2> HIDE DEF T
    <2>3. 0 .. n \subseteq T
      BY <2>1, <2>2, BoundedInduction
    <2> QED
      BY <2>3 DEF T
  <1>7. DOMAIN G = 1 .. n
    BY <1>3
  <1>8. G \in [1 .. n -> Seq(S)]
    BY <1>3, <1>6
  <1>9. G[1] = s[1] /\ \A i \in 2 .. n : G[i] = G[i - 1] \o s[i]
    <2>1. 1 \in 1 .. n /\ \A i \in 2 .. n : i \in 1 .. n /\ i # 1
      BY <1>1
    <2> QED
      BY <1>5, <2>1
  <1> HIDE DEF Runs
  <1>10. FlattenSeq(s) = G[Len(s)] /\ 1 .. n = 1 .. Len(s) /\ 2 .. n = 2 .. Len(s)
    BY <1>1, <1>4
  <1> QED
    BY <1>8, <1>9, <1>10, Zenon

LEMMA FlattenEmpty == FlattenSeq(<<>>) = <<>>
  <1>1. Len(<<>>) = 0
    BY EmptySeq
  <1> QED
    BY <1>1 DEF FlattenSeq

LEMMA FlattenType ==
  ASSUME NEW S, NEW s \in Seq(Seq(S))
  PROVE  FlattenSeq(s) \in Seq(S)
  <1>1. CASE s = <<>>
    BY <1>1, FlattenEmpty, EmptySeq
  <1>2. CASE s # <<>>
    <2>1. PICK f \in [1 .. Len(s) -> Seq(S)] : FlattenSeq(s) = f[Len(s)]
      BY <1>2, FlattenRuns
    <2>2. Len(s) \in 1 .. Len(s)
      BY <1>2, EmptySeq
    <2> QED
      BY <2>1, <2>2
  <1> QED
    BY <1>1, <1>2

LEMMA FlattenAppend ==
  ASSUME NEW S, NEW s \in Seq(Seq(S)), NEW x \in Seq(S)
  PROVE  FlattenSeq(Append(s, x)) = FlattenSeq(s) \o x
  <1>1. PICK n \in Nat : n = Len(s)
    BY LenProperties
  <1>2. PICK t : t = Append(s, x)
    OBVIOUS
  <1>3. /\ t \in Seq(Seq(S)) /\ t # <<>> /\ Len(t) = n + 1
        /\ t[n + 1] = x /\ \A i \in 1 .. n : t[i] = s[i]
    BY <1>1, <1>2, AppendProperties
  <1>4. PICK g \in [1 .. n + 1 -> Seq(S)] :
            /\ g[1] = t[1] /\ \A i \in 2 .. n + 1 : g[i] = g[i - 1] \o t[i]
            /\ FlattenSeq(t) = g[n + 1]
    <2>1. PICK g \in [1 .. Len(t) -> Seq(S)] :
              /\ g[1] = t[1] /\ \A i \in 2 .. Len(t) : g[i] = g[i - 1] \o t[i]
              /\ FlattenSeq(t) = g[Len(t)]
      BY <1>3, FlattenRuns
    <2> QED
      BY <1>3, <2>1
  <1>5. CASE s = <<>>
    <2>1. n = 0
      BY <1>1, <1>5, EmptySeq
    <2>2. FlattenSeq(t) = x
      BY <1>3, <1>4, <2>1
    <2> QED
      BY <1>2, <1>5, <2>2, FlattenEmpty, ConcatEmptySeq
  <1>6. CASE s # <<>>
    <2>1. n > 0
      BY <1>1, <1>6, EmptySeq
    <2>2. PICK f \in [1 .. n -> Seq(S)] :
              /\ f[1] = s[1] /\ \A i \in 2 .. n : f[i] = f[i - 1] \o s[i]
              /\ FlattenSeq(s) = f[n]
      <3>1. PICK f \in [1 .. Len(s) -> Seq(S)] :
                /\ f[1] = s[1] /\ \A i \in 2 .. Len(s) : f[i] = f[i - 1] \o s[i]
                /\ FlattenSeq(s) = f[Len(s)]
        BY <1>6, FlattenRuns
      <3> QED
        BY <1>1, <3>1
    <2>3. f[n] = g[n]
      <3> DEFINE T == {i \in 0 .. n : i = 0 \/ f[i] = g[i]}
      <3>1. ASSUME NEW i \in 1 .. n, i - 1 \in T PROVE i \in T
        <4>1. CASE i = 1
          BY <1>3, <1>4, <2>2, <4>1
        <4>2. CASE i # 1
          <5>1. i \in 2 .. n /\ i \in 2 .. n + 1 /\ i - 1 # 0
            BY <4>2
          <5>2. f[i - 1] = g[i - 1] /\ t[i] = s[i]
            BY <1>3, <3>1, <5>1
          <5>3. f[i] = f[i - 1] \o s[i]
            BY <2>2, <5>1
          <5>4. g[i] = g[i - 1] \o t[i]
            BY <1>4, <5>1
          <5>5. f[i] = g[i]
            BY <5>2, <5>3, <5>4
          <5> QED
            BY <5>5
        <4> QED
          BY <4>1, <4>2
      <3>2. 0 \in T
        OBVIOUS
      <3> HIDE DEF T
      <3>3. 0 .. n \subseteq T
        BY <3>1, <3>2, BoundedInduction
      <3>4. n \in 0 .. n
        OBVIOUS
      <3> QED
        BY <2>1, <3>3, <3>4 DEF T
    <2>4. n + 1 \in 2 .. n + 1 /\ (n + 1) - 1 = n
      BY <2>1
    <2>5. g[n + 1] = g[n] \o t[n + 1]
      BY <1>4, <2>4
    <2> QED
      BY <1>2, <1>3, <1>4, <2>2, <2>3, <2>5
  <1> QED
    BY <1>5, <1>6

LEMMA FlattenStep ==
  ASSUME NEW S, NEW s \in Seq(Seq(S)), NEW v \in Seq(Seq(S)), NEW x \in Seq(S),
         FlattenSeq(s \o v) = FlattenSeq(s) \o FlattenSeq(v)
  PROVE  FlattenSeq(s \o Append(v, x)) = FlattenSeq(s) \o FlattenSeq(Append(v, x))
  <1>1. s \o Append(v, x) = Append(s \o v, x) /\ s \o v \in Seq(Seq(S))
    <2>1. s \o v \in Seq(Seq(S)) /\ <<x>> \in Seq(Seq(S))
      BY ConcatProperties
    <2>2. Append(v, x) = v \o <<x>> /\ Append(s \o v, x) = (s \o v) \o <<x>>
      BY <2>1, AppendIsConcat
    <2> QED
      BY <2>1, <2>2, ConcatAssociative
  <1>2. PICK a \in Seq(S), b \in Seq(S) : a = FlattenSeq(s) /\ b = FlattenSeq(v)
    BY FlattenType
  <1>3. FlattenSeq(s \o Append(v, x)) = (a \o b) \o x
    BY <1>1, <1>2, FlattenAppend
  <1>4. FlattenSeq(Append(v, x)) = b \o x
    BY <1>2, FlattenAppend
  <1>5. (a \o b) \o x = a \o (b \o x)
    BY ConcatAssociative, SMTT(30)
  <1> QED
    BY <1>2, <1>3, <1>4, <1>5

LEMMA FlattenConcat ==
  ASSUME NEW S, NEW s \in Seq(Seq(S)), NEW t \in Seq(Seq(S))
  PROVE  FlattenSeq(s \o t) = FlattenSeq(s) \o FlattenSeq(t)
  <1> DEFINE Good(u) == FlattenSeq(s \o u) = FlattenSeq(s) \o FlattenSeq(u)
             T == {n \in Nat : \A u \in Seq(Seq(S)) : Len(u) = n => Good(u)}
  <1>1. 0 \in T
    <2> SUFFICES ASSUME NEW u \in Seq(Seq(S)), Len(u) = 0 PROVE Good(u)
      OBVIOUS
    <2>1. u = <<>>
      BY EmptySeq
    <2>2. FlattenSeq(s) \in Seq(S)
      BY FlattenType
    <2> QED
      BY <2>1, <2>2, FlattenEmpty, ConcatEmptySeq
  <1>2. ASSUME NEW n \in Nat, n \in T PROVE n + 1 \in T
    <2> SUFFICES ASSUME NEW u \in Seq(Seq(S)), Len(u) = n + 1 PROVE Good(u)
      OBVIOUS
    <2>1. u # <<>>
      BY EmptySeq
    <2>2. PICK v \in Seq(Seq(S)), x \in Seq(S) : u = Append(v, x)
      BY <2>1, SequenceEmptyOrAppend
    <2>3. Len(v) = n
      BY <2>2, AppendProperties, LenProperties
    <2>4. Good(v)
      BY <1>2, <2>3
    <2> QED
      BY <2>2, <2>4, FlattenStep
  <1> HIDE DEF T
  <1>3. Nat \subseteq T
    BY <1>1, <1>2, Induction
  <1>4. Len(t) \in Nat
    BY LenProperties
  <1> QED
    BY <1>3, <1>4 DEF T

LEMMA FlattenOne ==
  ASSUME NEW S, NEW x \in Seq(S)
  PROVE  FlattenSeq(<<x>>) = x
  <1>1. <<>> \in Seq(Seq(S)) /\ Append(<<>>, x) = <<x>>
    BY EmptySeq
  <1>2. FlattenSeq(Append(<<>>, x)) = FlattenSeq(<<>>) \o x
    BY <1>1, FlattenAppend
  <1> QED
    BY <1>1, <1>2, FlattenEmpty, ConcatEmptySeq

-----------------------------------------------------------------------------
(* Division *)

LEMMA DivModNamed ==
  ASSUME NEW a \in Nat, NEW b \in Nat, b > 0, NEW q, NEW r, q = a \div b, r = a % b
  PROVE  q \in Nat /\ r \in 0 .. b - 1 /\ a = q * b + r
  OBVIOUS

LEMMA DivMod ==
  ASSUME NEW a \in Nat, NEW b \in Nat \ {0}
  PROVE  \E q \in Nat, r \in 0 .. b - 1 : q = a \div b /\ r = a % b /\ a = q * b + r
  <1>1. PICK q, r : q = a \div b /\ r = a % b
    OBVIOUS
  <1>2. q \in Nat /\ r \in 0 .. b - 1 /\ a = q * b + r
    <2>1. b \in Nat /\ b > 0
      OBVIOUS
    <2> QED
      BY ONLY a \in Nat, <1>1, <2>1, DivModNamed
  <1> QED
    BY <1>1, <1>2

LEMMA Quotient ==
  ASSUME NEW a \in Nat, NEW b \in Nat \ {0}, NEW q \in Nat, NEW r \in Nat, r < b, a = q * b + r
  PROVE  a \div b = q
  OBVIOUS

LEMMA Product ==
  ASSUME NEW c \in Nat, NEW p \in Nat
  PROVE  c * p \in Nat /\ c * p = p * c
  OBVIOUS

LEMMA Products ==
  ASSUME NEW c \in Nat, NEW p \in Nat, NEW q \in Nat
  PROVE  (c * p) * q = c * (p * q) /\ (p + q) * c = p * c + q * c
  OBVIOUS

LEMMA Less ==
  ASSUME NEW c \in Nat \ {0}, NEW b \in Nat, NEW s \in 0 .. b - 1, NEW r \in 0 .. c - 1
  PROVE  s * c + r < b * c
  <1>1. PICK d \in Nat : b = (s + 1) + d
    <2>1. b - (s + 1) \in Nat /\ b = (s + 1) + (b - (s + 1))
      OBVIOUS
    <2> QED
      BY <2>1
  <1>2. b * c = (s + 1) * c + d * c
    BY <1>1, Products
  <1>3. (s + 1) * c = s * c + 1 * c /\ 1 * c = c
    BY Products
  <1>4. s * c \in Nat /\ d * c \in Nat
    BY Product
  <1> QED
    BY <1>2, <1>3, <1>4

\* a divided by c is x, of which division by b makes y and d.
Quotients(a, b, c, x, y, d) ==
    x = a \div c /\ y = a \div (b * c) /\ d = x % b /\ x = y * b + d

LEMMA QuotientsExist ==
  ASSUME NEW a \in Nat, NEW b \in Nat \ {0}, NEW c \in Nat \ {0}
  PROVE  \E x, y, d \in Nat : Quotients(a, b, c, x, y, d)
  <1>1. PICK m \in Nat : m = b * c
    BY Product
  <1>2. PICK x, y, d : x = a \div c /\ y = a \div m /\ d = x % b
    OBVIOUS
  <1>3. PICK r \in 0 .. c - 1 : a = x * c + r /\ x \in Nat
    <2>1. PICK q \in Nat, r \in 0 .. c - 1 : a = q * c + r /\ q = a \div c
      BY DivMod
    <2>2. q = x
      BY <1>2, <2>1
    <2> QED
      BY <2>1, <2>2
  <1>4. PICK z \in Nat, s \in 0 .. b - 1 : x = z * b + s /\ s = x % b
    BY <1>3, DivMod
  <1>5. PICK t \in Nat : t = s * c + r
    <2>1. s * c \in Nat
      BY Product
    <2> QED
      BY <2>1
  <1>6. x * c = z * m + s * c
    <2>1. x * c = (z * b) * c + s * c
      <3>1. PICK p \in Nat : p = z * b /\ x = p + s
        BY <1>4, Product
      <3>2. x * c = p * c + s * c
        BY <3>1, Products
      <3> QED
        BY <3>1, <3>2
    <2>2. (z * b) * c = z * (b * c)
      BY Products
    <2> QED
      BY <1>1, <2>1, <2>2
  <1>7. t < m
    BY <1>1, <1>5, Less
  <1>8. a = z * m + t
    BY <1>3, <1>5, <1>6
  <1>9. m \in Nat \ {0}
    BY <1>7
  <1>10. y = z
    BY <1>2, <1>7, <1>8, <1>9, Quotient
  <1>11. s = d
    BY <1>2, <1>4
  <1>12. x = y * b + s
    BY <1>4, <1>10
  <1>13. x \in Nat /\ y \in Nat /\ d \in Nat
    BY <1>3, <1>10, <1>11
  <1>14. x = y * b + d
    BY ONLY <1>11, <1>12
  <1>15. y = a \div (b * c)
    BY <1>1, <1>2
  <1> QED
    BY ONLY <1>2, <1>13, <1>14, <1>15 DEF Quotients

-----------------------------------------------------------------------------
(* Frames *)

LEMMA LengthsDef ==
  /\ Lengths \in [0 .. Width -> Nat] /\ Lengths[0] = 1
  /\ \A i \in 1 .. Width : Lengths[i] = Base * Lengths[i - 1]
  <1>1. PICK n \in Nat : n = Width
    BY FrameAssumption
  <1> DEFINE Runs(g) == g = [i \in 0 .. n |-> IF i = 0 THEN 1 ELSE Base * g[i - 1]]
             G == CHOOSE g : Runs(g)
  <1>2. \E g : Runs(g)
    <2> DEFINE step == [i \in 1 .. n |-> [q \in Nat |-> Base * q]]
    <2>1. step \in Steps(n, Nat) /\ \A i \in 1 .. n : \A q \in Nat : step[i][q] = Base * q
      BY FrameAssumption DEF Steps
    <2> HIDE DEF step
    <2>2. PICK f : Follows(f, n, Nat, 1, step)
      BY <2>1, Recursion
    <2>3. f \in [0 .. n -> Nat] /\ f[0] = 1 /\ \A i \in 1 .. n : f[i] = Base * f[i - 1]
      <3>1. f \in [0 .. n -> Nat] /\ f[0] = 1
        BY <2>2 DEF Follows
      <3>2. ASSUME NEW i \in 1 .. n PROVE f[i] = Base * f[i - 1]
        <4>1. f[i] = step[i][f[i - 1]] /\ f[i - 1] \in Nat
          BY <2>2, <3>1 DEF Follows
        <4> QED
          BY <2>1, <4>1
      <3> QED
        BY <3>1, <3>2
    <2>4. Runs(f)
      <3>1. \A i \in 0 .. n : f[i] = IF i = 0 THEN 1 ELSE Base * f[i - 1]
        BY <2>3
      <3> QED
        BY <2>3, <3>1
    <2> QED
      BY <2>4
  <1>3. Runs(G)
    <2> HIDE DEF Runs
    <2> QED
      BY <1>2
  <1>4. Lengths = G
    BY <1>1 DEF Lengths
  <1> HIDE DEF G
  <1>5. \A i \in 0 .. n : G[i] = IF i = 0 THEN 1 ELSE Base * G[i - 1]
    BY <1>3
  <1>6. \A i \in 0 .. n : G[i] \in Nat
    <2> DEFINE T == {i \in 0 .. n : G[i] \in Nat}
    <2>1. 0 \in T
      BY <1>5
    <2>2. ASSUME NEW i \in 1 .. n, i - 1 \in T PROVE i \in T
      <3>1. G[i] = Base * G[i - 1] /\ G[i - 1] \in Nat
        BY <1>5, <2>2
      <3> QED
        BY <3>1, FrameAssumption
    <2> HIDE DEF T
    <2>3. 0 .. n \subseteq T
      BY <2>1, <2>2, BoundedInduction
    <2> QED
      BY <2>3 DEF T
  <1>7. G \in [0 .. n -> Nat]
    BY <1>3, <1>6
  <1>8. G[0] = 1 /\ \A i \in 1 .. n : G[i] = Base * G[i - 1]
    BY <1>5
  <1> HIDE DEF Runs
  <1> QED
    BY <1>1, <1>4, <1>7, <1>8

LEMMA DecodeRuns ==
  ASSUME NEW buf \in Seq(Nat), Len(buf) >= Width
  PROVE  \E f \in [0 .. Width -> Nat] :
             /\ f[0] = 0 /\ \A i \in 1 .. Width : f[i] = f[i - 1] * Base + buf[i]
             /\ DecodeLen(buf) = f[Width]
  <1>1. PICK n \in Nat : n = Width /\ \A i \in 1 .. n : buf[i] \in Nat
    BY FrameAssumption, LenProperties
  <1> DEFINE Runs(g) == g = [i \in 0 .. n |-> IF i = 0 THEN 0 ELSE g[i - 1] * Base + buf[i]]
             G == CHOOSE g : Runs(g)
  <1>2. \E g : Runs(g)
    <2> DEFINE step == [i \in 1 .. n |-> [q \in Nat |-> q * Base + buf[i]]]
    <2>1. step \in Steps(n, Nat) /\ \A i \in 1 .. n : \A q \in Nat : step[i][q] = q * Base + buf[i]
      BY <1>1, FrameAssumption DEF Steps
    <2> HIDE DEF step
    <2>2. PICK f : Follows(f, n, Nat, 0, step)
      BY <2>1, Recursion
    <2>3. f \in [0 .. n -> Nat] /\ f[0] = 0 /\ \A i \in 1 .. n : f[i] = f[i - 1] * Base + buf[i]
      <3>1. f \in [0 .. n -> Nat] /\ f[0] = 0
        BY <2>2 DEF Follows
      <3>2. ASSUME NEW i \in 1 .. n PROVE f[i] = f[i - 1] * Base + buf[i]
        <4>1. f[i] = step[i][f[i - 1]] /\ f[i - 1] \in Nat
          BY <2>2, <3>1 DEF Follows
        <4> QED
          BY <2>1, <4>1
      <3> QED
        BY <3>1, <3>2
    <2>4. Runs(f)
      <3>1. \A i \in 0 .. n : f[i] = IF i = 0 THEN 0 ELSE f[i - 1] * Base + buf[i]
        BY <2>3
      <3> QED
        BY <2>3, <3>1
    <2> QED
      BY <2>4
  <1>3. Runs(G)
    <2> HIDE DEF Runs
    <2> QED
      BY <1>2
  <1>4. DecodeLen(buf) = G[n]
    BY <1>1 DEF DecodeLen
  <1> HIDE DEF G
  <1>5. \A i \in 0 .. n : G[i] = IF i = 0 THEN 0 ELSE G[i - 1] * Base + buf[i]
    BY <1>3
  <1>6. \A i \in 0 .. n : G[i] \in Nat
    <2> DEFINE T == {i \in 0 .. n : G[i] \in Nat}
    <2>1. 0 \in T
      BY <1>5
    <2>2. ASSUME NEW i \in 1 .. n, i - 1 \in T PROVE i \in T
      <3>1. G[i] = G[i - 1] * Base + buf[i]
        BY <1>5
      <3>2. G[i - 1] \in Nat /\ buf[i] \in Nat
        BY <1>1, <2>2
      <3> QED
        <4>1. PICK p \in Nat : p = G[i - 1] * Base
          BY <3>2, FrameAssumption, Product
        <4>2. G[i] \in Nat
          BY <3>1, <3>2, <4>1
        <4> QED
          BY <4>2
    <2> HIDE DEF T
    <2>3. 0 .. n \subseteq T
      BY <2>1, <2>2, BoundedInduction
    <2> QED
      BY <2>3 DEF T
  <1>7. G \in [0 .. n -> Nat]
    BY <1>3, <1>6
  <1>8. G[0] = 0 /\ \A i \in 1 .. n : G[i] = G[i - 1] * Base + buf[i]
    BY <1>5
  <1> HIDE DEF Runs
  <1> QED
    BY <1>1, <1>4, <1>7, <1>8

LEMMA LengthsPositive == \A i \in 0 .. Width : Lengths[i] \in Nat \ {0}
  <1> DEFINE T == {i \in 0 .. Width : Lengths[i] # 0}
  <1>1. 0 \in T
    BY LengthsDef, FrameAssumption
  <1>2. ASSUME NEW i \in 1 .. Width, i - 1 \in T PROVE i \in T
    <2>1. i - 1 \in 0 .. Width /\ i \in 0 .. Width
      BY FrameAssumption
    <2>2. PICK l \in Nat \ {0} : l = Lengths[i - 1]
      BY <1>2, <2>1, LengthsDef
    <2>3. Lengths[i] = Base * l /\ Base * l # 0
      BY <2>2, LengthsDef, FrameAssumption, SMTT(30)
    <2> QED
      BY <2>1, <2>3
  <1> HIDE DEF T
  <1>3. 0 .. Width \subseteq T
    BY <1>1, <1>2, BoundedInduction, FrameAssumption
  <1> QED
    BY <1>3, LengthsDef DEF T

LEMMA EncodeLenType ==
  ASSUME NEW len \in Nat
  PROVE  EncodeLen(len) \in Seq(Byte) /\ Len(EncodeLen(len)) = Width
  <1>1. ASSUME NEW i \in 1 .. Width PROVE (len \div Lengths[Width - i]) % Base \in Byte
    <2>1. Width - i \in 0 .. Width
      BY FrameAssumption
    <2>2. PICK l \in Nat \ {0} : l = Lengths[Width - i]
      BY <2>1, LengthsPositive
    <2>3. PICK q \in Nat : q = len \div l
      BY DivMod
    <2>4. q % Base \in Byte
      BY FrameAssumption DEF Byte
    <2> QED
      BY <2>2, <2>3, <2>4
  <1>2. EncodeLen(len) \in [1 .. Width -> Byte]
    BY <1>1 DEF EncodeLen
  <1> QED
    BY <1>2, FrameAssumption, SeqDef

\* What the reader makes of a prefix, whatever stands behind it.
LEMMA DecodeEncode ==
  ASSUME NEW len \in Nat, len < Lengths[Width], NEW buf \in Seq(Nat), Len(buf) >= Width,
         \A i \in 1 .. Width : buf[i] = EncodeLen(len)[i]
  PROVE  DecodeLen(buf) = len
  <1>1. PICK f \in [0 .. Width -> Nat] :
            /\ f[0] = 0 /\ \A i \in 1 .. Width : f[i] = f[i - 1] * Base + buf[i]
            /\ DecodeLen(buf) = f[Width]
    BY DecodeRuns
  <1> DEFINE T == {i \in 0 .. Width : f[i] = len \div Lengths[Width - i]}
  <1>2. 0 \in T
    <2>1. PICK l \in Nat \ {0} : l = Lengths[Width]
      BY LengthsPositive, FrameAssumption
    <2>2. len = 0 * l + len /\ len < l
      BY <2>1
    <2>3. len \div l = 0
      BY <2>2, Quotient
    <2>4. Width - 0 = Width
      BY FrameAssumption
    <2> QED
      BY <1>1, <2>1, <2>3, <2>4, FrameAssumption
  <1>3. ASSUME NEW i \in 1 .. Width, i - 1 \in T PROVE i \in T
    <2>1. Width - i \in 0 .. Width /\ Width - (i - 1) \in 1 .. Width
          /\ (Width - (i - 1)) - 1 = Width - i /\ i \in 0 .. Width
      BY FrameAssumption
    <2>2. PICK c \in Nat \ {0} : c = Lengths[Width - i]
      BY <2>1, LengthsPositive
    <2>3. PICK m \in Nat \ {0} : m = Lengths[Width - (i - 1)]
      <3>1. Width - (i - 1) \in 0 .. Width
        BY <2>1
      <3> QED
        BY <3>1, LengthsPositive
    <2>4. m = Base * c
      <3>1. Lengths[Width - (i - 1)] = Base * Lengths[(Width - (i - 1)) - 1]
        BY <2>1, LengthsDef
      <3> QED
        BY <2>1, <2>2, <2>3, <3>1
    <2>5. PICK x, y, d \in Nat :
              /\ x = len \div c /\ y = len \div (Base * c) /\ d = x % Base
              /\ x = y * Base + d
      <3>1. Base \in Nat \ {0}
        BY FrameAssumption
      <3>2. PICK x, y, d \in Nat : Quotients(len, Base, c, x, y, d)
        BY <3>1, QuotientsExist
      <3> QED
        BY <3>2 DEF Quotients
    <2>6. x = y * Base + d /\ y = len \div m
      BY <2>4, <2>5
    <2>7. f[i - 1] = y
      BY <1>3, <2>3, <2>6
    <2>8. buf[i] = d
      BY <2>2, <2>5 DEF EncodeLen
    <2>9. f[i] = x
      BY <1>1, <2>6, <2>7, <2>8
    <2> QED
      BY <2>1, <2>2, <2>5, <2>9
  <1>4. Width \in T
    <2> HIDE DEF T
    <2>1. 0 .. Width \subseteq T
      BY <1>2, <1>3, BoundedInduction, FrameAssumption
    <2> QED
      BY <2>1, FrameAssumption
  <1>5. len \div Lengths[0] = len
    BY LengthsDef
  <1>6. Width - Width = 0
    BY FrameAssumption
  <1> QED
    BY <1>1, <1>4, <1>5, <1>6

-----------------------------------------------------------------------------
(* Reading a frame *)

LEMMA ByteNat == Byte \subseteq Nat
  BY FrameAssumption DEF Byte

LEMMA FramedType ==
  ASSUME NEW item \in Seq(Byte)
  PROVE  Framed(item) \in Seq(Byte) /\ Len(Framed(item)) = Width + Len(item)
  <1>1. PICK e \in Seq(Byte) : e = EncodeLen(Len(item)) /\ Len(e) = Width
    BY EncodeLenType, LenProperties
  <1> QED
    BY <1>1, ConcatProperties DEF Framed

\* A whole frame at the beginning of a buffer, whatever its length says.
LEMMA FrameCut ==
  ASSUME NEW buf \in Seq(Byte), HasFrame(buf)
  PROVE  /\ FirstItem(buf) \in Seq(Byte) /\ AfterFrame(buf) \in Seq(Byte)
         /\ \E h \in Seq(Byte) : Len(h) = Width /\ buf = h \o (FirstItem(buf) \o AfterFrame(buf))
  <1>1. Len(buf) >= Width /\ buf \in Seq(Nat)
    BY ByteNat, SeqMonotonic DEF HasFrame
  <1>2. PICK d \in Nat : d = DecodeLen(buf)
    <2>1. PICK f \in [0 .. Width -> Nat] : DecodeLen(buf) = f[Width]
      BY <1>1, DecodeRuns
    <2> QED
      BY <2>1, FrameAssumption
  <1>3. PICK n \in Nat, w \in Nat : n = Len(buf) /\ w = Width /\ n >= w + d
    BY <1>2, LenProperties, FrameAssumption DEF HasFrame
  <1>4. PICK h \in Seq(Byte), r \in Seq(Byte) : /\ h = SubSeq(buf, 1, w + d) /\ r = SubSeq(buf, w + d + 1, n)
                                  /\ Len(h) = w + d /\ buf = h \o r
    <2>1. PICK k : k = w + d
      OBVIOUS
    <2>2. CutAt(Byte, buf, k)
      BY <1>3, <2>1 DEF CutAt
    <2>3. PICK p \in Seq(Byte), q \in Seq(Byte) : Parts(buf, k, p, q)
      BY <2>2, Split
    <2> QED
      BY <1>3, <2>1, <2>3 DEF Parts
  <1>5. PICK g \in Seq(Byte), j \in Seq(Byte) : /\ g = SubSeq(buf, 1, w) /\ j = SubSeq(buf, w + 1, w + d)
                                  /\ Len(g) = w /\ h = g \o j
    <2>1. \A i \in 1 .. n : buf[i] \in Byte
      BY <1>3, LenProperties
    <2>2. SubSeq(buf, 1, w) \in Seq(Byte) /\ Len(SubSeq(buf, 1, w)) = w
      BY <1>3, <2>1, SubSeqProperties
    <2>3. SubSeq(buf, w + 1, w + d) \in Seq(Byte)
      BY <1>3, <2>1, SubSeqProperties
    <2>4. SubSeq(buf, 1, w) \o SubSeq(buf, w + 1, w + d) = SubSeq(buf, 1, w + d)
      <3>1. /\ 1 \in 1 .. Len(buf) + 1 /\ w \in 1 - 1 .. Len(buf)
            /\ w + d \in w .. Len(buf)
        BY <1>3
      <3> QED
        BY <3>1, ConcatAdjacentSubSeq, SMTT(30)
    <2> QED
      BY <1>4, <2>2, <2>3, <2>4
  <1>6. buf = g \o (j \o r)
    <2>1. (g \o j) \o r = g \o (j \o r)
      <3>1. Three(Byte, g, j, r)
        BY DEF Three
      <3>2. Regrouped(g, j, r)
        BY <3>1, Regroup
      <3> QED
        BY <3>2 DEF Regrouped
    <2> QED
      BY <1>4, <1>5, <2>1
  <1>7. FirstItem(buf) = j /\ AfterFrame(buf) = r
    BY <1>2, <1>3, <1>4, <1>5 DEF FirstItem, AfterFrame
  <1> QED
    BY <1>3, <1>5, <1>6, <1>7

\* A frame at the beginning of what is buffered and under way, and what is read of it.
FrameAhead(buf, more, item, tail) ==
    /\ buf \in Seq(Byte) /\ more \in Seq(Byte) /\ item \in Seq(Byte) /\ tail \in Seq(Byte)
    /\ Fits(item) /\ buf \o more = Framed(item) \o tail
FrameBack(buf, more, item, tail) ==
    FirstItem(buf) = item /\ AfterFrame(buf) \o more = tail

\* The theorem on frames (types/frame.rs:20-65, types/stream.rs:376-407): whatever the width
\* of a length and its base, and wherever the network cuts, a reader finds an item that fits
\* its prefix just when all of its frame has arrived, finds it as it was written, and keeps
\* what stands behind it.
THEOREM FrameRead ==
  ASSUME NEW buf, NEW more, NEW item, NEW tail, FrameAhead(buf, more, item, tail)
  PROVE  /\ HasFrame(buf) <=> Len(buf) >= Len(Framed(item))
         /\ HasFrame(buf) => FrameBack(buf, more, item, tail)
  <1> /\ buf \in Seq(Byte) /\ more \in Seq(Byte) /\ item \in Seq(Byte) /\ tail \in Seq(Byte)
      /\ Fits(item) /\ buf \o more = Framed(item) \o tail
    BY DEF FrameAhead
  <1>1. PICK e \in Seq(Byte), w \in Nat, l \in Nat :
            e = EncodeLen(Len(item)) /\ Len(e) = w /\ w = Width /\ l = Len(item)
    BY EncodeLenType, LenProperties, FrameAssumption
  <1>2. PICK f \in Seq(Byte) : f = Framed(item) /\ f = e \o item /\ Len(f) = w + l
    BY <1>1, FramedType DEF Framed
  <1>3. PICK n \in Nat : n = Len(buf)
    BY LenProperties
  <1>4. ASSUME n >= w PROVE DecodeLen(buf) = l
    <2>1. buf \in Seq(Nat)
      BY ByteNat, SeqMonotonic
    <2>2. buf \o more = e \o (item \o tail) /\ item \o tail \in Seq(Byte)
      <3>1. (e \o item) \o tail = e \o (item \o tail)
        <4>1. Three(Byte, e, item, tail)
          BY DEF Three
        <4>2. Regrouped(e, item, tail)
          BY <4>1, Regroup
        <4> QED
          BY <4>2 DEF Regrouped
      <3> QED
        BY <1>2, <3>1, ConcatProperties
    <2>3. PICK q \in Seq(Byte) : buf = e \o q
      <3>1. Len(e) <= Len(buf)
        BY <1>1, <1>3, <1>4
      <3>2. Cuts(Byte, buf, more, e, item \o tail)
        BY <2>2 DEF Cuts
      <3> QED
        <4>1. PICK r \in Seq(Byte) : BeginsWith(buf, more, e, item \o tail, r)
          BY <3>1, <3>2, CutFirst
        <4> QED
          BY <4>1 DEF BeginsWith
    <2>4. \A i \in 1 .. w : buf[i] = e[i]
      <3>1. Len(q) \in Nat
        BY LenProperties
      <3> QED
        BY <1>1, <2>3, <3>1, ConcatProperties
    <2>5. l < Lengths[Width]
      BY <1>1 DEF Fits
    <2> QED
      BY <1>1, <1>3, <1>4, <2>1, <2>4, <2>5, DecodeEncode
  <1>5. HasFrame(buf) <=> n >= w + l
    BY <1>1, <1>3, <1>4 DEF HasFrame
  <1>6. ASSUME n >= w + l PROVE FirstItem(buf) = item /\ AfterFrame(buf) \o more = tail
    <2>1. DecodeLen(buf) = l
      BY <1>4, <1>6
    <2>2. PICK r \in Seq(Byte) : r = SubSeq(buf, w + l + 1, n) /\ r \o more = tail /\ buf = f \o r
      <3>1. Cuts(Byte, buf, more, f, tail)
        BY <1>2 DEF Cuts
      <3>2. Len(f) <= Len(buf)
        BY <1>2, <1>3, <1>6
      <3>3. PICK q \in Seq(Byte) : BeginsWith(buf, more, f, tail, q)
        BY <3>1, <3>2, CutFirst
      <3> QED
        BY <1>2, <1>3, <3>3 DEF BeginsWith
    <2>3. AfterFrame(buf) = r
      BY <1>1, <1>3, <2>1, <2>2 DEF AfterFrame
    <2>4. FirstItem(buf) = item
      <3>1. FirstItem(buf) = SubSeq(buf, w + 1, w + l)
        BY <1>1, <2>1 DEF FirstItem
      <3>2. PICK s : s = SubSeq(buf, w + 1, w + l)
        OBVIOUS
      <3>3. \A i \in 1 .. n : buf[i] \in Byte
        BY <1>3, LenProperties
      <3>4. s \in Seq(Byte) /\ Len(s) = l /\ \A i \in 1 .. l : s[i] = buf[w + i]
        BY <1>6, <3>2, <3>3, SubSeqProperties
      <3>5. Len(r) \in Nat /\ \A i \in 1 .. w + l : buf[i] = f[i]
        <4>1. Len(r) \in Nat
          BY LenProperties
        <4>2. ASSUME NEW i \in 1 .. w + l PROVE buf[i] = f[i]
          BY <1>2, <2>2, <4>1
        <4> QED
          BY <4>1, <4>2
      <3>6. ASSUME NEW i \in 1 .. l PROVE f[w + i] = item[i]
        <4>1. w + i \in 1 .. Len(e \o item) /\ ~(w + i <= Len(e)) /\ (w + i) - Len(e) = i
          BY <1>1, <1>2
        <4>2. (e \o item)[w + i] = item[(w + i) - Len(e)]
          BY <4>1, ConcatProperties
        <4> QED
          BY <1>2, <4>1, <4>2
      <3>7. ASSUME NEW i \in 1 .. l PROVE s[i] = item[i]
        <4>1. w + i \in 1 .. w + l
          OBVIOUS
        <4>2. buf[w + i] = f[w + i]
          BY <3>5, <4>1
        <4> QED
          BY <3>4, <3>6, <4>2
      <3>8. s = item
        BY <1>1, <3>4, <3>7, SeqEqual
      <3> QED
        BY <3>1, <3>2, <3>8
    <2> QED
      BY <2>2, <2>3, <2>4
  <1>7. HasFrame(buf) => FrameBack(buf, more, item, tail)
    BY <1>5, <1>6 DEF FrameBack
  <1>8. HasFrame(buf) <=> Len(buf) >= Len(Framed(item))
    BY <1>2, <1>3, <1>5
  <1> QED
    BY <1>7, <1>8

-----------------------------------------------------------------------------
(* Where a call is *)

Queued(b, c) == Has(queue[b], {c})

\* A call waits at one place: in the channel of the binding whose sender it has, or
\* with the task of that binding.
Places ==
    /\ \A b \in Binders : current[b] # None =>
           /\ call[current[b]] = "waiting" /\ config[current[b]] = b
           /\ ~Queued(b, current[b])
    /\ \A b \in Binders, c \in Calls :
           /\ Queued(b, c) => call[c] = "waiting" /\ config[c] = b
           /\ AtMostOne(queue[b], {c})

\* A call has a sender and an input from its start on, unless the path was not bound.
Requests ==
    \A c \in Calls :
        /\ call[c] = "idle" => config[c] = None
        /\ config[c] = None => call[c] \in {"idle", "failed"}
        /\ config[c] # None => input[c] \in Inputs[c]

CallsType ==
    /\ registry \in Binders \cup {None}
    /\ binding \in [Binders -> {"idle", "bound", "refused", "unbinding", "unbound"}]
    /\ task \in [Binders -> BOOLEAN]
    /\ queue \in [Binders -> Seq(Calls)]
    /\ \A b \in Binders : Len(queue[b]) <= Cap
    /\ current \in [Binders -> Calls \cup {None}]
    /\ call \in [Calls -> {"idle", "sending", "waiting", "failing", "sleeping",
                           "reading", "returned", "failed"}]
    /\ config \in [Calls -> Binders \cup {None}]
    /\ attempt \in [Calls -> 1 .. MaxRetries]
    /\ input \in [Calls -> Input \cup {None}]
    /\ \A c \in Calls : input[c] \in Inputs[c] \cup {None}

CallsInv == CallsType /\ Places /\ Requests

LEMMA CallsInit == Init => CallsInv
  <1> SUFFICES ASSUME Init PROVE CallsInv
    OBVIOUS
  <1>1. <<>> \in Seq(Calls) /\ Len(<<>>) = 0 /\ 1 \in 1 .. MaxRetries /\ Cap \in Nat
    BY EmptySeq, ClientBoundAssumption
  <1>2. CallsType
    <2>1. registry \in Binders \cup {None}
      BY ClientAssumption DEF Init
    <2> QED
      BY <1>1, <2>1 DEF Init, CallsType
  <1>3. Places
    <2>1. \A b \in Binders, c \in Calls : ~Queued(b, c) /\ AtMostOne(queue[b], {c})
      BY HasEmpty DEF Init, Queued
    <2> QED
      BY <2>1 DEF Init, Places
  <1>4. Requests
    BY DEF Init, Requests
  <1> QED
    BY <1>2, <1>3, <1>4 DEF CallsInv

LEMMA CallsBody == CallsInv /\ UNCHANGED <<bindingVars, callVars>> => CallsInv'
  <1> SUFFICES ASSUME CallsInv, UNCHANGED <<bindingVars, callVars>> PROVE CallsInv'
    OBVIOUS
  <1>1. UNCHANGED <<registry, binding, task, queue, current, call, config, attempt, input>>
    BY DEF bindingVars, callVars
  <1>2. CallsType'
    BY <1>1 DEF CallsInv, CallsType
  <1>3. Places' /\ Requests'
    BY <1>1 DEF CallsInv, Places, Requests, Queued
  <1> QED
    BY <1>2, <1>3 DEF CallsInv

LEMMA CallsBind ==
  ASSUME CallsInv, NEW b \in Binders, Bind(b) \/ UnbindRemove(b)
  PROVE  CallsInv'
  <1> USE DEF CallsInv
  <1>1. UNCHANGED <<queue, current, call, config, attempt, input>>
    BY DEF Bind, UnbindRemove, callVars
  <1>2. /\ registry' \in Binders \cup {None}
        /\ binding' \in [Binders -> {"idle", "bound", "refused", "unbinding", "unbound"}]
        /\ task' \in [Binders -> BOOLEAN]
    <2>1. CASE Bind(b)
      <3>1. task' \in [Binders -> BOOLEAN]
        <4>1. task' = [task EXCEPT ![b] = (registry = None)]
          BY <2>1, Zenon DEF Bind
        <4>2. (registry = None) \in BOOLEAN
          OBVIOUS
        <4>3. task \in [Binders -> BOOLEAN]
          BY DEF CallsType
        <4> QED
          BY <4>1, <4>2, <4>3, Zenon
      <3>2. /\ registry' \in Binders \cup {None}
            /\ binding' \in [Binders -> {"idle", "bound", "refused", "unbinding", "unbound"}]
        BY <2>1 DEF Bind, CallsType
      <3> QED
        BY <3>1, <3>2
    <2>2. CASE UnbindRemove(b)
      BY <2>2 DEF UnbindRemove, CallsType
    <2> QED
      BY <2>1, <2>2
  <1>3. CallsType'
    BY <1>1, <1>2 DEF CallsType
  <1>4. Places' /\ Requests'
    BY <1>1 DEF Places, Requests, Queued
  <1> QED
    BY <1>3, <1>4

LEMMA CallsUnbind ==
  ASSUME CallsInv, NEW b \in Binders, Unbind(b)
  PROVE  CallsInv'
  <1> USE DEF CallsInv
  <1>1. /\ UNCHANGED <<registry, config, attempt, input>>
        /\ binding' = [binding EXCEPT ![b] = "unbinding"]
        /\ task' = [task EXCEPT ![b] = FALSE]
        /\ queue' = [queue EXCEPT ![b] = <<>>]
        /\ current' = [current EXCEPT ![b] = None]
        /\ call' = [c \in Calls |-> IF c \in Held(b) THEN "failing" ELSE call[c]]
    BY DEF Unbind
  <1>2. <<>> \in Seq(Calls) /\ Len(<<>>) = 0 /\ Cap \in Nat
    BY EmptySeq, ClientBoundAssumption
  <1>3. CallsType'
    <2>1. task' \in [Binders -> BOOLEAN]
      <3>1. task \in [Binders -> BOOLEAN]
        BY DEF CallsType
      <3> QED
        BY <1>1, <3>1, Zenon
    <2>2. call' \in [Calls -> {"idle", "sending", "waiting", "failing", "sleeping",
                               "reading", "returned", "failed"}]
      BY <1>1 DEF CallsType
    <2> QED
      BY <1>1, <1>2, <2>1, <2>2 DEF CallsType
  <1>4. \A c \in Calls : c \in Held(b) <=> c = current[b] \/ Queued(b, c)
    <2>1. queue[b] \in Seq(Calls)
      BY DEF CallsType
    <2>2. DOMAIN queue[b] = 1 .. Len(queue[b])
      BY <2>1, LenProperties
    <2> QED
      BY <2>2 DEF Held, Queued, Has
  <1>5. ASSUME NEW c \in Calls PROVE c \in Held(b) => config[c] = b
    <2>1. CASE c = current[b]
      <3>1. current[b] # None
        BY <2>1, ClientNoneAssumption
      <3> QED
        BY <2>1, <3>1 DEF Places
    <2>2. CASE Queued(b, c)
      BY <2>2 DEF Places
    <2> QED
      BY <1>4, <2>1, <2>2
  <1>6. Places'
    <2>1. ASSUME NEW d \in Binders, current'[d] # None
          PROVE  /\ call'[current'[d]] = "waiting" /\ config'[current'[d]] = d
                 /\ ~Queued(d, current[d])'
      <3>1. d # b /\ current'[d] = current[d] /\ queue'[d] = queue[d] /\ current[d] \in Calls
        BY <1>1, <2>1 DEF CallsType
      <3>2. config[current[d]] = d /\ call[current[d]] = "waiting" /\ ~Queued(d, current[d])
        BY <2>1, <3>1 DEF Places
      <3> QED
        BY <1>1, <1>5, <3>1, <3>2 DEF Queued
    <2>2. ASSUME NEW d \in Binders, NEW c \in Calls
          PROVE  /\ Queued(d, c)' => call'[c] = "waiting" /\ config'[c] = d
                 /\ AtMostOne(queue[d], {c})'
      <3>1. CASE d = b
        <4>1. queue'[d] = <<>>
          BY <1>1, <3>1 DEF CallsType
        <4> QED
          BY <4>1, HasEmpty DEF Queued
      <3>2. CASE d # b
        <4>1. queue'[d] = queue[d]
          BY <1>1, <3>2 DEF CallsType
        <4>2. config[c] # b => call'[c] = call[c]
          BY <1>1, <1>5
        <4>3. Queued(d, c) => config[c] = d /\ call[c] = "waiting"
          BY DEF Places
        <4>4. AtMostOne(queue[d], {c})
          BY DEF Places
        <4> QED
          BY <1>1, <3>2, <4>1, <4>2, <4>3, <4>4 DEF Queued
      <3> QED
        BY <3>1, <3>2
    <2> QED
      BY <2>1, <2>2 DEF Places, Queued
  <1>7. Requests'
    <2>1. b # None
      BY ClientNoneAssumption
    <2> QED
      BY <1>1, <1>5, <2>1 DEF Requests
  <1> QED
    BY <1>3, <1>6, <1>7

LEMMA CallsTake ==
  ASSUME CallsInv, NEW b \in Binders, TaskTake(b)
  PROVE  CallsInv'
  <1> USE DEF CallsInv
  <1>1. /\ UNCHANGED <<registry, binding, task, call, config, attempt, input>>
        /\ queue' = [queue EXCEPT ![b] = Tail(@)]
        /\ current' = [current EXCEPT ![b] = Head(queue[b])]
        /\ queue[b] # <<>>
    BY DEF TaskTake, callVars
  <1>2. PICK n \in Nat : n = Len(queue[b]) /\ n > 0 /\ n <= Cap
    BY <1>1, LenProperties, EmptySeq DEF CallsType
  <1>3. Head(queue[b]) \in Calls /\ Tail(queue[b]) \in Seq(Calls) /\ Len(Tail(queue[b])) = n - 1
    BY <1>1, <1>2, HeadTailProperties DEF CallsType
  <1>4. Cap \in Nat
    BY ClientBoundAssumption
  <1>5. CallsType'
    <2>1. \A d \in Binders : Len(queue'[d]) <= Cap
      BY <1>1, <1>2, <1>3, <1>4 DEF CallsType
    <2> QED
      BY <1>1, <1>3, <2>1 DEF CallsType
  <1>6. ASSUME NEW c \in Calls
        PROVE  /\ Queued(b, c) <=> c = Head(queue[b]) \/ Queued(b, c)'
               /\ AtMostOne(queue[b], {c})' /\ ~(c = Head(queue[b]) /\ Queued(b, c)')
    <2>1. queue'[b] = Tail(queue[b]) /\ queue[b] \in Seq(Calls)
      BY <1>1 DEF CallsType
    <2>2. AtMostOne(queue[b], {c})
      BY DEF Places
    <2> QED
      BY <1>1, <2>1, <2>2, HasTail DEF Queued
  <1>7. ASSUME NEW d \in Binders, d # b PROVE queue'[d] = queue[d] /\ current'[d] = current[d]
    BY <1>1, <1>7 DEF CallsType
  <1>8. current'[b] = Head(queue[b])
    BY <1>1 DEF CallsType
  <1>9. Places'
    <2>1. ASSUME NEW d \in Binders, NEW c \in Calls
          PROVE  /\ Queued(d, c)' => Queued(d, c)
                 /\ AtMostOne(queue[d], {c})'
      BY <1>6, <1>7 DEF Places, Queued
    <2>2. ASSUME NEW d \in Binders, current'[d] # None
          PROVE  /\ call'[current'[d]] = "waiting" /\ config'[current'[d]] = d
                 /\ ~Queued(d, current[d])'
      <3>1. CASE d = b
        <4>1. PICK c \in Calls : c = Head(queue[b])
          BY <1>3
        <4>2. Queued(b, c) /\ ~Queued(b, c)'
          BY <1>6, <4>1
        <4>3. call[c] = "waiting" /\ config[c] = b
          BY <4>2 DEF Places
        <4> QED
          BY <1>1, <1>8, <3>1, <4>1, <4>2, <4>3, ZenonT(30) DEF Queued
      <3>2. CASE d # b
        BY <1>1, <1>7, <2>2, <3>2 DEF Places, Queued
      <3> QED
        BY <3>1, <3>2
    <2> QED
      BY <1>1, <2>1, <2>2 DEF Places, Queued
  <1>10. Requests'
    BY <1>1 DEF Requests
  <1> QED
    BY <1>5, <1>9, <1>10

LEMMA CallsOver ==
  ASSUME CallsInv, NEW b \in Binders, Respond(b) \/ Break(b)
  PROVE  CallsInv'
  <1> USE DEF CallsInv
  <1>1. PICK c \in Calls, e \in {"reading", "failing"} :
            /\ c = current[b] /\ call' = [call EXCEPT ![c] = e]
            /\ current' = [current EXCEPT ![b] = None]
            /\ UNCHANGED <<registry, binding, task, queue, config, attempt, input>>
    <2>1. CASE Respond(b)
      BY <2>1 DEF Respond, CallsType
    <2>2. CASE Break(b)
      <3>1. current[b] \in Calls
        BY <2>2, ClientAssumption DEF Break
      <3> QED
        BY <2>2, <3>1 DEF Break
    <2> QED
      BY <2>1, <2>2
  <1>2. config[c] = b /\ ~Queued(b, c) /\ c # None
    BY <1>1, ClientNoneAssumption DEF Places
  <1>3. CallsType'
    BY <1>1 DEF CallsType
  <1>4. ASSUME NEW d \in Binders, current'[d] # None
        PROVE  d # b /\ current'[d] = current[d] /\ current[d] # c
    BY <1>1, <1>2, <1>4 DEF CallsType, Places
  <1>5. Places'
    <2>1. ASSUME NEW d \in Binders, NEW k \in Calls, Queued(d, k) PROVE call'[k] = call[k]
      <3>1. config[k] = d
        BY <2>1 DEF Places
      <3>2. k # c
        BY <1>2, <2>1, <3>1
      <3> QED
        BY <1>1, <3>2 DEF CallsType
    <2>2. ASSUME NEW d \in Binders, current'[d] # None
          PROVE  /\ call'[current'[d]] = "waiting" /\ config'[current'[d]] = d
                 /\ ~Queued(d, current[d])'
      <3>1. /\ call[current[d]] = "waiting" /\ config[current[d]] = d
            /\ ~Queued(d, current[d])
        BY <1>4, <2>2 DEF Places
      <3>2. call'[current[d]] = call[current[d]]
        BY <1>1, <1>4, <2>2 DEF CallsType
      <3> QED
        BY <1>1, <1>4, <2>2, <3>1, <3>2 DEF Queued
    <2> QED
      BY <1>1, <2>1, <2>2, SMTT(30) DEF Places, Queued
  <1>6. Requests'
    BY <1>1, <1>2, ClientNoneAssumption DEF Requests, CallsType
  <1> QED
    BY <1>3, <1>5, <1>6

LEMMA CallsStart ==
  ASSUME CallsInv, NEW c \in Calls, CallStart(c)
  PROVE  CallsInv'
  <1> USE DEF CallsInv
  <1>1. UNCHANGED <<registry, binding, task, queue, current, attempt>> /\ call[c] = "idle"
    BY DEF CallStart, bindingVars
  <1>2. \/ call' = [call EXCEPT ![c] = "failed"] /\ UNCHANGED <<config, input>>
        \/ \E i \in Inputs[c] :
               /\ registry # None /\ call' = [call EXCEPT ![c] = "sending"]
               /\ config' = [config EXCEPT ![c] = registry]
               /\ input' = [input EXCEPT ![c] = i]
    BY DEF CallStart
  <1>3. CallsType'
    <2>1. Inputs[c] \subseteq Input
      BY ClientAssumption
    <2>2. CASE call' = [call EXCEPT ![c] = "failed"] /\ UNCHANGED <<config, input>>
      BY <1>1, <2>2 DEF CallsType
    <2>3. ASSUME NEW i \in Inputs[c], registry # None, call' = [call EXCEPT ![c] = "sending"],
                 config' = [config EXCEPT ![c] = registry], input' = [input EXCEPT ![c] = i]
          PROVE  CallsType'
      <3>1. config' \in [Calls -> Binders \cup {None}]
        BY <2>3 DEF CallsType
      <3>2. input' \in [Calls -> Input \cup {None}]
        BY <2>1, <2>3 DEF CallsType
      <3>3. \A k \in Calls : input'[k] \in Inputs[k] \cup {None}
        BY <2>3 DEF CallsType
      <3>4. call' \in [Calls -> {"idle", "sending", "waiting", "failing", "sleeping",
                                 "reading", "returned", "failed"}]
        BY <2>3 DEF CallsType
      <3> QED
        BY <1>1, <3>1, <3>2, <3>3, <3>4 DEF CallsType
    <2> QED
      BY <1>2, <2>2, <2>3
  <1>4. ASSUME NEW k \in Calls, k # c
        PROVE  call'[k] = call[k] /\ config'[k] = config[k] /\ input'[k] = input[k]
    BY <1>2, <1>4 DEF CallsType
  <1>5. Places'
    <2>1. ASSUME NEW b \in Binders, NEW k \in Calls, Queued(b, k) PROVE k # c
      BY <1>1, <2>1 DEF Places
    <2>2. ASSUME NEW b \in Binders, current[b] # None PROVE current[b] # c
      BY <1>1, <2>2 DEF Places
    <2>3. ASSUME NEW b \in Binders, NEW k \in Calls
          PROVE  /\ Queued(b, k)' => call'[k] = "waiting" /\ config'[k] = b
                 /\ AtMostOne(queue[b], {k})'
      BY <1>1, <1>4, <2>1 DEF Places, Queued
    <2>4. ASSUME NEW b \in Binders, current'[b] # None
          PROVE  /\ call'[current'[b]] = "waiting" /\ config'[current'[b]] = b
                 /\ ~Queued(b, current[b])'
      <3>1. current[b] \in Calls
        BY <1>1, <2>4 DEF CallsType
      <3> QED
        BY <1>1, <1>4, <2>2, <2>4, <3>1 DEF Places, Queued
    <2> QED
      BY <2>3, <2>4 DEF Places, Queued
  <1>6. Requests'
    <2>1. ASSUME NEW k \in Calls
          PROVE  /\ call'[k] = "idle" => config'[k] = None
                 /\ config'[k] = None => call'[k] \in {"idle", "failed"}
                 /\ config'[k] # None => input'[k] \in Inputs[k]
      <3>1. CASE k = c
        BY <1>1, <1>2, <3>1 DEF Requests, CallsType
      <3>2. CASE k # c
        BY <1>4, <3>2 DEF Requests
      <3> QED
        BY <3>1, <3>2
    <2> QED
      BY <2>1 DEF Requests
  <1> QED
    BY <1>3, <1>5, <1>6

LEMMA CallsSend ==
  ASSUME CallsInv, NEW c \in Calls, CallSend(c)
  PROVE  CallsInv'
  <1> USE DEF CallsInv
  <1>1. /\ call[c] = "sending"
        /\ UNCHANGED <<registry, binding, task, current, config, attempt, input>>
    BY DEF CallSend
  <1>2. PICK b \in Binders : b = config[c]
    BY <1>1 DEF Requests, CallsType
  <1>3. \/ /\ Len(queue[b]) < Cap /\ queue' = [queue EXCEPT ![b] = Append(@, c)]
           /\ call' = [call EXCEPT ![c] = "waiting"]
        \/ call' = [call EXCEPT ![c] = "failing"] /\ UNCHANGED queue
    <2>1. CASE task[b]
      BY <1>2, <2>1, Zenon DEF CallSend
    <2>2. CASE ~task[b]
      BY <1>2, <2>2, Zenon DEF CallSend
    <2> QED
      BY <2>1, <2>2
  <1>4. \A d \in Binders : ~Queued(d, c) /\ current[d] # c
    <2>1. ASSUME NEW d \in Binders PROVE ~Queued(d, c) /\ current[d] # c
      <3>1. ~Queued(d, c)
        BY <1>1 DEF Places
      <3>2. ASSUME current[d] = c PROVE FALSE
        BY <1>1, <3>2, ClientNoneAssumption DEF Places
      <3> QED
        BY <3>1, <3>2
    <2> QED
      BY <2>1
  <1>5. CallsType'
    <2>1. CASE queue' = queue
      BY <1>1, <1>3, <2>1 DEF CallsType
    <2>2. CASE queue' # queue
      <3>1. PICK n \in Nat : n = Len(queue[b]) /\ n < Cap /\ Cap \in Nat
        BY <1>3, <2>2, LenProperties, ClientBoundAssumption DEF CallsType
      <3>2. Append(queue[b], c) \in Seq(Calls) /\ Len(Append(queue[b], c)) = n + 1
        BY <3>1, AppendProperties DEF CallsType
      <3>3. /\ queue' = [queue EXCEPT ![b] = Append(@, c)]
            /\ call' = [call EXCEPT ![c] = "waiting"]
        BY <1>3, <2>2
      <3>4. ASSUME NEW d \in Binders PROVE Len(queue'[d]) <= Cap
        BY <3>1, <3>2, <3>3 DEF CallsType
      <3>5. queue' \in [Binders -> Seq(Calls)]
        BY <3>2, <3>3 DEF CallsType
      <3> QED
        BY <1>1, <3>3, <3>4, <3>5 DEF CallsType
    <2> QED
      BY <2>1, <2>2
  <1>6. ASSUME NEW d \in Binders, NEW k \in Calls
        PROVE  /\ Queued(d, k)' => call'[k] = "waiting" /\ config'[k] = d
               /\ AtMostOne(queue[d], {k})'
               /\ k # c => (Queued(d, k)' <=> Queued(d, k))
    <2>1. AtMostOne(queue[d], {k}) /\ queue[d] \in Seq(Calls)
      BY DEF Places, CallsType
    <2>2. k # c => call'[k] = call[k]
      BY <1>3 DEF CallsType
    <2>3. Queued(d, k) => call[k] = "waiting" /\ config[k] = d
      BY DEF Places
    <2>4. CASE queue'[d] = queue[d]
      BY <1>1, <1>4, <2>1, <2>2, <2>3, <2>4 DEF Queued
    <2>5. CASE queue'[d] # queue[d]
      <3>1. /\ d = b /\ queue'[d] = Append(queue[d], c)
            /\ call' = [call EXCEPT ![c] = "waiting"]
        BY <1>3, <2>5 DEF CallsType
      <3>2. call'[c] = "waiting"
        BY <3>1 DEF CallsType
      <3>3. Queued(d, k)' <=> Queued(d, k) \/ k = c
        BY <2>1, <3>1, HasAppend DEF Queued
      <3>4. AtMostOne(queue[d], {k})'
        <4>1. c \in {k} => ~Has(queue[d], {k})
          BY <1>4 DEF Queued
        <4> QED
          BY <2>1, <3>1, <4>1, HasAppend
      <3> QED
        BY <1>1, <1>2, <2>2, <2>3, <3>1, <3>2, <3>3, <3>4
    <2> QED
      BY <2>4, <2>5
  <1>7. Places'
    <2>1. ASSUME NEW d \in Binders, current'[d] # None
          PROVE  /\ call'[current'[d]] = "waiting" /\ config'[current'[d]] = d
                 /\ ~Queued(d, current[d])'
      <3>1. PICK k \in Calls : k = current[d] /\ k # c
        BY <1>1, <1>4, <2>1 DEF CallsType
      <3>2. call[k] = "waiting" /\ config[k] = d /\ ~Queued(d, k)
        BY <1>1, <2>1, <3>1 DEF Places
      <3>3. call'[k] = call[k]
        BY <1>3, <3>1 DEF CallsType
      <3>4. ~Queued(d, k)'
        BY <1>6, <3>1, <3>2
      <3> QED
        BY <1>1, <3>1, <3>2, <3>3, <3>4 DEF Queued
    <2> QED
      BY <1>6, <2>1 DEF Places, Queued
  <1>8. Requests'
    <2>1. config[c] # None
      BY <1>2, ClientNoneAssumption
    <2> QED
      BY <1>1, <1>3, <2>1 DEF Requests, CallsType
  <1> QED
    BY <1>5, <1>7, <1>8

LEMMA CallsRetry ==
  ASSUME CallsInv, NEW c \in Calls, CallRetry(c) \/ CallWake(c) \/ CallReturn(c)
  PROVE  CallsInv'
  <1> USE DEF CallsInv
  <1>1. /\ UNCHANGED <<registry, binding, task, queue, current, config, input>>
        /\ call[c] \in {"failing", "sleeping", "reading"}
    BY DEF CallRetry, CallWake, CallReturn, bindingVars
  <1>2. PICK e \in {"sleeping", "failed", "sending", "returned"} : call' = [call EXCEPT ![c] = e]
    BY DEF CallRetry, CallWake, CallReturn
  <1>3. attempt' \in [Calls -> 1 .. MaxRetries]
    <2>1. CASE attempt' = attempt
      BY <2>1 DEF CallsType
    <2>2. CASE attempt' # attempt
      <3>1. attempt[c] < MaxRetries /\ attempt' = [attempt EXCEPT ![c] = @ + 1]
        BY <2>2 DEF CallRetry, CallWake, CallReturn
      <3>2. attempt[c] + 1 \in 1 .. MaxRetries
        BY <3>1, ClientBoundAssumption DEF CallsType
      <3> QED
        BY <3>1, <3>2 DEF CallsType
    <2> QED
      BY <2>1, <2>2
  <1>4. CallsType'
    BY <1>1, <1>2, <1>3 DEF CallsType
  <1>5. Places'
    <2>1. ASSUME NEW b \in Binders, NEW k \in Calls, Queued(b, k) PROVE call'[k] = call[k]
      <3>1. k # c
        BY <1>1, <2>1 DEF Places
      <3> QED
        BY <1>2, <3>1 DEF CallsType
    <2>2. ASSUME NEW b \in Binders, current[b] # None PROVE call'[current[b]] = call[current[b]]
      <3>1. current[b] # c
        BY <1>1, <2>2 DEF Places
      <3> QED
        BY <1>2, <2>2, <3>1 DEF CallsType
    <2> QED
      BY <1>1, <2>1, <2>2 DEF Places, Queued
  <1>6. Requests'
    BY <1>1, <1>2 DEF Requests, CallsType
  <1> QED
    BY <1>4, <1>5, <1>6

LEMMA CallsNext == CallsInv /\ [Next]_vars => CallsInv'
  <1> SUFFICES ASSUME CallsInv, [Next]_vars PROVE CallsInv'
    OBVIOUS
  <1>1. CASE UNCHANGED vars
    BY <1>1, CallsBody DEF vars
  <1>2. CASE \E b \in Binders :
                 Bind(b) \/ Unbind(b) \/ UnbindRemove(b) \/ TaskTake(b) \/ Respond(b) \/ Break(b)
    BY <1>2, CallsBind, CallsUnbind, CallsTake, CallsOver
  <1>3. CASE \E c \in Calls : CallStart(c) \/ CallSend(c) \/ CallRetry(c) \/ CallWake(c) \/ CallReturn(c)
    BY <1>3, CallsStart, CallsSend, CallsRetry
  <1>4. CASE \E c \in Calls : Upload(c) \/ ServerChunk(c) \/ ServerItem(c) \/ ServerEnd(c)
    <2>1. UNCHANGED <<bindingVars, callVars>>
      BY <1>4 DEF Upload, ServerChunk, ServerItem, ServerEnd
    <2> QED
      BY <2>1, CallsBody
  <1> QED
    BY <1>1, <1>2, <1>3, <1>4 DEF Next

-----------------------------------------------------------------------------
(* The body of a call *)

Part == [items : Seq(Seq(Byte)), end : Ends]

\* The last part goes on, and is in a state.
Goes(parts, items, end) ==
    Append(Front(parts), [items |-> Last(parts).items \o items, end |-> end])

FrontAndLast(s, f, l) ==
    f = Front(s) /\ l = Last(s) /\ s = Append(f, l) /\ Len(s) = Len(f) + 1

LEMMA LastFront ==
  ASSUME NEW S, NEW s \in Seq(S), s # <<>>
  PROVE  \E f \in Seq(S), l \in S : FrontAndLast(s, f, l)
  <1>1. PICK n \in Nat : n = Len(s) /\ n > 0 /\ \A i \in 1 .. n : s[i] \in S
    BY LenProperties, EmptySeq
  <1>2. PICK f \in Seq(S) :
            f = SubSeq(s, 1, n - 1) /\ Len(f) = n - 1 /\ \A i \in 1 .. n - 1 : f[i] = s[i]
    <2>1. PICK f : f = SubSeq(s, 1, n - 1)
      OBVIOUS
    <2>2. f \in Seq(S) /\ Len(f) = n - 1
      BY <1>1, <2>1
    <2>3. \A i \in 1 .. n - 1 : f[i] = s[i]
      BY <1>1, <2>1
    <2> QED
      BY <2>1, <2>2, <2>3
  <1>3. PICK l \in S : l = s[n]
    BY <1>1
  <1>4. PICK a \in Seq(S) :
            a = Append(f, l) /\ Len(a) = n /\ a[n] = l /\ \A i \in 1 .. n - 1 : a[i] = f[i]
    <2>1. PICK a : a = Append(f, l)
      OBVIOUS
    <2>2. a \in Seq(S) /\ Len(a) = n /\ a[n] = l
      BY <1>1, <1>2, <2>1
    <2>3. \A i \in 1 .. n - 1 : a[i] = f[i]
      BY <1>1, <1>2, <2>1
    <2> QED
      BY <2>1, <2>2, <2>3
  <1>5. ASSUME NEW i \in 1 .. n PROVE a[i] = s[i]
    <2>1. CASE i = n
      BY <1>3, <1>4, <2>1
    <2>2. CASE i # n
      <3>1. i \in 1 .. n - 1
        BY <2>2
      <3> QED
        BY <1>2, <1>4, <3>1
    <2> QED
      BY <2>1, <2>2
  <1>6. a = s
    BY <1>1, <1>4, <1>5, SeqEqual
  <1> QED
    BY <1>1, <1>2, <1>3, <1>4, <1>6, SMTT(30) DEF Front, Last, FrontAndLast

LEMMA LastAppend ==
  ASSUME NEW S, NEW s \in Seq(S), NEW e \in S
  PROVE  /\ Append(s, e) \in Seq(S) /\ Append(s, e) # <<>> /\ Len(Append(s, e)) = Len(s) + 1
         /\ Last(Append(s, e)) = e
  <1>0. PICK a : a = Append(s, e)
    OBVIOUS
  <1>1. PICK n \in Nat : a = Append(s, e) /\ n = Len(s)
    BY <1>0, LenProperties
  <1>2. a \in Seq(S) /\ Len(a) = n + 1 /\ a[n + 1] = e
    BY <1>1, AppendProperties
  <1>3. a # <<>>
    BY <1>1, <1>2, EmptySeq
  <1> QED
    BY <1>1, <1>2, <1>3 DEF Last

LEMMA GoesType ==
  ASSUME NEW parts \in Seq(Part), parts # <<>>, NEW items \in Seq(Seq(Byte)), NEW end \in Ends
  PROVE  /\ Goes(parts, items, end) \in Seq(Part) /\ Len(Goes(parts, items, end)) = Len(parts)
         /\ Goes(parts, items, end) # <<>> /\ Last(Goes(parts, items, end)).end = end
  <1>1. PICK f \in Seq(Part), l \in Part :
            f = Front(parts) /\ l = Last(parts) /\ Len(parts) = Len(f) + 1
    BY LastFront DEF FrontAndLast
  <1>2. PICK r \in Part : r = [items |-> l.items \o items, end |-> end]
    BY ConcatProperties DEF Part
  <1>3. PICK a \in Seq(Part) : a = Append(f, r) /\ a # <<>> /\ Len(a) = Len(f) + 1 /\ Last(a) = r
    BY LastAppend
  <1>4. a = Goes(parts, items, end)
    BY <1>1, <1>2, <1>3 DEF Goes
  <1>5. r.end = end
    BY <1>2
  <1>6. Len(a) = Len(parts) /\ Last(a).end = end
    BY <1>1, <1>3, <1>5
  <1> QED
    BY <1>3, <1>4, <1>6

LEMMA EndedWithGoes ==
  ASSUME served \in [Calls -> Seq(Part)], NEW c \in Calls, served[c] # <<>>,
         NEW items \in Seq(Seq(Byte)), NEW end \in Ends, NEW w, w = EndedWith(c, items, end)
  PROVE  /\ w \in [Calls -> Seq(Part)] /\ w[c] = Goes(served[c], items, end)
         /\ \A d \in Calls \ {c} : w[d] = served[d]
  <1>1. PICK f \in Seq(Part), l \in Part : f = Front(served[c]) /\ l = Last(served[c])
    BY LastFront DEF FrontAndLast
  <1>2. PICK r \in Part : r = [items |-> l.items \o items, end |-> end]
    BY ConcatProperties DEF Part
  <1>3. f \o <<r>> = Append(f, r) /\ f \o <<r>> \in Seq(Part)
    BY AppendProperties, ConcatProperties
  <1>4. w = [served EXCEPT ![c] = f \o <<r>>]
    BY <1>1, <1>2 DEF EndedWith
  <1>5. Goes(served[c], items, end) = Append(f, r)
    BY <1>1, <1>2 DEF Goes
  <1> QED
    BY <1>3, <1>4, <1>5

\* An attempt of the call has not been made yet.
Fresh(c) ==
    call[c] \in {"idle", "sending", "sleeping"} \/ \E b \in Binders : Queued(b, c)

BodiesType ==
    /\ rest \in [Calls -> Seq(Seq(Byte))]
    /\ wire \in [Calls -> Seq(Byte)]
    /\ buffer \in [Calls -> Seq(Byte)]
    /\ served \in [Calls -> Seq(Part)]

\* What a call has of its body.
Body(c) ==
    /\ Len(served[c]) <= attempt[c] /\ (Fresh(c) => Len(served[c]) < attempt[c])
    /\ config[c] = None => rest[c] = <<>> /\ served[c] = <<>>
    /\ InProgress(c) => served[c] # <<>>
    /\ ~InProgress(c) => /\ wire[c] = <<>> /\ buffer[c] = <<>>
                         /\ served[c] # <<>> => Last(served[c]).end # "open"
    /\ InProgress(c) /\ Last(served[c]).end # "open" =>
           rest[c] = <<>> /\ wire[c] = <<>> /\ buffer[c] = <<>>

BodiesInv == BodiesType /\ \A c \in Calls : Body(c)

-----------------------------------------------------------------------------
(* A step, seen from one call *)

Keeps(c) == config'[c] = config[c] /\ input'[c] = input[c]

Idles(c) ==
    /\ Keeps(c) /\ attempt'[c] >= attempt[c]
    /\ Fresh(c)' /\ ~Fresh(c) => attempt'[c] > attempt[c]
    /\ InProgress(c)' <=> InProgress(c)
    /\ rest'[c] = rest[c] /\ wire'[c] = wire[c] /\ buffer'[c] = buffer[c]
    /\ served'[c] = served[c]

Begins(c) ==
    /\ config[c] = None /\ config'[c] \in Binders /\ input'[c] \in Inputs[c]
    /\ attempt'[c] = attempt[c] /\ ~InProgress(c) /\ ~InProgress(c)'
    /\ rest'[c] = Chunks(input'[c]) /\ wire'[c] = wire[c] /\ buffer'[c] = buffer[c]
    /\ served'[c] = served[c]

\* The other moves are those of an attempt.
Attempts(c) == Keeps(c) /\ config[c] # None /\ attempt'[c] = attempt[c] /\ ~Fresh(c)'
Within(c) == Attempts(c) /\ InProgress(c) /\ InProgress(c)'

Takes(c) ==
    /\ Attempts(c) /\ Fresh(c) /\ ~InProgress(c) /\ InProgress(c)'
    /\ rest'[c] = (IF input[c].mode = "bytes" THEN Chunks(input[c]) ELSE rest[c])
    /\ wire'[c] = wire[c] /\ buffer'[c] = buffer[c]
    /\ served'[c] = Append(served[c], [items |-> <<>>, end |-> "open"])

Uploads(c) ==
    /\ Within(c)
    /\ rest[c] # <<>> /\ rest'[c] = Tail(rest[c]) /\ wire'[c] = wire[c] \o Head(rest[c])
    /\ buffer'[c] = buffer[c] /\ served'[c] = served[c]

Receives(c, x) ==
    /\ rest'[c] = rest[c] /\ wire[c] = x \o wire'[c] /\ wire'[c] \in Seq(Byte)
    /\ IF input[c].mode = "raw"
       THEN served'[c] = Goes(served[c], <<x>>, "open") /\ buffer'[c] = buffer[c]
       ELSE buffer'[c] = buffer[c] \o x /\ served'[c] = served[c]
Arrives(c) ==
    /\ Within(c) /\ Last(served[c]).end = "open"
    /\ \E x \in Seq(Byte) : Receives(c, x)

Reads(c) ==
    /\ Within(c) /\ Last(served[c]).end = "open" /\ Framing(c) /\ HasFrame(buffer[c])
    /\ rest'[c] = rest[c] /\ wire'[c] = wire[c] /\ buffer'[c] = AfterFrame(buffer[c])
    /\ served'[c] = Goes(served[c], <<FirstItem(buffer[c])>>, "open")

Finishes(c) ==
    /\ Within(c) /\ Last(served[c]).end = "open"
    /\ rest[c] = <<>> /\ wire[c] = <<>> /\ rest'[c] = <<>> /\ wire'[c] = <<>>
    /\ buffer'[c] = <<>>
    /\ Framing(c) => ~HasFrame(buffer[c])
    /\ served'[c] = IF Framing(c)
           THEN Goes(served[c], <<>>, IF buffer[c] = <<>> THEN "clean" ELSE "incomplete")
           ELSE Goes(served[c], IF input[c].mode = "bytes" THEN <<buffer[c]>> ELSE <<>>, "clean")

Drops(c) ==
    /\ Attempts(c) /\ InProgress(c) /\ ~InProgress(c)'
    /\ rest'[c] = rest[c] /\ wire'[c] = <<>> /\ buffer'[c] = <<>>
    /\ \/ Last(served[c]).end # "open" /\ served'[c] = served[c]
       \/ /\ Last(served[c]).end = "open" /\ input[c].mode = "bytes"
          /\ served'[c] = Goes(served[c], <<buffer[c]>>, "lost")
       \/ \E e \in {"lost", "left"} :
              Last(served[c]).end = "open" /\ served'[c] = Goes(served[c], <<>>, e)

Moves(c) ==
    Idles(c) \/ Begins(c) \/ Takes(c) \/ Uploads(c) \/ Arrives(c) \/ Reads(c) \/ Finishes(c)
        \/ Drops(c)

\* A call that no action names.
LEMMA Elsewhere ==
  ASSUME NEW c \in Calls, Keeps(c), attempt'[c] = attempt[c], Fresh(c)' => Fresh(c),
         InProgress(c)' <=> InProgress(c), rest'[c] = rest[c], wire'[c] = wire[c],
         buffer'[c] = buffer[c], served'[c] = served[c], CallsType
  PROVE  Moves(c)
  <1>1. attempt[c] \in Nat
    BY ClientBoundAssumption DEF CallsType
  <1>2. attempt'[c] >= attempt[c]
    BY <1>1
  <1> QED
    BY <1>2 DEF Moves, Idles

LEMMA BodyStart ==
  ASSUME CallsInv, BodiesInv, NEW c \in Calls, CallStart(c)
  PROVE  BodiesType' /\ \A d \in Calls : Moves(d)
  <1> USE DEF CallsInv, BodiesInv
  <1>1. /\ UNCHANGED <<registry, binding, task, queue, current, attempt, wire, buffer, served>>
        /\ call[c] = "idle"
    BY DEF CallStart, bindingVars
  <1>2. config[c] = None /\ ~InProgress(c)
    <2>1. \A b \in Binders : current[b] # c
      BY <1>1, ClientNoneAssumption DEF Places
    <2> QED
      BY <1>1, <2>1 DEF Requests, InProgress
  <1>3. \A d \in Calls : InProgress(d)' <=> InProgress(d)
    BY <1>1 DEF InProgress
  <1>4. \A d \in Calls, b \in Binders : Queued(b, d)' <=> Queued(b, d)
    BY <1>1 DEF Queued
  <1>5. CASE registry = None
    <2>1. UNCHANGED <<config, input, rest>> /\ call' = [call EXCEPT ![c] = "failed"]
      BY <1>5 DEF CallStart
    <2>2. BodiesType'
      BY <1>1, <2>1 DEF BodiesType
    <2>3. ASSUME NEW d \in Calls PROVE Fresh(d)' => Fresh(d)
      BY <1>4, <2>1 DEF Fresh, CallsType
    <2>4. ASSUME NEW d \in Calls PROVE Moves(d)
      BY <1>1, <1>3, <2>1, <2>3, Elsewhere DEF Keeps
    <2> QED
      BY <2>2, <2>4
  <1>6. CASE registry # None
    <2>1. PICK i \in Inputs[c] :
              /\ call' = [call EXCEPT ![c] = "sending"]
              /\ config' = [config EXCEPT ![c] = registry]
              /\ input' = [input EXCEPT ![c] = i]
              /\ rest' = [rest EXCEPT ![c] = Chunks(i)]
      BY <1>6 DEF CallStart
    <2>2. Chunks(i) \in Seq(Seq(Byte))
      <3>1. i \in Input /\ i.items \in Seq(Seq(Byte))
        BY ClientAssumption DEF Input
      <3>2. DOMAIN i.items = 1 .. Len(i.items) /\ Len(i.items) \in Nat
        BY <3>1, LenProperties
      <3>3. ASSUME NEW k \in DOMAIN i.items PROVE Framed(i.items[k]) \in Seq(Byte)
        BY <3>1, FramedType
      <3>4. [k \in DOMAIN i.items |-> Framed(i.items[k])] \in Seq(Seq(Byte))
        BY <3>2, <3>3
      <3> QED
        BY <3>1, <3>4 DEF Chunks
    <2>3. BodiesType'
      BY <1>1, <2>1, <2>2 DEF BodiesType
    <2>4. Begins(c)
      <3>1. registry \in Binders
        BY <1>6 DEF CallsType
      <3>2. config'[c] = registry /\ input'[c] = i
        BY <2>1 DEF CallsType
      <3>3. rest'[c] = Chunks(i)
        BY <2>1 DEF BodiesType
      <3> QED
        BY <1>1, <1>2, <1>3, <3>1, <3>2, <3>3 DEF Begins
    <2>5. ASSUME NEW d \in Calls, d # c PROVE Moves(d)
      <3>1. call'[d] = call[d] /\ Keeps(d) /\ rest'[d] = rest[d]
        BY <2>1, <2>5 DEF Keeps, CallsType, BodiesType
      <3>2. Fresh(d)' => Fresh(d)
        BY <1>4, <3>1 DEF Fresh
      <3> QED
        BY <1>1, <1>3, <3>1, <3>2, Elsewhere
    <2> QED
      BY <2>3, <2>4, <2>5 DEF Moves
  <1> QED
    BY <1>5, <1>6

\* The steps that move no body.
LEMMA BodyIdle ==
  ASSUME CallsInv, BodiesInv, UNCHANGED <<current, config, input, bodyVars>>,
         \A c \in Calls : attempt'[c] >= attempt[c] /\ (Fresh(c)' /\ ~Fresh(c) => attempt'[c] > attempt[c])
  PROVE  BodiesType' /\ \A c \in Calls : Moves(c)
  <1>1. UNCHANGED <<rest, wire, buffer, served>>
    BY DEF bodyVars
  <1>2. BodiesType'
    BY <1>1 DEF BodiesInv, BodiesType
  <1>3. ASSUME NEW c \in Calls PROVE Idles(c)
    <2>1. InProgress(c)' <=> InProgress(c)
      BY DEF InProgress
    <2> QED
      BY <1>1, <2>1 DEF Idles, Keeps
  <1> QED
    BY <1>2, <1>3 DEF Moves

LEMMA BodySend ==
  ASSUME CallsInv, BodiesInv, NEW c \in Calls, CallSend(c) \/ CallRetry(c) \/ CallWake(c) \/ CallReturn(c)
  PROVE  BodiesType' /\ \A d \in Calls : Moves(d)
  <1> USE DEF CallsInv
  <1>1. UNCHANGED <<current, config, input, bodyVars>>
    BY DEF CallSend, CallRetry, CallWake, CallReturn, bindingVars
  <1>2. ASSUME NEW d \in Calls
        PROVE attempt'[d] >= attempt[d] /\ (Fresh(d)' /\ ~Fresh(d) => attempt'[d] > attempt[d])
    <2>1. attempt[d] \in Nat
      BY ClientBoundAssumption DEF CallsType
    <2>2. CASE CallSend(c)
      <3>1. attempt' = attempt /\ call[c] = "sending"
        BY <2>2 DEF CallSend
      <3>2. Fresh(d)' => Fresh(d)
        <4>1. CASE d = c
          BY <3>1, <4>1 DEF Fresh
        <4>2. CASE d # c
          <5>1. call'[d] = call[d]
            BY <2>2, <4>2 DEF CallSend, CallsType
          <5>2. ASSUME NEW b \in Binders PROVE Queued(b, d)' => Queued(b, d)
            <6>1. CASE queue'[b] = queue[b]
              BY <6>1 DEF Queued
            <6>2. CASE queue'[b] # queue[b]
              <7>1. queue'[b] = Append(queue[b], c)
                <8>1. queue' = [queue EXCEPT ![config[c]] = Append(@, c)]
                  <9>1. CASE task[config[c]]
                    BY <2>2, <9>1, Zenon DEF CallSend
                  <9>2. CASE ~task[config[c]]
                    <10>1. queue' = queue
                      BY <2>2, <9>2, Zenon DEF CallSend
                    <10> QED
                      BY <6>2, <10>1
                  <9> QED
                    BY <9>1, <9>2
                <8> QED
                  BY <6>2, <8>1 DEF CallsType
              <7>2. queue[b] \in Seq(Calls) /\ c \notin {d}
                BY <4>2 DEF CallsType
              <7> QED
                BY <7>1, <7>2, HasAppend DEF Queued
            <6> QED
              BY <6>1, <6>2
          <5> QED
            BY <5>1, <5>2 DEF Fresh
        <4> QED
          BY <4>1, <4>2
      <3> QED
        BY <2>1, <3>1, <3>2
    <2>3. CASE CallRetry(c) \/ CallWake(c) \/ CallReturn(c)
      <3>1. queue' = queue
        BY <2>3 DEF CallRetry, CallWake, CallReturn, bindingVars
      <3>2. CASE d = c
        <4>1. CASE CallRetry(c)
          <5>1. \/ attempt'[d] = attempt[d] + 1
                \/ attempt'[d] = attempt[d] /\ call'[d] = "failed"
            BY <3>2, <4>1 DEF CallRetry, CallsType
          <5>2. attempt'[d] = attempt[d] /\ call'[d] = "failed" => (Fresh(d)' => Fresh(d))
            BY <3>1 DEF Fresh, Queued
          <5> QED
            BY <2>1, <5>1, <5>2
        <4>2. CASE CallWake(c)
          <5>1. attempt' = attempt /\ call[d] = "sleeping"
            BY <3>2, <4>2 DEF CallWake
          <5> QED
            BY <2>1, <5>1 DEF Fresh
        <4>3. CASE CallReturn(c)
          <5>1. attempt' = attempt /\ call'[d] = "returned"
            BY <3>2, <4>3 DEF CallReturn, CallsType
          <5>2. Fresh(d)' => Fresh(d)
            BY <3>1, <5>1 DEF Fresh, Queued
          <5> QED
            BY <2>1, <5>1, <5>2
        <4> QED
          BY <2>3, <4>1, <4>2, <4>3
      <3>3. CASE d # c
        <4>1. call'[d] = call[d] /\ attempt'[d] = attempt[d]
          BY <2>3, <3>3 DEF CallRetry, CallWake, CallReturn, CallsType
        <4>2. Fresh(d)' => Fresh(d)
          BY <3>1, <4>1 DEF Fresh, Queued
        <4> QED
          BY <2>1, <4>1, <4>2
      <3> QED
        BY <3>2, <3>3
    <2> QED
      BY <2>2, <2>3
  <1> QED
    BY <1>1, <1>2, BodyIdle

LEMMA BodyBind ==
  ASSUME CallsInv, BodiesInv,
         (\E b \in Binders : Bind(b) \/ UnbindRemove(b)) \/ UNCHANGED vars
  PROVE  BodiesType' /\ \A c \in Calls : Moves(c)
  <1>1. UNCHANGED <<queue, current, call, config, attempt, input, bodyVars>>
    BY DEF Bind, UnbindRemove, vars, bindingVars, callVars
  <1>2. ASSUME NEW c \in Calls
        PROVE attempt'[c] >= attempt[c] /\ (Fresh(c)' /\ ~Fresh(c) => attempt'[c] > attempt[c])
    <2>1. attempt[c] \in Nat
      BY ClientBoundAssumption DEF CallsInv, CallsType
    <2>2. Fresh(c)' => Fresh(c)
      BY <1>1 DEF Fresh, Queued
    <2> QED
      BY <1>1, <2>1, <2>2
  <1> QED
    BY <1>1, <1>2, BodyIdle

LEMMA InProgressCall ==
  ASSUME CallsInv, NEW c \in Calls, InProgress(c)
  PROVE  config[c] # None /\ ~Fresh(c)
  <1> USE DEF CallsInv
  <1>1. PICK b \in Binders : current[b] = c
    BY DEF InProgress
  <1>2. call[c] = "waiting" /\ config[c] = b /\ ~Queued(b, c)
    BY <1>1, ClientNoneAssumption DEF Places
  <1>3. ASSUME NEW d \in Binders PROVE ~Queued(d, c)
    BY <1>2 DEF Places
  <1> QED
    BY <1>2, <1>3, ClientNoneAssumption DEF Fresh

\* The steps of the connection: others see nothing of them.
LEMMA BodyWithin ==
  ASSUME CallsInv, BodiesInv, NEW c \in Calls, UNCHANGED <<bindingVars, callVars>>,
         \A d \in Calls \ {c} : /\ rest'[d] = rest[d] /\ wire'[d] = wire[d]
                                /\ buffer'[d] = buffer[d] /\ served'[d] = served[d],
         InProgress(c)
  PROVE  Within(c) /\ \A d \in Calls \ {c} : Moves(d)
  <1> USE DEF CallsInv
  <1>1. UNCHANGED <<queue, current, call, config, attempt, input>>
    BY DEF bindingVars, callVars
  <1>2. \A d \in Calls : (Fresh(d)' <=> Fresh(d)) /\ (InProgress(d)' <=> InProgress(d)) /\ Keeps(d)
    BY <1>1 DEF Fresh, Queued, InProgress, Keeps
  <1>3. Within(c)
    BY <1>1, <1>2, InProgressCall DEF Within, Attempts
  <1>4. ASSUME NEW d \in Calls \ {c} PROVE Moves(d)
    <2>1. attempt'[d] = attempt[d]
      BY <1>1
    <2> QED
      BY <1>2, <2>1, Elsewhere
  <1> QED
    BY <1>3, <1>4

LEMMA BodyUpload ==
  ASSUME CallsInv, BodiesInv, NEW c \in Calls, Upload(c)
  PROVE  BodiesType' /\ \A d \in Calls : Moves(d)
  <1> USE DEF BodiesInv
  <1>1. /\ InProgress(c) /\ rest[c] # <<>>
        /\ wire' = [wire EXCEPT ![c] = @ \o Head(rest[c])]
        /\ rest' = [rest EXCEPT ![c] = Tail(@)]
        /\ UNCHANGED <<bindingVars, callVars, buffer, served>>
    BY DEF Upload
  <1>2. rest[c] \in Seq(Seq(Byte)) /\ wire[c] \in Seq(Byte)
    BY DEF BodiesType
  <1>3. Head(rest[c]) \in Seq(Byte) /\ Tail(rest[c]) \in Seq(Seq(Byte))
    BY <1>1, <1>2, HeadTailProperties
  <1>4. wire[c] \o Head(rest[c]) \in Seq(Byte)
    BY <1>2, <1>3, ConcatProperties
  <1>5. BodiesType'
    BY <1>1, <1>3, <1>4 DEF BodiesType
  <1>6. \A d \in Calls \ {c} : /\ rest'[d] = rest[d] /\ wire'[d] = wire[d]
                               /\ buffer'[d] = buffer[d] /\ served'[d] = served[d]
    BY <1>1 DEF BodiesType
  <1>7. Within(c) /\ \A d \in Calls \ {c} : Moves(d)
    BY <1>1, <1>6, BodyWithin
  <1>8. Uploads(c)
    <2>1. rest'[c] = Tail(rest[c]) /\ wire'[c] = wire[c] \o Head(rest[c])
      BY <1>1 DEF BodiesType
    <2> QED
      BY <1>1, <1>7, <2>1 DEF Uploads
  <1> QED
    BY <1>5, <1>7, <1>8 DEF Moves

LEMMA BodyChunk ==
  ASSUME CallsInv, BodiesInv, NEW c \in Calls, ServerChunk(c)
  PROVE  BodiesType' /\ \A d \in Calls : Moves(d)
  <1> USE DEF BodiesInv
  <1>1. InProgress(c) /\ Last(served[c]).end = "open"
        /\ UNCHANGED <<bindingVars, callVars, rest>>
    BY DEF ServerChunk, Reading
  <1>0. PICK n \in 1 .. Len(wire[c]) :
            LET chunk == SubSeq(wire[c], 1, n) IN
            /\ wire' = [wire EXCEPT ![c] = SubSeq(@, n + 1, Len(@))]
            /\ IF input[c].mode = "raw"
               THEN served' = EndedWith(c, <<chunk>>, "open") /\ UNCHANGED buffer
               ELSE buffer' = [buffer EXCEPT ![c] = @ \o chunk] /\ UNCHANGED served
    BY DEF ServerChunk
  <1>2. PICK x :
            /\ x = SubSeq(wire[c], 1, n)
            /\ wire' = [wire EXCEPT ![c] = SubSeq(@, n + 1, Len(@))]
            /\ IF input[c].mode = "raw"
               THEN served' = EndedWith(c, <<x>>, "open") /\ UNCHANGED buffer
               ELSE buffer' = [buffer EXCEPT ![c] = @ \o x] /\ UNCHANGED served
    BY <1>0
  <1>3. served[c] # <<>>
    BY <1>1 DEF Body
  <1>4. PICK y \in Seq(Byte) :
            /\ x \in Seq(Byte) /\ y = SubSeq(wire[c], n + 1, Len(wire[c])) /\ wire[c] = x \o y
    <2>1. CutAt(Byte, wire[c], n)
      <3>1. wire[c] \in Seq(Byte) /\ Len(wire[c]) \in Nat
        BY LenProperties DEF BodiesType
      <3> QED
        BY <3>1 DEF CutAt
    <2>2. PICK p \in Seq(Byte), q \in Seq(Byte) : Parts(wire[c], n, p, q)
      BY <2>1, Split
    <2> QED
      BY <1>2, <2>2 DEF Parts
  <1>5. wire' \in [Calls -> Seq(Byte)] /\ wire'[c] = y /\ \A d \in Calls \ {c} : wire'[d] = wire[d]
    BY <1>2, <1>4 DEF BodiesType
  <1>6. /\ buffer' \in [Calls -> Seq(Byte)] /\ served' \in [Calls -> Seq(Part)]
        /\ \A d \in Calls \ {c} : buffer'[d] = buffer[d] /\ served'[d] = served[d]
        /\ Receives(c, x)
    <2>1. CASE input[c].mode = "raw"
      <3>1. served' = EndedWith(c, <<x>>, "open") /\ buffer' = buffer
        BY <1>2, <2>1
      <3>2. <<x>> \in Seq(Seq(Byte)) /\ "open" \in Ends /\ served \in [Calls -> Seq(Part)]
        BY <1>4 DEF BodiesType, Ends
      <3>3. /\ served' \in [Calls -> Seq(Part)] /\ served'[c] = Goes(served[c], <<x>>, "open")
            /\ \A d \in Calls \ {c} : served'[d] = served[d]
        <4>1. PICK s \in Seq(Seq(Byte)), e \in Ends : s = <<x>> /\ e = "open"
          BY <3>2
        <4>2. served' = EndedWith(c, s, e)
          BY <3>1, <4>1
        <4>3. /\ served' \in [Calls -> Seq(Part)] /\ served'[c] = Goes(served[c], s, e)
              /\ \A d \in Calls \ {c} : served'[d] = served[d]
          BY <1>3, <3>2, <4>2, EndedWithGoes
        <4> QED
          BY <4>1, <4>3
      <3> QED
        BY <1>1, <1>4, <1>5, <2>1, <3>1, <3>3 DEF BodiesType, Receives
    <2>2. CASE input[c].mode # "raw"
      <3>1. buffer' = [buffer EXCEPT ![c] = @ \o x] /\ served' = served
        BY <1>2, <2>2
      <3>2. buffer[c] \o x \in Seq(Byte)
        BY <1>4, ConcatProperties DEF BodiesType
      <3>3. /\ buffer' \in [Calls -> Seq(Byte)] /\ buffer'[c] = buffer[c] \o x
            /\ \A d \in Calls \ {c} : buffer'[d] = buffer[d]
        BY <3>1, <3>2 DEF BodiesType
      <3> QED
        BY <1>1, <1>4, <1>5, <2>2, <3>1, <3>3 DEF BodiesType, Receives
    <2> QED
      BY <2>1, <2>2
  <1>7. BodiesType'
    BY <1>1, <1>5, <1>6 DEF BodiesType
  <1>8. Within(c) /\ \A d \in Calls \ {c} : Moves(d)
    BY <1>1, <1>5, <1>6, BodyWithin
  <1>9. Arrives(c)
    BY <1>1, <1>4, <1>6, <1>8 DEF Arrives
  <1> QED
    BY <1>7, <1>8, <1>9 DEF Moves

LEMMA BodyItem ==
  ASSUME CallsInv, BodiesInv, NEW c \in Calls, ServerItem(c)
  PROVE  BodiesType' /\ \A d \in Calls : Moves(d)
  <1> USE DEF BodiesInv
  <1>1. /\ InProgress(c) /\ Last(served[c]).end = "open" /\ Framing(c) /\ HasFrame(buffer[c])
        /\ served' = EndedWith(c, <<FirstItem(buffer[c])>>, "open")
        /\ buffer' = [buffer EXCEPT ![c] = AfterFrame(@)]
        /\ UNCHANGED <<bindingVars, callVars, rest, wire>>
    BY DEF ServerItem, Reading
  <1>2. served[c] # <<>> /\ served \in [Calls -> Seq(Part)]
    BY <1>1 DEF Body, BodiesType
  <1>3. FirstItem(buffer[c]) \in Seq(Byte) /\ AfterFrame(buffer[c]) \in Seq(Byte)
    BY <1>1, FrameCut DEF BodiesType
  <1>4. <<FirstItem(buffer[c])>> \in Seq(Seq(Byte)) /\ "open" \in Ends
    BY <1>3 DEF Ends
  <1>5. /\ served' \in [Calls -> Seq(Part)]
        /\ served'[c] = Goes(served[c], <<FirstItem(buffer[c])>>, "open")
        /\ \A d \in Calls \ {c} : served'[d] = served[d]
    <2>1. PICK s \in Seq(Seq(Byte)), e \in Ends : s = <<FirstItem(buffer[c])>> /\ e = "open"
      BY <1>4
    <2>2. served' = EndedWith(c, s, e)
      BY <1>1, <2>1
    <2>3. /\ served' \in [Calls -> Seq(Part)] /\ served'[c] = Goes(served[c], s, e)
          /\ \A d \in Calls \ {c} : served'[d] = served[d]
      BY <1>2, <2>2, EndedWithGoes
    <2> QED
      BY <2>1, <2>3
  <1>6. /\ buffer' \in [Calls -> Seq(Byte)] /\ buffer'[c] = AfterFrame(buffer[c])
        /\ \A d \in Calls \ {c} : buffer'[d] = buffer[d]
    BY <1>1, <1>3 DEF BodiesType
  <1>7. BodiesType'
    BY <1>1, <1>5, <1>6 DEF BodiesType
  <1>8. Within(c) /\ \A d \in Calls \ {c} : Moves(d)
    BY <1>1, <1>5, <1>6, BodyWithin
  <1>9. Reads(c)
    BY <1>1, <1>5, <1>6, <1>8 DEF Reads
  <1> QED
    BY <1>7, <1>8, <1>9 DEF Moves

LEMMA BodyEnd ==
  ASSUME CallsInv, BodiesInv, NEW c \in Calls, ServerEnd(c)
  PROVE  BodiesType' /\ \A d \in Calls : Moves(d)
  <1> USE DEF BodiesInv
  <1>1. /\ InProgress(c) /\ Last(served[c]).end = "open"
        /\ rest[c] = <<>> /\ wire[c] = <<>> /\ (Framing(c) => ~HasFrame(buffer[c]))
        /\ buffer' = [buffer EXCEPT ![c] = <<>>]
        /\ UNCHANGED <<bindingVars, callVars, rest, wire>>
    BY DEF ServerEnd, Reading
  <1>2. served[c] # <<>> /\ served \in [Calls -> Seq(Part)] /\ buffer[c] \in Seq(Byte)
    BY <1>1 DEF Body, BodiesType
  <1>3. PICK x \in Seq(Seq(Byte)), e \in Ends :
            /\ served' = EndedWith(c, x, e)
            /\ Goes(served[c], x, e) =
                   IF Framing(c)
                   THEN Goes(served[c], <<>>, IF buffer[c] = <<>> THEN "clean" ELSE "incomplete")
                   ELSE Goes(served[c], IF input[c].mode = "bytes" THEN <<buffer[c]>> ELSE <<>>,
                             "clean")
    <2>1. /\ <<>> \in Seq(Seq(Byte)) /\ <<buffer[c]>> \in Seq(Seq(Byte))
          /\ {"clean", "incomplete"} \subseteq Ends
      BY <1>2 DEF Ends
    <2>2. CASE Framing(c)
      <3>1. PICK e \in Ends : e = IF buffer[c] = <<>> THEN "clean" ELSE "incomplete"
        BY <2>1
      <3>2. served' = EndedWith(c, <<>>, e)
        BY <2>2, <3>1 DEF ServerEnd
      <3> QED
        BY <2>1, <2>2, <3>1, <3>2
    <2>3. CASE ~Framing(c)
      <3>1. PICK x \in Seq(Seq(Byte)) : x = IF input[c].mode = "bytes" THEN <<buffer[c]>> ELSE <<>>
        BY <2>1
      <3>2. served' = EndedWith(c, x, "clean")
        BY <2>3, <3>1 DEF ServerEnd
      <3> QED
        BY <2>1, <2>3, <3>1, <3>2
    <2> QED
      BY <2>2, <2>3
  <1>4. /\ served' \in [Calls -> Seq(Part)] /\ served'[c] = Goes(served[c], x, e)
        /\ \A d \in Calls \ {c} : served'[d] = served[d]
    BY <1>2, <1>3, EndedWithGoes
  <1>5. /\ buffer' \in [Calls -> Seq(Byte)] /\ buffer'[c] = <<>>
        /\ \A d \in Calls \ {c} : buffer'[d] = buffer[d]
    <2>1. <<>> \in Seq(Byte)
      BY EmptySeq
    <2> QED
      BY <1>1, <2>1 DEF BodiesType
  <1>6. BodiesType'
    BY <1>1, <1>4, <1>5 DEF BodiesType
  <1>7. Within(c) /\ \A d \in Calls \ {c} : Moves(d)
    BY <1>1, <1>4, <1>5, BodyWithin
  <1>8. Finishes(c)
    BY <1>1, <1>3, <1>4, <1>5, <1>7 DEF Finishes
  <1> QED
    BY <1>6, <1>7, <1>8 DEF Moves

LEMMA BodyTake ==
  ASSUME CallsInv, BodiesInv, NEW b \in Binders, TaskTake(b)
  PROVE  BodiesType' /\ \A d \in Calls : Moves(d)
  <1> USE DEF CallsInv, BodiesInv
  <1>1. PICK c \in Calls :
            /\ c = Head(queue[b]) /\ current[b] = None /\ queue[b] \in Seq(Calls) /\ queue[b] # <<>>
            /\ current' = [current EXCEPT ![b] = c]
            /\ rest' = [rest EXCEPT ![c] =
                   IF input[c].mode = "bytes" THEN Chunks(input[c]) ELSE @]
            /\ served' = [served EXCEPT ![c] = Append(@, [items |-> <<>>, end |-> "open"])]
            /\ queue' = [queue EXCEPT ![b] = Tail(@)]
            /\ UNCHANGED <<registry, binding, task, call, config, attempt, input, wire, buffer>>
    <2>1. queue[b] # <<>> /\ queue[b] \in Seq(Calls)
      BY DEF TaskTake, CallsType
    <2>2. PICK c \in Calls : c = Head(queue[b])
      BY <2>1, HeadTailProperties
    <2> QED
      BY <2>1, <2>2 DEF TaskTake, callVars
  <1>2. /\ Queued(b, c) /\ ~Queued(b, c)' /\ queue'[b] = Tail(queue[b])
        /\ \A d \in Calls : Queued(b, d)' => Queued(b, d)
    <2>1. queue'[b] = Tail(queue[b])
      BY <1>1 DEF CallsType
    <2>2. ASSUME NEW d \in Calls
          PROVE  /\ Queued(b, d) <=> c \in {d} \/ Has(Tail(queue[b]), {d})
                 /\ ~(c \in {d} /\ Has(Tail(queue[b]), {d}))
      BY <1>1, HasTail DEF Queued, Places
    <2> QED
      BY <2>1, <2>2 DEF Queued
  <1>3. ASSUME NEW d \in Binders \ {b}
        PROVE  /\ queue'[d] = queue[d] /\ current'[d] = current[d] /\ current[d] # c
               /\ ~Queued(d, c)
    <2>1. config[c] = b
      BY <1>2 DEF Places
    <2>2. ~Queued(d, c)
      BY <2>1 DEF Places
    <2>3. current[d] # c
      BY <2>1, ClientNoneAssumption DEF Places
    <2> QED
      BY <1>1, <2>2, <2>3 DEF CallsType
  <1>4. PICK p \in Part : p = [items |-> <<>>, end |-> "open"]
    BY EmptySeq DEF Part, Ends
  <1>5. Append(served[c], p) \in Seq(Part)
    BY AppendProperties DEF BodiesType
  <1>6. Chunks(input[c]) \in Seq(Seq(Byte)) \/ input[c].mode # "bytes"
    <2>1. config[c] = b
      BY <1>2 DEF Places
    <2>2. input[c] \in Input
      <3>1. input[c] \in Inputs[c]
        BY <2>1, ClientNoneAssumption DEF Requests
      <3> QED
        BY <3>1, ClientAssumption
    <2> QED
      BY <2>2 DEF Input, Chunks
  <1>7. BodiesType'
    <2>1. rest' \in [Calls -> Seq(Seq(Byte))]
      BY <1>1, <1>6 DEF BodiesType
    <2>2. served' \in [Calls -> Seq(Part)]
      BY <1>1, <1>4, <1>5 DEF BodiesType
    <2> QED
      BY <1>1, <2>1, <2>2 DEF BodiesType
  <1>8. Takes(c)
    <2>1. Fresh(c) /\ config[c] = b /\ call[c] = "waiting"
      BY <1>2 DEF Fresh, Places
    <2>2. ~Fresh(c)'
      <3>1. ASSUME NEW d \in Binders PROVE ~Queued(d, c)'
        BY <1>2, <1>3 DEF Queued
      <3> QED
        BY <1>1, <2>1, <3>1 DEF Fresh
    <2>3. ~InProgress(c) /\ InProgress(c)'
      <3>1. current'[b] = c /\ current[b] # c
        BY <1>1, ClientNoneAssumption DEF CallsType
      <3> QED
        BY <1>3, <3>1 DEF InProgress
    <2>4. Attempts(c)
      BY <1>1, <2>1, <2>2, ClientNoneAssumption DEF Attempts, Keeps
    <2>5. /\ rest'[c] = (IF input[c].mode = "bytes" THEN Chunks(input[c]) ELSE rest[c])
          /\ served'[c] = Append(served[c], [items |-> <<>>, end |-> "open"])
      BY <1>1 DEF BodiesType
    <2> QED
      BY <1>1, <2>1, <2>3, <2>4, <2>5 DEF Takes
  <1>9. ASSUME NEW d \in Calls \ {c} PROVE Moves(d)
    <2>1. rest'[d] = rest[d] /\ served'[d] = served[d]
      BY <1>1 DEF BodiesType
    <2>2. InProgress(d)' <=> InProgress(d)
      <3>1. current'[b] = c /\ current[b] # d
        BY <1>1, ClientNoneAssumption DEF CallsType
      <3> QED
        BY <1>3, <3>1 DEF InProgress
    <2>3. ASSUME NEW e \in Binders PROVE Queued(e, d)' => Queued(e, d)
      BY <1>2, <1>3 DEF Queued
    <2>4. Fresh(d)' => Fresh(d)
      BY <1>1, <2>3 DEF Fresh
    <2> QED
      BY <1>1, <2>1, <2>2, <2>4, Elsewhere DEF Keeps
  <1> QED
    BY <1>7, <1>8, <1>9 DEF Moves

LEMMA QueuedOnce ==
  ASSUME Places, NEW c \in Calls, NEW d \in Binders, config[c] # d
  PROVE  ~Queued(d, c)
  BY DEF Places

\* A body is over, with its call or for this attempt.
LEMMA BodyDrop ==
  ASSUME CallsInv, BodiesInv, NEW b \in Binders, NEW c \in Calls, c = current[b],
         current' = [current EXCEPT ![b] = None], UNCHANGED <<config, input, attempt, rest>>,
         wire' = [wire EXCEPT ![c] = <<>>], buffer' = [buffer EXCEPT ![c] = <<>>],
         \/ Last(served[c]).end # "open" /\ served' = served
         \/ \E x \in Seq(Seq(Byte)), e \in {"lost", "left"} :
                /\ Last(served[c]).end = "open" /\ served' = EndedWith(c, x, e)
                /\ \/ x = <<>>
                   \/ x = <<buffer[c]>> /\ e = "lost" /\ input[c].mode = "bytes",
         call'[c] \in {"reading", "failing"}, \A d \in Calls : Queued(b, d)' => Queued(b, d),
         \A d \in Calls \ {c} : call'[d] \in {call[d], "failing"},
         \A d \in Binders \ {b} : queue'[d] = queue[d]
  PROVE  BodiesType' /\ \A d \in Calls : Moves(d)
  <1> USE DEF CallsInv, BodiesInv
  <1>1. InProgress(c) /\ config[c] = b /\ ~Queued(b, c)
    BY ClientNoneAssumption DEF InProgress, Places
  <1>2. served[c] # <<>> /\ served \in [Calls -> Seq(Part)]
    BY <1>1 DEF Body, BodiesType
  <1>3. ASSUME NEW d \in Binders \ {b} PROVE current[d] # c /\ current'[d] = current[d] /\ ~Queued(d, c)
    <2>1. ~Queued(d, c) /\ current'[d] = current[d]
      <3>1. config[c] = b /\ d # b
        BY <1>1
      <3>2. ~Queued(d, c)
        BY <3>1, QueuedOnce
      <3>3. current'[d] = current[d]
        BY DEF CallsType
      <3> QED
        BY <3>2, <3>3
    <2>2. ASSUME current[d] = c PROVE FALSE
      BY <1>1, <2>2, ClientNoneAssumption DEF Places
    <2> QED
      BY <2>1, <2>2
  <1>4. ASSUME NEW d \in Calls, NEW e \in Binders PROVE Queued(e, d)' => Queued(e, d)
    BY DEF Queued
  <1>5. /\ served' \in [Calls -> Seq(Part)]
        /\ \A d \in Calls \ {c} : served'[d] = served[d]
        /\ \/ Last(served[c]).end # "open" /\ served'[c] = served[c]
           \/ /\ Last(served[c]).end = "open" /\ input[c].mode = "bytes"
              /\ served'[c] = Goes(served[c], <<buffer[c]>>, "lost")
           \/ \E e \in {"lost", "left"} :
                  Last(served[c]).end = "open" /\ served'[c] = Goes(served[c], <<>>, e)
    <2>1. CASE Last(served[c]).end # "open" /\ served' = served
      BY <1>2, <2>1
    <2>2. CASE ~(Last(served[c]).end # "open" /\ served' = served)
      <3>1. PICK x \in Seq(Seq(Byte)), e \in {"lost", "left"} :
                /\ Last(served[c]).end = "open" /\ served' = EndedWith(c, x, e)
                /\ \/ x = <<>>
                   \/ x = <<buffer[c]>> /\ e = "lost" /\ input[c].mode = "bytes"
        BY <2>2
      <3>2. e \in Ends
        BY DEF Ends
      <3>3. /\ served' \in [Calls -> Seq(Part)] /\ served'[c] = Goes(served[c], x, e)
            /\ \A d \in Calls \ {c} : served'[d] = served[d]
        BY <1>2, <3>1, <3>2, EndedWithGoes
      <3> QED
        BY <3>1, <3>3
    <2> QED
      BY <2>1, <2>2
  <1>6. <<>> \in Seq(Byte)
    BY EmptySeq
  <1>7. BodiesType'
    BY <1>5, <1>6 DEF BodiesType
  <1>8. Drops(c)
    <2>1. ~InProgress(c)'
      <3>1. current'[b] # c
        BY ClientNoneAssumption DEF CallsType
      <3> QED
        BY <1>3, <3>1 DEF InProgress
    <2>2. ~Fresh(c)'
      BY <1>1, <1>3, <1>4 DEF Fresh
    <2>3. Attempts(c)
      BY <1>1, <2>2, ClientNoneAssumption DEF Attempts, Keeps
    <2>4. wire'[c] = <<>> /\ buffer'[c] = <<>>
      BY DEF BodiesType
    <2> QED
      BY <1>1, <1>5, <2>1, <2>3, <2>4 DEF Drops
  <1>9. ASSUME NEW d \in Calls \ {c} PROVE Moves(d)
    <2>1. wire'[d] = wire[d] /\ buffer'[d] = buffer[d]
      BY DEF BodiesType
    <2>2. InProgress(d)' <=> InProgress(d)
      <3>1. current'[b] # d /\ current[b] # d
        BY ClientNoneAssumption DEF CallsType
      <3> QED
        BY <1>3, <3>1 DEF InProgress
    <2>3. Fresh(d)' => Fresh(d)
      BY <1>4 DEF Fresh
    <2> QED
      BY <1>5, <2>1, <2>2, <2>3, Elsewhere DEF Keeps
  <1> QED
    BY <1>7, <1>8, <1>9 DEF Moves

LEMMA LostDrop ==
  ASSUME BodiesInv, NEW c \in Calls, Lost(c)
  PROVE  /\ wire' = [wire EXCEPT ![c] = <<>>] /\ buffer' = [buffer EXCEPT ![c] = <<>>]
         /\ \/ Last(served[c]).end # "open" /\ served' = served
            \/ \E x \in Seq(Seq(Byte)), e \in {"lost", "left"} :
                   /\ Last(served[c]).end = "open" /\ served' = EndedWith(c, x, e)
                   /\ \/ x = <<>>
                      \/ x = <<buffer[c]>> /\ e = "lost" /\ input[c].mode = "bytes"
  <1>1. CASE Last(served[c]).end # "open"
    BY <1>1 DEF Lost
  <1>2. CASE Last(served[c]).end = "open"
    <2>1. buffer[c] \in Seq(Byte)
      BY DEF BodiesInv, BodiesType
    <2>2. PICK x \in Seq(Seq(Byte)) : x = IF input[c].mode = "bytes" THEN <<buffer[c]>> ELSE <<>>
      <3>1. <<buffer[c]>> \in Seq(Seq(Byte)) /\ <<>> \in Seq(Seq(Byte))
        BY <2>1
      <3> QED
        BY <3>1
    <2>3. served' = EndedWith(c, x, "lost")
      BY <1>2, <2>2 DEF Lost
    <2> QED
      BY <1>2, <2>2, <2>3 DEF Lost
  <1> QED
    BY <1>1, <1>2

LEMMA BodyOver ==
  ASSUME CallsInv, BodiesInv, NEW b \in Binders, Respond(b) \/ Break(b)
  PROVE  BodiesType' /\ \A d \in Calls : Moves(d)
  <1> USE DEF CallsInv
  <1>1. PICK c \in Calls : c = current[b]
    BY ClientAssumption DEF Respond, Break, CallsType
  <1>2. InProgress(c)
    BY <1>1 DEF InProgress
  <1>3. /\ current' = [current EXCEPT ![b] = None]
        /\ UNCHANGED <<queue, config, input, attempt, rest>>
    BY DEF Respond, Break
  <1>4. \A d \in Calls, e \in Binders : Queued(e, d)' <=> Queued(e, d)
    BY <1>3 DEF Queued
  <1>5. /\ call'[c] \in {"reading", "failing"}
        /\ \A d \in Calls \ {c} : call'[d] \in {call[d], "failing"}
    BY <1>1 DEF Respond, Break, CallsType
  <1>6. CASE Respond(b)
    <2>1. wire' = [wire EXCEPT ![c] = <<>>] /\ buffer' = [buffer EXCEPT ![c] = <<>>]
      BY <1>1, <1>6 DEF Respond
    <2>2. \/ Last(served[c]).end # "open" /\ served' = served
          \/ Last(served[c]).end = "open" /\ served' = EndedWith(c, <<>>, "left")
      BY <1>1, <1>2, <1>6 DEF Respond, Reading
    <2>3. <<>> \in Seq(Seq(Byte))
      BY EmptySeq
    <2>4. \/ Last(served[c]).end # "open" /\ served' = served
          \/ \E x \in Seq(Seq(Byte)), e \in {"lost", "left"} :
                 /\ Last(served[c]).end = "open" /\ served' = EndedWith(c, x, e)
                 /\ \/ x = <<>>
                    \/ x = <<buffer[c]>> /\ e = "lost" /\ input[c].mode = "bytes"
      BY <2>2, <2>3
    <2> QED
      BY <1>1, <1>3, <1>4, <1>5, <2>1, <2>4, BodyDrop
  <1>7. CASE Break(b)
    <2>1. Lost(c)
      BY <1>1, <1>7 DEF Break
    <2> QED
      BY <1>1, <1>3, <1>4, <1>5, <2>1, LostDrop, BodyDrop
  <1> QED
    BY <1>6, <1>7

LEMMA BodyUnbind ==
  ASSUME CallsInv, BodiesInv, NEW b \in Binders, Unbind(b)
  PROVE  BodiesType' /\ \A d \in Calls : Moves(d)
  <1> USE DEF CallsInv
  <1>1. /\ UNCHANGED <<registry, config, attempt, input, query, rest>>
        /\ queue' = [queue EXCEPT ![b] = <<>>]
        /\ current' = [current EXCEPT ![b] = None]
        /\ call' = [c \in Calls |-> IF c \in Held(b) THEN "failing" ELSE call[c]]
    BY DEF Unbind
  <1>2. \A d \in Calls : ~Queued(b, d)'
    <2>1. queue'[b] = <<>>
      BY <1>1 DEF CallsType
    <2> QED
      BY <2>1, HasEmpty DEF Queued
  <1>3. \A d \in Binders \ {b} : queue'[d] = queue[d]
    BY <1>1 DEF CallsType
  <1>4. \A d \in Calls : call'[d] \in {call[d], "failing"}
    BY <1>1
  <1>5. CASE current[b] = None
    <2>1. UNCHANGED <<current, served, wire, buffer>>
      BY <1>1, <1>5 DEF Unbind, CallsType
    <2>2. ASSUME NEW d \in Calls PROVE Fresh(d)' => Fresh(d)
      <3>1. ASSUME NEW e \in Binders PROVE Queued(e, d)' => Queued(e, d)
        BY <1>2, <1>3 DEF Queued
      <3> QED
        BY <1>4, <3>1 DEF Fresh
    <2>3. ASSUME NEW d \in Calls
          PROVE attempt'[d] >= attempt[d] /\ (Fresh(d)' /\ ~Fresh(d) => attempt'[d] > attempt[d])
      <3>1. attempt[d] \in Nat
        BY ClientBoundAssumption DEF CallsType
      <3> QED
        BY <1>1, <2>2, <3>1
    <2> QED
      BY <1>1, <2>1, <2>3, BodyIdle DEF bodyVars
  <1>6. CASE current[b] # None
    <2>1. PICK c \in Calls : c = current[b]
      BY <1>6 DEF CallsType
    <2>2. Lost(c)
      BY <1>6, <2>1 DEF Unbind
    <2>3. call'[c] = "failing"
      BY <1>1, <2>1 DEF Held
    <2> QED
      BY <1>1, <1>2, <1>3, <1>4, <2>1, <2>2, <2>3, LostDrop, BodyDrop
  <1> QED
    BY <1>5, <1>6

LEMMA StepMoves ==
  ASSUME CallsInv, BodiesInv, [Next]_vars
  PROVE  BodiesType' /\ \A c \in Calls : Moves(c)
  <1>1. CASE \E b \in Binders : TaskTake(b) \/ Respond(b) \/ Break(b) \/ Unbind(b)
    BY <1>1, BodyTake, BodyOver, BodyUnbind
  <1>2. CASE (\E b \in Binders : Bind(b) \/ UnbindRemove(b)) \/ UNCHANGED vars
    BY <1>2, BodyBind
  <1>3. CASE \E c \in Calls : CallStart(c) \/ CallSend(c) \/ CallRetry(c) \/ CallWake(c) \/ CallReturn(c)
    BY <1>3, BodyStart, BodySend
  <1>4. CASE \E c \in Calls : Upload(c) \/ ServerChunk(c) \/ ServerItem(c) \/ ServerEnd(c)
    BY <1>4, BodyUpload, BodyChunk, BodyItem, BodyEnd
  <1> QED
    BY <1>1, <1>2, <1>3, <1>4 DEF Next

LEMMA BodiesInit == Init => BodiesInv
  <1> SUFFICES ASSUME Init PROVE BodiesInv
    OBVIOUS
  <1>1. <<>> \in Seq(Seq(Byte)) /\ <<>> \in Seq(Byte) /\ <<>> \in Seq(Part) /\ Len(<<>>) = 0
    BY EmptySeq
  <1>2. BodiesType
    BY <1>1 DEF Init, BodiesType
  <1>3. ASSUME NEW c \in Calls PROVE Body(c)
    <2>1. ~InProgress(c)
      BY ClientNoneAssumption DEF Init, InProgress
    <2>2. attempt[c] = 1 /\ served[c] = <<>> /\ rest[c] = <<>> /\ wire[c] = <<>> /\ buffer[c] = <<>>
      BY DEF Init
    <2> QED
      BY <1>1, <2>1, <2>2 DEF Body
  <1> QED
    BY <1>2, <1>3 DEF BodiesInv

LEMMA BodyMoves ==
  ASSUME CallsInv, CallsInv', BodiesInv, BodiesType', NEW c \in Calls, Moves(c)
  PROVE  Body(c)'
  <1> USE DEF BodiesInv
  <1>1. PICK m \in Nat, n \in Nat : m = attempt[c] /\ n = Len(served[c])
    BY LenProperties, ClientBoundAssumption DEF CallsInv, CallsType, BodiesType
  <1>2. PICK k \in Nat : k = attempt'[c]
    BY ClientBoundAssumption DEF CallsInv, CallsType
  <1>3. n <= m /\ (Fresh(c) => n < m)
    BY <1>1 DEF Body
  <1>4. served[c] \in Seq(Part)
    BY DEF BodiesType
  <1>5. CASE Idles(c)
    <2>1. Len(served[c])' <= attempt[c]' /\ (Fresh(c)' => Len(served[c])' < attempt[c]')
      BY <1>1, <1>2, <1>3, <1>5 DEF Idles
    <2> QED
      BY <1>5, <2>1 DEF Idles, Keeps, Body
  <1>6. CASE Begins(c)
    <2>1. served[c] = <<>> /\ wire[c] = <<>> /\ buffer[c] = <<>>
      BY <1>6 DEF Begins, Body
    <2>2. n = 0 /\ k = m /\ m > 0
      BY <1>1, <1>2, <1>6, <2>1 DEF Begins, CallsInv, CallsType
    <2> QED
      BY <1>1, <1>2, <1>6, <2>1, <2>2, ClientNoneAssumption DEF Begins, Body
  <1>7. CASE Takes(c)
    <2>1. PICK p \in Part : p = [items |-> <<>>, end |-> "open"]
      BY EmptySeq DEF Part, Ends
    <2>2. PICK s \in Seq(Part) : s = served'[c] /\ s # <<>> /\ Len(s) = n + 1 /\ Last(s) = p
      BY <1>1, <1>4, <1>7, <2>1, LastAppend DEF Takes
    <2>3. k = m /\ Fresh(c) /\ ~Fresh(c)'
      BY <1>1, <1>2, <1>7 DEF Takes, Attempts
    <2>4. Last(s).end = "open"
      BY <2>1, <2>2
    <2> QED
      BY <1>1, <1>2, <1>3, <1>7, <2>2, <2>3, <2>4 DEF Takes, Attempts, Keeps, Body
  <1>8. CASE Uploads(c)
    <2>1. served'[c] = served[c] /\ served[c] # <<>> /\ Last(served[c]).end = "open"
      BY <1>8 DEF Uploads, Within, Body
    <2>2. k = m /\ ~Fresh(c)'
      BY <1>1, <1>2, <1>8 DEF Uploads, Within, Attempts
    <2> QED
      BY <1>1, <1>2, <1>3, <1>8, <2>1, <2>2 DEF Uploads, Within, Attempts, Keeps, Body
  <1>9. ASSUME Within(c), NEW x \in Seq(Seq(Byte)), NEW e \in Ends, served[c] # <<>>,
               served'[c] = Goes(served[c], x, e),
               e # "open" => rest'[c] = <<>> /\ wire'[c] = <<>> /\ buffer'[c] = <<>>
        PROVE  Body(c)'
    <2>1. /\ served'[c] # <<>> /\ Len(served'[c]) = n /\ Last(served'[c]).end = e
      BY <1>1, <1>4, <1>9, GoesType
    <2>2. k = m /\ ~Fresh(c)'
      BY <1>1, <1>2, <1>9 DEF Within, Attempts
    <2> QED
      BY <1>1, <1>2, <1>3, <1>9, <2>1, <2>2 DEF Within, Attempts, Keeps, Body
  <1>10. CASE Arrives(c)
    <2>1. PICK x \in Seq(Byte) : Receives(c, x)
      BY <1>10 DEF Arrives
    <2>2. served[c] # <<>> /\ Last(served[c]).end = "open" /\ Within(c)
      BY <1>10 DEF Arrives, Within, Body
    <2>3. CASE input[c].mode = "raw"
      <3>1. PICK s \in Seq(Seq(Byte)), e \in Ends : s = <<x>> /\ e = "open"
        <4>1. <<x>> \in Seq(Seq(Byte)) /\ "open" \in Ends
          BY DEF Ends
        <4> QED
          BY <4>1
      <3>2. served'[c] = Goes(served[c], s, e)
        BY <2>1, <2>3, <3>1 DEF Receives
      <3> QED
        BY <1>9, <2>2, <3>1, <3>2
    <2>4. CASE input[c].mode # "raw"
      <3>1. served'[c] = served[c]
        BY <2>1, <2>4 DEF Receives
      <3>2. k = m /\ ~Fresh(c)'
        BY <1>1, <1>2, <2>2 DEF Within, Attempts
      <3> QED
        BY <1>1, <1>2, <1>3, <2>2, <3>1, <3>2 DEF Within, Attempts, Keeps, Body
    <2> QED
      BY <2>3, <2>4
  <1>11. CASE Reads(c)
    <2>1. FirstItem(buffer[c]) \in Seq(Byte) /\ served[c] # <<>> /\ Within(c)
      BY <1>11, FrameCut DEF Reads, BodiesType, Within, Body
    <2>2. PICK s \in Seq(Seq(Byte)), e \in Ends : s = <<FirstItem(buffer[c])>> /\ e = "open"
      <3>1. <<FirstItem(buffer[c])>> \in Seq(Seq(Byte)) /\ "open" \in Ends
        BY <2>1 DEF Ends
      <3> QED
        BY <3>1
    <2>3. served'[c] = Goes(served[c], s, e)
      BY <1>11, <2>2 DEF Reads
    <2> QED
      BY <1>9, <2>1, <2>2, <2>3
  <1>12. CASE Finishes(c)
    <2>1. served[c] # <<>> /\ Within(c)
      BY <1>12 DEF Finishes, Within, Body
    <2>2. PICK x \in Seq(Seq(Byte)), e \in Ends : served'[c] = Goes(served[c], x, e)
      <3>1. /\ <<>> \in Seq(Seq(Byte)) /\ <<buffer[c]>> \in Seq(Seq(Byte))
            /\ "clean" \in Ends /\ "incomplete" \in Ends
        BY DEF Ends, BodiesType
      <3>2. PICK x \in Seq(Seq(Byte)) : x = IF input[c].mode = "bytes" THEN <<buffer[c]>> ELSE <<>>
        BY <3>1
      <3> QED
        BY <1>12, <3>1, <3>2 DEF Finishes
    <2>3. rest'[c] = <<>> /\ wire'[c] = <<>> /\ buffer'[c] = <<>>
      BY <1>12 DEF Finishes
    <2> QED
      BY <1>9, <2>1, <2>2, <2>3
  <1>13. CASE Drops(c)
    <2>1. served[c] # <<>> /\ served[c] \in Seq(Part)
      BY <1>13 DEF Drops, Body, BodiesType
    <2>2. Len(served'[c]) = n /\ Last(served'[c]).end # "open"
      <3>1. CASE Last(served[c]).end # "open" /\ served'[c] = served[c]
        BY <1>1, <3>1
      <3>2. ASSUME NEW x \in Seq(Seq(Byte)), NEW e \in {"lost", "left"},
                   served'[c] = Goes(served[c], x, e)
            PROVE  Len(served'[c]) = n /\ Last(served'[c]).end # "open"
        <4>1. e \in Ends
          BY DEF Ends
        <4> QED
          BY <1>1, <2>1, <3>2, <4>1, GoesType
      <3>3. <<buffer[c]>> \in Seq(Seq(Byte)) /\ <<>> \in Seq(Seq(Byte))
        BY DEF BodiesType
      <3>4. PICK x \in Seq(Seq(Byte)) : x = <<buffer[c]>>
        BY <3>3
      <3>5. CASE served'[c] = Goes(served[c], x, "lost")
        BY <3>2, <3>5
      <3>6. CASE \E e \in {"lost", "left"} : served'[c] = Goes(served[c], <<>>, e)
        BY <3>2, <3>3, <3>6
      <3> QED
        BY <1>13, <3>1, <3>4, <3>5, <3>6 DEF Drops
    <2>3. k = m /\ ~Fresh(c)' /\ config'[c] # None
      BY <1>1, <1>2, <1>13 DEF Drops, Attempts, Keeps
    <2> QED
      BY <1>1, <1>2, <1>3, <1>13, <2>2, <2>3 DEF Drops, Body
  <1> QED
    BY <1>5, <1>6, <1>7, <1>8, <1>10, <1>11, <1>12, <1>13 DEF Moves

LEMMA BodiesNext == CallsInv /\ BodiesInv /\ [Next]_vars => BodiesInv'
  <1> SUFFICES ASSUME CallsInv, BodiesInv, [Next]_vars PROVE BodiesInv'
    OBVIOUS
  <1>1. CallsInv'
    BY CallsNext
  <1>2. BodiesType' /\ \A c \in Calls : Moves(c)
    BY StepMoves
  <1>3. \A c \in Calls : Body(c)'
    BY <1>1, <1>2, BodyMoves
  <1> QED
    BY <1>2, <1>3 DEF BodiesInv

-----------------------------------------------------------------------------
(* The query *)

Text == Seq(Characters)

\* The last of the arguments with a name, which set_argument keeps, is there.
LEMMA ParamsType ==
  ASSUME NEW arguments \in Seq(Text \X Text)
  PROVE  /\ ParamsOf(arguments) \in [DOMAIN ParamsOf(arguments) -> Text]
         /\ DOMAIN ParamsOf(arguments) \subseteq Text
         /\ IsFiniteSet(DOMAIN ParamsOf(arguments))
  <1>1. PICK n \in Nat : n = Len(arguments) /\ DOMAIN arguments = 1 .. n
    BY LenProperties
  <1>2. \A i \in 1 .. n : arguments[i][1] \in Text /\ arguments[i][2] \in Text
    <2>1. ASSUME NEW i \in 1 .. n PROVE arguments[i][1] \in Text /\ arguments[i][2] \in Text
      <3>1. PICK a \in Text, b \in Text : arguments[i] = <<a, b>>
        BY <1>1, ElementOfSeq
      <3> QED
        BY <3>1
    <2> QED
      BY <2>1
  <1> DEFINE names == {arguments[i][1] : i \in 1 .. n}
             last(m) == CHOOSE i \in 1 .. n :
                 /\ arguments[i][1] = m
                 /\ \A j \in 1 .. n : arguments[j][1] = m => j <= i
  <1>3. ParamsOf(arguments) = [m \in names |-> arguments[last(m)][2]]
    BY <1>1 DEF ParamsOf
  <1>4. ASSUME NEW m \in names PROVE last(m) \in 1 .. n
    <2>1. PICK P : P = {i \in 1 .. n : arguments[i][1] = m}
      OBVIOUS
    <2>2. P \subseteq 1 .. n /\ P # {}
      BY <2>1
    <2>3. PICK i \in P : \A j \in P : j <= i
      BY <2>2, GreatestMember
    <2>4. i \in 1 .. n /\ arguments[i][1] = m /\ \A j \in 1 .. n : arguments[j][1] = m => j <= i
      BY <2>1, <2>3
    <2> QED
      BY <2>4
  <1>5. names \subseteq Text
    BY <1>2
  <1>6. IsFiniteSet(names)
    <2>1. PICK f \in [1 .. n -> names] : \A i \in 1 .. n : f[i] = arguments[i][1]
      <3>1. [i \in 1 .. n |-> arguments[i][1]] \in [1 .. n -> names]
        OBVIOUS
      <3> QED
        BY <3>1
    <2>2. f \in Surjection(1 .. n, names)
      BY <2>1 DEF Surjection
    <2> QED
      BY <2>2, FS_NatSurjection DEF ExistsSurjection
  <1> HIDE DEF last, names
  <1> QED
    BY <1>2, <1>3, <1>4, <1>5, <1>6

LEMMA EncodeType ==
  ASSUME NEW text \in Text
  PROVE  Encode(text) \in Seq(Token)
  <1>1. PICK n \in Nat : n = Len(text) /\ \A i \in 1 .. n : text[i] \in Characters
    BY LenProperties DEF Text
  <1>2. ASSUME NEW i \in 1 .. n PROVE Encoded(text[i]) \in Token /\ Literal(text[i]) \in Token
    BY <1>1 DEF Encoded, Literal, Token
  <1>3. Encode(text) \in [1 .. n -> Token]
    BY <1>1, <1>2 DEF Encode
  <1> QED
    BY <1>1, <1>3

-----------------------------------------------------------------------------
(* The pairs of a query *)

Tokens == Seq(Token)
Separator == Literal("&")

GoOn(pairs, t) ==
    IF t = Separator THEN Append(pairs, <<>>)
    ELSE Front(pairs) \o <<Append(Last(pairs), t)>>

LEMMA FrontAppend ==
  ASSUME NEW S, NEW s \in Seq(S), NEW e \in S
  PROVE  Front(Append(s, e)) = s
  <1>1. PICK n \in Nat, a \in Seq(S) :
            n = Len(s) /\ a = Append(s, e) /\ Len(a) = n + 1 /\ \A i \in 1 .. n : a[i] = s[i]
    <2>1. PICK a : a = Append(s, e)
      OBVIOUS
    <2>2. PICK n \in Nat : n = Len(s)
      BY LenProperties
    <2>3. a \in Seq(S) /\ Len(a) = n + 1 /\ \A i \in 1 .. n : a[i] = s[i]
      BY <2>1, <2>2, AppendProperties
    <2> QED
      BY <2>1, <2>2, <2>3
  <1>2. \A i \in 1 .. n + 1 : a[i] \in S
    BY <1>1, LenProperties
  <1>3. PICK f : f = SubSeq(a, 1, n)
    OBVIOUS
  <1>4. f \in Seq(S) /\ Len(f) = n /\ \A i \in 1 .. n : f[i] = a[i]
    BY <1>1, <1>2, <1>3, SubSeqProperties
  <1>5. f = s
    BY <1>1, <1>4, SeqEqual
  <1> QED
    BY <1>1, <1>3, <1>5 DEF Front

LEMMA GoOnType ==
  ASSUME NEW pairs \in Seq(Tokens) \ {<<>>}, NEW t \in Token
  PROVE  GoOn(pairs, t) \in Seq(Tokens) \ {<<>>}
  <1>1. CASE t = Separator
    <2>1. <<>> \in Tokens
      BY EmptySeq DEF Tokens
    <2> QED
      BY <1>1, <2>1, LastAppend DEF GoOn
  <1>2. CASE t # Separator
    <2>1. PICK f \in Seq(Tokens), l \in Tokens : f = Front(pairs) /\ l = Last(pairs)
      BY LastFront DEF FrontAndLast
    <2>2. PICK e \in Tokens : e = Append(l, t)
      BY AppendProperties DEF Tokens
    <2>3. f \o <<e>> = Append(f, e)
      BY AppendIsConcat
    <2> QED
      BY <1>2, <2>1, <2>2, <2>3, LastAppend DEF GoOn
  <1> QED
    BY <1>1, <1>2

\* What the recursion of Pairs computes.
PairsOf(f, query0) ==
    /\ f \in [0 .. Len(query0) -> Seq(Tokens) \ {<<>>}] /\ f[0] = << <<>> >>
    /\ \A i \in 1 .. Len(query0) : f[i] = GoOn(f[i - 1], query0[i])
    /\ Pairs(query0) = f[Len(query0)]

LEMMA PairsRuns ==
  ASSUME NEW query0 \in Tokens
  PROVE  \E f : PairsOf(f, query0)
  <1>1. PICK n \in Nat : n = Len(query0) /\ \A i \in 1 .. n : query0[i] \in Token
    BY LenProperties DEF Tokens
  <1> DEFINE S == Seq(Tokens) \ {<<>>}
             Runs(g) == g = [i \in 0 .. n |->
                                 IF i = 0 THEN << <<>> >> ELSE GoOn(g[i - 1], query0[i])]
             G == CHOOSE g : Runs(g)
  <1>2. Pairs(query0) = G[n]
    BY <1>1 DEF Pairs, GoOn, Separator
  <1>3. << <<>> >> \in S
    <2>1. <<>> \in Tokens
      BY EmptySeq DEF Tokens
    <2>2. << <<>> >> \in Seq(Tokens) /\ Len(<< <<>> >>) = 1
      BY <2>1
    <2> QED
      BY <2>2, EmptySeq
  <1>4. \A q \in S : \A t \in Token : GoOn(q, t) \in S
    BY GoOnType
  <1> HIDE DEF S
  <1>5. PICK f : Follows(f, n, S, << <<>> >>, [i \in 1 .. n |-> [q \in S |-> GoOn(q, query0[i])]])
    <2>1. [i \in 1 .. n |-> [q \in S |-> GoOn(q, query0[i])]] \in Steps(n, S)
      BY <1>1, <1>4 DEF Steps
    <2> QED
      BY <1>3, <2>1, Recursion
  <1>6. f \in [0 .. n -> S] /\ f[0] = << <<>> >> /\ \A i \in 1 .. n : f[i] = GoOn(f[i - 1], query0[i])
    <2>1. f \in [0 .. n -> S] /\ f[0] = << <<>> >>
      BY <1>5 DEF Follows
    <2>2. ASSUME NEW i \in 1 .. n PROVE f[i] = GoOn(f[i - 1], query0[i])
      <3>1. f[i - 1] \in S
        BY <2>1
      <3>2. f[i] = [k \in 1 .. n |-> [q \in S |-> GoOn(q, query0[k])]][i][f[i - 1]]
        BY <1>5 DEF Follows
      <3> QED
        BY <3>1, <3>2
    <2> QED
      BY <2>1, <2>2
  <1>7. Runs(f)
    <2>1. ASSUME NEW i \in 0 .. n
          PROVE  f[i] = IF i = 0 THEN << <<>> >> ELSE GoOn(f[i - 1], query0[i])
      <3>1. CASE i = 0
        BY <1>6, <3>1
      <3>2. CASE i # 0
        <4>1. i \in 1 .. n
          BY <3>2
        <4> QED
          BY <1>6, <3>2, <4>1
      <3> QED
        BY <3>1, <3>2
    <2> QED
      BY <1>6, <2>1
  <1>8. Runs(G)
    <2> HIDE DEF Runs
    <2> QED
      BY <1>7
  <1> HIDE DEF G
  <1>9. G = f
    <2>1. \A i \in 0 .. n : G[i] = IF i = 0 THEN << <<>> >> ELSE GoOn(G[i - 1], query0[i])
      BY <1>8
    <2> DEFINE T == {i \in 0 .. n : G[i] = f[i]}
    <2>2. 0 \in T
      BY <1>6, <2>1
    <2>3. \A i \in 1 .. n : i - 1 \in T => i \in T
      BY <1>6, <2>1
    <2> HIDE DEF T
    <2>4. 0 .. n \subseteq T
      BY <2>2, <2>3, BoundedInduction
    <2>5. \A i \in 0 .. n : G[i] = f[i]
      BY <2>4 DEF T
    <2>6. G = [i \in 0 .. n |-> G[i]]
      BY <1>8
    <2> QED
      BY <1>6, <2>5, <2>6
  <1> QED
    BY <1>1, <1>2, <1>6, <1>9 DEF PairsOf, S

\* Tokens without a separator end up in the last pair.
Plain(p) == p \in Tokens /\ \A i \in 1 .. Len(p) : p[i] # Separator

LEMMA PairGrows ==
  ASSUME NEW p, Plain(p), NEW pairs \in Seq(Tokens), NEW m \in Nat, NEW f,
         f[m] = Append(pairs, <<>>),
         \A k \in 1 .. Len(p) : f[m + k] = GoOn(f[m + k - 1], p[k])
  PROVE  f[m + Len(p)] = Append(pairs, p)
  <1>1. PICK n \in Nat : n = Len(p) /\ \A k \in 1 .. n : p[k] \in Token /\ p[k] # Separator
    BY LenProperties DEF Plain, Tokens
  <1> DEFINE Upto(k) == SubSeq(p, 1, k)
             T == {k \in 0 .. n : f[m + k] = Append(pairs, Upto(k))}
  <1>2. 0 \in T
    <2>1. Upto(0) = <<>>
      BY SubSeqEmpty
    <2> HIDE DEF Upto
    <2>2. f[m + 0] = f[m] /\ 0 \in 0 .. n
      <3>1. m + 0 = m
        OBVIOUS
      <3> QED
        BY <3>1
    <2>3. f[m + 0] = Append(pairs, Upto(0))
      BY <2>1, <2>2, Zenon
    <2> QED
      BY <2>2, <2>3
  <1>3. ASSUME NEW k \in 1 .. n, k - 1 \in T PROVE k \in T
    <2>1. f[m + (k - 1)] = Append(pairs, Upto(k - 1)) /\ m + k - 1 = m + (k - 1)
      BY <1>3
    <2>2. PICK u \in Tokens : u = Upto(k - 1)
      <3>1. \A i \in 1 .. k - 1 : p[i] \in Token
        BY <1>1
      <3>2. k - 1 \in Int /\ 1 \in Int
        OBVIOUS
      <3>3. SubSeq(p, 1, k - 1) \in Seq(Token)
        BY <3>1, <3>2, SubSeqProperties
      <3> QED
        BY <3>3 DEF Tokens
    <2>3. Append(u, p[k]) = Upto(k)
      <3>1. PICK v \in Tokens : v = Append(u, p[k])
        BY <1>1, AppendProperties DEF Tokens
      <3>2. Len(u) = k - 1 /\ \A i \in 1 .. k - 1 : u[i] = p[i]
        BY <1>1, <2>2, SubSeqProperties DEF Plain, Tokens
      <3>3. Len(v) = k /\ v[k] = p[k] /\ \A i \in 1 .. k - 1 : v[i] = p[i]
        BY <1>1, <3>1, <3>2, AppendProperties DEF Tokens
      <3>4. Upto(k) \in Tokens /\ Len(Upto(k)) = k /\ \A i \in 1 .. k : Upto(k)[i] = p[i]
        BY <1>1, SubSeqProperties DEF Plain, Tokens
      <3>5. \A i \in 1 .. k : v[i] = Upto(k)[i]
        BY <3>3, <3>4
      <3> HIDE DEF Upto
      <3> QED
        BY <3>1, <3>3, <3>4, <3>5, SeqEqual DEF Tokens
    <2>4. GoOn(Append(pairs, u), p[k]) = Append(pairs, Append(u, p[k]))
      <3>1. Front(Append(pairs, u)) = pairs /\ Last(Append(pairs, u)) = u
        BY FrontAppend, LastAppend
      <3>2. Append(u, p[k]) \in Tokens
        BY <1>1, AppendProperties DEF Tokens
      <3>3. pairs \o <<Append(u, p[k])>> = Append(pairs, Append(u, p[k]))
        BY <3>2, AppendIsConcat
      <3> QED
        BY <1>1, <3>1, <3>3 DEF GoOn
    <2> HIDE DEF Upto
    <2>5. f[m + k] = GoOn(f[m + k - 1], p[k])
      BY <1>1
    <2>6. f[m + k] = Append(pairs, Upto(k))
      BY <2>1, <2>2, <2>3, <2>4, <2>5
    <2> QED
      BY <2>6
  <1>4. Upto(n) = p
    BY <1>1, SubSeqFull DEF Plain, Tokens
  <1> HIDE DEF Upto, T
  <1>5. 0 .. n \subseteq T
    BY <1>2, <1>3, BoundedInduction
  <1>6. n \in T
    BY <1>5
  <1>7. f[m + n] = Append(pairs, Upto(n))
    BY <1>6 DEF T
  <1> QED
    BY <1>1, <1>4, <1>7

LEMMA PairsOne ==
  ASSUME NEW p, Plain(p)
  PROVE  Pairs(p) = <<p>>
  <1>1. p \in Tokens
    BY DEF Plain
  <1>2. PICK f : PairsOf(f, p)
    BY <1>1, PairsRuns
  <1>3. PICK n \in Nat : n = Len(p)
    BY <1>1, LenProperties DEF Tokens
  <1>4. \A x : Append(<<>>, x) = <<x>>
    OBVIOUS
  <1>5. f[0] = Append(<<>>, <<>>) /\ <<>> \in Seq(Tokens)
    BY <1>2, <1>4, EmptySeq DEF PairsOf
  <1>6. ASSUME NEW k \in 1 .. n PROVE f[0 + k] = GoOn(f[0 + k - 1], p[k])
    <2>1. 0 + k = k /\ 0 + k - 1 = k - 1
      OBVIOUS
    <2>2. f[k] = GoOn(f[k - 1], p[k])
      BY <1>2, <1>3 DEF PairsOf
    <2> QED
      BY <2>1, <2>2
  <1>7. f[0 + n] = Append(<<>>, p)
    BY <1>3, <1>5, <1>6, PairGrows
  <1>8. 0 + n = n /\ Pairs(p) = f[n]
    BY <1>2, <1>3 DEF PairsOf
  <1> QED
    BY <1>4, <1>7, <1>8

LEMMA PairsType ==
  ASSUME NEW query0 \in Tokens
  PROVE  Pairs(query0) \in Seq(Tokens)
  <1>1. PICK f : PairsOf(f, query0)
    BY PairsRuns
  <1>2. Len(query0) \in Nat
    BY LenProperties DEF Tokens
  <1> QED
    BY <1>1, <1>2 DEF PairsOf

\* A pair behind a query, and the sequence of both.
Paired(query0, p) == query0 \o <<Separator>> \o p

LEMMA SeparatorToken == Separator \in Token
  <1>1. "&" \in Characters
    BY ClientAssumption
  <1> QED
    BY <1>1 DEF Separator, Literal, Token

LEMMA PairedType ==
  ASSUME NEW query0 \in Tokens, NEW p \in Tokens
  PROVE  /\ Paired(query0, p) \in Tokens
         /\ Len(Paired(query0, p)) = Len(query0) + 1 + Len(p)
         /\ \A i \in 1 .. Len(query0) : Paired(query0, p)[i] = query0[i]
         /\ Paired(query0, p)[Len(query0) + 1] = Separator
         /\ \A k \in 1 .. Len(p) : Paired(query0, p)[Len(query0) + 1 + k] = p[k]
  <1>1. PICK n \in Nat, l \in Nat : n = Len(query0) /\ l = Len(p)
    BY LenProperties DEF Tokens
  <1>2. PICK a \in Tokens : a = Append(query0, Separator) /\ Len(a) = n + 1 /\ a[n + 1] = Separator
                            /\ \A i \in 1 .. n : a[i] = query0[i]
    <2>1. PICK a : a = Append(query0, Separator)
      OBVIOUS
    <2>2. a \in Tokens /\ Len(a) = n + 1 /\ a[n + 1] = Separator /\ \A i \in 1 .. n : a[i] = query0[i]
      BY <1>1, <2>1, SeparatorToken, AppendProperties DEF Tokens
    <2> QED
      BY <2>1, <2>2
  <1>3. Paired(query0, p) = a \o p
    BY <1>2, SeparatorToken, AppendIsConcat DEF Paired, Tokens
  <1>4. a \o p \in Tokens /\ Len(a \o p) = n + 1 + l
    BY <1>1, <1>2, ConcatProperties DEF Tokens
  <1>5. ASSUME NEW i \in 1 .. n + 1 PROVE (a \o p)[i] = a[i]
    <2>1. i \in 1 .. Len(a) + Len(p) /\ i <= Len(a)
      BY <1>1, <1>2
    <2> QED
      BY <2>1, ConcatProperties DEF Tokens
  <1>6. ASSUME NEW k \in 1 .. l PROVE (a \o p)[n + 1 + k] = p[k]
    <2>1. /\ n + 1 + k \in 1 .. Len(a) + Len(p) /\ ~(n + 1 + k <= Len(a))
          /\ (n + 1 + k) - Len(a) = k
      BY <1>1, <1>2
    <2>2. (a \o p)[n + 1 + k] = p[(n + 1 + k) - Len(a)]
      BY <2>1, ConcatProperties DEF Tokens
    <2> QED
      BY <2>1, <2>2
  <1>7. \A i \in 1 .. n : (a \o p)[i] = query0[i]
    BY <1>2, <1>5
  <1>8. (a \o p)[n + 1] = Separator
    BY <1>2, <1>5
  <1> QED
    BY <1>1, <1>3, <1>4, <1>6, <1>7, <1>8

LEMMA PairsPaired ==
  ASSUME NEW query0 \in Tokens, NEW p, Plain(p)
  PROVE  Pairs(Paired(query0, p)) = Append(Pairs(query0), p)
  <1>1. p \in Tokens
    BY DEF Plain
  <1>2. PICK g : PairsOf(g, query0)
    BY PairsRuns
  <1>3. PICK n \in Nat, l \in Nat : n = Len(query0) /\ l = Len(p)
    BY <1>1, LenProperties DEF Tokens
  <1>4. PICK s \in Tokens : /\ s = Paired(query0, p) /\ Len(s) = n + 1 + l
                            /\ \A i \in 1 .. n : s[i] = query0[i]
                            /\ s[n + 1] = Separator
                            /\ \A k \in 1 .. l : s[n + 1 + k] = p[k]
    <2>1. PICK s : s = Paired(query0, p)
      OBVIOUS
    <2>2. /\ s \in Tokens /\ Len(s) = n + 1 + l
          /\ \A i \in 1 .. n : s[i] = query0[i]
          /\ s[n + 1] = Separator
          /\ \A k \in 1 .. l : s[n + 1 + k] = p[k]
      BY <1>1, <1>3, <2>1, PairedType, ZenonT(30)
    <2> QED
      BY <2>1, <2>2
  <1>5. PICK f : PairsOf(f, s)
    BY PairsRuns
  <1>6. \A i \in 1 .. n + 1 + l : f[i] = GoOn(f[i - 1], s[i])
    BY <1>4, <1>5 DEF PairsOf
  <1>7. f[n] = g[n]
    <2> DEFINE T == {i \in 0 .. n : f[i] = g[i]}
    <2>1. 0 \in T
      <3>1. f[0] = << <<>> >> /\ g[0] = << <<>> >>
        BY <1>2, <1>5 DEF PairsOf
      <3>2. f[0] = g[0] /\ 0 \in 0 .. n
        BY <3>1
      <3> QED
        BY <3>2
    <2>2. ASSUME NEW i \in 1 .. n, i - 1 \in T PROVE i \in T
      <3>1. i \in 1 .. n + 1 + l
        OBVIOUS
      <3>2. f[i] = GoOn(f[i - 1], query0[i])
        BY <1>4, <1>6, <3>1
      <3>3. g[i] = GoOn(g[i - 1], query0[i])
        BY <1>2, <1>3 DEF PairsOf
      <3>4. f[i - 1] = g[i - 1]
        BY <2>2
      <3> QED
        BY <3>2, <3>3, <3>4
    <2> HIDE DEF T
    <2>3. 0 .. n \subseteq T
      BY <2>1, <2>2, BoundedInduction
    <2>4. n \in T
      BY <2>3
    <2> QED
      BY <2>4 DEF T
  <1>8. f[n + 1] = Append(g[n], <<>>)
    <2>1. n + 1 \in 1 .. n + 1 + l /\ (n + 1) - 1 = n
      OBVIOUS
    <2>2. f[n + 1] = GoOn(f[n], Separator)
      BY <1>4, <1>6, <2>1
    <2> QED
      BY <1>7, <2>2 DEF GoOn
  <1>9. ASSUME NEW k \in 1 .. l PROVE f[n + 1 + k] = GoOn(f[n + 1 + k - 1], p[k])
    <2>1. n + 1 + k \in 1 .. n + 1 + l
      OBVIOUS
    <2> QED
      BY <1>4, <1>6, <2>1
  <1>10. g[n] \in Seq(Tokens) /\ g[n] = Pairs(query0)
    BY <1>2, <1>3 DEF PairsOf
  <1>11. f[n + 1 + l] = Append(g[n], p)
    <2>1. PICK m \in Nat : m = n + 1
      OBVIOUS
    <2>2. f[m] = Append(g[n], <<>>)
      BY <1>8, <2>1
    <2>3. \A k \in 1 .. Len(p) : f[m + k] = GoOn(f[m + k - 1], p[k])
      BY <1>3, <1>9, <2>1
    <2>4. f[m + Len(p)] = Append(g[n], p)
      BY <1>10, <2>2, <2>3, PairGrows
    <2> QED
      BY <1>3, <2>1, <2>4
  <1>12. Pairs(s) = f[n + 1 + l]
    BY <1>4, <1>5 DEF PairsOf
  <1> QED
    BY <1>4, <1>10, <1>11, <1>12

-----------------------------------------------------------------------------
(* The values of an argument *)

Texts == Seq(Characters \cup {" "})

Note(values, p, name) ==
    IF Named(p, name) /\ Decodable(ValueOf(p)) THEN Append(values, Decode(ValueOf(p)))
    ELSE values

LEMMA DecodeType ==
  ASSUME NEW text \in Tokens
  PROVE  Decode(text) \in Texts
  <1>1. PICK n \in Nat : n = Len(text) /\ DOMAIN text = 1 .. n /\ \A i \in 1 .. n : text[i] \in Token
    BY LenProperties DEF Tokens
  <1>2. \A i \in 1 .. n : text[i][2] \in Characters
    BY <1>1 DEF Token
  <1>3. PICK S : S = Characters \cup {" "}
    OBVIOUS
  <1>4. Decode(text) \in [1 .. n -> S]
    BY <1>1, <1>2, <1>3 DEF Decode
  <1>5. Decode(text) \in Seq(S)
    BY <1>4
  <1> QED
    BY <1>3, <1>5 DEF Texts

LEMMA SignPlace ==
  ASSUME NEW p \in Tokens, Signs(p) # {}
  PROVE  /\ FirstSign(p) \in Signs(p) /\ \A j \in Signs(p) : FirstSign(p) <= j
         /\ FirstSign(p) \in 1 .. Len(p)
  <1>1. Signs(p) \subseteq 1 .. Len(p) /\ Len(p) \in Nat
    BY LenProperties DEF Signs, Tokens
  <1>2. PICK i \in Signs(p) : \A j \in Signs(p) : ~(j < i)
    <2>1. Signs(p) \subseteq Nat
      BY <1>1
    <2> QED
      BY <2>1, LeastMember
  <1>3. \A j \in Signs(p) : i <= j
    BY <1>1, <1>2
  <1>4. FirstSign(p) \in Signs(p) /\ \A j \in Signs(p) : FirstSign(p) <= j
    BY <1>2, <1>3 DEF FirstSign
  <1> QED
    BY <1>1, <1>4

LEMMA ValueType ==
  ASSUME NEW p \in Tokens
  PROVE  ValueOf(p) \in Tokens
  <1>1. CASE Signs(p) = {}
    BY <1>1, EmptySeq DEF ValueOf, Tokens
  <1>2. CASE Signs(p) # {}
    <2>0. PICK n \in Nat : n = Len(p)
      BY LenProperties DEF Tokens
    <2>1. PICK k \in 1 .. n : n = Len(p) /\ k = FirstSign(p)
      BY <1>2, <2>0, SignPlace
    <2>2. \A i \in k + 1 .. n : p[i] \in Token
      BY <2>1, LenProperties DEF Tokens
    <2>3. SubSeq(p, k + 1, n) \in Seq(Token)
      BY <2>2, SubSeqProperties
    <2> QED
      BY <1>2, <2>1, <2>3 DEF ValueOf, Tokens
  <1> QED
    BY <1>1, <1>2

LEMMA NoteType ==
  ASSUME NEW values \in Seq(Texts), NEW p \in Tokens, NEW name
  PROVE  Note(values, p, name) \in Seq(Texts)
  <1>1. Decode(ValueOf(p)) \in Texts
    BY ValueType, DecodeType
  <1>2. Append(values, Decode(ValueOf(p))) \in Seq(Texts)
    BY <1>1, AppendProperties
  <1> QED
    BY <1>2 DEF Note

\* What the recursion of Arguments computes.
ValuesOf(v, query0, name) ==
    /\ v \in [0 .. Len(Pairs(query0)) -> Seq(Texts)] /\ v[0] = <<>>
    /\ \A i \in 1 .. Len(Pairs(query0)) : v[i] = Note(v[i - 1], Pairs(query0)[i], name)
    /\ Arguments(query0, name) = v[Len(Pairs(query0))]

LEMMA ArgumentsRuns ==
  ASSUME NEW query0 \in Tokens, NEW name
  PROVE  \E v : ValuesOf(v, query0, name)
  <1>1. PICK ps \in Seq(Tokens), n \in Nat :
            ps = Pairs(query0) /\ n = Len(ps) /\ \A i \in 1 .. n : ps[i] \in Tokens
    BY PairsType, LenProperties
  <1> DEFINE S == Seq(Texts)
             Runs(g) == g = [i \in 0 .. n |->
                                 IF i = 0 THEN <<>> ELSE Note(g[i - 1], ps[i], name)]
             G == CHOOSE g : Runs(g)
  <1>2. Arguments(query0, name) = G[n]
    BY <1>1 DEF Arguments, Note
  <1>3. <<>> \in S
    BY EmptySeq
  <1>4. \A q \in S : \A p \in Tokens : Note(q, p, name) \in S
    BY NoteType
  <1> HIDE DEF S
  <1>5. PICK f : Follows(f, n, S, <<>>, [i \in 1 .. n |-> [q \in S |-> Note(q, ps[i], name)]])
    <2>1. [i \in 1 .. n |-> [q \in S |-> Note(q, ps[i], name)]] \in Steps(n, S)
      BY <1>1, <1>4 DEF Steps
    <2> QED
      BY <1>3, <2>1, Recursion
  <1>6. f \in [0 .. n -> S] /\ f[0] = <<>> /\ \A i \in 1 .. n : f[i] = Note(f[i - 1], ps[i], name)
    <2>1. f \in [0 .. n -> S] /\ f[0] = <<>>
      BY <1>5 DEF Follows
    <2>2. ASSUME NEW i \in 1 .. n PROVE f[i] = Note(f[i - 1], ps[i], name)
      <3>1. f[i - 1] \in S
        BY <2>1
      <3>2. f[i] = [k \in 1 .. n |-> [q \in S |-> Note(q, ps[k], name)]][i][f[i - 1]]
        BY <1>5 DEF Follows
      <3> QED
        BY <3>1, <3>2
    <2> QED
      BY <2>1, <2>2
  <1>7. Runs(f)
    <2>1. ASSUME NEW i \in 0 .. n
          PROVE  f[i] = IF i = 0 THEN <<>> ELSE Note(f[i - 1], ps[i], name)
      <3>1. CASE i = 0
        BY <1>6, <3>1
      <3>2. CASE i # 0
        <4>1. i \in 1 .. n
          BY <3>2
        <4> QED
          BY <1>6, <3>2, <4>1
      <3> QED
        BY <3>1, <3>2
    <2> QED
      BY <1>6, <2>1
  <1>8. Runs(G)
    <2> HIDE DEF Runs
    <2> QED
      BY <1>7
  <1> HIDE DEF G
  <1>9. G = f
    <2>1. \A i \in 0 .. n : G[i] = IF i = 0 THEN <<>> ELSE Note(G[i - 1], ps[i], name)
      BY <1>8
    <2> DEFINE T == {i \in 0 .. n : G[i] = f[i]}
    <2>2. 0 \in T
      BY <1>6, <2>1
    <2>3. \A i \in 1 .. n : i - 1 \in T => i \in T
      BY <1>6, <2>1
    <2> HIDE DEF T
    <2>4. 0 .. n \subseteq T
      BY <2>2, <2>3, BoundedInduction
    <2>5. \A i \in 0 .. n : G[i] = f[i]
      BY <2>4 DEF T
    <2>6. G = [i \in 0 .. n |-> G[i]]
      BY <1>8
    <2> QED
      BY <1>6, <2>5, <2>6
  <1> QED
    BY <1>1, <1>2, <1>6, <1>9 DEF ValuesOf, S

LEMMA ArgumentsType ==
  ASSUME NEW query0 \in Tokens, NEW name
  PROVE  Arguments(query0, name) \in Seq(Texts)
  <1>1. PICK v : ValuesOf(v, query0, name)
    BY ArgumentsRuns
  <1>2. Len(Pairs(query0)) \in Nat
    BY PairsType, LenProperties
  <1> QED
    BY <1>1, <1>2 DEF ValuesOf

\* One more pair is read behind what has been read of the others.
LEMMA ArgumentsAppend ==
  ASSUME NEW query0 \in Tokens, NEW query1 \in Tokens, NEW p \in Tokens, NEW name,
         Pairs(query1) = Append(Pairs(query0), p)
  PROVE  Arguments(query1, name) = Note(Arguments(query0, name), p, name)
  <1>1. PICK v : ValuesOf(v, query0, name)
    BY ArgumentsRuns
  <1>2. PICK u : ValuesOf(u, query1, name)
    BY ArgumentsRuns
  <1>3. PICK ps \in Seq(Tokens), n \in Nat : ps = Pairs(query0) /\ n = Len(ps)
    BY PairsType, LenProperties
  <1>4. PICK rs : rs = Pairs(query1)
    OBVIOUS
  <1>5. Len(rs) = n + 1 /\ rs[n + 1] = p /\ \A i \in 1 .. n : rs[i] = ps[i]
    BY <1>3, <1>4, AppendProperties
  <1>6. /\ u[0] = <<>> /\ \A i \in 1 .. n + 1 : u[i] = Note(u[i - 1], rs[i], name)
        /\ Arguments(query1, name) = u[n + 1]
    BY <1>2, <1>4, <1>5 DEF ValuesOf
  <1>7. /\ v[0] = <<>> /\ \A i \in 1 .. n : v[i] = Note(v[i - 1], ps[i], name)
        /\ Arguments(query0, name) = v[n]
    BY <1>1, <1>3 DEF ValuesOf
  <1>8. u[n] = v[n]
    <2> DEFINE T == {i \in 0 .. n : u[i] = v[i]}
    <2>1. 0 \in T
      BY <1>6, <1>7
    <2>2. ASSUME NEW i \in 1 .. n, i - 1 \in T PROVE i \in T
      <3>1. i \in 1 .. n + 1
        OBVIOUS
      <3>2. u[i] = Note(u[i - 1], ps[i], name)
        BY <1>5, <1>6, <3>1
      <3>3. v[i] = Note(v[i - 1], ps[i], name)
        BY <1>7
      <3>4. u[i - 1] = v[i - 1]
        BY <2>2
      <3> QED
        BY <3>2, <3>3, <3>4
    <2> HIDE DEF T
    <2>3. 0 .. n \subseteq T
      BY <2>1, <2>2, BoundedInduction
    <2>4. n \in T
      BY <2>3
    <2> QED
      BY <2>4 DEF T
  <1>9. u[n + 1] = Note(u[n], p, name)
    <2>1. n + 1 \in 1 .. n + 1 /\ (n + 1) - 1 = n
      OBVIOUS
    <2> QED
      BY <1>5, <1>6, <2>1
  <1> QED
    BY <1>6, <1>7, <1>8, <1>9

LEMMA ArgumentsOne ==
  ASSUME NEW query0 \in Tokens, NEW p, NEW name, Pairs(query0) = <<p>>
  PROVE  Arguments(query0, name) = Note(<<>>, p, name)
  <1>1. PICK v : ValuesOf(v, query0, name)
    BY ArgumentsRuns
  <1>2. Len(<<p>>) = 1 /\ <<p>>[1] = p
    OBVIOUS
  <1>3. v[0] = <<>> /\ v[1] = Note(v[1 - 1], p, name) /\ Arguments(query0, name) = v[1]
    <2>1. 1 \in 1 .. 1
      OBVIOUS
    <2> QED
      BY <1>1, <1>2, <2>1 DEF ValuesOf
  <1>4. 1 - 1 = 0
    OBVIOUS
  <1> QED
    BY <1>3, <1>4

-----------------------------------------------------------------------------
(* A pair as the client writes it, and as the server reads it *)

LEMMA EncodeBack ==
  ASSUME NEW text \in Text
  PROVE  /\ Encode(text) \in Tokens /\ Len(Encode(text)) = Len(text)
         /\ Plain(Encode(text))
         /\ \A i \in 1 .. Len(text) : Encode(text)[i] # Literal("=")
         /\ Decodable(Encode(text)) /\ Decode(Encode(text)) = text
  <1>1. PICK n \in Nat : n = Len(text) /\ \A i \in 1 .. n : text[i] \in Characters
    BY LenProperties DEF Text
  <1>2. PICK e \in Tokens : e = Encode(text)
    BY EncodeType DEF Tokens
  <1>3. Len(e) = n /\ DOMAIN e = 1 .. n
        /\ \A i \in 1 .. n : e[i] = IF text[i] \in ENCODE_SET THEN Encoded(text[i])
                                    ELSE Literal(text[i])
    BY <1>1, <1>2, LenProperties DEF Encode, Tokens
  <1>4. ASSUME NEW i \in 1 .. n
        PROVE  /\ e[i] # Separator /\ e[i] # Literal("=") /\ e[i] # Encoded(Invalid)
               /\ (IF e[i] = Literal("+") THEN " " ELSE e[i][2]) = text[i]
    <2>1. CASE text[i] \in ENCODE_SET
      <3>1. e[i] = <<"encoded", text[i]>> /\ text[i] # "invalid"
        BY <1>3, <2>1 DEF Encoded, ENCODE_SET
      <3> QED
        BY <3>1 DEF Separator, Literal, Encoded, Invalid
    <2>2. CASE text[i] \notin ENCODE_SET
      <3>1. e[i] = <<"literal", text[i]>> /\ text[i] # "&" /\ text[i] # "=" /\ text[i] # "+"
        BY <1>3, <2>2 DEF Literal, ENCODE_SET
      <3> QED
        BY <3>1 DEF Separator, Literal, Encoded, Invalid
    <2> QED
      BY <2>1, <2>2
  <1>5. Plain(e)
    BY <1>3, <1>4 DEF Plain
  <1>6. Decodable(e)
    BY <1>3, <1>4 DEF Decodable
  <1>7. Decode(e) = text
    <2>1. Decode(e) = [i \in 1 .. n |-> text[i]]
      BY <1>3, <1>4 DEF Decode
    <2>2. text = [i \in 1 .. n |-> text[i]]
      BY <1>1, LenProperties DEF Text
    <2> QED
      BY <2>1, <2>2
  <1> QED
    BY <1>1, <1>2, <1>3, <1>4, <1>5, <1>6, <1>7

PairOf(name, value) == Encode(name) \o <<Literal("=")>> \o Encode(value)

LEMMA PairBack ==
  ASSUME NEW name \in Text, NEW value \in Text
  PROVE  /\ Plain(PairOf(name, value)) /\ PairOf(name, value) \in Tokens
         /\ PairOf(name, value) # <<>>
         /\ Decodable(NameOf(PairOf(name, value))) /\ Decode(NameOf(PairOf(name, value))) = name
         /\ Decodable(ValueOf(PairOf(name, value)))
         /\ Decode(ValueOf(PairOf(name, value))) = value
  <1>1. PICK e \in Tokens, d \in Tokens : e = Encode(name) /\ d = Encode(value)
    BY EncodeBack
  <1>2. PICK n \in Nat, l \in Nat : n = Len(e) /\ l = Len(d)
    BY LenProperties DEF Tokens
  <1>3. Literal("=") \in Token
    <2>1. "=" \in Characters
      BY ClientAssumption
    <2> QED
      BY <2>1 DEF Literal, Token
  <1>4. PICK a \in Tokens : a = e \o <<Literal("=")>> /\ Len(a) = n + 1 /\ a[n + 1] = Literal("=")
                            /\ \A i \in 1 .. n : a[i] = e[i]
    <2>1. PICK a : a = Append(e, Literal("="))
      OBVIOUS
    <2>2. /\ a \in Tokens /\ Len(a) = n + 1 /\ a[n + 1] = Literal("=")
          /\ \A i \in 1 .. n : a[i] = e[i]
      BY <1>2, <1>3, <2>1, AppendProperties DEF Tokens
    <2>3. a = e \o <<Literal("=")>>
      BY <1>3, <2>1, AppendIsConcat DEF Tokens
    <2> QED
      BY <2>2, <2>3
  <1>5. PICK p \in Tokens : p = PairOf(name, value) /\ p = a \o d
    BY <1>1, <1>4, ConcatProperties DEF PairOf, Tokens
  <1>6. Len(p) = n + 1 + l /\ DOMAIN p = 1 .. n + 1 + l
    BY <1>2, <1>4, <1>5, ConcatProperties, LenProperties DEF Tokens
  <1>7. ASSUME NEW i \in 1 .. n + 1 PROVE p[i] = a[i]
    <2>1. i \in 1 .. Len(a) + Len(d) /\ i <= Len(a)
      BY <1>2, <1>4
    <2>2. (a \o d)[i] = a[i]
      BY <2>1, ConcatProperties DEF Tokens
    <2> QED
      BY <1>5, <2>2
  <1>8. ASSUME NEW k \in 1 .. l PROVE p[n + 1 + k] = d[k]
    <2>1. /\ n + 1 + k \in 1 .. Len(a) + Len(d) /\ ~(n + 1 + k <= Len(a))
          /\ (n + 1 + k) - Len(a) = k
      BY <1>2, <1>4
    <2>2. (a \o d)[n + 1 + k] = d[(n + 1 + k) - Len(a)]
      BY <2>1, ConcatProperties DEF Tokens
    <2> QED
      BY <1>5, <2>1, <2>2
  <1>9. /\ \A i \in 1 .. n : e[i] # Separator /\ e[i] # Literal("=")
        /\ \A k \in 1 .. l : d[k] # Separator
    BY <1>1, <1>2, EncodeBack DEF Plain
  <1>10. Literal("=") # Separator
    BY DEF Literal, Separator
  <1>11. Plain(p)
    <2>1. ASSUME NEW i \in 1 .. n + 1 + l PROVE p[i] # Separator
      <3>1. CASE i \in 1 .. n
        BY <1>4, <1>7, <1>9, <3>1
      <3>2. CASE i = n + 1
        BY <1>4, <1>7, <1>10, <3>2
      <3>3. CASE i > n + 1
        <4>1. PICK k \in 1 .. l : i = n + 1 + k
          <5>1. i - (n + 1) \in 1 .. l /\ i = n + 1 + (i - (n + 1))
            BY <3>3
          <5> QED
            BY <5>1
        <4> QED
          BY <1>8, <1>9, <4>1
      <3> QED
        BY <3>1, <3>2, <3>3
    <2> QED
      BY <1>6, <2>1 DEF Plain
  <1>12. n + 1 \in Signs(p) /\ \A j \in Signs(p) : n + 1 <= j
    <2>1. p[n + 1] = Literal("=") /\ n + 1 \in 1 .. n + 1 + l
      BY <1>4, <1>7
    <2>2. ASSUME NEW j \in Signs(p) PROVE n + 1 <= j
      <3>1. j \in 1 .. n + 1 + l /\ p[j] = Literal("=")
        BY <1>6 DEF Signs
      <3>2. CASE j \in 1 .. n
        BY <1>4, <1>7, <1>9, <3>1, <3>2
      <3> QED
        BY <3>1, <3>2
    <2> QED
      BY <1>6, <2>1, <2>2 DEF Signs
  <1>13. FirstSign(p) = n + 1 /\ Signs(p) # {}
    <2>1. FirstSign(p) \in Signs(p) /\ \A j \in Signs(p) : FirstSign(p) <= j
      BY <1>12, SignPlace
    <2>2. FirstSign(p) \in Nat
      BY <1>6, <2>1 DEF Signs
    <2> QED
      BY <1>12, <2>1, <2>2
  <1>14. NameOf(p) = e
    <2>1. NameOf(p) = SubSeq(p, 1, n)
      BY <1>13 DEF NameOf
    <2>2. \A i \in 1 .. n : p[i] \in Token /\ p[i] = e[i]
      <3>1. \A i \in 1 .. n : i \in 1 .. n + 1
        OBVIOUS
      <3>2. \A i \in 1 .. n : e[i] \in Token
        BY <1>2, LenProperties DEF Tokens
      <3> QED
        BY <1>4, <1>7, <3>1, <3>2
    <2>3. PICK s : s = SubSeq(p, 1, n)
      OBVIOUS
    <2>4. s \in Seq(Token) /\ Len(s) = n /\ \A i \in 1 .. n : s[i] = e[i]
      BY <2>2, <2>3, SubSeqProperties
    <2> QED
      BY <1>2, <2>1, <2>3, <2>4, SeqEqual DEF Tokens
  <1>15. ValueOf(p) = d
    <2>1. ValueOf(p) = SubSeq(p, n + 2, n + 1 + l)
      BY <1>6, <1>13 DEF ValueOf
    <2>2. \A i \in n + 2 .. n + 1 + l : p[i] \in Token
      BY <1>6, LenProperties DEF Tokens
    <2>3. PICK s : s = SubSeq(p, n + 2, n + 1 + l)
      OBVIOUS
    <2>4. s \in Seq(Token) /\ Len(s) = l /\ \A i \in 1 .. l : s[i] = p[n + 2 + i - 1]
      BY <2>2, <2>3, SubSeqProperties
    <2>5. ASSUME NEW i \in 1 .. l PROVE s[i] = d[i]
      <3>1. n + 2 + i - 1 = n + 1 + i
        OBVIOUS
      <3> QED
        BY <1>8, <2>4, <3>1
    <2> QED
      BY <1>2, <2>1, <2>3, <2>4, <2>5, SeqEqual DEF Tokens
  <1>16. p # <<>>
    BY <1>6, EmptySeq
  <1> QED
    BY <1>1, <1>5, <1>11, <1>14, <1>15, <1>16, EncodeBack

-----------------------------------------------------------------------------
(* The query of a request *)

\* One more argument in a query.
Added(params, query0, m) ==
    IF query0 = <<>> THEN PairOf(m, params[m]) ELSE Paired(query0, PairOf(m, params[m]))

LEMMA AddedType ==
  ASSUME NEW names, NEW params \in [names -> Text], names \subseteq Text,
         NEW query0 \in Tokens, NEW m \in names
  PROVE  Added(params, query0, m) \in Tokens
  <1>1. m \in Text /\ params[m] \in Text
    OBVIOUS
  <1>2. PairOf(m, params[m]) \in Tokens
    BY <1>1, PairBack
  <1> QED
    BY <1>2, PairedType DEF Added

\* What the recursion of Appended computes.
Appends(f, query0, params, order, n) ==
    /\ f \in [0 .. n -> Tokens] /\ f[0] = query0
    /\ \A i \in 1 .. n : f[i] = Added(params, f[i - 1], order[i])
    /\ Appended(query0, params, order) = f[n]

LEMMA AppendRuns ==
  ASSUME NEW query0 \in Tokens, NEW names, NEW params \in [names -> Text],
         names \subseteq Text, NEW n \in Nat, NEW order \in [1 .. n -> names]
  PROVE  \E f : Appends(f, query0, params, order, n)
  <1> DEFINE Runs(g) == g = [i \in 0 .. n |->
                                 IF i = 0 THEN query0 ELSE Added(params, g[i - 1], order[i])]
             G == CHOOSE g : Runs(g)
  <1>1. Len(order) = n
    <2>1. order \in Seq(names)
      OBVIOUS
    <2> QED
      BY <2>1, LenProperties
  <1>2. Appended(query0, params, order) = G[n]
    BY <1>1 DEF Appended, Added, PairOf, Paired, Separator
  <1>3. \A q \in Tokens, m \in names : Added(params, q, m) \in Tokens
    BY AddedType
  <1> DEFINE step == [i \in 1 .. n |-> [q \in Tokens |-> Added(params, q, order[i])]]
  <1>4. /\ step \in Steps(n, Tokens)
        /\ \A i \in 1 .. n : \A q \in Tokens : step[i][q] = Added(params, q, order[i])
    BY <1>3 DEF Steps
  <1> HIDE DEF step
  <1>5. PICK f : Follows(f, n, Tokens, query0, step)
    BY <1>4, Recursion
  <1>6. /\ f \in [0 .. n -> Tokens] /\ f[0] = query0
        /\ \A i \in 1 .. n : f[i] = Added(params, f[i - 1], order[i])
    <2>1. f \in [0 .. n -> Tokens] /\ f[0] = query0
      BY <1>5 DEF Follows
    <2>2. ASSUME NEW i \in 1 .. n PROVE f[i] = Added(params, f[i - 1], order[i])
      <3>1. f[i] = step[i][f[i - 1]] /\ f[i - 1] \in Tokens
        BY <1>5, <2>1 DEF Follows
      <3> QED
        BY <1>4, <3>1
    <2> QED
      BY <2>1, <2>2
  <1>7. Runs(f)
    <2>1. \A i \in 0 .. n : f[i] = IF i = 0 THEN query0 ELSE Added(params, f[i - 1], order[i])
      BY <1>6
    <2> QED
      BY <1>6, <2>1
  <1>8. Runs(G)
    <2> HIDE DEF Runs
    <2> QED
      BY <1>7
  <1> HIDE DEF G
  <1>9. G = f
    <2> DEFINE T == {i \in 0 .. n : G[i] = f[i]}
    <2>1. \A i \in 0 .. n : G[i] = IF i = 0 THEN query0 ELSE Added(params, G[i - 1], order[i])
      BY <1>8
    <2>2. 0 \in T
      BY <1>6, <2>1
    <2>3. ASSUME NEW i \in 1 .. n, i - 1 \in T PROVE i \in T
      BY <1>6, <2>1, <2>3
    <2> HIDE DEF T
    <2>4. 0 .. n \subseteq T
      BY <2>2, <2>3, BoundedInduction
    <2>5. \A i \in 0 .. n : G[i] = f[i]
      BY <2>4 DEF T
    <2> QED
      BY <1>6, <1>8, <2>5
  <1> QED
    BY <1>2, <1>6, <1>9 DEF Appends

LEMMA AppendQueryType ==
  ASSUME NEW query0 \in Seq(Token), NEW params, NEW names, params \in [names -> Text],
         names \subseteq Text, NEW n \in Nat, NEW order \in [1 .. n -> names]
  PROVE  AppendQuery(query0, params, order) \in Seq(Token)
  <1>1. PICK f : Appends(f, query0, params, order, n)
    BY AppendRuns DEF Tokens
  <1>2. Appended(query0, params, order) \in Seq(Token)
    BY <1>1 DEF Appends, Tokens
  <1> QED
    BY <1>2 DEF AppendQuery

QueryType == query \in [Calls -> Seq(Token)]

LEMMA QueryStep ==
  ASSUME [Next]_vars
  PROVE  \/ config' = config /\ input' = input /\ query' = query
         \/ \E c \in Calls : CallStart(c) /\ registry # None
  <1>1. CASE UNCHANGED vars
    BY <1>1 DEF vars, callVars
  <1>2. CASE \E b \in Binders :
                 Bind(b) \/ Unbind(b) \/ UnbindRemove(b) \/ TaskTake(b) \/ Respond(b) \/ Break(b)
    BY <1>2 DEF Bind, Unbind, UnbindRemove, TaskTake, Respond, Break, callVars
  <1>3. CASE \E c \in Calls : CallSend(c) \/ CallRetry(c) \/ CallWake(c) \/ CallReturn(c)
                                 \/ Upload(c) \/ ServerChunk(c) \/ ServerItem(c) \/ ServerEnd(c)
    BY <1>3 DEF CallSend, CallRetry, CallWake, CallReturn, Upload, ServerChunk, ServerItem, ServerEnd, callVars
  <1>4. CASE \E c \in Calls : CallStart(c)
    BY <1>4 DEF CallStart
  <1> QED
    BY <1>1, <1>2, <1>3, <1>4 DEF Next

LEMMA QueryNext ==
  ASSUME CallsInv, QueryType, [Next]_vars
  PROVE  QueryType'
  <1>1. CASE query' = query
    BY <1>1 DEF QueryType
  <1>2. ASSUME NEW c \in Calls, CallStart(c), query' # query PROVE QueryType'
    <2>0. PICK i \in Inputs[c] : \E order \in Orders(DOMAIN ParamsOf(i.arguments)) :
              query' = [query EXCEPT ![c] = AppendQuery(i.base, ParamsOf(i.arguments), order)]
      BY <1>2 DEF CallStart
    <2>1. PICK params, order :
              /\ params = ParamsOf(i.arguments) /\ order \in Orders(DOMAIN params)
              /\ query' = [query EXCEPT ![c] = AppendQuery(i.base, params, order)]
      BY <2>0
    <2>2. i.base \in Seq(Token) /\ i.arguments \in Seq(Text \X Text)
      BY ClientAssumption DEF Input, Token, Text
    <2>3. PICK names \in {DOMAIN params}, n \in Nat : names = DOMAIN params /\ n = Cardinality(names)
      <3>1. Cardinality(DOMAIN params) \in Nat
        BY <2>1, <2>2, ParamsType, FS_CardinalityType
      <3>2. PICK names : names = DOMAIN params
        OBVIOUS
      <3> QED
        BY <3>1, <3>2
    <2>4. params \in [names -> Text] /\ names \subseteq Text
      BY <2>1, <2>2, <2>3, ParamsType
    <2>5. order \in [1 .. n -> names]
      BY <2>1, <2>3 DEF Orders
    <2>6. AppendQuery(i.base, params, order) \in Seq(Token)
      BY <2>2, <2>4, <2>5, AppendQueryType
    <2> QED
      BY <2>1, <2>6 DEF QueryType
  <1> QED
    BY <1>1, <1>2, QueryStep

-----------------------------------------------------------------------------
(* The values of an argument that a request sets *)

\* A name is not empty: an empty query has one pair, which is empty, and only an
\* empty name is its name.
LEMMA EmptyPair ==
  ASSUME NEW name, name # <<>>
  PROVE  ~Named(<<>>, name)
  <1>1. Signs(<<>>) = {}
    BY DEF Signs
  <1>2. NameOf(<<>>) = <<>>
    BY <1>1 DEF NameOf
  <1>3. Decode(<<>>) = <<>>
    BY DEF Decode
  <1> QED
    BY <1>2, <1>3 DEF Named

LEMMA EmptyQuery ==
  ASSUME NEW name, name # <<>>
  PROVE  Pairs(<<>>) = << <<>> >> /\ Arguments(<<>>, name) = <<>>
  <1>1. <<>> \in Tokens /\ Plain(<<>>)
    BY EmptySeq DEF Plain, Tokens
  <1>2. Pairs(<<>>) = << <<>> >>
    BY <1>1, PairsOne
  <1>3. Arguments(<<>>, name) = Note(<<>>, <<>>, name)
    BY <1>1, <1>2, ArgumentsOne
  <1> QED
    BY <1>2, <1>3, EmptyPair DEF Note

LEMMA NotePair ==
  ASSUME NEW m \in Text, NEW value \in Text, NEW name, NEW values
  PROVE  Note(values, PairOf(m, value), name) =
             IF m = name THEN Append(values, value) ELSE values
  <1>1. PICK p : p = PairOf(m, value)
    OBVIOUS
  <1>2. /\ Decodable(NameOf(p)) /\ Decode(NameOf(p)) = m
        /\ Decodable(ValueOf(p)) /\ Decode(ValueOf(p)) = value
    BY <1>1, PairBack
  <1>3. Note(values, p, name) = IF m = name THEN Append(values, value) ELSE values
    BY <1>2 DEF Note, Named
  <1> QED
    BY <1>1, <1>3

LEMMA AddedArguments ==
  ASSUME NEW names, NEW params \in [names -> Text], names \subseteq Text,
         NEW query0 \in Tokens, NEW m \in names, NEW name, name # <<>>
  PROVE  Arguments(Added(params, query0, m), name) =
             IF m = name THEN Append(Arguments(query0, name), params[m])
             ELSE Arguments(query0, name)
  <1>1. m \in Text /\ params[m] \in Text
    OBVIOUS
  <1>2. PICK p : p = PairOf(m, params[m])
    OBVIOUS
  <1>3. Plain(p) /\ p \in Tokens
    BY <1>1, <1>2, PairBack
  <1>4. \A values : Note(values, p, name) =
            IF m = name THEN Append(values, params[m]) ELSE values
    BY <1>1, <1>2, NotePair
  <1>5. CASE query0 = <<>>
    <2>1. Added(params, query0, m) = p
      BY <1>2, <1>5 DEF Added
    <2>2. Pairs(p) = <<p>>
      BY <1>3, PairsOne
    <2>3. Arguments(p, name) = Note(<<>>, p, name)
      BY <1>3, <2>2, ArgumentsOne
    <2>4. Arguments(query0, name) = <<>>
      BY <1>5, EmptyQuery
    <2> QED
      BY <1>4, <2>1, <2>3, <2>4
  <1>6. CASE query0 # <<>>
    <2>1. Added(params, query0, m) = Paired(query0, p)
      BY <1>2, <1>6 DEF Added
    <2>2. PICK query1 : query1 = Paired(query0, p)
      OBVIOUS
    <2>3. query1 \in Tokens
      BY <1>3, <2>2, PairedType
    <2>4. Pairs(query1) = Append(Pairs(query0), p)
      BY <1>3, <2>2, PairsPaired
    <2>5. Arguments(query1, name) = Note(Arguments(query0, name), p, name)
      BY <1>3, <2>3, <2>4, ArgumentsAppend
    <2> QED
      BY <1>4, <2>1, <2>2, <2>5
  <1> QED
    BY <1>5, <1>6

LEMMA OrderOnto ==
  ASSUME NEW names, IsFiniteSet(names), NEW order \in Orders(names)
  PROVE  /\ order \in [1 .. Cardinality(names) -> names] /\ IsInjective(order)
         /\ \A m \in names : \E k \in 1 .. Cardinality(names) : order[k] = m
  <1>1. PICK n \in Nat : n = Cardinality(names)
    BY FS_CardinalityType
  <1>2. order \in [1 .. n -> names] /\ IsInjective(order)
    BY <1>1 DEF Orders
  <1>3. order \in Injection(1 .. n, names)
    BY <1>2 DEF Injection
  <1>4. Cardinality(1 .. n) = n
    BY FS_Interval
  <1>5. order \in Surjection(1 .. n, names)
    BY <1>1, <1>3, <1>4, FS_Injection
  <1> QED
    BY <1>1, <1>2, <1>5 DEF Surjection

LEMMA TextTexts ==
  ASSUME NEW text \in Text
  PROVE  text \in Texts
  <1>1. PICK n \in Nat : n = Len(text) /\ text \in [1 .. n -> Characters]
    BY LenProperties DEF Text
  <1>2. PICK S : S = Characters \cup {" "}
    OBVIOUS
  <1>3. text \in [1 .. n -> S]
    BY <1>1, <1>2
  <1>4. text \in Seq(S)
    BY <1>3
  <1> QED
    BY <1>2, <1>4 DEF Texts

\* The values of a name with the one that params have for it behind them.
Further(values, params, name) ==
    values \o (IF name \in DOMAIN params THEN <<params[name]>> ELSE <<>>)

\* What the arguments of a query are once those of a request are appended.
LEMMA QueryArguments ==
  ASSUME NEW query0 \in Tokens, NEW names, IsFiniteSet(names),
         NEW params \in [names -> Text], names \subseteq Text,
         NEW order \in Orders(names), NEW name, name # <<>>
  PROVE  Arguments(Appended(query0, params, order), name) =
             Further(Arguments(query0, name), params, name)
  <1>1. PICK n \in Nat : n = Cardinality(names)
    BY FS_CardinalityType
  <1>2. /\ order \in [1 .. n -> names] /\ IsInjective(order)
        /\ \A m \in names : \E k \in 1 .. n : order[k] = m
    BY <1>1, OrderOnto
  <1>3. PICK f : Appends(f, query0, params, order, n)
    BY <1>2, AppendRuns
  <1>4. /\ \A i \in 0 .. n : f[i] \in Tokens
        /\ f[0] = query0 /\ \A i \in 1 .. n : f[i] = Added(params, f[i - 1], order[i])
        /\ Appended(query0, params, order) = f[n]
    BY <1>3 DEF Appends
  <1>5. PICK a \in Seq(Texts) : a = Arguments(query0, name)
    BY ArgumentsType
  <1>6. ASSUME NEW i \in 1 .. n
        PROVE  Arguments(f[i], name) =
                   IF order[i] = name THEN Append(Arguments(f[i - 1], name), params[name])
                   ELSE Arguments(f[i - 1], name)
    <2>1. PICK q \in Tokens, m \in names : q = f[i - 1] /\ m = order[i]
      BY <1>2, <1>4
    <2>2. Arguments(Added(params, q, m), name) =
              IF m = name THEN Append(Arguments(q, name), params[m]) ELSE Arguments(q, name)
      BY AddedArguments
    <2> QED
      BY <1>4, <2>1, <2>2
  <1> DEFINE Set(i) == \E k \in 1 .. i : order[k] = name
             T == {i \in 0 .. n : Arguments(f[i], name) =
                                      IF Set(i) THEN Append(a, params[name]) ELSE a}
  <1>7. 0 \in T
    <2>1. ~Set(0)
      OBVIOUS
    <2> QED
      BY <1>4, <1>5, <2>1
  <1>8. ASSUME NEW i \in 1 .. n, i - 1 \in T PROVE i \in T
    <2>1. Arguments(f[i - 1], name) = IF Set(i - 1) THEN Append(a, params[name]) ELSE a
      BY <1>8
    <2>2. CASE order[i] = name
      <3>1. Set(i) /\ ~Set(i - 1)
        BY <1>2, <2>2 DEF IsInjective
      <3> HIDE DEF Set
      <3>2. Arguments(f[i], name) = Append(a, params[name])
        BY <1>6, <2>1, <2>2, <3>1
      <3> QED
        BY <3>1, <3>2
    <2>3. CASE order[i] # name
      <3>1. Set(i) <=> Set(i - 1)
        BY <2>3
      <3> HIDE DEF Set
      <3>2. Arguments(f[i], name) = Arguments(f[i - 1], name)
        BY <1>6, <2>3
      <3> QED
        BY <2>1, <3>1, <3>2
    <2> QED
      BY <2>2, <2>3
  <1> HIDE DEF T
  <1>9. 0 .. n \subseteq T
    BY <1>7, <1>8, BoundedInduction
  <1>10. Arguments(f[n], name) = IF Set(n) THEN Append(a, params[name]) ELSE a
    BY <1>9 DEF T
  <1>11. Set(n) <=> name \in names
    BY <1>2
  <1> HIDE DEF Set
  <1>12. CASE name \in names
    <2>1. params[name] \in Texts
      <3>1. params[name] \in Text
        BY <1>12
      <3> QED
        BY <3>1, TextTexts
    <2>2. Append(a, params[name]) = a \o <<params[name]>>
      BY <1>5, <2>1, AppendIsConcat
    <2>3. Further(a, params, name) = Append(a, params[name])
      BY <1>12, <2>2 DEF Further
    <2> QED
      BY <1>4, <1>5, <1>10, <1>11, <1>12, <2>3
  <1>13. CASE name \notin names
    <2>1. a \o <<>> = a
      BY <1>5, ConcatEmptySeq
    <2>2. Further(a, params, name) = a
      BY <1>13, <2>1 DEF Further
    <2> QED
      BY <1>4, <1>5, <1>10, <1>11, <1>13, <2>2
  <1> QED
    BY <1>12, <1>13

-----------------------------------------------------------------------------
(* The first value *)

\* What the pairs say of the first one with a name, where its value can be decoded.
FirstPair(ps, name, i) ==
    /\ i \in DOMAIN ps /\ Named(ps[i], name) /\ Decodable(ValueOf(ps[i]))
    /\ \A j \in 1 .. i - 1 : ~Named(ps[j], name)

LEMMA ArgumentFirst ==
  ASSUME NEW query0 \in Tokens, NEW name, Argument(query0, name) # {}
  PROVE  \E i : /\ FirstPair(Pairs(query0), name, i)
                /\ Argument(query0, name) = {Decode(ValueOf(Pairs(query0)[i]))}
  <1>1. PICK ps \in Seq(Tokens), n \in Nat :
            ps = Pairs(query0) /\ n = Len(ps) /\ DOMAIN ps = 1 .. n
    BY PairsType, LenProperties
  <1> DEFINE first == {k \in 1 .. n : /\ Named(ps[k], name)
                                      /\ \A j \in 1 .. k - 1 : ~Named(ps[j], name)}
  <1>2. Argument(query0, name) =
            {Decode(ValueOf(ps[k])) : k \in {m \in first : Decodable(ValueOf(ps[m]))}}
    BY <1>1 DEF Argument
  <1>3. PICK i \in first : Decodable(ValueOf(ps[i]))
    BY <1>2
  <1>4. FirstPair(ps, name, i)
    BY <1>1, <1>3 DEF FirstPair
  <1>5. \A k \in first : k = i
    <2>1. ASSUME NEW k \in first, k # i PROVE FALSE
      <3>1. k \in 1 .. i - 1 \/ i \in 1 .. k - 1
        BY <2>1
      <3> QED
        BY <3>1
    <2> QED
      BY <2>1
  <1> HIDE DEF first
  <1>6. Argument(query0, name) = {Decode(ValueOf(ps[i]))}
    BY <1>2, <1>3, <1>5
  <1> QED
    BY <1>1, <1>4, <1>6

LEMMA ArgumentsFirst ==
  ASSUME NEW query0 \in Tokens, NEW name, NEW i, FirstPair(Pairs(query0), name, i)
  PROVE  Arguments(query0, name)[1] = Decode(ValueOf(Pairs(query0)[i]))
  <1>1. PICK ps \in Seq(Tokens), n \in Nat :
            ps = Pairs(query0) /\ n = Len(ps) /\ DOMAIN ps = 1 .. n
    BY PairsType, LenProperties
  <1>2. i \in 1 .. n /\ \A j \in 1 .. i - 1 : ~Named(ps[j], name)
    BY <1>1 DEF FirstPair
  <1>3. PICK d \in Texts : d = Decode(ValueOf(ps[i]))
    <2>1. ps[i] \in Tokens
      BY <1>1, <1>2, ElementOfSeq
    <2> QED
      BY <2>1, ValueType, DecodeType
  <1>4. PICK v : ValuesOf(v, query0, name)
    BY ArgumentsRuns
  <1>5. /\ v \in [0 .. n -> Seq(Texts)] /\ v[0] = <<>>
        /\ \A k \in 1 .. n : v[k] = Note(v[k - 1], ps[k], name)
        /\ Arguments(query0, name) = v[n]
    BY <1>1, <1>4 DEF ValuesOf
  <1> DEFINE T == {k \in 0 .. n : IF k < i THEN v[k] = <<>> ELSE v[k] # <<>> /\ v[k][1] = d}
  <1>6. 0 \in T
    BY <1>2, <1>5
  <1>7. ASSUME NEW k \in 1 .. n, k - 1 \in T PROVE k \in T
    <2>1. CASE k < i
      <3>1. v[k - 1] = <<>> /\ ~Named(ps[k], name)
        BY <1>2, <1>7, <2>1
      <3>2. v[k] = <<>>
        BY <1>5, <3>1 DEF Note
      <3> QED
        BY <2>1, <3>2
    <2>2. CASE k = i
      <3>1. v[k - 1] = <<>>
        BY <1>2, <1>7, <2>2
      <3>2. Named(ps[k], name) /\ Decodable(ValueOf(ps[k]))
        BY <1>1, <2>2 DEF FirstPair
      <3>3. v[k] = Append(<<>>, d)
        BY <1>3, <1>5, <2>2, <3>1, <3>2 DEF Note
      <3>4. v[k] # <<>> /\ v[k][1] = d
        BY <3>3
      <3> QED
        BY <2>2, <3>4
    <2>3. CASE i < k
      <3>1. PICK w \in Seq(Texts) : w = v[k - 1] /\ w # <<>> /\ w[1] = d
        BY <1>2, <1>5, <1>7, <2>3
      <3>2. v[k] = w \/ v[k] = Append(w, Decode(ValueOf(ps[k])))
        BY <1>5, <3>1 DEF Note
      <3>3. PICK e : e = Decode(ValueOf(ps[k])) /\ e \in Texts
        <4>1. ps[k] \in Tokens
          BY <1>1, ElementOfSeq
        <4> QED
          BY <4>1, ValueType, DecodeType
      <3>4. Append(w, e) # <<>> /\ Append(w, e)[1] = d
        <4>1. 1 \in 1 .. Len(w)
          BY <3>1, EmptySeq, LenProperties
        <4> QED
          BY <3>1, <3>3, <4>1, AppendProperties
      <3>5. v[k] # <<>> /\ v[k][1] = d
        BY <3>1, <3>2, <3>3, <3>4
      <3> QED
        BY <1>2, <2>3, <3>5
    <2> QED
      BY <1>2, <2>1, <2>2, <2>3
  <1> HIDE DEF T
  <1>8. 0 .. n \subseteq T
    BY <1>6, <1>7, BoundedInduction
  <1>9. n \in T /\ i <= n
    BY <1>2, <1>8
  <1>10. v[n][1] = d
    BY <1>2, <1>9 DEF T
  <1> QED
    BY <1>1, <1>3, <1>5, <1>10

LEMMA AllArgumentsFirst ==
  ASSUME NEW query0 \in Tokens, NEW name, name # <<>>, NEW i,
         FirstPair(Pairs(query0), name, i)
  PROVE  AllArguments(query0)[name] = Decode(ValueOf(Pairs(query0)[i]))
  <1>1. PICK ps \in Seq(Tokens), n \in Nat :
            ps = Pairs(query0) /\ n = Len(ps) /\ DOMAIN ps = 1 .. n
    BY PairsType, LenProperties
  <1>2. /\ i \in 1 .. n /\ Named(ps[i], name) /\ Decodable(ValueOf(ps[i]))
        /\ \A j \in 1 .. i - 1 : ~Named(ps[j], name)
    BY <1>1 DEF FirstPair
  <1> DEFINE readable == {k \in 1 .. n : /\ ps[k] # <<>> /\ Decodable(NameOf(ps[k]))
                                         /\ Decodable(ValueOf(ps[k]))}
             Chosen(k, m) == /\ Decode(NameOf(ps[k])) = m
                             /\ \A j \in readable : j < k => Decode(NameOf(ps[j])) # m
             first(m) == CHOOSE k \in readable : Chosen(k, m)
  <1>3. AllArguments(query0) =
            [m \in {Decode(NameOf(ps[k])) : k \in readable} |-> Decode(ValueOf(ps[first(m)]))]
    BY <1>1 DEF AllArguments
  <1>4. i \in readable
    BY <1>2, EmptyPair DEF Named
  <1>5. Chosen(i, name)
    BY <1>2 DEF Named
  <1>6. ASSUME NEW k \in readable, Chosen(k, name) PROVE k = i
    <2>1. Named(ps[k], name)
      BY <1>6 DEF Named
    <2>2. ~(k < i)
      BY <1>2, <2>1
    <2>3. ~(i < k)
      BY <1>4, <1>5, <1>6
    <2> QED
      BY <1>2, <2>2, <2>3
  <1>7. name \in {Decode(NameOf(ps[k])) : k \in readable}
    BY <1>4, <1>5
  <1> HIDE DEF readable, Chosen
  <1>8. first(name) = i
    BY <1>4, <1>5, <1>6
  <1> HIDE DEF first
  <1> QED
    BY <1>1, <1>3, <1>7, <1>8

-----------------------------------------------------------------------------
(* The arguments of a call *)

\* A query is made of the base and the arguments of its request.
Made(i, q) ==
    \E order \in Orders(DOMAIN ParamsOf(i.arguments)) :
        q = AppendQuery(i.base, ParamsOf(i.arguments), order)
QueryMade == \A c \in Calls : config[c] # None => Made(input[c], query[c])

LEMMA MadeNext ==
  ASSUME CallsInv, QueryType, QueryMade, [Next]_vars
  PROVE  QueryMade'
  <1>1. CASE config' = config /\ input' = input /\ query' = query
    BY <1>1 DEF QueryMade
  <1>2. ASSUME NEW c \in Calls, CallStart(c), registry # None PROVE QueryMade'
    <2>1. PICK i \in Inputs[c] :
              /\ config' = [config EXCEPT ![c] = registry] /\ input' = [input EXCEPT ![c] = i]
              /\ \E order \in Orders(DOMAIN ParamsOf(i.arguments)) : query' =
                     [query EXCEPT ![c] = AppendQuery(i.base, ParamsOf(i.arguments), order)]
      BY <1>2 DEF CallStart
    <2>2. PICK order \in Orders(DOMAIN ParamsOf(i.arguments)) : query' =
              [query EXCEPT ![c] = AppendQuery(i.base, ParamsOf(i.arguments), order)]
      BY <2>1
    <2>3. PICK q : q = AppendQuery(i.base, ParamsOf(i.arguments), order)
      OBVIOUS
    <2>4. Made(i, q) /\ query' = [query EXCEPT ![c] = q]
      BY <2>2, <2>3 DEF Made
    <2>5. input'[c] = i /\ query'[c] = q
      BY <2>1, <2>4 DEF CallsInv, CallsType, QueryType
    <2>6. \A d \in Calls \ {c} :
              config'[d] = config[d] /\ input'[d] = input[d] /\ query'[d] = query[d]
      BY <2>1, <2>4 DEF CallsInv, CallsType, QueryType
    <2>7. ASSUME NEW d \in Calls, config'[d] # None PROVE Made(input'[d], query'[d])
      <3>1. CASE d = c
        BY <2>4, <2>5, <3>1
      <3>2. CASE d # c
        BY <2>6, <2>7, <3>2 DEF QueryMade
      <3> QED
        BY <3>1, <3>2
    <2> QED
      BY <2>7 DEF QueryMade, Made
  <1> QED
    BY <1>1, <1>2, QueryStep

TooLong(i) ==
    \E order \in Orders(DOMAIN ParamsOf(i.arguments)) :
        Size(Appended(i.base, ParamsOf(i.arguments), order)) > MaxQuery

\* What a server reads of the arguments of one request.
LEMMA ArgumentsMade ==
  ASSUME NEW i \in Input, NEW q, Made(i, q), NEW name \in Names
  PROVE  /\ \/ q = i.base /\ TooLong(i)
            \/ Arguments(q, name) =
                   Further(Arguments(i.base, name), ParamsOf(i.arguments), name)
         /\ Argument(q, name) # {} =>
                /\ Argument(q, name) = {Arguments(q, name)[1]}
                /\ Argument(q, name) = {AllArguments(q)[name]}
  <1>1. PICK params, order :
            /\ params = ParamsOf(i.arguments) /\ order \in Orders(DOMAIN params)
            /\ q = AppendQuery(i.base, params, order)
    BY DEF Made
  <1>2. i.base \in Tokens /\ i.arguments \in Seq(Text \X Text)
    BY DEF Input, Text, Tokens
  <1>3. PICK names : names = DOMAIN params
    OBVIOUS
  <1>4. params \in [names -> Text] /\ names \subseteq Text /\ IsFiniteSet(names)
    BY <1>1, <1>2, <1>3, ParamsType
  <1>5. name # <<>>
    BY ClientNamesAssumption
  <1>6. order \in Orders(names)
    BY <1>1, <1>3
  <1>7. \/ q = i.base /\ TooLong(i)
        \/ Arguments(q, name) = Further(Arguments(i.base, name), params, name)
    <2>1. PICK longer : longer = Appended(i.base, params, order)
      OBVIOUS
    <2>2. CASE Size(longer) > MaxQuery
      <3>1. q = i.base
        BY <1>1, <2>1, <2>2 DEF AppendQuery
      <3>2. TooLong(i)
        BY <1>1, <2>1, <2>2 DEF TooLong
      <3> QED
        BY <3>1, <3>2
    <2>3. CASE ~(Size(longer) > MaxQuery)
      <3>1. q = longer
        BY <1>1, <2>1, <2>3 DEF AppendQuery
      <3> QED
        BY <1>2, <1>4, <1>5, <1>6, <2>1, <3>1, QueryArguments
    <2> QED
      BY <2>2, <2>3
  <1>8. q \in Tokens
    <2>1. PICK n \in Nat : n = Cardinality(names)
      BY <1>4, FS_CardinalityType
    <2>2. order \in [1 .. n -> names]
      BY <1>4, <1>6, <2>1, OrderOnto
    <2> QED
      BY <1>1, <1>2, <1>4, <2>2, AppendQueryType DEF Tokens
  <1>9. ASSUME Argument(q, name) # {}
        PROVE  /\ Argument(q, name) = {Arguments(q, name)[1]}
               /\ Argument(q, name) = {AllArguments(q)[name]}
    <2>1. PICK k : /\ FirstPair(Pairs(q), name, k)
                   /\ Argument(q, name) = {Decode(ValueOf(Pairs(q)[k]))}
      BY <1>8, <1>9, ArgumentFirst
    <2>2. Arguments(q, name)[1] = Decode(ValueOf(Pairs(q)[k]))
      BY <1>8, <2>1, ArgumentsFirst
    <2>3. AllArguments(q)[name] = Decode(ValueOf(Pairs(q)[k]))
      BY <1>5, <1>8, <2>1, AllArgumentsFirst
    <2> QED
      BY <2>1, <2>2, <2>3
  <1> QED
    BY <1>1, <1>7, <1>9

LEMMA ArgumentsParts == CallsInv /\ QueryMade => ArgumentsArrive
  <1> SUFFICES ASSUME CallsInv, QueryMade, NEW c \in Calls, Reading(c), NEW name \in Names
      PROVE  LET base == input[c].base
                 params == ParamsOf(input[c].arguments)
                 tooLong == \E order \in Orders(DOMAIN params) :
                                Size(Appended(base, params, order)) > MaxQuery
                 carried == IF query[c] = base /\ tooLong THEN {} ELSE DOMAIN params
             IN /\ Arguments(query[c], name) =
                       Arguments(base, name) \o
                       (IF name \in carried THEN <<params[name]>> ELSE <<>>)
                /\ Argument(query[c], name) # {} =>
                       /\ Argument(query[c], name) = {Arguments(query[c], name)[1]}
                       /\ Argument(query[c], name) = {AllArguments(query[c])[name]}
    BY DEF ArgumentsArrive
  <1>1. PICK b \in Binders : current[b] = c
    BY DEF Reading, InProgress
  <1>2. config[c] # None
    BY <1>1, ClientNoneAssumption DEF CallsInv, Places
  <1>3. PICK i \in Input : i = input[c]
    BY <1>2, ClientAssumption DEF CallsInv, Requests
  <1>4. PICK q : q = query[c] /\ Made(i, q)
    BY <1>2, <1>3 DEF QueryMade
  <1>5. /\ \/ q = i.base /\ TooLong(i)
           \/ Arguments(q, name) =
                  Further(Arguments(i.base, name), ParamsOf(i.arguments), name)
        /\ Argument(q, name) # {} =>
               /\ Argument(q, name) = {Arguments(q, name)[1]}
               /\ Argument(q, name) = {AllArguments(q)[name]}
    BY <1>4, ArgumentsMade
  <1>6. CASE q = i.base /\ TooLong(i)
    <2>1. Arguments(i.base, name) \o <<>> = Arguments(i.base, name)
      BY <1>3, ArgumentsType DEF Input, Tokens
    <2> QED
      BY <1>3, <1>4, <1>5, <1>6, <2>1 DEF TooLong
  <1>7. CASE ~(q = i.base /\ TooLong(i))
    BY <1>3, <1>4, <1>5, <1>7 DEF Further, TooLong
  <1> QED
    BY <1>6, <1>7

\* The arguments of a request reach the server as they were set and in addition to
\* those of the base URL, in whatever order the map of the client yields them, and
\* the three ways a server has to read an argument agree; of a request whose
\* arguments make the URI too long none does (utils.rs:163-195, server/conn.rs:94-188).
THEOREM ClientArgumentsArrive == Spec => []ArgumentsArrive
  <1> DEFINE Inv == CallsInv /\ QueryType /\ QueryMade
  <1>1. Init => Inv
    <2>1. Init => QueryType /\ QueryMade
      <3>1. <<>> \in Seq(Token)
        BY EmptySeq
      <3> QED
        BY <3>1 DEF Init, QueryType, QueryMade
    <2> QED
      BY <2>1, CallsInit
  <1>2. Inv /\ [Next]_vars => Inv'
    BY CallsNext, QueryNext, MadeNext
  <1>3. Inv => ArgumentsArrive
    BY ArgumentsParts
  <1> HIDE DEF Inv
  <1> QED
    BY <1>1, <1>2, <1>3, PTL DEF Spec

-----------------------------------------------------------------------------
(* Types *)

LEMMA TypeParts == CallsType /\ BodiesInv /\ QueryType => TypeOK
  BY DEF CallsType, BodiesInv, BodiesType, Body, QueryType, Token, Part, TypeOK

\* The variables have their types: the channel of a binding never holds more than
\* Cap requests, a call is made with one of its inputs and never in more attempts
\* than MaxRetries, and a server has read no more parts than there were attempts
\* (client/request.rs:225-278).
THEOREM ClientTypeCorrect == Spec => []TypeOK
  <1> DEFINE Inv == CallsInv /\ BodiesInv /\ QueryType
  <1>1. Init => Inv
    <2>1. Init => QueryType
      <3>1. <<>> \in Seq(Token)
        BY EmptySeq
      <3> QED
        BY <3>1 DEF Init, QueryType
    <2> QED
      BY <2>1, CallsInit, BodiesInit
  <1>2. Inv /\ [Next]_vars => Inv'
    BY CallsNext, BodiesNext, QueryNext
  <1>3. Inv => TypeOK
    BY TypeParts DEF CallsInv
  <1> HIDE DEF Inv
  <1> QED
    BY <1>1, <1>2, <1>3, PTL DEF Spec

-----------------------------------------------------------------------------
(* Parts in order *)

\* Where each part begins in the items of which d are done: parts lie behind each
\* other, the first at the beginning, and an open one reaches to what is done.
Ordered(from, parts, items, d) ==
    \A i \in 1 .. Len(parts) :
        LET end == from[i] + Len(parts[i].items)
        IN /\ end <= d /\ (i + 1 \in 1 .. Len(parts) => end <= from[i + 1])
           /\ parts[i].items = SubSeq(items, from[i] + 1, end)
           /\ i = 1 => from[i] = 0
           /\ parts[i].end # "incomplete"
           /\ parts[i].end = "clean" => end = Len(items)
           /\ i = Len(parts) /\ parts[i].end = "open" => end = d
InOrder(parts, items, d) ==
    /\ d \in 0 .. Len(items) /\ (parts = <<>> => d = 0)
    /\ \E from \in [1 .. Len(parts) -> Nat] : Ordered(from, parts, items, d)

\* A part of a run that goes on, and what it is then.
Going(parts, x, e, n) ==
    /\ parts \in Seq(Part) /\ parts # <<>> /\ x \in Seq(Seq(Byte)) /\ e \in Ends
    /\ n \in Nat /\ n = Len(parts)
Gone(parts, x, e, n, q) ==
    /\ q = Goes(parts, x, e) /\ Len(q) = n /\ n > 0
    /\ \A i \in 1 .. n : i # n => q[i] = parts[i]
    /\ q[n].items = parts[n].items \o x /\ q[n].end = e
    /\ parts[n].items \in Seq(Seq(Byte)) /\ Last(parts) = parts[n]

LEMMA GoesAt ==
  ASSUME NEW parts, NEW x, NEW e, NEW n, Going(parts, x, e, n)
  PROVE  \E q \in Seq(Part) : Gone(parts, x, e, n, q)
  <1>0. n = Len(parts)
    BY DEF Going
  <1>1. PICK f \in Seq(Part), l \in Part : FrontAndLast(parts, f, l)
    <2>1. parts \in Seq(Part) /\ parts # <<>>
      BY DEF Going
    <2> QED
      BY <2>1, LastFront
  <1>2. PICK r \in Part : r = [items |-> l.items \o x, end |-> e]
    <2>1. x \in Seq(Seq(Byte)) /\ e \in Ends
      BY DEF Going
    <2> QED
      BY <2>1, ConcatProperties DEF Part
  <1>3. PICK q \in Seq(Part) : q = Append(f, r)
    BY AppendProperties
  <1>4. PICK m \in Nat : m = Len(f) /\ n = m + 1
    BY <1>0, <1>1, LenProperties DEF FrontAndLast
  <1>5. Len(q) = n /\ q[n] = r /\ \A i \in 1 .. m : q[i] = f[i]
    BY <1>3, <1>4, AppendProperties
  <1>6. parts[n] = l /\ \A i \in 1 .. m : parts[i] = f[i]
    <2>1. parts = Append(f, l)
      BY <1>1 DEF FrontAndLast
    <2>2. Append(f, l)[n] = l /\ \A i \in 1 .. m : Append(f, l)[i] = f[i]
      BY <1>4, AppendProperties
    <2> QED
      BY <2>1, <2>2
  <1>7. q = Goes(parts, x, e) /\ Last(parts) = l
    BY <1>1, <1>2, <1>3 DEF Goes, FrontAndLast
  <1>8. r.items = l.items \o x /\ r.end = e /\ l.items \in Seq(Seq(Byte))
    BY <1>2 DEF Part
  <1>9. ASSUME NEW i \in 1 .. n, i # n PROVE q[i] = parts[i]
    <2>1. i \in 1 .. m
      BY <1>4, <1>9
    <2> QED
      BY <1>5, <1>6, <2>1
  <1>10. n > 0
    BY <1>4
  <1> QED
    BY <1>5, <1>6, <1>7, <1>8, <1>9, <1>10 DEF Gone

Windows(S, items, a, b, c) ==
    /\ items \in Seq(S) /\ a \in Nat /\ b \in Nat /\ c \in Nat
    /\ a <= b /\ b <= c /\ c <= Len(items)
Joined(items, a, b, c) ==
    SubSeq(items, a + 1, b) \o SubSeq(items, b + 1, c) = SubSeq(items, a + 1, c)

LEMMA NextWindow ==
  ASSUME NEW S, NEW items, NEW a, NEW b, NEW c, Windows(S, items, a, b, c)
  PROVE  Joined(items, a, b, c)
  <1>1. items \in Seq(S) /\ Len(items) \in Nat
    BY LenProperties DEF Windows
  <1>2. /\ a + 1 \in 1 .. Len(items) + 1 /\ b \in (a + 1) - 1 .. Len(items)
        /\ c \in b .. Len(items)
    BY <1>1 DEF Windows
  <1> QED
    BY <1>1, <1>2, ConcatAdjacentSubSeq DEF Joined

\* A part that nothing has been read of.
Opened == [items |-> <<>>, end |-> "open"]

LEMMA OpenedPart == Opened \in Part /\ Opened.items = <<>> /\ Opened.end = "open"
  BY EmptySeq DEF Opened, Part, Ends

LEMMA OrderTake ==
  ASSUME NEW parts \in Seq(Part), NEW items \in Seq(Seq(Byte)), NEW d \in Nat,
         InOrder(parts, items, d)
  PROVE  InOrder(Append(parts, Opened), items, d)
  <1>0. PICK p \in Part : p = Opened /\ p.items = <<>> /\ p.end = "open"
    BY OpenedPart
  <1>1. PICK n \in Nat, q \in Seq(Part) :
            /\ n = Len(parts) /\ q = Append(parts, p) /\ Len(q) = n + 1 /\ q[n + 1] = p
            /\ \A i \in 1 .. n : q[i] = parts[i]
    <2>1. PICK n \in Nat : n = Len(parts)
      BY LenProperties
    <2>2. PICK q \in Seq(Part) : q = Append(parts, p)
      BY AppendProperties
    <2>3. Len(q) = n + 1 /\ q[n + 1] = p /\ \A i \in 1 .. n : q[i] = parts[i]
      BY <2>1, <2>2, AppendProperties
    <2> QED
      BY <2>1, <2>2, <2>3
  <1>2. PICK from \in [1 .. n -> Nat] : Ordered(from, parts, items, d)
    BY <1>1 DEF InOrder
  <1>3. PICK to \in [1 .. n + 1 -> Nat] : to[n + 1] = d /\ \A i \in 1 .. n : to[i] = from[i]
    <2>1. [i \in 1 .. n + 1 |-> IF i = n + 1 THEN d ELSE from[i]] \in [1 .. n + 1 -> Nat]
      BY <1>2
    <2>2. PICK to : to = [i \in 1 .. n + 1 |-> IF i = n + 1 THEN d ELSE from[i]]
      OBVIOUS
    <2>3. to[n + 1] = d /\ \A i \in 1 .. n : to[i] = from[i]
      BY <2>2
    <2> QED
      BY <2>1, <2>2, <2>3
  <1>4. ASSUME NEW i \in 1 .. n + 1
        PROVE  /\ to[i] + Len(q[i].items) <= d
               /\ i + 1 \in 1 .. n + 1 => to[i] + Len(q[i].items) <= to[i + 1]
               /\ q[i].items = SubSeq(items, to[i] + 1, to[i] + Len(q[i].items))
               /\ i = 1 => to[i] = 0
               /\ q[i].end # "incomplete"
               /\ q[i].end = "clean" => to[i] + Len(q[i].items) = Len(items)
               /\ i = n + 1 /\ q[i].end = "open" => to[i] + Len(q[i].items) = d
    <2>1. CASE i = n + 1
      <3>1. q[i].items = <<>> /\ q[i].end = "open" /\ Len(q[i].items) = 0 /\ to[i] = d
        BY <1>0, <1>1, <1>3, <2>1
      <3>2. SubSeq(items, d + 1, d) = <<>>
        BY SubSeqEmpty
      <3>3. i = 1 => d = 0
        <4>1. n = 0 => parts = <<>>
          BY <1>1, EmptySeq
        <4> QED
          BY <2>1, <4>1 DEF InOrder
      <3> QED
        BY <2>1, <3>1, <3>2, <3>3
    <2>2. CASE i \in 1 .. n
      <3>1. PICK l \in Nat, a \in Nat : l = Len(parts[i].items) /\ a = from[i]
        <4>1. parts[i] \in Part
          BY <1>1, <2>2
        <4>2. parts[i].items \in Seq(Seq(Byte))
          BY <4>1 DEF Part
        <4> QED
          BY <1>2, <2>2, <4>2, LenProperties
      <3>2. /\ a + l <= d /\ (i + 1 \in 1 .. n => a + l <= from[i + 1])
            /\ parts[i].items = SubSeq(items, a + 1, a + l)
            /\ i = 1 => a = 0
            /\ parts[i].end # "incomplete"
            /\ parts[i].end = "clean" => a + l = Len(items)
        BY <1>1, <1>2, <2>2, <3>1 DEF Ordered
      <3>3. q[i] = parts[i] /\ to[i] = a
        BY <1>1, <1>3, <2>2, <3>1
      <3>4. i + 1 \in 1 .. n + 1 => a + l <= to[i + 1]
        BY <1>3, <2>2, <3>2, SMTT(30)
      <3>5. from[i] = a /\ to[i] + Len(q[i].items) = a + l
        BY <3>1, <3>3
      <3>6. i # n + 1
        BY <2>2
      <3> QED
        BY <3>2, <3>3, <3>4, <3>5, <3>6
    <2> QED
      BY <2>1, <2>2
  <1>5. Ordered(to, q, items, d)
    BY <1>1, <1>4 DEF Ordered
  <1>6. q # <<>>
    BY <1>1, LastAppend
  <1>7. InOrder(q, items, d)
    BY <1>1, <1>3, <1>5, <1>6 DEF InOrder
  <1> QED
    BY <1>0, <1>1, <1>7

\* An open part goes on with the next of the items, of which m are done then.
Continues(parts, items, d, x, e, m) ==
    /\ parts # <<>> /\ Last(parts).end = "open" /\ e # "incomplete"
    /\ d + Len(x) <= m /\ m <= Len(items) /\ x = SubSeq(items, d + 1, d + Len(x))
    /\ e = "clean" => d + Len(x) = Len(items)
    /\ e = "open" => d + Len(x) = m

LEMMA OrderGoes ==
  ASSUME NEW parts \in Seq(Part), NEW items \in Seq(Seq(Byte)), NEW d \in Nat,
         InOrder(parts, items, d), NEW x \in Seq(Seq(Byte)), NEW e \in Ends, NEW m \in Nat,
         Continues(parts, items, d, x, e, m)
  PROVE  InOrder(Goes(parts, x, e), items, m)
  <1>1. PICK n \in Nat, z \in Nat, l \in Nat : n = Len(parts) /\ z = Len(items) /\ l = Len(x)
    BY LenProperties
  <1>0. /\ parts # <<>> /\ Last(parts).end = "open" /\ e # "incomplete"
        /\ d + l <= m /\ m <= z
        /\ (e = "clean" => d + l = z) /\ (e = "open" => d + l = m)
    BY <1>1 DEF Continues
  <1>2. PICK q \in Seq(Part) : Gone(parts, x, e, n, q)
    <2>1. Going(parts, x, e, n)
      BY <1>0, <1>1 DEF Going
    <2> QED
      BY <2>1, GoesAt
  <1>3. PICK from \in [1 .. n -> Nat] : Ordered(from, parts, items, d)
    BY <1>1 DEF InOrder
  <1>4. ASSUME NEW i \in 1 .. n
        PROVE  /\ from[i] + Len(q[i].items) <= m
               /\ i + 1 \in 1 .. n => from[i] + Len(q[i].items) <= from[i + 1]
               /\ q[i].items = SubSeq(items, from[i] + 1, from[i] + Len(q[i].items))
               /\ i = 1 => from[i] = 0
               /\ q[i].end # "incomplete"
               /\ q[i].end = "clean" => from[i] + Len(q[i].items) = Len(items)
               /\ i = n /\ q[i].end = "open" => from[i] + Len(q[i].items) = m
    <2>1. PICK k \in Nat, a \in Nat : k = Len(parts[i].items) /\ a = from[i]
      <3>1. parts[i] \in Part
        BY <1>1
      <3>2. parts[i].items \in Seq(Seq(Byte))
        BY <3>1 DEF Part
      <3> QED
        BY <1>3, <3>2, LenProperties
    <2>2. /\ a + k <= d /\ (i + 1 \in 1 .. n => a + k <= from[i + 1])
          /\ parts[i].items = SubSeq(items, a + 1, a + k)
          /\ i = 1 => a = 0
          /\ parts[i].end # "incomplete"
          /\ parts[i].end = "clean" => a + k = z
          /\ i = n /\ parts[i].end = "open" => a + k = d
      BY <1>1, <1>3, <2>1 DEF Ordered
    <2>3. CASE i = n
      <3>1. a + k = d
        BY <1>0, <1>2, <2>2, <2>3 DEF Gone
      <3>2. q[i].items = parts[i].items \o x /\ q[i].end = e
        BY <1>2, <2>3 DEF Gone
      <3>3. Len(q[i].items) = k + l
        <4>1. PICK o \in Seq(Seq(Byte)) : o = parts[i].items
          BY <1>2, <2>3 DEF Gone
        <4>2. Len(o \o x) = k + l
          BY <1>1, <2>1, <4>1, ConcatProperties
        <4> QED
          BY <3>2, <4>1, <4>2
      <3>4. q[i].items = SubSeq(items, a + 1, d + l)
        <4>1. SubSeq(items, a + 1, d) \o SubSeq(items, d + 1, d + l) = SubSeq(items, a + 1, d + l)
          <5>1. PICK c \in Nat : c = d + l
            OBVIOUS
          <5>2. Windows(Seq(Byte), items, a, d, c)
            BY <1>0, <1>1, <3>1, <5>1, SMTT(30) DEF Windows
          <5>3. Joined(items, a, d, c)
            BY <5>2, NextWindow
          <5> QED
            BY <5>1, <5>3 DEF Joined
        <4>2. x = SubSeq(items, d + 1, d + l)
          BY <1>1 DEF Continues
        <4> QED
          BY <2>2, <3>1, <3>2, <4>1, <4>2
      <3>5. from[i] = a /\ from[i] + Len(q[i].items) = d + l
        <4>1. PICK h \in Nat : h = k + l
          OBVIOUS
        <4>2. a + h = d + l
          BY <3>1, <4>1
        <4>3. from[i] = a
          BY <2>1
        <4>4. Len(q[i].items) = h
          BY <3>3, <4>1
        <4> QED
          BY <4>2, <4>3, <4>4
      <3>6. ~(i + 1 \in 1 .. n)
        BY <2>3
      <3> QED
        BY <1>0, <1>1, <2>2, <3>2, <3>4, <3>5, <3>6
    <2>4. CASE i # n
      <3>1. q[i] = parts[i]
        BY <1>2, <2>4 DEF Gone
      <3>2. a + k <= m
        BY <1>0, <2>2
      <3> QED
        BY <1>1, <2>1, <2>2, <2>4, <3>1, <3>2
    <2> QED
      BY <2>3, <2>4
  <1>5. Ordered(from, q, items, m)
    BY <1>2, <1>4 DEF Ordered, Gone
  <1>6. q # <<>>
    BY <1>2, EmptySeq DEF Gone
  <1>7. m \in 0 .. Len(items) /\ Len(q) = n
    BY <1>0, <1>1, <1>2 DEF Gone
  <1>8. InOrder(q, items, m)
    BY <1>3, <1>5, <1>6, <1>7 DEF InOrder
  <1> QED
    BY <1>2, <1>8 DEF Gone

-----------------------------------------------------------------------------
(* Items that fit their prefix *)

Items == Seq(Seq(Byte))
Frames(s) == [k \in DOMAIN s |-> Framed(s[k])]
AllFit(items) == \A i \in DOMAIN items : Fits(items[i])

LEMMA FramesType ==
  ASSUME NEW s \in Items
  PROVE  /\ Frames(s) \in Items /\ Len(Frames(s)) = Len(s)
         /\ \A i \in 1 .. Len(s) : Frames(s)[i] = Framed(s[i])
  <1>1. PICK n \in Nat : n = Len(s) /\ DOMAIN s = 1 .. n /\ \A i \in 1 .. n : s[i] \in Seq(Byte)
    BY LenProperties DEF Items
  <1>2. PICK f : f = Frames(s) /\ f = [k \in 1 .. n |-> Framed(s[k])]
    BY <1>1 DEF Frames
  <1>3. \A i \in 1 .. n : Framed(s[i]) \in Seq(Byte)
    BY <1>1, FramedType
  <1>4. f \in [1 .. n -> Seq(Byte)] /\ \A i \in 1 .. n : f[i] = Framed(s[i])
    BY <1>2, <1>3
  <1>5. f \in Seq(Seq(Byte)) /\ Len(f) = n
    BY <1>4
  <1> QED
    BY <1>1, <1>2, <1>4, <1>5 DEF Items

LEMMA FramesEmpty ==
  /\ Frames(<<>>) = <<>>
  /\ \A s \in Items : Frames(s) = <<>> => s = <<>>
  <1>1. Frames(<<>>) = <<>>
    BY DEF Frames
  <1>2. ASSUME NEW s \in Items, Frames(s) = <<>> PROVE s = <<>>
    <2>1. Len(s) = 0
      BY <1>2, FramesType, EmptySeq
    <2> QED
      BY <2>1, EmptySeq DEF Items
  <1> QED
    BY <1>1, <1>2

LEMMA FramesAppend ==
  ASSUME NEW s \in Items, NEW x \in Seq(Byte)
  PROVE  Frames(Append(s, x)) = Append(Frames(s), Framed(x))
  <1>1. PICK n \in Nat : n = Len(s)
    BY LenProperties DEF Items
  <1>2. PICK t \in Items : /\ t = Append(s, x) /\ Len(t) = n + 1 /\ t[n + 1] = x
                           /\ \A i \in 1 .. n : t[i] = s[i]
    <2>1. PICK t \in Items : t = Append(s, x)
      BY AppendProperties DEF Items
    <2>2. Len(t) = n + 1 /\ t[n + 1] = x /\ \A i \in 1 .. n : t[i] = s[i]
      BY <1>1, <2>1, AppendProperties DEF Items
    <2> QED
      BY <2>1, <2>2
  <1>3. PICK g \in Items : g = Frames(t) /\ Len(g) = n + 1 /\ \A i \in 1 .. n + 1 : g[i] = Framed(t[i])
    BY <1>2, FramesType, ZenonT(30)
  <1>4. PICK f \in Items : f = Frames(s) /\ Len(f) = n /\ \A i \in 1 .. n : f[i] = Framed(s[i])
    BY <1>1, FramesType
  <1>5. PICK y \in Seq(Byte) : y = Framed(x)
    BY FramedType
  <1>6. PICK h \in Items : h = Append(f, y)
    BY AppendProperties DEF Items
  <1>7. Len(h) = n + 1 /\ h[n + 1] = y /\ \A i \in 1 .. n : h[i] = f[i]
    BY <1>4, <1>6, AppendProperties DEF Items
  <1>8. ASSUME NEW i \in 1 .. n + 1 PROVE g[i] = h[i]
    <2>1. CASE i = n + 1
      BY <1>2, <1>3, <1>5, <1>7, <2>1
    <2>2. CASE i \in 1 .. n
      BY <1>2, <1>3, <1>4, <1>7, <2>2
    <2> QED
      BY <2>1, <2>2
  <1>9. g = h
    BY <1>3, <1>7, <1>8, SeqEqual DEF Items
  <1> QED
    BY <1>2, <1>3, <1>4, <1>5, <1>6, <1>9

LEMMA FramesHead ==
  ASSUME NEW s \in Items, NEW h \in Seq(Byte), NEW r \in Items, HeadAndTail(Seq(Byte), s, h, r)
  PROVE  /\ FlattenSeq(Frames(s)) = Framed(h) \o FlattenSeq(Frames(r))
         /\ Frames(s) # <<>> /\ Head(Frames(s)) = Framed(h) /\ Tail(Frames(s)) = Frames(r)
  <1>1. s = <<h>> \o r
    BY DEF HeadAndTail
  <1>2. PICK n \in Nat : n = Len(r)
    BY LenProperties DEF Items
  <1>3. Len(s) = n + 1 /\ s[1] = h /\ \A i \in 1 .. n : s[i + 1] = r[i]
    <2>1. PICK u \in Items : u = <<h>> /\ Len(u) = 1 /\ u[1] = h
      <3>1. <<h>> \in Seq(Seq(Byte)) /\ Len(<<h>>) = 1 /\ <<h>>[1] = h
        OBVIOUS
      <3> QED
        BY <3>1 DEF Items
    <2>2. s = u \o r
      BY <1>1, <2>1
    <2>3. Len(s) = 1 + n
      BY <1>2, <2>1, <2>2, ConcatProperties DEF Items
    <2>4. s[1] = h
      BY <1>2, <2>1, <2>2, ConcatProperties DEF Items
    <2>5. ASSUME NEW i \in 1 .. n PROVE s[i + 1] = r[i]
      BY <1>2, <2>1, <2>2, ConcatProperties DEF Items
    <2> QED
      BY <2>3, <2>4, <2>5
  <1>4. PICK f \in Items : f = Frames(s) /\ Len(f) = n + 1 /\ \A i \in 1 .. n + 1 : f[i] = Framed(s[i])
    BY <1>3, FramesType
  <1>5. PICK g \in Items : g = Frames(r) /\ Len(g) = n /\ \A i \in 1 .. n : g[i] = Framed(r[i])
    BY <1>2, FramesType
  <1>6. PICK x \in Seq(Byte) : x = Framed(h)
    BY FramedType
  <1>7. f # <<>>
    BY <1>4, EmptySeq DEF Items
  <1>8. PICK y \in Seq(Byte), t \in Items : HeadAndTail(Seq(Byte), f, y, t)
    BY <1>7, TakeHead DEF Items
  <1>9. y = x
    <2>1. y = f[1]
      BY <1>7, <1>8, HeadTailProperties DEF HeadAndTail, Items
    <2> QED
      BY <1>3, <1>4, <1>6, <2>1
  <1>10. t = g
    <2>1. t = Tail(f)
      BY <1>8 DEF HeadAndTail
    <2>2. Len(t) = n /\ \A i \in 1 .. n : t[i] = f[i + 1]
      BY <1>4, <1>7, <2>1, HeadTailProperties DEF Items
    <2>3. ASSUME NEW i \in 1 .. n PROVE t[i] = g[i]
      <3>1. i + 1 \in 1 .. n + 1
        OBVIOUS
      <3> QED
        BY <1>3, <1>4, <1>5, <2>2, <3>1
    <2> QED
      BY <1>5, <2>2, <2>3, SeqEqual DEF Items
  <1>11. FlattenSeq(f) = x \o FlattenSeq(g)
    <2>1. f = <<x>> \o g
      BY <1>8, <1>9, <1>10 DEF HeadAndTail
    <2>2. PICK u \in Items : u = <<x>>
      <3>1. <<x>> \in Seq(Seq(Byte))
        OBVIOUS
      <3> QED
        BY <3>1 DEF Items
    <2>3. FlattenSeq(u \o g) = FlattenSeq(u) \o FlattenSeq(g)
      BY FlattenConcat DEF Items
    <2>4. FlattenSeq(u) = x
      BY <2>2, FlattenOne
    <2> QED
      BY <2>1, <2>2, <2>3, <2>4
  <1>12. Head(f) = y /\ Tail(f) = t
    BY <1>8 DEF HeadAndTail
  <1> QED
    BY <1>4, <1>5, <1>6, <1>7, <1>9, <1>10, <1>11, <1>12

\* How far the items of a body have come: done, under way, and left to be sent.
Spread(items, r, b, w, s, done, pend, left) ==
    /\ items \in Items /\ done \in Items /\ pend \in Items /\ left \in Items
    /\ b \in Seq(Byte) /\ w \in Seq(Byte) /\ s \in Seq(Part)
    /\ items = done \o (pend \o left)
    /\ r = Frames(left) /\ b \o w = FlattenSeq(Frames(pend))
    /\ InOrder(s, items, Len(done))
Framewise(items, r, b, w, s) ==
    \E done, pend, left : Spread(items, r, b, w, s, done, pend, left)

LEMMA OrderEmpty == ASSUME NEW items \in Items PROVE InOrder(<<>>, items, 0)
  <1>1. Len(items) \in Nat /\ Len(<<>>) = 0
    BY LenProperties DEF Items
  <1>2. [i \in 1 .. 0 |-> 0] \in [1 .. 0 -> Nat]
    OBVIOUS
  <1>3. Ordered([i \in 1 .. 0 |-> 0], <<>>, items, 0)
    BY <1>1 DEF Ordered
  <1>4. \E from \in [1 .. Len(<<>>) -> Nat] : Ordered(from, <<>>, items, 0)
    BY <1>1, <1>2, <1>3
  <1>5. 0 \in 0 .. Len(items)
    BY <1>1
  <1> QED
    BY <1>4, <1>5 DEF InOrder

LEMMA SpreadBegins ==
  ASSUME NEW items \in Items
  PROVE  Framewise(items, Frames(items), <<>>, <<>>, <<>>)
  <1>1. <<>> \in Items /\ <<>> \in Seq(Byte) /\ <<>> \in Seq(Part) /\ Len(<<>>) = 0
    BY EmptySeq DEF Items
  <1>2. items = <<>> \o (<<>> \o items)
    BY DEF Items
  <1>3. <<>> \o <<>> = FlattenSeq(Frames(<<>>))
    BY FramesEmpty, FlattenEmpty
  <1> QED
    BY <1>1, <1>2, <1>3, OrderEmpty DEF Framewise, Spread

LEMMA SpreadTakes ==
  ASSUME NEW items, NEW r, NEW b, NEW w, NEW s, Framewise(items, r, b, w, s)
  PROVE  Framewise(items, r, b, w, Append(s, Opened))
  <1>1. PICK done, pend, left : Spread(items, r, b, w, s, done, pend, left)
    BY DEF Framewise
  <1>2. PICK d \in Nat : d = Len(done)
    BY <1>1, LenProperties DEF Spread, Items
  <1>3. s \in Seq(Part) /\ items \in Seq(Seq(Byte)) /\ InOrder(s, items, d)
    BY <1>1, <1>2 DEF Spread, Items
  <1>4. InOrder(Append(s, Opened), items, d) /\ Append(s, Opened) \in Seq(Part)
    BY <1>3, OrderTake, OpenedPart, AppendProperties
  <1>5. Spread(items, r, b, w, Append(s, Opened), done, pend, left)
    BY <1>1, <1>2, <1>4 DEF Spread
  <1> QED
    BY <1>5 DEF Framewise

LEMMA SpreadUploads ==
  ASSUME NEW items, NEW r, NEW b, NEW w, NEW s, Framewise(items, r, b, w, s), r # <<>>
  PROVE  Framewise(items, Tail(r), b, w \o Head(r), s)
  <1>1. PICK done, pend, left : Spread(items, r, b, w, s, done, pend, left)
    BY DEF Framewise
  <1>2. /\ done \in Items /\ pend \in Items /\ left \in Items /\ b \in Seq(Byte) /\ w \in Seq(Byte)
        /\ items = done \o (pend \o left) /\ r = Frames(left) /\ b \o w = FlattenSeq(Frames(pend))
    BY <1>1 DEF Spread
  <1>3. left # <<>>
    BY <1>2, FramesEmpty
  <1>4. PICK x \in Seq(Byte), t \in Items : HeadAndTail(Seq(Byte), left, x, t)
    BY <1>2, <1>3, TakeHead DEF Items
  <1>5. PICK f \in Seq(Byte) : f = Framed(x)
    BY FramedType
  <1>6. Head(r) = f /\ Tail(r) = Frames(t)
    BY <1>2, <1>4, <1>5, FramesHead
  <1>7. PICK p \in Items : p = Append(pend, x) /\ pend \o left = p \o t
    BY <1>2, <1>4 DEF HeadAndTail, Items
  <1>8. FlattenSeq(Frames(p)) = b \o (w \o f) /\ w \o f \in Seq(Byte)
    <2>1. PICK g \in Items : g = Frames(pend)
      BY <1>2, FramesType
    <2>2. FlattenSeq(Append(g, f)) = FlattenSeq(g) \o f
      BY FlattenAppend DEF Items
    <2>3. Frames(p) = Append(g, f)
      BY <1>2, <1>5, <1>7, <2>1, FramesAppend
    <2>4. b \in Seq(Byte) /\ w \in Seq(Byte)
      BY <1>2
    <2>5. (b \o w) \o f = b \o (w \o f)
      BY <2>4, ConcatAssociative
    <2>6. w \o f \in Seq(Byte)
      BY <2>4, ConcatProperties
    <2> QED
      BY <1>2, <2>1, <2>2, <2>3, <2>5, <2>6
  <1>9. Spread(items, Tail(r), b, w \o Head(r), s, done, p, t)
    BY <1>1, <1>6, <1>7, <1>8 DEF Spread
  <1> QED
    BY <1>9 DEF Framewise

LEMMA SpreadArrives ==
  ASSUME NEW items, NEW r, NEW b, NEW w, NEW s, Framewise(items, r, b, w, s),
         NEW x \in Seq(Byte), NEW y \in Seq(Byte), w = x \o y
  PROVE  Framewise(items, r, b \o x, y, s)
  <1>1. PICK done, pend, left : Spread(items, r, b, w, s, done, pend, left)
    BY DEF Framewise
  <1>2. b \in Seq(Byte)
    BY <1>1 DEF Spread
  <1>3. (b \o x) \o y = b \o (x \o y) /\ b \o x \in Seq(Byte)
    <2>1. Three(Byte, b, x, y)
      BY <1>2 DEF Three
    <2>2. Regrouped(b, x, y)
      BY <2>1, Regroup
    <2>3. b \o x \in Seq(Byte)
      BY <1>2, ConcatProperties
    <2> QED
      BY <2>2, <2>3 DEF Regrouped
  <1>4. Spread(items, r, b \o x, y, s, done, pend, left)
    BY <1>1, <1>3 DEF Spread
  <1> QED
    BY <1>4 DEF Framewise

LEMMA SpreadReads ==
  ASSUME NEW items, NEW r, NEW b, NEW w, NEW s, Framewise(items, r, b, w, s), AllFit(items),
         s # <<>>, Last(s).end = "open", HasFrame(b)
  PROVE  Framewise(items, r, AfterFrame(b), w, Goes(s, <<FirstItem(b)>>, "open"))
  <1>1. PICK done \in Items, pend \in Items, left \in Items :
            Spread(items, r, b, w, s, done, pend, left)
    BY DEF Framewise, Spread
  <1>2. /\ items \in Items /\ done \in Items /\ pend \in Items /\ left \in Items
        /\ b \in Seq(Byte) /\ w \in Seq(Byte) /\ s \in Seq(Part)
        /\ items = done \o (pend \o left) /\ b \o w = FlattenSeq(Frames(pend))
    BY <1>1 DEF Spread
  <1>3. pend # <<>>
    <2>1. SUFFICES ASSUME pend = <<>> PROVE FALSE
      OBVIOUS
    <2>2. b \o w = <<>>
      BY <1>2, <2>1, FramesEmpty, FlattenEmpty
    <2>3. Len(b) = 0
      BY <1>2, <2>2, LenProperties
    <2>4. Len(b) >= Width /\ Width \in Nat \ {0}
      BY FrameAssumption DEF HasFrame
    <2> QED
      BY <2>3, <2>4
  <1>4. PICK x \in Seq(Byte), t \in Items : HeadAndTail(Seq(Byte), pend, x, t)
    BY <1>2, <1>3, TakeHead DEF Items
  <1>5. PICK e \in Items : e = Append(done, x) /\ items = e \o (t \o left)
    <2>1. /\ Append(done, x) \in Items
          /\ done \o (pend \o left) = Append(done, x) \o (t \o left)
      <3>1. Three(Seq(Byte), done, pend, left)
        BY <1>2 DEF Three, Items
      <3>2. HeadGone(Seq(Byte), done, pend, left, x, t)
        BY <1>4, <3>1, HeadGoes
      <3> QED
        BY <3>2 DEF HeadGone, Items
    <2> QED
      BY <1>2, <2>1
  <1>6. PICK d \in Nat, n \in Nat : d = Len(done) /\ n = Len(items) /\ Len(e) = d + 1
                                   /\ items[d + 1] = x /\ d + 1 <= n
    <2>1. PICK d \in Nat, n \in Nat, k \in Nat : d = Len(done) /\ n = Len(items) /\ k = Len(t \o left)
      BY <1>2, ConcatProperties, LenProperties DEF Items
    <2>2. Len(e) = d + 1 /\ e[d + 1] = x
      BY <1>2, <1>5, <2>1, AppendProperties DEF Items
    <2>3. t \o left \in Items
      BY <1>2, ConcatProperties DEF Items
    <2>4. n = d + 1 + k
      BY <1>5, <2>1, <2>2, <2>3, ConcatProperties DEF Items
    <2>5. items[d + 1] = e[d + 1]
      <3>1. d + 1 \in 1 .. d + 1 + k
        OBVIOUS
      <3> QED
        BY <1>5, <2>1, <2>2, <2>3, <3>1, ConcatProperties DEF Items
    <2> QED
      BY <2>1, <2>2, <2>4, <2>5
  <1>7. FirstItem(b) = x /\ AfterFrame(b) \o w = FlattenSeq(Frames(t)) /\ AfterFrame(b) \in Seq(Byte)
    <2>1. Fits(x)
      <3>1. d + 1 \in DOMAIN items
        BY <1>2, <1>6 DEF Items
      <3> QED
        BY <1>6, <3>1 DEF AllFit
    <2>2. PICK v \in Seq(Byte) : v = FlattenSeq(Frames(t))
      BY FramesType, FlattenType DEF Items
    <2>3. b \o w = Framed(x) \o v
      BY <1>2, <1>4, <2>2, FramesHead
    <2>4. AfterFrame(b) \in Seq(Byte)
      BY <1>2, FrameCut
    <2>5. b \in Seq(Byte) /\ w \in Seq(Byte)
      BY <1>2
    <2>6. FrameAhead(b, w, x, v)
      BY <2>1, <2>3, <2>5 DEF FrameAhead
    <2>7. FrameBack(b, w, x, v)
      BY <2>6, FrameRead
    <2> QED
      BY <2>2, <2>4, <2>7 DEF FrameBack
  <1>8. PICK o \in Seq(Seq(Byte)) : o = <<x>> /\ Len(o) = 1 /\ o = SubSeq(items, d + 1, d + 1)
    <2>1. <<x>> \in Seq(Seq(Byte)) /\ Len(<<x>>) = 1 /\ <<x>>[1] = x
      OBVIOUS
    <2>2. PICK c \in Nat : c = d + 1 /\ c \in 1 .. n /\ items[c] = x
      BY <1>6
    <2>3. items \in Seq(Seq(Byte)) /\ n = Len(items)
      BY <1>2, <1>6 DEF Items
    <2>4. PICK o \in Seq(Seq(Byte)) : o = <<x>> /\ Len(o) = 1 /\ o[1] = x
      BY <2>1
    <2>5. SubSeq(items, c, c) = o
      BY <2>2, <2>3, <2>4, SubSeqOne
    <2> QED
      BY <2>2, <2>4, <2>5
  <1>9. PICK z \in Ends : z = "open"
    BY DEF Ends
  <1>10. Continues(s, items, d, o, z, d + 1)
    BY <1>6, <1>8, <1>9 DEF Continues
  <1>11. InOrder(Goes(s, o, z), items, d + 1) /\ Goes(s, o, z) \in Seq(Part)
    <2>1. InOrder(s, items, d) /\ items \in Seq(Seq(Byte)) /\ d + 1 \in Nat
      BY <1>1, <1>2, <1>6 DEF Spread, Items
    <2>2. Goes(s, o, z) \in Seq(Part)
      BY <1>2, GoesType
    <2>3. PICK m \in Nat : m = d + 1
      BY <2>1
    <2>4. Continues(s, items, d, o, z, m)
      BY <1>10, <2>3
    <2> QED
      BY <1>2, <2>1, <2>2, <2>3, <2>4, OrderGoes
  <1>12. Spread(items, r, AfterFrame(b), w, Goes(s, o, z), e, t, left)
    BY <1>1, <1>5, <1>6, <1>7, <1>11 DEF Spread
  <1> QED
    BY <1>7, <1>8, <1>9, <1>12 DEF Framewise

LEMMA NextPending ==
  ASSUME NEW items \in Items, NEW done \in Items, NEW pend \in Items, NEW left \in Items,
         NEW x \in Seq(Byte), NEW t \in Items, HeadAndTail(Seq(Byte), pend, x, t),
         items = done \o (pend \o left), AllFit(items)
  PROVE  Fits(x)
  <1>1. PICK e \in Items : e = Append(done, x) /\ items = e \o (t \o left)
    <2>1. Three(Seq(Byte), done, pend, left)
      BY DEF Three, Items
    <2>2. HeadGone(Seq(Byte), done, pend, left, x, t)
      BY <2>1, HeadGoes
    <2> QED
      BY <2>2 DEF HeadGone, Items
  <1>2. PICK v \in Items, d \in Nat, k \in Nat : v = t \o left /\ d = Len(done) /\ k = Len(v)
    BY ConcatProperties, LenProperties DEF Items
  <1>3. Len(e) = d + 1 /\ e[d + 1] = x
    BY <1>1, <1>2, AppendProperties DEF Items
  <1>4. d + 1 \in 1 .. d + 1 + k
    OBVIOUS
  <1>5. Len(items) = d + 1 + k /\ items[d + 1] = e[d + 1]
    BY <1>1, <1>2, <1>3, <1>4, ConcatProperties DEF Items
  <1>6. d + 1 \in DOMAIN items
    BY <1>4, <1>5 DEF Items
  <1> QED
    BY <1>3, <1>5, <1>6 DEF AllFit

LEMMA SpreadFinishes ==
  ASSUME NEW items, NEW b, NEW s, Framewise(items, <<>>, b, <<>>, s), AllFit(items),
         s # <<>>, Last(s).end = "open", ~HasFrame(b)
  PROVE  b = <<>> /\ Framewise(items, <<>>, <<>>, <<>>, Goes(s, <<>>, "clean"))
  <1>1. PICK done \in Items, pend \in Items, left \in Items :
            Spread(items, <<>>, b, <<>>, s, done, pend, left)
    BY DEF Framewise, Spread
  <1>2. /\ items \in Items /\ b \in Seq(Byte) /\ s \in Seq(Part)
        /\ items = done \o (pend \o left) /\ left = <<>> /\ b \o <<>> = FlattenSeq(Frames(pend))
    BY <1>1, FramesEmpty DEF Spread
  <1>3. b = FlattenSeq(Frames(pend))
    BY <1>2, ConcatEmptySeq
  <1>4. pend = <<>>
    <2>1. SUFFICES ASSUME pend # <<>> PROVE FALSE
      OBVIOUS
    <2>2. PICK x \in Seq(Byte), t \in Items : HeadAndTail(Seq(Byte), pend, x, t)
      BY <2>1, TakeHead DEF Items
    <2>3. Fits(x)
      BY <1>2, <2>2, NextPending
    <2>4. PICK v \in Seq(Byte) : v = FlattenSeq(Frames(t))
      BY FramesType, FlattenType DEF Items
    <2>5. b = Framed(x) \o v
      BY <1>3, <2>2, <2>4, FramesHead
    <2>6. <<>> \in Seq(Byte) /\ b \o <<>> = Framed(x) \o v
      BY <1>2, <2>5, EmptySeq, ConcatEmptySeq
    <2>7. FrameAhead(b, <<>>, x, v)
      BY <1>2, <2>3, <2>6 DEF FrameAhead
    <2>8. ~(Len(b) >= Len(Framed(x)))
      BY <2>7, FrameRead
    <2>9. PICK f \in Seq(Byte) : f = Framed(x)
      BY FramedType
    <2>10. Len(b) = Len(f) + Len(v) /\ Len(f) \in Nat /\ Len(v) \in Nat
      BY <2>5, <2>9, ConcatProperties, LenProperties
    <2> QED
      BY <2>8, <2>9, <2>10
  <1>5. b = <<>>
    BY <1>3, <1>4, FramesEmpty, FlattenEmpty
  <1>6. items = done /\ <<>> \in Items /\ <<>> \in Seq(Byte) /\ <<>> \in Seq(Seq(Byte))
    <2>1. <<>> \in Items /\ <<>> \in Seq(Byte) /\ <<>> \in Seq(Seq(Byte))
      BY EmptySeq DEF Items
    <2>2. <<>> \o <<>> = <<>> /\ done \o <<>> = done
      BY ConcatEmptySeq, EmptySeq DEF Items
    <2> QED
      BY <1>2, <1>4, <2>1, <2>2
  <1>7. PICK d \in Nat : d = Len(done) /\ d = Len(items)
    BY <1>6, LenProperties DEF Items
  <1>8. InOrder(s, items, d) /\ items \in Seq(Seq(Byte))
    BY <1>1, <1>2, <1>7 DEF Spread, Items
  <1>9. PICK z \in Ends : z = "clean"
    BY DEF Ends
  <1>10. Continues(s, items, d, <<>>, z, d)
    <2>1. Len(<<>>) = 0 /\ d + 0 = d
      OBVIOUS
    <2>2. SubSeq(items, d + 1, d) = <<>>
      BY SubSeqEmpty
    <2> QED
      BY <1>7, <1>9, <2>1, <2>2 DEF Continues
  <1>11. InOrder(Goes(s, <<>>, z), items, d)
    BY <1>2, <1>6, <1>8, <1>10, OrderGoes
  <1>12. Goes(s, <<>>, z) \in Seq(Part)
    BY <1>2, <1>6, GoesType
  <1>13. Spread(items, <<>>, <<>>, <<>>, Goes(s, <<>>, z), done, <<>>, <<>>)
    BY <1>2, <1>3, <1>4, <1>5, <1>6, <1>7, <1>11, <1>12, FramesEmpty DEF Spread
  <1> QED
    BY <1>5, <1>9, <1>13 DEF Framewise

LEMMA SpreadDrops ==
  ASSUME NEW items, NEW r, NEW b, NEW w, NEW s, Framewise(items, r, b, w, s),
         s # <<>>, Last(s).end = "open", NEW e \in {"lost", "left"}
  PROVE  Framewise(items, r, <<>>, <<>>, Goes(s, <<>>, e))
  <1>1. PICK done \in Items, pend \in Items, left \in Items :
            Spread(items, r, b, w, s, done, pend, left)
    BY DEF Framewise, Spread
  <1>2. /\ items \in Items /\ s \in Seq(Part) /\ items = done \o (pend \o left)
        /\ r = Frames(left)
    BY <1>1 DEF Spread
  <1>3. PICK g \in Items : g = done \o pend
    BY ConcatProperties DEF Items
  <1>4. items = g \o (<<>> \o left)
    <2>1. Three(Seq(Byte), done, pend, left)
      BY DEF Three, Items
    <2>2. (done \o pend) \o left = done \o (pend \o left)
      BY <2>1, Regroup DEF Regrouped
    <2>3. <<>> \o left = left
      BY ConcatEmptySeq DEF Items
    <2> QED
      BY <1>2, <1>3, <2>2, <2>3
  <1>5. PICK d \in Nat, p \in Nat, m \in Nat : d = Len(done) /\ p = Len(pend) /\ m = d + p
    BY LenProperties DEF Items
  <1>6. Len(g) = m /\ m <= Len(items) /\ Len(items) \in Nat
    <2>1. Len(g) = m
      BY <1>3, <1>5, ConcatProperties DEF Items
    <2>2. <<>> \o left = left
      BY ConcatEmptySeq DEF Items
    <2>3. Len(items) = Len(g) + Len(left) /\ Len(left) \in Nat
      BY <1>4, <2>2, ConcatProperties, LenProperties DEF Items
    <2> QED
      BY <2>1, <2>3
  <1>7. <<>> \in Items /\ <<>> \in Seq(Byte) /\ <<>> \in Seq(Seq(Byte))
    BY EmptySeq DEF Items
  <1>8. InOrder(s, items, d) /\ items \in Seq(Seq(Byte))
    BY <1>1, <1>2, <1>5 DEF Spread, Items
  <1>9. e \in Ends /\ e # "clean" /\ e # "open" /\ e # "incomplete"
    BY DEF Ends
  <1>10. Continues(s, items, d, <<>>, e, m)
    <2>1. Len(<<>>) = 0 /\ d + 0 = d /\ d <= m
      BY <1>5
    <2>2. SubSeq(items, d + 1, d) = <<>>
      BY SubSeqEmpty
    <2> QED
      BY <1>6, <1>9, <2>1, <2>2 DEF Continues
  <1>11. InOrder(Goes(s, <<>>, e), items, m)
    BY <1>2, <1>7, <1>8, <1>9, <1>10, OrderGoes
  <1>12. Goes(s, <<>>, e) \in Seq(Part)
    BY <1>2, <1>7, <1>9, GoesType
  <1>13. <<>> \o <<>> = FlattenSeq(Frames(<<>>))
    BY FramesEmpty, FlattenEmpty
  <1>14. Spread(items, r, <<>>, <<>>, Goes(s, <<>>, e), g, <<>>, left)
    BY <1>2, <1>4, <1>6, <1>7, <1>11, <1>12, <1>13 DEF Spread
  <1> QED
    BY <1>14 DEF Framewise

-----------------------------------------------------------------------------
(* The frames of a call *)

FrameInv(c) ==
    config[c] # None /\ Framing(c) /\ AllFit(input[c].items) =>
        Framewise(input[c].items, rest[c], buffer[c], wire[c], served[c])

LEMMA FrameInit == Init => \A c \in Calls : FrameInv(c)
  BY DEF Init, FrameInv

LEMMA FrameMoves ==
  ASSUME CallsInv, BodiesInv, CallsInv', BodiesType', NEW c \in Calls, Moves(c), FrameInv(c)
  PROVE  FrameInv(c)'
  <1> SUFFICES ASSUME config'[c] # None, input'[c].mode = "framed", AllFit(input'[c].items)
               PROVE  Framewise(input'[c].items, rest'[c], buffer'[c], wire'[c], served'[c])
    BY DEF FrameInv, Framing
  <1>1. Body(c)
    BY DEF BodiesInv
  <1>2. ASSUME Keeps(c), config[c] # None
        PROVE  /\ input'[c] = input[c] /\ Framing(c)
               /\ Framewise(input[c].items, rest[c], buffer[c], wire[c], served[c])
    <2>1. input'[c] = input[c]
      BY <1>2 DEF Keeps
    <2> QED
      BY <1>2, <2>1 DEF FrameInv, Framing
  <1>3. CASE Idles(c)
    <2>1. Keeps(c) /\ config[c] # None
      BY <1>3 DEF Idles, Keeps
    <2>2. /\ rest'[c] = rest[c] /\ wire'[c] = wire[c] /\ buffer'[c] = buffer[c]
          /\ served'[c] = served[c]
      BY <1>3 DEF Idles
    <2> QED
      BY <1>2, <2>1, <2>2
  <1>4. CASE Begins(c)
    <2>1. /\ served'[c] = <<>> /\ wire'[c] = <<>> /\ buffer'[c] = <<>>
          /\ rest'[c] = Chunks(input'[c]) /\ input'[c] \in Inputs[c]
      BY <1>1, <1>4 DEF Begins, Body
    <2>2. PICK i \in Input : i = input'[c]
      BY <2>1, ClientAssumption
    <2>3. PICK items \in Items : items = i.items
      BY DEF Input, Items
    <2>4. Chunks(i) = Frames(items)
      BY <2>2, <2>3 DEF Chunks, Frames
    <2>5. Framewise(items, Frames(items), <<>>, <<>>, <<>>)
      BY SpreadBegins
    <2> QED
      BY <2>1, <2>2, <2>3, <2>4, <2>5
  <1>5. ASSUME Attempts(c) PROVE Keeps(c) /\ config[c] # None
    BY <1>5 DEF Attempts
  <1>6. CASE Takes(c)
    <2>1. Attempts(c)
      BY <1>6 DEF Takes
    <2>2. /\ rest'[c] = rest[c] /\ wire'[c] = wire[c] /\ buffer'[c] = buffer[c]
          /\ served'[c] = Append(served[c], Opened)
      BY <1>2, <1>5, <1>6, <2>1 DEF Takes, Opened, Framing
    <2>3. Framewise(input[c].items, rest[c], buffer[c], wire[c], Append(served[c], Opened))
      BY <1>2, <1>5, <2>1, SpreadTakes
    <2> QED
      BY <1>2, <1>5, <2>1, <2>2, <2>3
  <1>7. CASE Uploads(c)
    <2>1. Attempts(c)
      BY <1>7 DEF Uploads, Within
    <2>2. /\ rest[c] # <<>> /\ rest'[c] = Tail(rest[c]) /\ wire'[c] = wire[c] \o Head(rest[c])
          /\ buffer'[c] = buffer[c] /\ served'[c] = served[c]
      BY <1>7 DEF Uploads
    <2>3. Framewise(input[c].items, Tail(rest[c]), buffer[c], wire[c] \o Head(rest[c]), served[c])
      BY <1>2, <1>5, <2>1, <2>2, SpreadUploads
    <2> QED
      BY <1>2, <1>5, <2>1, <2>2, <2>3
  <1>8. CASE Arrives(c)
    <2>1. Attempts(c)
      BY <1>8 DEF Arrives, Within
    <2>2. input[c].mode # "raw"
      BY <1>2, <1>5, <2>1 DEF Framing
    <2>3. PICK x \in Seq(Byte) : Receives(c, x)
      BY <1>8 DEF Arrives
    <2>4. PICK y \in Seq(Byte) : y = wire'[c] /\ wire[c] = x \o y
      BY <2>3 DEF Receives
    <2>5. rest'[c] = rest[c] /\ buffer'[c] = buffer[c] \o x /\ served'[c] = served[c]
      BY <2>2, <2>3 DEF Receives
    <2>6. Framewise(input[c].items, rest[c], buffer[c] \o x, y, served[c])
      BY <1>2, <1>5, <2>1, <2>4, SpreadArrives
    <2> QED
      BY <1>2, <1>5, <2>1, <2>4, <2>5, <2>6
  <1>9. CASE Reads(c)
    <2>1. Attempts(c) /\ InProgress(c)
      BY <1>9 DEF Reads, Within
    <2>2. /\ Last(served[c]).end = "open" /\ HasFrame(buffer[c])
          /\ rest'[c] = rest[c] /\ wire'[c] = wire[c] /\ buffer'[c] = AfterFrame(buffer[c])
          /\ served'[c] = Goes(served[c], <<FirstItem(buffer[c])>>, "open")
      BY <1>9 DEF Reads
    <2>3. served[c] # <<>>
      BY <1>1, <2>1 DEF Body
    <2>4. AllFit(input[c].items)
      BY <1>2, <1>5, <2>1
    <2>5. Framewise(input[c].items, rest[c], AfterFrame(buffer[c]), wire[c],
                    Goes(served[c], <<FirstItem(buffer[c])>>, "open"))
      BY <1>2, <1>5, <2>1, <2>2, <2>3, <2>4, SpreadReads
    <2> QED
      BY <1>2, <1>5, <2>1, <2>2, <2>5
  <1>10. CASE Finishes(c)
    <2>1. Attempts(c) /\ InProgress(c)
      BY <1>10 DEF Finishes, Within
    <2>2. PICK b : b = buffer[c]
      OBVIOUS
    <2>3. /\ Last(served[c]).end = "open" /\ ~HasFrame(b)
          /\ rest[c] = <<>> /\ wire[c] = <<>> /\ rest'[c] = <<>> /\ wire'[c] = <<>>
          /\ buffer'[c] = <<>>
          /\ served'[c] = Goes(served[c], <<>>, IF b = <<>> THEN "clean" ELSE "incomplete")
      BY <1>2, <1>5, <1>10, <2>1, <2>2 DEF Finishes
    <2>4. served[c] # <<>>
      BY <1>1, <2>1 DEF Body
    <2>5. AllFit(input[c].items) /\ Framewise(input[c].items, <<>>, b, <<>>, served[c])
      BY <1>2, <1>5, <2>1, <2>2, <2>3
    <2>6. /\ b = <<>>
          /\ Framewise(input[c].items, <<>>, <<>>, <<>>, Goes(served[c], <<>>, "clean"))
      BY <2>3, <2>4, <2>5, SpreadFinishes
    <2> QED
      BY <1>2, <1>5, <2>1, <2>3, <2>6
  <1>11. CASE Drops(c)
    <2>1. Attempts(c) /\ InProgress(c) /\ rest'[c] = rest[c] /\ wire'[c] = <<>> /\ buffer'[c] = <<>>
      BY <1>11 DEF Drops
    <2>2. served[c] # <<>>
      BY <1>1, <2>1 DEF Body
    <2>3. CASE Last(served[c]).end # "open" /\ served'[c] = served[c]
      <3>1. wire[c] = <<>> /\ buffer[c] = <<>>
        BY <1>1, <2>1, <2>3 DEF Body
      <3> QED
        BY <1>2, <1>5, <2>1, <2>3, <3>1
    <2>4. ASSUME NEW e \in {"lost", "left"}, Last(served[c]).end = "open",
                 served'[c] = Goes(served[c], <<>>, e)
          PROVE  Framewise(input'[c].items, rest'[c], buffer'[c], wire'[c], served'[c])
      <3>1. Framewise(input[c].items, rest[c], <<>>, <<>>, Goes(served[c], <<>>, e))
        BY <1>2, <1>5, <2>1, <2>2, <2>4, SpreadDrops
      <3> QED
        BY <1>2, <1>5, <2>1, <2>4, <3>1
    <2>5. input[c].mode # "bytes"
      BY <1>2, <1>5, <2>1 DEF Framing
    <2> QED
      BY <1>11, <2>3, <2>4, <2>5 DEF Drops
  <1> QED
    BY <1>3, <1>4, <1>6, <1>7, <1>8, <1>9, <1>10, <1>11 DEF Moves

LEMMA FrameNext ==
  CallsInv /\ BodiesInv /\ (\A c \in Calls : FrameInv(c)) /\ [Next]_vars
      => \A c \in Calls : FrameInv(c)'
  <1> SUFFICES ASSUME CallsInv, BodiesInv, \A c \in Calls : FrameInv(c), [Next]_vars,
                      NEW c \in Calls
               PROVE  FrameInv(c)'
    OBVIOUS
  <1>1. CallsInv'
    BY CallsNext
  <1>2. BodiesType' /\ Moves(c)
    BY StepMoves, SMTT(30)
  <1> QED
    BY <1>1, <1>2, FrameMoves

LEMMA FrameParts ==
  BodiesInv /\ (\A c \in Calls : FrameInv(c)) => FramesInOrder
  <1> SUFFICES ASSUME BodiesInv, NEW c \in Calls, FrameInv(c), NEW k \in DOMAIN served[c],
                      Framing(c), AllFit(input[c].items)
               PROVE  LET items == input[c].items  read == served[c][k]
                      IN  /\ read.end # "incomplete"
                          /\ \E skip \in 0 .. Len(items) - Len(read.items) :
                                 /\ read.items = SubSeq(items, skip + 1, skip + Len(read.items))
                                 /\ k = 1 => skip = 0
                                 /\ read.end = "clean" => skip + Len(read.items) = Len(items)
    BY DEF FramesInOrder, AllFit
  <1>1. PICK s \in Seq(Part), n \in Nat : s = served[c] /\ n = Len(s) /\ k \in 1 .. n
    BY LenProperties DEF BodiesInv, BodiesType
  <1>2. config[c] # None
    <2>1. s # <<>>
      BY <1>1, EmptySeq
    <2> QED
      BY <1>1, <2>1 DEF BodiesInv, Body
  <1>3. PICK items \in Items : items = input[c].items /\ \E d \in 0 .. Len(items) : InOrder(s, items, d)
    BY <1>1, <1>2, LenProperties DEF FrameInv, Framewise, Spread, InOrder, Items
  <1>4. PICK z \in Nat : z = Len(items)
    BY LenProperties DEF Items
  <1>5. PICK d \in 0 .. z : InOrder(s, items, d)
    BY <1>3, <1>4
  <1>6. PICK from \in [1 .. n -> Nat] : Ordered(from, s, items, d)
    BY <1>1, <1>5 DEF InOrder
  <1>7. PICK p \in Part : p = s[k]
    BY <1>1
  <1>8. PICK l \in Nat, a \in Nat : l = Len(p.items) /\ a = from[k]
    BY <1>1, <1>6, LenProperties DEF Part
  <1>9. /\ a + l <= d /\ p.items = SubSeq(items, a + 1, a + l) /\ (k = 1 => a = 0)
        /\ p.end # "incomplete" /\ (p.end = "clean" => a + l = z)
    BY <1>1, <1>4, <1>6, <1>7, <1>8 DEF Ordered
  <1>10. a \in 0 .. z - l
    BY <1>9
  <1> QED
    BY <1>1, <1>3, <1>4, <1>7, <1>8, <1>9, <1>10

\* The theorem on what a server reads of a framed body: whatever the items, the width of a
\* length and the cuts of the network, the parts it reads are runs of the items, and an end
\* is clean only behind the last item.
THEOREM ClientFramesInOrder == Spec => []FramesInOrder
  <1> DEFINE Frame == \A c \in Calls : FrameInv(c)
             Inv == CallsInv /\ BodiesInv /\ Frame
  <1>1. Init => Inv
    BY CallsInit, BodiesInit, FrameInit
  <1>2. Inv /\ [Next]_vars => Inv'
    <2>1. Inv /\ [Next]_vars => CallsInv' /\ BodiesInv'
      BY CallsNext, BodiesNext
    <2>2. Inv /\ [Next]_vars => Frame'
      BY FrameNext
    <2> QED
      BY <2>1, <2>2
  <1>3. Inv => FramesInOrder
    BY FrameParts
  <1> HIDE DEF Inv
  <1> QED
    BY <1>1, <1>2, <1>3, PTL DEF Spec

-----------------------------------------------------------------------------
(* Segments in turn *)

\* Where each of the segments begins in the whole of z.
Segments(from, segs, whole, z) ==
    \A i \in 1 .. Len(segs) :
        LET end == from[i] + Len(segs[i])
        IN /\ from[i] \in Nat /\ end <= z /\ (i + 1 \in 1 .. Len(segs) => end <= from[i + 1])
           /\ segs[i] = SubSeq(whole, from[i] + 1, end)
Turn(S, segs, whole) ==
    /\ segs \in Seq(Seq(S))
    /\ \E z \in Nat : z = Len(whole) /\ \E from : Segments(from, segs, whole, z)

LEMMA TurnInTurn ==
  ASSUME NEW S, NEW segs, NEW whole, Turn(S, segs, whole)
  PROVE  InTurn(segs, whole)
  <1>0. PICK z \in Nat : z = Len(whole) /\ \E g : Segments(g, segs, whole, z)
    BY DEF Turn
  <1>1. PICK g : z = Len(whole) /\ Segments(g, segs, whole, z)
    BY <1>0
  <1>2. PICK n \in Nat : /\ n = Len(segs) /\ DOMAIN segs = 1 .. n
                         /\ \A i \in 1 .. n : segs[i] \in Seq(S)
    BY LenProperties DEF Turn
  <1>3. PICK from : from = [i \in 1 .. n |-> g[i]]
    OBVIOUS
  <1>4. ASSUME NEW i \in 1 .. n
        PROVE  /\ from[i] \in 0 .. z
               /\ from[i] + Len(segs[i]) <= IF i + 1 \in 1 .. n THEN from[i + 1] ELSE z
               /\ segs[i] = SubSeq(whole, from[i] + 1, from[i] + Len(segs[i]))
    <2>1. PICK l \in Nat, a \in Nat : l = Len(segs[i]) /\ a = g[i] /\ a = from[i]
      BY <1>1, <1>2, <1>3, LenProperties DEF Segments
    <2>2. /\ a + l <= z /\ (i + 1 \in 1 .. n => a + l <= g[i + 1])
          /\ segs[i] = SubSeq(whole, a + 1, a + l)
      BY <1>1, <1>2, <2>1 DEF Segments
    <2>3. i + 1 \in 1 .. n => from[i + 1] = g[i + 1]
      BY <1>3
    <2>4. from[i] + Len(segs[i]) <= IF i + 1 \in 1 .. n THEN from[i + 1] ELSE z
      BY <2>1, <2>2, <2>3
    <2>5. from[i] \in 0 .. z
      <3>1. a + l <= z
        BY <2>2
      <3>2. a \in 0 .. z
        BY <3>1
      <3> QED
        BY <2>1, <3>2
    <2> QED
      BY <2>1, <2>2, <2>4, <2>5
  <1>5. from \in [1 .. n -> 0 .. z]
    BY <1>3, <1>4
  <1> QED
    BY <1>1, <1>2, <1>4, <1>5 DEF InTurn

LEMMA TurnEmpty == ASSUME NEW whole \in Seq(Byte) PROVE Turn(Byte, <<>>, whole)
  <1>1. <<>> \in Items /\ 1 .. Len(<<>>) = {}
    BY EmptySeq DEF Items
  <1>2. Len(whole) \in Nat
    BY LenProperties
  <1>3. Segments(<<>>, <<>>, whole, Len(whole))
    BY <1>1 DEF Segments
  <1> QED
    BY <1>1, <1>2, <1>3 DEF Turn, Items

LEMMA TurnGrows ==
  ASSUME NEW segs, NEW whole \in Seq(Byte), NEW x \in Seq(Byte), Turn(Byte, segs, whole)
  PROVE  Turn(Byte, segs, whole \o x)
  <1>0. PICK z \in Nat : z = Len(whole) /\ \E from : Segments(from, segs, whole, z)
    BY DEF Turn, Items
  <1>1. PICK from : z = Len(whole) /\ Segments(from, segs, whole, z)
    BY <1>0
  <1>2. PICK y \in Nat : y = Len(whole \o x) /\ z <= y
    BY <1>1, ConcatProperties, LenProperties
  <1>3. PICK n \in Nat : n = Len(segs) /\ \A i \in 1 .. n : segs[i] \in Seq(Byte)
    BY LenProperties DEF Turn, Items
  <1>4. ASSUME NEW i \in 1 .. n
        PROVE  /\ from[i] \in Nat /\ from[i] + Len(segs[i]) <= y
               /\ i + 1 \in 1 .. n => from[i] + Len(segs[i]) <= from[i + 1]
               /\ segs[i] = SubSeq(whole \o x, from[i] + 1, from[i] + Len(segs[i]))
    <2>1. PICK l \in Nat, a \in Nat : l = Len(segs[i]) /\ a = from[i]
      BY <1>1, <1>3, LenProperties DEF Segments
    <2>2. PICK e \in Nat : e = a + l
      OBVIOUS
    <2>3. /\ e <= z /\ (i + 1 \in 1 .. n => e <= from[i + 1])
          /\ segs[i] = SubSeq(whole, a + 1, e)
      BY <1>1, <1>3, <2>1, <2>2 DEF Segments
    <2>4. PartOf(Byte, whole, x, a, e)
      BY <1>1, <2>2, <2>3 DEF PartOf
    <2>5. SubSeq(whole \o x, a + 1, e) = SubSeq(whole, a + 1, e)
      <3>1. Stays(whole, x, a, e)
        BY <2>4, SubSeqInside
      <3> QED
        BY <3>1 DEF Stays
    <2>6. e <= y
      BY <1>2, <2>3
    <2> QED
      BY <2>1, <2>2, <2>3, <2>5, <2>6
  <1>5. Segments(from, segs, whole \o x, y)
    BY <1>3, <1>4 DEF Segments
  <1> QED
    BY <1>2, <1>5 DEF Turn, Items

LEMMA TurnAppends ==
  ASSUME NEW segs, NEW whole \in Seq(Byte), NEW x \in Seq(Byte), Turn(Byte, segs, whole)
  PROVE  Turn(Byte, Append(segs, x), whole \o x)
  <1>0. PICK z \in Nat : z = Len(whole) /\ \E g : Segments(g, segs, whole, z)
    BY DEF Turn, Items
  <1>1. PICK g : z = Len(whole) /\ Segments(g, segs, whole, z)
    BY <1>0
  <1>2. PICK k \in Nat : k = Len(x) /\ Len(whole \o x) = z + k
    BY <1>1, ConcatProperties, LenProperties
  <1>3. PICK n \in Nat, t \in Items :
            /\ n = Len(segs) /\ t = Append(segs, x) /\ Len(t) = n + 1 /\ t[n + 1] = x
            /\ \A i \in 1 .. n : t[i] = segs[i] /\ segs[i] \in Seq(Byte)
    <2>1. segs \in Items
      BY DEF Turn, Items
    <2>2. PICK n \in Nat : n = Len(segs) /\ \A i \in 1 .. n : segs[i] \in Seq(Byte)
      BY <2>1, LenProperties DEF Items
    <2>3. PICK t \in Items : t = Append(segs, x)
      BY <2>1, AppendProperties DEF Items
    <2>4. Len(t) = n + 1 /\ t[n + 1] = x /\ \A i \in 1 .. n : t[i] = segs[i]
      BY <2>1, <2>2, <2>3, AppendProperties DEF Items
    <2> QED
      BY <2>2, <2>3, <2>4
  <1>4. PICK from : from[n + 1] = z /\ \A i \in 1 .. n : from[i] = g[i]
    <2>1. PICK f : f = [i \in 1 .. n + 1 |-> IF i = n + 1 THEN z ELSE g[i]]
      OBVIOUS
    <2>2. f[n + 1] = z /\ \A i \in 1 .. n : f[i] = g[i]
      BY <2>1
    <2> QED
      BY <2>2
  <1>5. ASSUME NEW i \in 1 .. n + 1
        PROVE  /\ from[i] \in Nat /\ from[i] + Len(t[i]) <= z + k
               /\ i + 1 \in 1 .. n + 1 => from[i] + Len(t[i]) <= from[i + 1]
               /\ t[i] = SubSeq(whole \o x, from[i] + 1, from[i] + Len(t[i]))
    <2>1. CASE i = n + 1
      <3>1. SubSeq(whole \o x, z + 1, z + k) = x
        BY <1>1, <1>2, SubSeqBehind
      <3>2. from[i] = z /\ t[i] = x /\ Len(t[i]) = k
        BY <1>2, <1>3, <1>4, <2>1
      <3>3. ~(i + 1 \in 1 .. n + 1) /\ z + k <= z + k
        BY <2>1
      <3> QED
        BY <3>1, <3>2, <3>3
    <2>2. CASE i \in 1 .. n
      <3>1. PICK l \in Nat, a \in Nat : l = Len(segs[i]) /\ a = g[i]
        BY <1>1, <1>3, <2>2, LenProperties DEF Segments
      <3>2. PICK e \in Nat : e = a + l
        OBVIOUS
      <3>3. /\ e <= z /\ (i + 1 \in 1 .. n => e <= g[i + 1])
            /\ segs[i] = SubSeq(whole, a + 1, e)
        BY <1>1, <1>3, <2>2, <3>1, <3>2 DEF Segments
      <3>4. PartOf(Byte, whole, x, a, e)
        BY <1>1, <3>2, <3>3 DEF PartOf
      <3>5. SubSeq(whole \o x, a + 1, e) = SubSeq(whole, a + 1, e)
        <4>1. Stays(whole, x, a, e)
          BY <3>4, SubSeqInside
        <4> QED
          BY <4>1 DEF Stays
      <3>6. from[i] = a /\ t[i] = segs[i]
        BY <1>3, <1>4, <2>2, <3>1
      <3>7. i + 1 \in 1 .. n + 1 => e <= from[i + 1]
        <4>1. CASE i = n
          BY <1>4, <3>3, <4>1
        <4>2. CASE i # n
          <5>1. i + 1 \in 1 .. n
            BY <2>2, <4>2
          <5> QED
            BY <1>4, <3>3, <5>1
        <4> QED
          BY <4>1, <4>2
      <3>8. e <= z + k
        BY <3>3
      <3> QED
        BY <3>1, <3>2, <3>3, <3>5, <3>6, <3>7, <3>8
    <2>3. i = n + 1 \/ i \in 1 .. n
      OBVIOUS
    <2> QED
      BY <2>1, <2>2, <2>3, Zenon
  <1>6. Segments(from, t, whole \o x, z + k)
    BY <1>3, <1>5 DEF Segments
  <1> QED
    BY <1>2, <1>3, <1>6 DEF Turn, Items

-----------------------------------------------------------------------------
(* What has been read *)

Readings(s) == [k \in DOMAIN s |-> s[k].items]
AllRead(s) == FlattenSeq(Readings(s))

LEMMA ReadingsType ==
  ASSUME NEW s \in Seq(Part)
  PROVE  /\ Readings(s) \in Seq(Items) /\ Len(Readings(s)) = Len(s)
         /\ \A i \in 1 .. Len(s) : Readings(s)[i] = s[i].items
  <1>1. PICK n \in Nat : n = Len(s) /\ DOMAIN s = 1 .. n /\ \A i \in 1 .. n : s[i] \in Part
    BY LenProperties
  <1>2. PICK f : f = Readings(s) /\ f = [k \in 1 .. n |-> s[k].items]
    BY <1>1 DEF Readings
  <1>3. \A i \in 1 .. n : s[i].items \in Items
    BY <1>1 DEF Part, Items
  <1>4. f \in [1 .. n -> Items] /\ \A i \in 1 .. n : f[i] = s[i].items
    BY <1>2, <1>3
  <1>5. f \in Seq(Items) /\ Len(f) = n
    BY <1>4
  <1> QED
    BY <1>1, <1>2, <1>4, <1>5

LEMMA AllReadType == ASSUME NEW s \in Seq(Part) PROVE AllRead(s) \in Items
  BY ReadingsType, FlattenType DEF AllRead, Items

LEMMA AllReadEmpty == AllRead(<<>>) = <<>>
  <1>1. Readings(<<>>) = <<>>
    BY DEF Readings
  <1> QED
    BY <1>1, FlattenEmpty DEF AllRead

LEMMA AllReadAppend ==
  ASSUME NEW s \in Seq(Part), NEW p \in Part
  PROVE  AllRead(Append(s, p)) = AllRead(s) \o p.items
  <1>1. PICK n \in Nat : n = Len(s)
    BY LenProperties
  <1>2. PICK t \in Seq(Part) : /\ t = Append(s, p) /\ Len(t) = n + 1 /\ t[n + 1] = p
                               /\ \A i \in 1 .. n : t[i] = s[i]
    <2>1. PICK t \in Seq(Part) : t = Append(s, p)
      BY AppendProperties
    <2>2. Len(t) = n + 1 /\ t[n + 1] = p /\ \A i \in 1 .. n : t[i] = s[i]
      BY <1>1, <2>1, AppendProperties
    <2> QED
      BY <2>1, <2>2
  <1>3. PICK g \in Seq(Items) :
            g = Readings(t) /\ Len(g) = n + 1 /\ \A i \in 1 .. n + 1 : g[i] = t[i].items
    BY <1>2, ReadingsType
  <1>4. PICK f \in Seq(Items) :
            f = Readings(s) /\ Len(f) = n /\ \A i \in 1 .. n : f[i] = s[i].items
    BY <1>1, ReadingsType
  <1>5. PICK y \in Items : y = p.items
    BY DEF Part, Items
  <1>6. PICK h \in Seq(Items) : h = Append(f, y)
    BY AppendProperties
  <1>7. Len(h) = n + 1 /\ h[n + 1] = y /\ \A i \in 1 .. n : h[i] = f[i]
    BY <1>4, <1>6, AppendProperties
  <1>8. ASSUME NEW i \in 1 .. n + 1 PROVE g[i] = h[i]
    <2>1. CASE i = n + 1
      BY <1>2, <1>3, <1>5, <1>7, <2>1
    <2>2. CASE i \in 1 .. n
      BY <1>2, <1>3, <1>4, <1>7, <2>2, SMTT(30)
    <2> QED
      BY <2>1, <2>2
  <1>9. g = h
    BY <1>3, <1>7, <1>8, SeqEqual
  <1>10. FlattenSeq(Append(f, y)) = FlattenSeq(f) \o y
    BY FlattenAppend DEF Items
  <1> QED
    BY <1>2, <1>3, <1>4, <1>5, <1>6, <1>9, <1>10 DEF AllRead

LEMMA AllReadTakes ==
  ASSUME NEW s \in Seq(Part)
  PROVE  AllRead(Append(s, Opened)) = AllRead(s) /\ Append(s, Opened) \in Seq(Part)
  <1>1. PICK p \in Part : p = Opened /\ p.items = <<>>
    BY OpenedPart
  <1>2. AllRead(Append(s, p)) = AllRead(s) \o <<>>
    BY <1>1, AllReadAppend
  <1>3. PICK a \in Items : a = AllRead(s)
    BY AllReadType
  <1>4. a \o <<>> = a
    BY ConcatEmptySeq DEF Items
  <1>5. Append(s, p) \in Seq(Part)
    BY AppendProperties
  <1> QED
    BY <1>1, <1>2, <1>3, <1>4, <1>5

LEMMA AllReadGoes ==
  ASSUME NEW s \in Seq(Part), s # <<>>, NEW x \in Items, NEW e \in Ends
  PROVE  AllRead(Goes(s, x, e)) = AllRead(s) \o x /\ Goes(s, x, e) \in Seq(Part)
  <1>1. PICK f \in Seq(Part), l \in Part : FrontAndLast(s, f, l)
    BY LastFront
  <1>2. PICK y \in Items : y = l.items
    BY DEF Part, Items
  <1>3. PICK q \in Part : q = [items |-> y \o x, end |-> e]
    BY ConcatProperties DEF Part, Items
  <1>4. Goes(s, x, e) = Append(f, q)
    BY <1>1, <1>2, <1>3 DEF Goes, FrontAndLast
  <1>5. AllRead(Append(f, q)) = AllRead(f) \o (y \o x)
    <2>1. q.items = y \o x
      BY <1>3
    <2> QED
      BY <2>1, AllReadAppend
  <1>6. AllRead(s) = AllRead(f) \o y
    BY <1>1, <1>2, AllReadAppend DEF FrontAndLast
  <1>7. PICK a \in Items : a = AllRead(f)
    BY AllReadType
  <1>8. (a \o y) \o x = a \o (y \o x)
    <2>1. Three(Seq(Byte), a, y, x)
      BY DEF Three, Items
    <2> QED
      BY <2>1, Regroup DEF Regrouped
  <1>9. Append(f, q) \in Seq(Part)
    BY AppendProperties
  <1> QED
    BY <1>4, <1>5, <1>6, <1>7, <1>8, <1>9

\* How far the bytes of a whole have come.
Wholly(whole, r, b, w, s, done) ==
    /\ done \in Seq(Byte) /\ b \in Seq(Byte) /\ w \in Seq(Byte) /\ r \in Items
    /\ s \in Seq(Part)
    /\ whole = done \o ((b \o w) \o FlattenSeq(r))
    /\ Turn(Byte, AllRead(s), done)
Whole(whole, r, b, w, s) == \E done : Wholly(whole, r, b, w, s, done)

LEMMA WholeBegins == ASSUME NEW r \in Items PROVE Whole(FlattenSeq(r), r, <<>>, <<>>, <<>>)
  <1>1. <<>> \in Seq(Byte) /\ <<>> \in Seq(Part)
    BY EmptySeq
  <1>2. PICK v \in Seq(Byte) : v = FlattenSeq(r)
    BY FlattenType DEF Items
  <1>3. v = <<>> \o ((<<>> \o <<>>) \o v)
    BY <1>1, ConcatEmptySeq
  <1>4. Turn(Byte, AllRead(<<>>), <<>>)
    BY <1>1, AllReadEmpty, TurnEmpty
  <1>5. Wholly(v, r, <<>>, <<>>, <<>>, <<>>)
    BY <1>1, <1>2, <1>3, <1>4 DEF Wholly
  <1> QED
    BY <1>2, <1>5 DEF Whole

LEMMA WholeTakes ==
  ASSUME NEW whole, NEW r, NEW b, NEW w, NEW s, Whole(whole, r, b, w, s)
  PROVE  Whole(whole, r, b, w, Append(s, Opened))
  <1>1. PICK done : Wholly(whole, r, b, w, s, done)
    BY DEF Whole
  <1>2. s \in Seq(Part)
    BY <1>1 DEF Wholly
  <1>3. AllRead(Append(s, Opened)) = AllRead(s) /\ Append(s, Opened) \in Seq(Part)
    BY <1>2, AllReadTakes
  <1>4. Wholly(whole, r, b, w, Append(s, Opened), done)
    BY <1>1, <1>3 DEF Wholly
  <1> QED
    BY <1>4 DEF Whole

\* A chunk goes from what is left to what is under way.
Uploaded(r, b, w, h, t) ==
    /\ h \in Seq(Byte) /\ t \in Items /\ h = Head(r) /\ t = Tail(r) /\ w \o h \in Seq(Byte)
    /\ (b \o w) \o FlattenSeq(r) = (b \o (w \o h)) \o FlattenSeq(t)

LEMMA Uploading ==
  ASSUME NEW r \in Items, r # <<>>, NEW b \in Seq(Byte), NEW w \in Seq(Byte)
  PROVE  \E h, t : Uploaded(r, b, w, h, t)
  <1>1. PICK h \in Seq(Byte), t \in Items : h = Head(r) /\ t = Tail(r) /\ r = <<h>> \o t
    <2>1. PICK h \in Seq(Byte), t \in Seq(Seq(Byte)) : HeadAndTail(Seq(Byte), r, h, t)
      BY TakeHead DEF Items
    <2> QED
      BY <2>1 DEF HeadAndTail, Items
  <1>2. PICK v \in Seq(Byte) : v = FlattenSeq(t)
    BY FlattenType DEF Items
  <1>3. FlattenSeq(r) = h \o v
    <2>1. PICK u \in Seq(Seq(Byte)) : u = <<h>>
      <3>1. <<h>> \in Seq(Seq(Byte))
        OBVIOUS
      <3> QED
        BY <3>1
    <2>2. FlattenSeq(u \o t) = FlattenSeq(u) \o FlattenSeq(t)
      BY FlattenConcat DEF Items
    <2>3. FlattenSeq(u) = h
      BY <2>1, FlattenOne
    <2> QED
      BY <1>1, <1>2, <2>1, <2>2, <2>3
  <1>4. PICK a \in Seq(Byte), k \in Seq(Byte) : a = b \o w /\ k = w \o h
    BY ConcatProperties
  <1>5. (a \o h) \o v = a \o (h \o v)
    <2>1. Three(Byte, a, h, v)
      BY DEF Three
    <2>2. Regrouped(a, h, v)
      BY <2>1, Regroup
    <2> QED
      BY <2>2 DEF Regrouped
  <1>6. a \o h = b \o k
    <2>1. Three(Byte, b, w, h)
      BY DEF Three
    <2>2. Regrouped(b, w, h)
      BY <2>1, Regroup
    <2> QED
      BY <1>4, <2>2 DEF Regrouped
  <1>7. a \o FlattenSeq(r) = (b \o k) \o v
    BY <1>3, <1>5, <1>6
  <1>8. Uploaded(r, b, w, h, t)
    BY <1>1, <1>2, <1>4, <1>7 DEF Uploaded
  <1> QED
    BY <1>8

LEMMA WholeUploads ==
  ASSUME NEW whole, NEW r, NEW b, NEW w, NEW s, Whole(whole, r, b, w, s), r # <<>>
  PROVE  Whole(whole, Tail(r), b, w \o Head(r), s)
  <1>1. PICK done : Wholly(whole, r, b, w, s, done)
    BY DEF Whole
  <1>2. r \in Items /\ b \in Seq(Byte) /\ w \in Seq(Byte)
    BY <1>1 DEF Wholly
  <1>3. PICK h, t : Uploaded(r, b, w, h, t)
    BY <1>2, Uploading
  <1>4. Wholly(whole, t, b, w \o h, s, done)
    BY <1>1, <1>3 DEF Wholly, Uploaded
  <1> QED
    BY <1>3, <1>4 DEF Whole, Uploaded

LEMMA WholeArrives ==
  ASSUME NEW whole, NEW r, NEW b, NEW w, NEW s, Whole(whole, r, b, w, s),
         NEW x \in Seq(Byte), NEW y \in Seq(Byte), w = x \o y
  PROVE  Whole(whole, r, b \o x, y, s)
  <1>1. PICK done : Wholly(whole, r, b, w, s, done)
    BY DEF Whole
  <1>2. PICK c \in Seq(Byte) : c = b \o x
    BY <1>1, ConcatProperties DEF Wholly
  <1>3. c \o y = b \o w
    <2>1. Three(Byte, b, x, y)
      BY <1>1 DEF Three, Wholly
    <2>2. (b \o x) \o y = b \o (x \o y)
      BY <2>1, Regroup DEF Regrouped
    <2> QED
      BY <1>2, <2>2
  <1>4. Wholly(whole, r, c, y, s, done)
    BY <1>1, <1>3 DEF Wholly
  <1> QED
    BY <1>2, <1>4 DEF Whole

LEMMA WholeReceives ==
  ASSUME NEW whole, NEW r, NEW w, NEW s, Whole(whole, r, <<>>, w, s), s # <<>>,
         NEW x \in Seq(Byte), NEW y \in Seq(Byte), w = x \o y
  PROVE  Whole(whole, r, <<>>, y, Goes(s, <<x>>, "open"))
  <1>1. PICK done \in Seq(Byte) : Wholly(whole, r, <<>>, w, s, done)
    BY DEF Whole, Wholly
  <1>2. r \in Items /\ w \in Seq(Byte) /\ s \in Seq(Part)
    BY <1>1 DEF Wholly
  <1>3. PICK v \in Seq(Byte) : v = FlattenSeq(r)
    BY <1>2, FlattenType DEF Items
  <1>4. PICK g \in Seq(Byte), u \in Seq(Byte) : g = done \o x /\ u = y \o v
    BY ConcatProperties
  <1>5. (x \o y) \o v = x \o u
    <2>1. Three(Byte, x, y, v)
      BY DEF Three
    <2> QED
      BY <1>4, <2>1, Regroup, SMTT(30) DEF Regrouped
  <1>6. g \o u = done \o (x \o u)
    <2>1. Three(Byte, done, x, u)
      BY DEF Three
    <2> QED
      <3>1. Regrouped(done, x, u)
        BY <2>1, Regroup
      <3> QED
        BY <1>4, <3>1 DEF Regrouped
  <1>7. <<>> \o w = w /\ <<>> \o y = y
    BY <1>2, ConcatEmptySeq
  <1>8. whole = g \o ((<<>> \o y) \o v)
    BY <1>1, <1>3, <1>4, <1>5, <1>6, <1>7 DEF Wholly
  <1>9. PICK o \in Items : o = <<x>>
    <2>1. <<x>> \in Seq(Seq(Byte))
      OBVIOUS
    <2> QED
      BY <2>1 DEF Items
  <1>10. PICK e \in Ends : e = "open"
    BY DEF Ends
  <1>11. AllRead(Goes(s, o, e)) = AllRead(s) \o o /\ Goes(s, o, e) \in Seq(Part)
    BY <1>2, AllReadGoes
  <1>12. PICK a \in Items : a = AllRead(s)
    BY <1>2, AllReadType
  <1>13. Turn(Byte, Append(a, x), g)
    BY <1>1, <1>4, <1>12, TurnAppends DEF Wholly
  <1>14. Append(a, x) = a \o o
    BY <1>9, AppendIsConcat DEF Items
  <1>15. Wholly(whole, r, <<>>, y, Goes(s, o, e), g)
    BY <1>2, <1>3, <1>8, <1>11, <1>12, <1>13, <1>14, EmptySeq DEF Wholly
  <1> QED
    BY <1>9, <1>10, <1>15 DEF Whole

LEMMA WholeReads ==
  ASSUME NEW whole, NEW r, NEW b, NEW w, NEW s, Whole(whole, r, b, w, s), s # <<>>,
         NEW h \in Seq(Byte), NEW x \in Seq(Byte), NEW y \in Seq(Byte), b = h \o (x \o y)
  PROVE  Whole(whole, r, y, w, Goes(s, <<x>>, "open"))
  <1>1. PICK done \in Seq(Byte) : Wholly(whole, r, b, w, s, done)
    BY DEF Whole, Wholly
  <1>2. r \in Items /\ w \in Seq(Byte) /\ s \in Seq(Part)
    BY <1>1 DEF Wholly
  <1>3. PICK v \in Seq(Byte) : v = FlattenSeq(r)
    BY <1>2, FlattenType DEF Items
  <1>4. PICK k \in Seq(Byte), m \in Seq(Byte), u \in Seq(Byte) :
            k = x \o y /\ m = y \o w /\ u = (y \o w) \o v
    BY <1>2, ConcatProperties
  <1>5. (b \o w) \o v = h \o (x \o u)
    <2>1. PICK j \in Seq(Byte), i \in Seq(Byte) : j = k \o w /\ i = x \o u
      BY <1>2, ConcatProperties
    <2>2. Three(Byte, h, k, w) /\ Three(Byte, x, y, w) /\ Three(Byte, h, j, v) /\ Three(Byte, x, m, v)
      BY <1>2 DEF Three
    <2>3. b \o w = h \o j
      <3>1. Regrouped(h, k, w)
        BY <2>2, Regroup
      <3> QED
        BY <1>4, <2>1, <3>1 DEF Regrouped
    <2>4. j = x \o m
      <3>1. Regrouped(x, y, w)
        BY <2>2, Regroup
      <3> QED
        BY <1>4, <2>1, <3>1 DEF Regrouped
    <2>5. (h \o j) \o v = h \o (j \o v)
      <3>1. Regrouped(h, j, v)
        BY <2>2, Regroup
      <3> QED
        BY <3>1 DEF Regrouped
    <2>6. (x \o m) \o v = x \o u
      <3>1. Regrouped(x, m, v)
        BY <2>2, Regroup
      <3> QED
        BY <1>4, <3>1 DEF Regrouped
    <2> QED
      BY <2>3, <2>4, <2>5, <2>6
  <1>6. PICK f \in Seq(Byte), g \in Seq(Byte) : f = done \o h /\ g = f \o x
    BY ConcatProperties
  <1>7. done \o (h \o (x \o u)) = g \o u
    <2>1. PICK i \in Seq(Byte) : i = x \o u
      BY ConcatProperties
    <2>2. Three(Byte, done, h, i) /\ Three(Byte, f, x, u)
      BY DEF Three
    <2>3. f \o i = done \o (h \o i)
      <3>1. Regrouped(done, h, i)
        BY <2>2, Regroup
      <3> QED
        BY <1>6, <3>1 DEF Regrouped
    <2>4. g \o u = f \o i
      <3>1. Regrouped(f, x, u)
        BY <2>2, Regroup
      <3> QED
        BY <1>6, <2>1, <3>1 DEF Regrouped
    <2> QED
      BY <2>1, <2>3, <2>4
  <1>8. whole = g \o ((y \o w) \o v)
    BY <1>1, <1>3, <1>4, <1>5, <1>7 DEF Wholly
  <1>9. PICK o \in Items : o = <<x>>
    <2>1. <<x>> \in Seq(Seq(Byte))
      OBVIOUS
    <2> QED
      BY <2>1 DEF Items
  <1>10. PICK e \in Ends : e = "open"
    BY DEF Ends
  <1>11. AllRead(Goes(s, o, e)) = AllRead(s) \o o /\ Goes(s, o, e) \in Seq(Part)
    BY <1>2, AllReadGoes
  <1>12. PICK a \in Items : a = AllRead(s)
    BY <1>2, AllReadType
  <1>13. Turn(Byte, Append(a, x), g)
    <2>1. Turn(Byte, a, f)
      BY <1>1, <1>6, <1>12, TurnGrows DEF Wholly
    <2> QED
      BY <1>6, <2>1, TurnAppends
  <1>14. Append(a, x) = a \o o
    BY <1>9, AppendIsConcat DEF Items
  <1>15. Wholly(whole, r, y, w, Goes(s, o, e), g)
    BY <1>2, <1>3, <1>8, <1>11, <1>12, <1>13, <1>14 DEF Wholly
  <1> QED
    BY <1>9, <1>10, <1>15 DEF Whole

LEMMA WholeDrops ==
  ASSUME NEW whole, NEW r, NEW b, NEW w, NEW s, Whole(whole, r, b, w, s), s # <<>>
  PROVE  \A e \in Ends : Whole(whole, r, <<>>, <<>>, Goes(s, <<>>, e))
  <1> SUFFICES ASSUME NEW e \in Ends PROVE Whole(whole, r, <<>>, <<>>, Goes(s, <<>>, e))
    OBVIOUS
  <1>1. PICK done \in Seq(Byte) : Wholly(whole, r, b, w, s, done)
    BY DEF Whole, Wholly
  <1>2. /\ r \in Items /\ b \in Seq(Byte) /\ w \in Seq(Byte) /\ s \in Seq(Part)
        /\ <<>> \in Seq(Byte) /\ <<>> \in Items
    BY <1>1, EmptySeq DEF Wholly, Items
  <1>3. PICK v \in Seq(Byte), k \in Seq(Byte), g \in Seq(Byte) :
            v = FlattenSeq(r) /\ k = b \o w /\ g = done \o k
    <2>1. PICK v \in Seq(Byte) : v = FlattenSeq(r)
      BY <1>2, FlattenType DEF Items
    <2>2. PICK k \in Seq(Byte) : k = b \o w
      BY <1>2, ConcatProperties
    <2>3. PICK g \in Seq(Byte) : g = done \o k
      BY ConcatProperties
    <2> QED
      BY <2>1, <2>2, <2>3
  <1>4. g \o v = done \o (k \o v)
    <2>1. Three(Byte, done, k, v)
      BY DEF Three
    <2>2. Regrouped(done, k, v)
      BY <2>1, Regroup
    <2> QED
      BY <1>3, <2>2 DEF Regrouped
  <1>5. (<<>> \o <<>>) \o v = v
    BY <1>2, ConcatEmptySeq
  <1>6. whole = g \o ((<<>> \o <<>>) \o v)
    BY <1>1, <1>3, <1>4, <1>5 DEF Wholly
  <1>7. PICK a \in Items : a = AllRead(s) /\ a \o <<>> = a
    BY <1>2, AllReadType, ConcatEmptySeq DEF Items
  <1>8. AllRead(Goes(s, <<>>, e)) = a /\ Goes(s, <<>>, e) \in Seq(Part)
    <2>1. AllRead(Goes(s, <<>>, e)) = AllRead(s) \o <<>> /\ Goes(s, <<>>, e) \in Seq(Part)
      BY <1>2, AllReadGoes
    <2> QED
      BY <1>7, <2>1
  <1>9. Turn(Byte, a, g)
    BY <1>1, <1>3, <1>7, TurnGrows DEF Wholly
  <1>10. Wholly(whole, r, <<>>, <<>>, Goes(s, <<>>, e), g)
    BY <1>2, <1>3, <1>6, <1>8, <1>9 DEF Wholly
  <1> QED
    BY <1>10 DEF Whole

-----------------------------------------------------------------------------
(* The whole of a body that is not collected *)

WholeInv(c) ==
    config[c] # None /\ input[c].mode # "bytes" =>
        /\ Whole(FlattenSeq(Chunks(input[c])), rest[c], buffer[c], wire[c], served[c])
        /\ input[c].mode = "raw" => buffer[c] = <<>>

LEMMA WholeInit == Init => \A c \in Calls : WholeInv(c)
  BY DEF Init, WholeInv

LEMMA ChunksType == ASSUME NEW i \in Input PROVE Chunks(i) \in Items
  <1>1. PICK items \in Items : items = i.items
    BY DEF Input, Items
  <1>2. CASE i.mode = "framed"
    <2>1. Chunks(i) = Frames(items)
      BY <1>1, <1>2 DEF Chunks, Frames
    <2> QED
      BY <2>1, FramesType
  <1>3. CASE i.mode # "framed"
    BY <1>1, <1>3 DEF Chunks
  <1> QED
    BY <1>2, <1>3

LEMMA WholeMoves ==
  ASSUME CallsInv, BodiesInv, CallsInv', BodiesType', NEW c \in Calls, Moves(c), WholeInv(c)
  PROVE  WholeInv(c)'
  <1> DEFINE Goal ==
          /\ Whole(FlattenSeq(Chunks(input'[c])), rest'[c], buffer'[c], wire'[c], served'[c])
          /\ input'[c].mode = "raw" => buffer'[c] = <<>>
  <1> SUFFICES ASSUME config'[c] # None, input'[c].mode # "bytes" PROVE Goal
    <2>1. Chunks(input[c])' = Chunks(input'[c])
      BY DEF Chunks
    <2> QED
      BY <2>1 DEF WholeInv
  <1>1. Body(c)
    BY DEF BodiesInv
  <1>2. PICK a : a = FlattenSeq(Chunks(input[c]))
    OBVIOUS
  <1>3. ASSUME Keeps(c), config[c] # None
        PROVE  /\ input'[c] = input[c] /\ input[c].mode # "bytes"
               /\ Whole(a, rest[c], buffer[c], wire[c], served[c])
               /\ input[c].mode = "raw" => buffer[c] = <<>>
    <2>1. input'[c] = input[c]
      BY <1>3 DEF Keeps
    <2> QED
      BY <1>2, <1>3, <2>1 DEF WholeInv
  <1>4. CASE Idles(c)
    <2>1. Keeps(c) /\ config[c] # None
      BY <1>4 DEF Idles, Keeps
    <2>2. /\ rest'[c] = rest[c] /\ wire'[c] = wire[c] /\ buffer'[c] = buffer[c]
          /\ served'[c] = served[c]
      BY <1>4 DEF Idles
    <2> QED
      BY <1>2, <1>3, <2>1, <2>2
  <1>5. CASE Begins(c)
    <2>1. /\ served'[c] = <<>> /\ wire'[c] = <<>> /\ buffer'[c] = <<>>
          /\ rest'[c] = Chunks(input'[c]) /\ input'[c] \in Inputs[c]
      BY <1>1, <1>5 DEF Begins, Body
    <2>2. input'[c] \in Input
      BY <2>1, ClientAssumption
    <2>3. PICK r \in Items : r = Chunks(input'[c])
      BY <2>2, ChunksType
    <2>4. Whole(FlattenSeq(r), r, <<>>, <<>>, <<>>)
      BY WholeBegins
    <2> QED
      BY <2>1, <2>3, <2>4
  <1>6. ASSUME Attempts(c) PROVE Keeps(c) /\ config[c] # None
    BY <1>6 DEF Attempts
  <1>7. CASE Takes(c)
    <2>1. Attempts(c)
      BY <1>7 DEF Takes
    <2>2. /\ rest'[c] = rest[c] /\ wire'[c] = wire[c] /\ buffer'[c] = buffer[c]
          /\ served'[c] = Append(served[c], Opened)
      BY <1>3, <1>6, <1>7, <2>1 DEF Takes, Opened
    <2>3. Whole(a, rest[c], buffer[c], wire[c], Append(served[c], Opened))
      BY <1>3, <1>6, <2>1, WholeTakes
    <2> QED
      BY <1>2, <1>3, <1>6, <2>1, <2>2, <2>3
  <1>8. CASE Uploads(c)
    <2>1. Attempts(c)
      BY <1>8 DEF Uploads, Within
    <2>2. /\ rest[c] # <<>> /\ rest'[c] = Tail(rest[c]) /\ wire'[c] = wire[c] \o Head(rest[c])
          /\ buffer'[c] = buffer[c] /\ served'[c] = served[c]
      BY <1>8 DEF Uploads
    <2>3. Whole(a, Tail(rest[c]), buffer[c], wire[c] \o Head(rest[c]), served[c])
      BY <1>3, <1>6, <2>1, <2>2, WholeUploads
    <2> QED
      BY <1>2, <1>3, <1>6, <2>1, <2>2, <2>3
  <1>9. CASE Arrives(c)
    <2>1. Attempts(c) /\ InProgress(c)
      BY <1>9 DEF Arrives, Within
    <2>2. PICK x \in Seq(Byte) : Receives(c, x)
      BY <1>9 DEF Arrives
    <2>3. PICK y \in Seq(Byte) : y = wire'[c] /\ wire[c] = x \o y
      BY <2>2 DEF Receives
    <2>4. rest'[c] = rest[c]
      BY <2>2 DEF Receives
    <2>5. CASE input[c].mode = "raw"
      <3>1. served'[c] = Goes(served[c], <<x>>, "open") /\ buffer'[c] = buffer[c]
        BY <2>2, <2>5 DEF Receives
      <3>2. buffer[c] = <<>> /\ Whole(a, rest[c], <<>>, wire[c], served[c])
        BY <1>3, <1>6, <2>1, <2>5
      <3>3. served[c] # <<>>
        BY <1>1, <2>1 DEF Body
      <3>4. Whole(a, rest[c], <<>>, y, Goes(served[c], <<x>>, "open"))
        BY <2>3, <3>2, <3>3, WholeReceives
      <3> QED
        BY <1>2, <1>3, <1>6, <2>1, <2>3, <2>4, <3>1, <3>2, <3>4
    <2>6. CASE input[c].mode # "raw"
      <3>1. buffer'[c] = buffer[c] \o x /\ served'[c] = served[c]
        BY <2>2, <2>6 DEF Receives
      <3>2. Whole(a, rest[c], buffer[c] \o x, y, served[c])
        BY <1>3, <1>6, <2>1, <2>3, WholeArrives
      <3> QED
        BY <1>2, <1>3, <1>6, <2>1, <2>3, <2>4, <2>6, <3>1, <3>2
    <2> QED
      BY <2>5, <2>6
  <1>10. CASE Reads(c)
    <2>1. Attempts(c) /\ InProgress(c)
      BY <1>10 DEF Reads, Within
    <2>2. /\ input[c].mode = "framed" /\ HasFrame(buffer[c])
          /\ rest'[c] = rest[c] /\ wire'[c] = wire[c] /\ buffer'[c] = AfterFrame(buffer[c])
          /\ served'[c] = Goes(served[c], <<FirstItem(buffer[c])>>, "open")
      BY <1>10 DEF Reads, Framing
    <2>3. served[c] # <<>>
      BY <1>1, <2>1 DEF Body
    <2>4. PICK b \in Seq(Byte) : b = buffer[c]
      BY DEF BodiesInv, BodiesType
    <2>5. PICK x \in Seq(Byte), y \in Seq(Byte), h \in Seq(Byte) :
              x = FirstItem(b) /\ y = AfterFrame(b) /\ b = h \o (x \o y)
      <3>1. HasFrame(b)
        BY <2>2, <2>4
      <3> QED
        BY <3>1, FrameCut
    <2>6. Whole(a, rest[c], y, wire[c], Goes(served[c], <<x>>, "open"))
      <3>1. Whole(a, rest[c], b, wire[c], served[c])
        BY <1>3, <1>6, <2>1, <2>4
      <3> QED
        BY <2>3, <2>5, <3>1, WholeReads
    <2> QED
      BY <1>2, <1>3, <1>6, <2>1, <2>2, <2>4, <2>5, <2>6
  <1>11. CASE Finishes(c)
    <2>1. Attempts(c) /\ InProgress(c)
      BY <1>11 DEF Finishes, Within
    <2>2. /\ rest[c] = <<>> /\ rest'[c] = <<>> /\ wire'[c] = <<>> /\ buffer'[c] = <<>>
          /\ \E e \in Ends : served'[c] = Goes(served[c], <<>>, e)
      <3>1. "clean" \in Ends /\ "incomplete" \in Ends
        BY DEF Ends
      <3>2. input[c].mode # "bytes"
        BY <1>3, <1>6, <2>1
      <3>3. CASE Framing(c)
        BY <1>11, <3>1, <3>3 DEF Finishes
      <3>4. CASE ~Framing(c)
        BY <1>11, <3>1, <3>2, <3>4 DEF Finishes
      <3> QED
        BY <3>3, <3>4
    <2>3. served[c] # <<>>
      BY <1>1, <2>1 DEF Body
    <2>4. \A e \in Ends : Whole(a, rest[c], <<>>, <<>>, Goes(served[c], <<>>, e))
      BY <1>3, <1>6, <2>1, <2>3, WholeDrops
    <2> QED
      BY <1>2, <1>3, <1>6, <2>1, <2>2, <2>4
  <1>12. CASE Drops(c)
    <2>1. Attempts(c) /\ InProgress(c) /\ rest'[c] = rest[c] /\ wire'[c] = <<>> /\ buffer'[c] = <<>>
      BY <1>12 DEF Drops
    <2>2. served[c] # <<>>
      BY <1>1, <2>1 DEF Body
    <2>3. CASE Last(served[c]).end # "open" /\ served'[c] = served[c]
      <3>1. wire[c] = <<>> /\ buffer[c] = <<>>
        BY <1>1, <2>1, <2>3 DEF Body
      <3> QED
        BY <1>2, <1>3, <1>6, <2>1, <2>3, <3>1
    <2>4. CASE \E e \in {"lost", "left"} : served'[c] = Goes(served[c], <<>>, e)
      <3>1. \E e \in Ends : served'[c] = Goes(served[c], <<>>, e)
        BY <2>4 DEF Ends
      <3>2. \A e \in Ends : Whole(a, rest[c], <<>>, <<>>, Goes(served[c], <<>>, e))
        BY <1>3, <1>6, <2>1, <2>2, WholeDrops
      <3> QED
        BY <1>2, <1>3, <1>6, <2>1, <3>1, <3>2
    <2>5. input[c].mode # "bytes"
      BY <1>3, <1>6, <2>1
    <2> QED
      BY <1>12, <2>3, <2>4, <2>5 DEF Drops
  <1> QED
    BY <1>4, <1>5, <1>7, <1>8, <1>9, <1>10, <1>11, <1>12 DEF Moves

-----------------------------------------------------------------------------
(* A body that is collected *)

BytesRead(items, s) ==
    \A k \in 1 .. Len(s) :
        /\ \A j \in DOMAIN s[k].items : IsPrefix(s[k].items[j], items[1])
        /\ s[k].end = "clean" => s[k].items = items
BytesLeft(items, r, b, w, s) ==
    /\ items \in Items /\ r \in Items /\ b \in Seq(Byte) /\ w \in Seq(Byte)
    /\ Last(s).items = <<>> /\ (b \o w) \o FlattenSeq(r) = items[1]

LEMMA BytesTakes ==
  ASSUME NEW items, NEW s \in Seq(Part), BytesRead(items, s)
  PROVE  BytesRead(items, Append(s, Opened)) /\ Last(Append(s, Opened)).items = <<>>
  <1>1. PICK p \in Part : p = Opened /\ p.items = <<>> /\ p.end = "open"
    BY OpenedPart
  <1>2. PICK n \in Nat, t \in Seq(Part) :
            /\ n = Len(s) /\ t = Append(s, p) /\ Len(t) = n + 1 /\ t[n + 1] = p
            /\ \A i \in 1 .. n : t[i] = s[i]
    <2>1. PICK n \in Nat : n = Len(s)
      BY LenProperties
    <2>2. PICK t \in Seq(Part) : t = Append(s, p)
      BY AppendProperties
    <2>3. Len(t) = n + 1 /\ t[n + 1] = p /\ \A i \in 1 .. n : t[i] = s[i]
      BY <2>1, <2>2, AppendProperties
    <2> QED
      BY <2>1, <2>2, <2>3
  <1>3. ASSUME NEW k \in 1 .. n + 1
        PROVE  /\ \A j \in DOMAIN t[k].items : IsPrefix(t[k].items[j], items[1])
               /\ t[k].end = "clean" => t[k].items = items
    <2>1. CASE k = n + 1
      <3>1. DOMAIN t[k].items = {} /\ t[k].end # "clean"
        BY <1>1, <1>2, <2>1
      <3> QED
        BY <3>1
    <2>2. CASE k \in 1 .. n
      BY <1>2, <2>2 DEF BytesRead
    <2>3. k = n + 1 \/ k \in 1 .. n
      OBVIOUS
    <2> QED
      BY <2>1, <2>2, <2>3, Zenon
  <1>4. Last(t) = p
    BY <1>2, LastAppend
  <1>5. BytesRead(items, t)
    BY <1>2, <1>3 DEF BytesRead
  <1> QED
    BY <1>1, <1>2, <1>4, <1>5

LEMMA BytesGoes ==
  ASSUME NEW items, NEW s \in Seq(Part), s # <<>>, BytesRead(items, s), Last(s).items = <<>>,
         NEW x \in Items, NEW e \in Ends, \A j \in DOMAIN x : IsPrefix(x[j], items[1]),
         e = "clean" => x = items
  PROVE  BytesRead(items, Goes(s, x, e))
  <1>1. PICK n \in Nat : n = Len(s)
    BY LenProperties
  <1>2. PICK q \in Seq(Part) : Gone(s, x, e, n, q)
    <2>1. Going(s, x, e, n)
      BY <1>1 DEF Going, Items
    <2> QED
      BY <2>1, GoesAt
  <1>3. q[n].items = x /\ q[n].end = e
    <2>1. <<>> \o x = x
      BY ConcatEmptySeq DEF Items
    <2>2. q[n].items = <<>> \o x /\ q[n].end = e
      BY <1>2 DEF Gone
    <2> QED
      BY <2>1, <2>2
  <1>4. ASSUME NEW k \in 1 .. n
        PROVE  /\ \A j \in DOMAIN q[k].items : IsPrefix(q[k].items[j], items[1])
               /\ q[k].end = "clean" => q[k].items = items
    <2>1. CASE k = n
      BY <1>3, <2>1
    <2>2. CASE k # n
      <3>1. q[k] = s[k]
        BY <1>2, <2>2 DEF Gone
      <3> QED
        BY <1>1, <3>1 DEF BytesRead
    <2> QED
      BY <2>1, <2>2
  <1>5. BytesRead(items, q)
    BY <1>2, <1>4 DEF BytesRead, Gone
  <1> QED
    BY <1>2, <1>5 DEF Gone

LEMMA BytesOpens ==
  ASSUME NEW items \in Items, Len(items) = 1, NEW s, Last(s).items = <<>>
  PROVE  BytesLeft(items, items, <<>>, <<>>, s)
  <1>1. PICK x \in Seq(Byte) : x = items[1]
    BY ElementOfSeq DEF Items
  <1>2. PICK o \in Items : o = <<x>> /\ Len(o) = 1 /\ o[1] = x
    <2>1. <<x>> \in Seq(Seq(Byte)) /\ Len(<<x>>) = 1 /\ <<x>>[1] = x
      OBVIOUS
    <2> QED
      BY <2>1 DEF Items
  <1>3. o = items
    <2>1. Len(o) = Len(items) /\ \A i \in 1 .. Len(o) : o[i] = items[i]
      BY <1>1, <1>2
    <2> QED
      BY <2>1, SeqEqual DEF Items
  <1>4. FlattenSeq(items) = x
    BY <1>2, <1>3, FlattenOne
  <1>5. (<<>> \o <<>>) \o x = x /\ <<>> \in Seq(Byte)
    BY ConcatEmptySeq, EmptySeq
  <1> QED
    BY <1>1, <1>4, <1>5 DEF BytesLeft

LEMMA BytesUploads ==
  ASSUME NEW items, NEW r, NEW b, NEW w, NEW s, BytesLeft(items, r, b, w, s), r # <<>>
  PROVE  BytesLeft(items, Tail(r), b, w \o Head(r), s)
  <1>1. r \in Items /\ b \in Seq(Byte) /\ w \in Seq(Byte)
    BY DEF BytesLeft
  <1>2. PICK h, t : Uploaded(r, b, w, h, t)
    BY <1>1, Uploading
  <1>3. BytesLeft(items, t, b, w \o h, s)
    BY <1>2 DEF BytesLeft, Uploaded
  <1> QED
    BY <1>2, <1>3 DEF Uploaded

LEMMA BytesArrive ==
  ASSUME NEW items, NEW r, NEW b, NEW w, NEW s, BytesLeft(items, r, b, w, s),
         NEW x \in Seq(Byte), NEW y \in Seq(Byte), w = x \o y
  PROVE  BytesLeft(items, r, b \o x, y, s)
  <1>1. PICK c \in Seq(Byte) : c = b \o x
    BY ConcatProperties DEF BytesLeft
  <1>2. c \o y = b \o w
    <2>1. Three(Byte, b, x, y)
      BY DEF Three, BytesLeft
    <2> QED
      BY <1>1, <2>1, Regroup DEF Regrouped
  <1>3. BytesLeft(items, r, c, y, s)
    BY <1>2 DEF BytesLeft
  <1> QED
    BY <1>1, <1>3

LEMMA PrefixConcat ==
  ASSUME NEW S, NEW b \in Seq(S), NEW u \in Seq(S)
  PROVE  IsPrefix(b, b \o u)
  <1>1. PICK n \in Nat, k \in Nat : n = Len(b) /\ k = Len(u) /\ Len(b \o u) = n + k
    BY LenProperties, ConcatProperties
  <1>2. PartOf(S, b, u, 0, n)
    BY <1>1 DEF PartOf
  <1>3. SubSeq(b \o u, 1, n) = SubSeq(b, 1, n)
    <2>1. Stays(b, u, 0, n)
      BY <1>2, SubSeqInside
    <2> QED
      <3>1. 0 + 1 = 1
        OBVIOUS
      <3> QED
        BY <2>1, <3>1 DEF Stays
  <1>4. n <= n + k
    OBVIOUS
  <1> QED
    BY <1>1, <1>3, <1>4 DEF IsPrefix

LEMMA BytesPrefix ==
  ASSUME NEW items, NEW r, NEW b, NEW w, NEW s, BytesLeft(items, r, b, w, s)
  PROVE  /\ IsPrefix(b, items[1]) /\ b \in Seq(Byte) /\ items \in Items
         /\ r = <<>> /\ w = <<>> => b = items[1]
  <1>1. /\ items \in Items /\ r \in Items /\ b \in Seq(Byte) /\ w \in Seq(Byte)
        /\ (b \o w) \o FlattenSeq(r) = items[1]
    BY DEF BytesLeft
  <1>2. PICK v \in Seq(Byte), u \in Seq(Byte) : v = FlattenSeq(r) /\ u = w \o v
    <2>1. PICK v \in Seq(Byte) : v = FlattenSeq(r)
      BY <1>1, FlattenType DEF Items
    <2>2. PICK u \in Seq(Byte) : u = w \o v
      BY <1>1, ConcatProperties
    <2> QED
      BY <2>1, <2>2
  <1>3. items[1] = b \o u
    <2>1. Three(Byte, b, w, v)
      BY <1>1 DEF Three
    <2>2. (b \o w) \o v = b \o (w \o v)
      BY <2>1, Regroup, SMTT(30) DEF Regrouped
    <2> QED
      BY <1>1, <1>2, <2>2
  <1>4. IsPrefix(b, b \o u)
    BY <1>1, PrefixConcat
  <1>5. ASSUME r = <<>>, w = <<>> PROVE b = items[1]
    <2>1. v = <<>>
      BY <1>2, <1>5, FlattenEmpty
    <2>2. u = <<>>
      BY <1>2, <1>5, <2>1
    <2> QED
      BY <1>1, <1>3, <2>2, ConcatEmptySeq
  <1> QED
    BY <1>1, <1>3, <1>4, <1>5

BytesInv(c) ==
    config[c] # None /\ input[c].mode = "bytes" =>
        /\ BytesRead(input[c].items, served[c])
        /\ InProgress(c) /\ Last(served[c]).end = "open" =>
               BytesLeft(input[c].items, rest[c], buffer[c], wire[c], served[c])

LEMMA BytesInit == Init => \A c \in Calls : BytesInv(c)
  BY DEF Init, BytesInv

LEMMA OneItem ==
  ASSUME NEW items \in Items, Len(items) = 1, NEW b \in Seq(Byte), IsPrefix(b, items[1])
  PROVE  /\ <<b>> \in Items /\ \A j \in DOMAIN <<b>> : IsPrefix(<<b>>[j], items[1])
         /\ b = items[1] => <<b>> = items
  <1>1. PICK o \in Items : o = <<b>> /\ Len(o) = 1 /\ o[1] = b /\ DOMAIN o = {1}
    <2>1. /\ <<b>> \in Seq(Seq(Byte)) /\ Len(<<b>>) = 1 /\ <<b>>[1] = b
          /\ DOMAIN <<b>> = {1}
      OBVIOUS
    <2> QED
      BY <2>1 DEF Items
  <1>2. ASSUME b = items[1] PROVE o = items
    <2>1. Len(o) = Len(items) /\ \A i \in 1 .. Len(o) : o[i] = items[i]
      BY <1>1, <1>2
    <2> QED
      BY <2>1, SeqEqual DEF Items
  <1> QED
    BY <1>1, <1>2

LEMMA BytesMoves ==
  ASSUME CallsInv, BodiesInv, CallsInv', BodiesType', NEW c \in Calls, Moves(c), BytesInv(c)
  PROVE  BytesInv(c)'
  <1> DEFINE Goal ==
          /\ BytesRead(input'[c].items, served'[c])
          /\ InProgress(c)' /\ Last(served'[c]).end = "open" =>
                 BytesLeft(input'[c].items, rest'[c], buffer'[c], wire'[c], served'[c])
  <1> SUFFICES ASSUME config'[c] # None, input'[c].mode = "bytes" PROVE Goal
    BY DEF BytesInv
  <1>1. Body(c) /\ served[c] \in Seq(Part)
    BY DEF BodiesInv, BodiesType
  <1>2. PICK items \in Items : items = input'[c].items /\ Len(items) = 1
    <2>1. input'[c] \in Inputs[c]
      BY DEF CallsInv, Requests
    <2>2. input'[c] \in Input
      BY <2>1, ClientAssumption
    <2>3. PICK items \in Items : items = input'[c].items
      BY <2>2 DEF Input, Items
    <2>4. Len(items) = 1
      BY <2>1, <2>3, ClientAssumption
    <2> QED
      BY <2>3, <2>4
  <1>3. ASSUME Keeps(c), config[c] # None
        PROVE  /\ input'[c] = input[c] /\ input[c].mode = "bytes"
               /\ BytesRead(items, served[c])
               /\ InProgress(c) /\ Last(served[c]).end = "open" =>
                      BytesLeft(items, rest[c], buffer[c], wire[c], served[c])
    <2>1. input'[c] = input[c]
      BY <1>3 DEF Keeps
    <2> QED
      BY <1>2, <1>3, <2>1 DEF BytesInv
  <1>4. CASE Idles(c)
    <2>1. Keeps(c) /\ config[c] # None
      BY <1>4 DEF Idles, Keeps
    <2>2. /\ rest'[c] = rest[c] /\ wire'[c] = wire[c] /\ buffer'[c] = buffer[c]
          /\ served'[c] = served[c] /\ (InProgress(c)' <=> InProgress(c))
      BY <1>4 DEF Idles
    <2> QED
      BY <1>2, <1>3, <2>1, <2>2
  <1>5. CASE Begins(c)
    <2>1. served'[c] = <<>> /\ ~InProgress(c)'
      BY <1>1, <1>5 DEF Begins, Body
    <2>2. BytesRead(items, <<>>)
      BY DEF BytesRead
    <2> QED
      BY <1>2, <2>1, <2>2
  <1>6. ASSUME Attempts(c) PROVE Keeps(c) /\ config[c] # None
    BY <1>6 DEF Attempts
  <1>7. CASE Takes(c)
    <2>1. Attempts(c) /\ ~InProgress(c)
      BY <1>7 DEF Takes
    <2>2. /\ rest'[c] = Chunks(input[c]) /\ wire'[c] = wire[c] /\ buffer'[c] = buffer[c]
          /\ served'[c] = Append(served[c], Opened)
      BY <1>3, <1>6, <1>7, <2>1 DEF Takes, Opened
    <2>3. wire[c] = <<>> /\ buffer[c] = <<>>
      BY <1>1, <2>1 DEF Body
    <2>4. Chunks(input[c]) = items
      BY <1>2, <1>3, <1>6, <2>1 DEF Chunks
    <2>5. /\ BytesRead(items, Append(served[c], Opened))
          /\ Last(Append(served[c], Opened)).items = <<>>
      BY <1>1, <1>3, <1>6, <2>1, BytesTakes
    <2>6. BytesLeft(items, items, <<>>, <<>>, Append(served[c], Opened))
      BY <1>2, <2>5, BytesOpens
    <2> QED
      BY <1>2, <2>2, <2>3, <2>4, <2>5, <2>6
  <1>8. CASE Uploads(c)
    <2>1. Attempts(c) /\ InProgress(c)
      BY <1>8 DEF Uploads, Within
    <2>2. /\ rest[c] # <<>> /\ rest'[c] = Tail(rest[c]) /\ wire'[c] = wire[c] \o Head(rest[c])
          /\ buffer'[c] = buffer[c] /\ served'[c] = served[c]
      BY <1>8 DEF Uploads
    <2>3. ASSUME Last(served[c]).end = "open"
          PROVE  BytesLeft(items, Tail(rest[c]), buffer[c], wire[c] \o Head(rest[c]), served[c])
      BY <1>3, <1>6, <2>1, <2>2, <2>3, BytesUploads
    <2> QED
      BY <1>2, <1>3, <1>6, <2>1, <2>2, <2>3
  <1>9. CASE Arrives(c)
    <2>1. Attempts(c) /\ InProgress(c) /\ Last(served[c]).end = "open"
      BY <1>9 DEF Arrives, Within
    <2>2. PICK x \in Seq(Byte) : Receives(c, x)
      BY <1>9 DEF Arrives
    <2>3. PICK y \in Seq(Byte) : y = wire'[c] /\ wire[c] = x \o y
      BY <2>2 DEF Receives
    <2>4. rest'[c] = rest[c] /\ buffer'[c] = buffer[c] \o x /\ served'[c] = served[c]
      BY <1>3, <1>6, <2>1, <2>2 DEF Receives
    <2>5. BytesLeft(items, rest[c], buffer[c] \o x, y, served[c])
      BY <1>3, <1>6, <2>1, <2>3, BytesArrive
    <2> QED
      BY <1>2, <1>3, <1>6, <2>1, <2>3, <2>4, <2>5
  <1>10. CASE Reads(c)
    BY <1>3, <1>6, <1>10 DEF Reads, Within, Framing
  <1>11. CASE Finishes(c)
    <2>1. Attempts(c) /\ InProgress(c) /\ Last(served[c]).end = "open"
      BY <1>11 DEF Finishes, Within
    <2>2. /\ rest[c] = <<>> /\ wire[c] = <<>>
          /\ served'[c] = Goes(served[c], <<buffer[c]>>, "clean")
      BY <1>3, <1>6, <1>11, <2>1 DEF Finishes, Framing
    <2>3. served[c] # <<>>
      BY <1>1, <2>1 DEF Body
    <2>4. BytesLeft(items, rest[c], buffer[c], wire[c], served[c])
      BY <1>3, <1>6, <2>1
    <2>5. PICK b \in Seq(Byte) : b = buffer[c] /\ IsPrefix(b, items[1]) /\ b = items[1]
      BY <2>2, <2>4, BytesPrefix
    <2>6. PICK o \in Items : o = <<b>> /\ o = items /\ \A j \in DOMAIN o : IsPrefix(o[j], items[1])
      BY <1>2, <2>5, OneItem
    <2>7. PICK e \in Ends : e = "clean"
      BY DEF Ends
    <2>8. Last(served[c]).items = <<>> /\ BytesRead(items, served[c])
      BY <1>3, <1>6, <2>1, <2>4 DEF BytesLeft
    <2>9. BytesRead(items, Goes(served[c], o, e))
      BY <1>1, <2>3, <2>6, <2>7, <2>8, BytesGoes
    <2>10. Last(Goes(served[c], o, e)).end = e
      BY <1>1, <2>3, GoesType DEF Items
    <2> QED
      BY <1>2, <2>2, <2>5, <2>6, <2>7, <2>9, <2>10
  <1>12. CASE Drops(c)
    <2>1. Attempts(c) /\ InProgress(c) /\ ~InProgress(c)'
      BY <1>12 DEF Drops
    <2>2. served[c] # <<>> /\ BytesRead(items, served[c])
      BY <1>1, <1>3, <1>6, <2>1 DEF Body
    <2>3. CASE served'[c] = served[c]
      BY <1>2, <2>1, <2>2, <2>3
    <2>4. ASSUME Last(served[c]).end = "open"
          PROVE  /\ BytesLeft(items, rest[c], buffer[c], wire[c], served[c])
                 /\ Last(served[c]).items = <<>>
      BY <1>3, <1>6, <2>1, <2>4 DEF BytesLeft
    <2>5. ASSUME NEW x \in Items, NEW e \in {"lost", "left"}, Last(served[c]).end = "open",
                 \A j \in DOMAIN x : IsPrefix(x[j], items[1]),
                 served'[c] = Goes(served[c], x, e)
          PROVE  Goal
      <3>1. e \in Ends /\ e # "clean"
        BY DEF Ends
      <3>2. Last(served[c]).items = <<>>
        BY <2>4, <2>5
      <3>3. BytesRead(items, Goes(served[c], x, e))
        BY <1>1, <2>2, <2>5, <3>1, <3>2, BytesGoes
      <3> QED
        BY <1>2, <2>1, <2>5, <3>3
    <2>6. CASE /\ Last(served[c]).end = "open"
               /\ served'[c] = Goes(served[c], <<buffer[c]>>, "lost")
      <3>1. BytesLeft(items, rest[c], buffer[c], wire[c], served[c])
        BY <2>4, <2>6
      <3>2. PICK b \in Seq(Byte) : b = buffer[c] /\ IsPrefix(b, items[1])
        BY <3>1, BytesPrefix
      <3>3. PICK o \in Items : o = <<b>> /\ \A j \in DOMAIN o : IsPrefix(o[j], items[1])
        BY <1>2, <3>2, OneItem
      <3>4. served'[c] = Goes(served[c], o, "lost")
        BY <2>6, <3>2, <3>3
      <3>5. "lost" \in {"lost", "left"}
        OBVIOUS
      <3> HIDE DEF Goal
      <3> QED
        BY <2>5, <2>6, <3>3, <3>4, <3>5
    <2>7. CASE \E e \in {"lost", "left"} :
                   Last(served[c]).end = "open" /\ served'[c] = Goes(served[c], <<>>, e)
      <3>1. <<>> \in Items /\ DOMAIN <<>> = {}
        BY EmptySeq DEF Items
      <3> HIDE DEF Goal
      <3> QED
        BY <2>5, <2>7, <3>1
    <2> HIDE DEF Goal
    <2> QED
      BY <1>12, <2>3, <2>6, <2>7 DEF Drops
  <1> HIDE DEF Goal
  <1> QED
    BY <1>4, <1>5, <1>7, <1>8, <1>9, <1>10, <1>11, <1>12 DEF Moves

-----------------------------------------------------------------------------
(* Nothing is read twice *)

StreamInv == \A c \in Calls : FrameInv(c) /\ WholeInv(c) /\ BytesInv(c)

LEMMA StreamNext == CallsInv /\ BodiesInv /\ StreamInv /\ [Next]_vars => StreamInv'
  <1> SUFFICES ASSUME CallsInv, BodiesInv, StreamInv, [Next]_vars, NEW c \in Calls
               PROVE  FrameInv(c)' /\ WholeInv(c)' /\ BytesInv(c)'
    BY DEF StreamInv
  <1>1. CallsInv'
    BY CallsNext
  <1>2. BodiesType' /\ Moves(c)
    BY StepMoves
  <1>3. FrameInv(c) /\ WholeInv(c) /\ BytesInv(c)
    BY DEF StreamInv
  <1> QED
    BY <1>1, <1>2, <1>3, FrameMoves, WholeMoves, BytesMoves

LEMMA OrderTurns ==
  ASSUME NEW s \in Seq(Part), NEW items \in Items, NEW d, InOrder(s, items, d)
  PROVE  Turn(Seq(Byte), Readings(s), items)
  <1>1. PICK n \in Nat, z \in Nat : n = Len(s) /\ z = Len(items)
    BY LenProperties DEF Items
  <1>2. PICK from \in [1 .. n -> Nat] : Ordered(from, s, items, d) /\ d \in 0 .. z
    BY <1>1 DEF InOrder
  <1>3. PICK g \in Seq(Items) :
            g = Readings(s) /\ Len(g) = n /\ \A i \in 1 .. n : g[i] = s[i].items
    BY <1>1, ReadingsType
  <1>4. ASSUME NEW i \in 1 .. n
        PROVE  /\ from[i] \in Nat /\ from[i] + Len(g[i]) <= z
               /\ i + 1 \in 1 .. n => from[i] + Len(g[i]) <= from[i + 1]
               /\ g[i] = SubSeq(items, from[i] + 1, from[i] + Len(g[i]))
    <2>1. PICK l \in Nat, a \in Nat : l = Len(s[i].items) /\ a = from[i]
      <3>1. g[i] \in Items
        BY <1>3
      <3>2. Len(g[i]) \in Nat
        BY <3>1, LenProperties DEF Items
      <3> QED
        BY <1>2, <1>3, <3>2
    <2>2. /\ a + l <= d /\ (i + 1 \in 1 .. n => a + l <= from[i + 1])
          /\ s[i].items = SubSeq(items, a + 1, a + l)
      BY <1>1, <1>2, <2>1 DEF Ordered
    <2>3. a + l <= z
      BY <1>2, <2>2
    <2> QED
      BY <1>3, <2>1, <2>2, <2>3
  <1>5. Segments(from, g, items, z)
    BY <1>3, <1>4 DEF Segments
  <1>6. g \in Seq(Seq(Seq(Byte)))
    BY DEF Items
  <1> QED
    BY <1>1, <1>3, <1>5, <1>6 DEF Turn

LEMMA WholeTurns ==
  ASSUME NEW whole, NEW r, NEW b, NEW w, NEW s, Whole(whole, r, b, w, s)
  PROVE  Turn(Byte, AllRead(s), whole)
  <1>1. PICK done \in Seq(Byte) : Wholly(whole, r, b, w, s, done)
    BY DEF Whole, Wholly
  <1>2. PICK u \in Seq(Byte) : u = (b \o w) \o FlattenSeq(r)
    <2>1. r \in Items /\ b \in Seq(Byte) /\ w \in Seq(Byte)
      BY <1>1 DEF Wholly
    <2>2. PICK v \in Seq(Byte), k \in Seq(Byte) : v = FlattenSeq(r) /\ k = b \o w
      BY <2>1, FlattenType, ConcatProperties DEF Items
    <2> QED
      BY <2>2, ConcatProperties
  <1>3. Turn(Byte, AllRead(s), done \o u)
    BY <1>1, TurnGrows DEF Wholly
  <1> QED
    BY <1>1, <1>2, <1>3 DEF Wholly

LEMMA StreamParts == BodiesInv /\ StreamInv => NothingRepeated
  <1> SUFFICES ASSUME BodiesInv, StreamInv, NEW c \in Calls, served[c] # <<>>
               PROVE  LET items == input[c].items
                          read == [k \in DOMAIN served[c] |-> served[c][k].items]
                      IN CASE input[c].mode = "bytes" ->
                              \A k \in DOMAIN read :
                                  /\ \A j \in DOMAIN read[k] : IsPrefix(read[k][j], items[1])
                                  /\ served[c][k].end = "clean" => read[k] = items
                         [] input[c].mode = "framed" /\ AllFit(items) ->
                              InTurn(read, items)
                         [] OTHER ->
                              InTurn(FlattenSeq(read), FlattenSeq(Chunks(input[c])))
    BY DEF NothingRepeated, AllFit
  <1>1. FrameInv(c) /\ WholeInv(c) /\ BytesInv(c) /\ Body(c) /\ served[c] \in Seq(Part)
    BY DEF StreamInv, BodiesInv, BodiesType
  <1>2. config[c] # None
    BY <1>1 DEF Body
  <1>3. PICK read : read = Readings(served[c]) /\ read = [k \in DOMAIN served[c] |-> served[c][k].items]
    BY DEF Readings
  <1>4. PICK items : items = input[c].items
    OBVIOUS
  <1>5. CASE input[c].mode = "bytes"
    <2>1. BytesRead(items, served[c])
      BY <1>1, <1>2, <1>4, <1>5 DEF BytesInv
    <2>2. DOMAIN served[c] = 1 .. Len(served[c])
      BY <1>1, LenProperties
    <2>3. \A k \in DOMAIN read : k \in 1 .. Len(served[c]) /\ read[k] = served[c][k].items
      BY <1>3, <2>2
    <2>4. \A k \in DOMAIN read :
              /\ \A j \in DOMAIN read[k] : IsPrefix(read[k][j], items[1])
              /\ served[c][k].end = "clean" => read[k] = items
      BY <2>1, <2>3 DEF BytesRead
    <2> QED
      BY <1>3, <1>4, <1>5, <2>4
  <1>6. CASE input[c].mode = "framed" /\ AllFit(items)
    <2>1. Framewise(items, rest[c], buffer[c], wire[c], served[c])
      BY <1>1, <1>2, <1>4, <1>6 DEF FrameInv, Framing
    <2>2. items \in Items /\ \E d : InOrder(served[c], items, d)
      BY <2>1 DEF Framewise, Spread
    <2>3. Turn(Seq(Byte), read, items)
      BY <1>1, <1>3, <2>2, OrderTurns
    <2>4. InTurn(read, items)
      BY <2>3, TurnInTurn
    <2>5. input[c].mode # "bytes"
      BY <1>6
    <2> QED
      BY <1>3, <1>4, <1>6, <2>4, <2>5
  <1>7. CASE input[c].mode # "bytes" /\ ~(input[c].mode = "framed" /\ AllFit(items))
    <2>1. PICK whole : whole = FlattenSeq(Chunks(input[c]))
      OBVIOUS
    <2>2. Whole(whole, rest[c], buffer[c], wire[c], served[c])
      BY <1>1, <1>2, <1>7, <2>1 DEF WholeInv
    <2>3. Turn(Byte, FlattenSeq(read), whole)
      BY <1>3, <2>2, WholeTurns DEF AllRead
    <2>4. InTurn(FlattenSeq(read), whole)
      BY <2>3, TurnInTurn
    <2> QED
      BY <1>3, <1>4, <1>7, <2>1, <2>4
  <1> QED
    BY <1>5, <1>6, <1>7

\* The theorem on retries: whatever the items, the cuts of the network and the number of
\* attempts, a stream goes on where the last attempt stopped, and what is collected from a
\* body of bytes is its beginning, all of it at a clean end.
THEOREM ClientNothingRepeated == Spec => []NothingRepeated
  <1> DEFINE Inv == CallsInv /\ BodiesInv /\ StreamInv
  <1>1. Init => Inv
    <2>1. Init => StreamInv
      BY FrameInit, WholeInit, BytesInit DEF StreamInv
    <2> QED
      BY <2>1, CallsInit, BodiesInit
  <1>2. Inv /\ [Next]_vars => Inv'
    BY CallsNext, BodiesNext, StreamNext
  <1>3. Inv => NothingRepeated
    BY StreamParts
  <1> HIDE DEF Inv
  <1> QED
    BY <1>1, <1>2, <1>3, PTL DEF Spec
=============================================================================
