------------------------------- MODULE Elements -------------------------------
(***************************************************************************)
(* Sequences: their elements, for proofs about messages in channels; what  *)
(* is defined on them by recursion; and how they are cut and joined.       *)
(***************************************************************************)
EXTENDS Naturals, Sequences, SequenceTheorems, WellFoundedInduction, TLAPS

Elems(q) == {q[i] : i \in 1 .. Len(q)}

LEMMA ElemsAppend ==
  ASSUME NEW S, NEW q \in Seq(S), NEW e \in S
  PROVE  Elems(Append(q, e)) = Elems(q) \cup {e}
  <1>1. Len(Append(q, e)) = Len(q) + 1 /\ Len(q) \in Nat
    BY AppendProperties, SMT
  <1>2. \A i \in 1 .. Len(q) : Append(q, e)[i] = q[i]
    BY AppendProperties
  <1>3. Append(q, e)[Len(q) + 1] = e
    BY AppendProperties
  <1>4. 1 .. Len(q) + 1 = 1 .. Len(q) \cup {Len(q) + 1}
    BY <1>1, SMT
  <1> QED
    BY <1>1, <1>2, <1>3, <1>4 DEF Elems

LEMMA ElemsHeadTail ==
  ASSUME NEW S, NEW q \in Seq(S), q # <<>>
  PROVE  Head(q) \in Elems(q) /\ Elems(Tail(q)) \subseteq Elems(q)
  <1>1. Len(q) \in Nat /\ Len(q) > 0 /\ Len(Tail(q)) = Len(q) - 1
    BY HeadTailProperties, EmptySeq, SMT
  <1>2. \A i \in 1 .. Len(Tail(q)) : Tail(q)[i] = q[i + 1] /\ i + 1 \in 1 .. Len(q)
    BY <1>1, HeadTailProperties, SMT
  <1>3. Head(q) = q[1] /\ 1 \in 1 .. Len(q)
    BY <1>1, SMT
  <1> QED
    BY <1>2, <1>3 DEF Elems

LEMMA ElemsEmpty == Elems(<<>>) = {}
  BY SMT DEF Elems

LEMMA ElemsType == ASSUME NEW S, NEW q \in Seq(S) PROVE Elems(q) \subseteq S
  BY ElementOfSeq DEF Elems

-----------------------------------------------------------------------------
(* Whether a sequence holds elements of a set, and at most one of them *)

Has(q, M) == \E i \in 1 .. Len(q) : q[i] \in M
AtMostOne(q, M) == \A i, j \in 1 .. Len(q) : q[i] \in M /\ q[j] \in M => i = j

LEMMA HasEmpty == ASSUME NEW M PROVE ~Has(<<>>, M) /\ AtMostOne(<<>>, M)
  BY SMT DEF Has, AtMostOne

LEMMA HasAppend ==
  ASSUME NEW S, NEW q \in Seq(S), NEW e \in S, NEW M
  PROVE  /\ Has(Append(q, e), M) <=> Has(q, M) \/ e \in M
         /\ AtMostOne(q, M) /\ (e \in M => ~Has(q, M)) => AtMostOne(Append(q, e), M)
  <1>1. PICK n \in Nat : n = Len(q)
    BY LenProperties
  <1>2. PICK r : r = Append(q, e)
    OBVIOUS
  <1>3. Len(r) = n + 1 /\ r[n + 1] = e /\ \A i \in 1 .. n : r[i] = q[i]
    BY <1>1, <1>2, AppendProperties
  <1>4. 1 .. n + 1 = (1 .. n) \cup {n + 1} /\ n + 1 \notin 1 .. n
    BY <1>1, SMT
  <1>5. Has(r, M) <=> Has(q, M) \/ e \in M
    BY <1>1, <1>3, <1>4 DEF Has
  <1>6. AtMostOne(q, M) /\ (e \in M => ~Has(q, M)) => AtMostOne(r, M)
    BY <1>1, <1>3, <1>4 DEF Has, AtMostOne
  <1> QED
    BY <1>2, <1>5, <1>6

LEMMA HasTail ==
  ASSUME NEW S, NEW q \in Seq(S), q # <<>>, NEW M
  PROVE  /\ Has(q, M) <=> Head(q) \in M \/ Has(Tail(q), M)
         /\ AtMostOne(q, M) => AtMostOne(Tail(q), M) /\ ~(Head(q) \in M /\ Has(Tail(q), M))
  <1>1. PICK n \in Nat : n + 1 = Len(q)
    BY LenProperties, EmptySeq, SMT
  <1>2. PICK r, h : r = Tail(q) /\ h = Head(q)
    OBVIOUS
  <1>3. Len(r) = n /\ h = q[1] /\ \A i \in 1 .. n : r[i] = q[i + 1]
    BY <1>1, <1>2, HeadTailProperties, SMT
  <1>4. /\ 1 \in 1 .. Len(q) /\ q[1] = h
        /\ \A i \in 1 .. Len(r) : i + 1 \in 1 .. Len(q) /\ i + 1 # 1 /\ q[i + 1] = r[i]
        /\ \A i, j \in 1 .. Len(r) : i + 1 = j + 1 => i = j
    BY <1>1, <1>3, SMT
  <1>5. \A i \in 1 .. Len(q) : i = 1 \/ \E j \in 1 .. Len(r) : q[i] = r[j]
    <2>1. \A i \in 1 .. n + 1 : i # 1 => i - 1 \in 1 .. n /\ i = (i - 1) + 1
      BY SMT
    <2> QED
      BY <1>1, <1>3, <1>4, <2>1
  <1>6. Has(q, M) <=> h \in M \/ Has(r, M)
    <2>1. ASSUME Has(q, M) PROVE h \in M \/ Has(r, M)
      <3>1. PICK i \in 1 .. Len(q) : q[i] \in M
        BY <2>1 DEF Has
      <3> QED
        BY <1>4, <1>5, <3>1 DEF Has
    <2>2. ASSUME h \in M \/ Has(r, M) PROVE Has(q, M)
      BY <1>4, <2>2, Zenon DEF Has
    <2> QED
      BY <2>1, <2>2
  <1>7. AtMostOne(q, M) => AtMostOne(r, M) /\ ~(h \in M /\ Has(r, M))
    BY <1>4, Zenon DEF AtMostOne, Has
  <1> QED
    BY <1>2, <1>6, <1>7

-----------------------------------------------------------------------------
(* Induction and recursion.  The induction theorems of the library take an *)
(* operator; these take a set or a function, which the provers can find.   *)

LEMMA LeastMember ==
  ASSUME NEW T, T \subseteq Nat, T # {}
  PROVE  \E n \in T : \A m \in T : ~(m < n)
  <1> DEFINE R == OpToRel(<, Nat)
  <1>1. IsWellFoundedOn(R, Nat)
    BY NatLessThanWellFounded, Zenon DEF OpToRel
  <1>2. \A x, y \in Nat : x < y => <<x, y>> \in R
    BY DEF OpToRel
  <1> HIDE DEF R
  <1>3. \E x \in T : \A y \in T : ~(<<y, x>> \in R)
    BY <1>1, WFMin
  <1> QED
    BY <1>2, <1>3

LEMMA GreatestMember ==
  ASSUME NEW n \in Nat, NEW P, P \subseteq 1 .. n, P # {}
  PROVE  \E i \in P : \A j \in P : j <= i
  <1> DEFINE T == {m \in Nat : \A j \in P : j <= m}
  <1>1. n \in T
    OBVIOUS
  <1>2. PICK m \in T : \A k \in T : ~(k < m)
    <2>1. T \subseteq Nat /\ T # {}
      BY <1>1
    <2> HIDE DEF T
    <2> QED
      BY <2>1, LeastMember
  <1>3. m \in P
    <2>1. SUFFICES ASSUME m \notin P PROVE FALSE
      OBVIOUS
    <2>2. ASSUME NEW j \in P PROVE j < m /\ j \in Nat /\ j > 0
      <3>1. j <= m /\ j # m /\ m \in Nat
        BY <1>2, <2>1
      <3>2. j \in 1 .. n
        OBVIOUS
      <3> HIDE DEF T
      <3> QED
        BY <3>1, <3>2
    <2>3. PICK j \in P : j < m /\ j \in Nat /\ j > 0
      BY <2>2
    <2>4. m \in Nat /\ m - 1 \in Nat
      BY <1>2, <2>3
    <2>5. \A k \in P : k <= m - 1
      BY <2>2, <2>4
    <2>6. m - 1 \in T
      BY <2>4, <2>5
    <2>7. m - 1 < m
      BY <2>4
    <2> HIDE DEF T
    <2> QED
      BY <1>2, <2>6, <2>7
  <1> QED
    BY <1>2, <1>3

LEMMA Induction ==
  ASSUME NEW S, 0 \in S, \A n \in Nat : n \in S => n + 1 \in S
  PROVE  Nat \subseteq S
  <1>1. SUFFICES ASSUME Nat \ S # {} PROVE FALSE
    OBVIOUS
  <1>2. PICK x \in Nat \ S : \A y \in Nat \ S : ~(y < x)
    BY <1>1, LeastMember
  <1>3. x - 1 \in Nat /\ x - 1 < x /\ (x - 1) + 1 = x
    BY <1>2
  <1> QED
    BY <1>2, <1>3

LEMMA BoundedInduction ==
  ASSUME NEW n \in Nat, NEW T, 0 \in T, \A i \in 1 .. n : i - 1 \in T => i \in T
  PROVE  0 .. n \subseteq T
  <1> DEFINE S == {m \in Nat : m <= n => m \in T}
  <1>1. 0 \in S
    OBVIOUS
  <1>2. ASSUME NEW m \in Nat, m \in S PROVE m + 1 \in S
    <2> SUFFICES ASSUME m + 1 <= n PROVE m + 1 \in T
      OBVIOUS
    <2>1. m \in T /\ m + 1 \in 1 .. n /\ (m + 1) - 1 = m
      BY <1>2
    <2> QED
      BY <2>1
  <1> HIDE DEF S
  <1>3. Nat \subseteq S
    BY <1>1, <1>2, Induction
  <1> QED
    BY <1>3 DEF S

\* A function that starts with a value and goes on with given steps, and that there is one.
Steps(n, S) == [1 .. n -> [S -> S]]
Follows(f, n, S, b, step) ==
    f \in [0 .. n -> S] /\ f[0] = b /\ \A i \in 1 .. n : f[i] = step[i][f[i - 1]]

LEMMA Recursion ==
  ASSUME NEW n \in Nat, NEW S, NEW b \in S, NEW step \in Steps(n, S)
  PROVE  \E f : Follows(f, n, S, b, step)
  <1> USE DEF Steps
  <1> DEFINE Upto(m) == \E f \in [0 .. m -> S] :
                 f[0] = b /\ \A i \in 1 .. m : f[i] = step[i][f[i - 1]]
             T == {m \in Nat : m <= n => Upto(m)}
  <1>1. 0 \in T
    <2> DEFINE f == [i \in 0 .. 0 |-> b]
    <2>1. f \in [0 .. 0 -> S] /\ f[0] = b /\ 1 .. 0 = {}
      OBVIOUS
    <2> HIDE DEF f
    <2>2. Upto(0)
      BY <2>1
    <2> QED
      BY <2>2
  <1>2. ASSUME NEW m \in Nat, m \in T PROVE m + 1 \in T
    <2> SUFFICES ASSUME m + 1 <= n PROVE Upto(m + 1)
      OBVIOUS
    <2>1. PICK f \in [0 .. m -> S] : f[0] = b /\ \A i \in 1 .. m : f[i] = step[i][f[i - 1]]
      BY <1>2
    <2>2. step[m + 1][f[m]] \in S
      BY <2>1
    <2> DEFINE g == [i \in 0 .. m + 1 |-> IF i = m + 1 THEN step[m + 1][f[m]] ELSE f[i]]
    <2>3. g \in [0 .. m + 1 -> S] /\ g[0] = b
      BY <2>1, <2>2
    <2>4. ASSUME NEW i \in 1 .. m + 1 PROVE g[i] = step[i][g[i - 1]]
      <3>1. i - 1 \in 0 .. m /\ g[i - 1] = f[i - 1]
        OBVIOUS
      <3>2. CASE i = m + 1
        BY <3>1, <3>2
      <3>3. CASE i # m + 1
        BY <2>1, <3>1, <3>3
      <3> QED
        BY <3>2, <3>3
    <2> HIDE DEF g
    <2> QED
      BY <2>3, <2>4
  <1> HIDE DEF T
  <1>3. n \in T
    BY <1>1, <1>2, Induction
  <1> QED
    BY <1>3 DEF T, Follows

-----------------------------------------------------------------------------
(* Cutting sequences *)

\* One sequence cut at a place, and cut in two ways.
CutAt(S, s, k) == s \in Seq(S) /\ k \in 0 .. Len(s)
Parts(s, k, p, q) ==
    /\ p = SubSeq(s, 1, k) /\ q = SubSeq(s, k + 1, Len(s))
    /\ Len(p) = k /\ Len(q) = Len(s) - k /\ s = p \o q
Cuts(S, p, q, f, t) ==
    p \in Seq(S) /\ q \in Seq(S) /\ f \in Seq(S) /\ t \in Seq(S) /\ p \o q = f \o t

LEMMA Split ==
  ASSUME NEW S, NEW s, NEW k, CutAt(S, s, k)
  PROVE  \E p \in Seq(S), q \in Seq(S) : Parts(s, k, p, q)
  <1> s \in Seq(S) /\ k \in 0 .. Len(s)
    BY DEF CutAt
  <1>1. PICK n \in Nat : n = Len(s) /\ \A i \in 1 .. n : s[i] \in S
    BY LenProperties
  <1>2. SubSeq(s, 1, k) \in Seq(S) /\ Len(SubSeq(s, 1, k)) = k
    BY <1>1, SubSeqProperties
  <1>3. SubSeq(s, k + 1, Len(s)) \in Seq(S) /\ Len(SubSeq(s, k + 1, Len(s))) = Len(s) - k
    BY <1>1, SubSeqProperties
  <1>4. s = SubSeq(s, 1, k) \o SubSeq(s, k + 1, Len(s))
    <2>1. 1 \in 1 .. n + 1 /\ k \in 0 .. n /\ n \in k .. n /\ k \in 1 - 1 .. n
      BY <1>1
    <2>2. SubSeq(s, 1, k) \o SubSeq(s, k + 1, n) = SubSeq(s, 1, n)
      BY <1>1, <2>1, ConcatAdjacentSubSeq
    <2>3. SubSeq(s, 1, n) = s
      BY <1>1, SubSeqFull
    <2> QED
      BY <1>1, <2>2, <2>3
  <1> QED
    BY <1>2, <1>3, <1>4 DEF Parts

LEMMA SameCut ==
  ASSUME NEW S, NEW p, NEW q, NEW f, NEW t, Cuts(S, p, q, f, t), Len(p) = Len(f)
  PROVE  p = f /\ q = t
  <1> p \in Seq(S) /\ q \in Seq(S) /\ f \in Seq(S) /\ t \in Seq(S)
    BY DEF Cuts
  <1>0. p \o q = f \o t
    BY DEF Cuts
  <1>1. p = f
    <2>1. PICK n \in Nat : n = Len(p) /\ n = Len(f)
      BY LenProperties
    <2>2. Len(q) \in Nat /\ Len(t) \in Nat
      BY LenProperties
    <2>3. ASSUME NEW i \in 1 .. n PROVE p[i] = f[i]
      <3>1. (p \o q)[i] = p[i]
        BY <2>1, <2>2, ConcatProperties
      <3>2. (f \o t)[i] = f[i]
        BY <2>1, <2>2, ConcatProperties
      <3> QED
        BY <1>0, <3>1, <3>2
    <2> QED
      BY <2>1, <2>3, SeqEqual
  <1>2. q = t
    <2>1. PICK n \in Nat, l \in Nat, m \in Nat : n = Len(p) /\ l = Len(q) /\ m = Len(t)
      BY LenProperties
    <2>2. Len(p \o q) = n + l /\ Len(p \o t) = n + m
      BY <2>1, ConcatProperties
    <2>3. l = m
      BY <1>0, <1>1, <2>2
    <2>4. ASSUME NEW i \in 1 .. l PROVE q[i] = t[i]
      <3>1. (p \o q)[n + i] = q[i]
        <4>1. n + i \in 1 .. Len(p \o q) /\ ~(n + i <= Len(p)) /\ (n + i) - Len(p) = i
          BY <2>1, <2>2
        <4> QED
          BY <4>1, ConcatProperties
      <3>2. (p \o t)[n + i] = t[i]
        BY <2>1, <2>3, ConcatProperties
      <3> QED
        BY <1>0, <1>1, <3>1, <3>2
    <2> QED
      BY <2>1, <2>3, <2>4, SeqEqual
  <1> QED
    BY <1>1, <1>2

\* If the beginning of a whole is known, a part that covers it starts with it.
BeginsWith(b, more, f, t, q) ==
    q = SubSeq(b, Len(f) + 1, Len(b)) /\ q \o more = t /\ b = f \o q

LEMMA CutFirst ==
  ASSUME NEW S, NEW b, NEW more, NEW f, NEW t, Cuts(S, b, more, f, t), Len(f) <= Len(b)
  PROVE  \E q \in Seq(S) : BeginsWith(b, more, f, t, q)
  <1> b \in Seq(S) /\ more \in Seq(S) /\ f \in Seq(S) /\ t \in Seq(S) /\ b \o more = f \o t
    BY DEF Cuts
  <1>1. PICK k : k = Len(f)
    OBVIOUS
  <1>2. CutAt(S, b, k)
    BY <1>1, LenProperties DEF CutAt
  <1>3. PICK p \in Seq(S), q \in Seq(S) : Parts(b, k, p, q)
    BY <1>2, Split
  <1>4. Cuts(S, p, q \o more, f, t)
    <2>1. b \o more = p \o (q \o more)
      <3>1. (p \o q) \o more = p \o (q \o more)
        OBVIOUS
      <3> QED
        BY <1>3, <3>1 DEF Parts
    <2> QED
      BY <2>1, ConcatProperties DEF Cuts
  <1>5. p = f /\ q \o more = t
    BY <1>1, <1>3, <1>4, SameCut DEF Parts
  <1> QED
    BY <1>1, <1>3, <1>5 DEF Parts, BeginsWith

\* A sequence without its head, which another one gets.
HeadAndTail(S, t, h, r) ==
    /\ h \in S /\ r \in Seq(S) /\ h = Head(t) /\ r = Tail(t) /\ t = <<h>> \o r
    /\ \A s \in Seq(S) : s \o t = Append(s, h) \o r /\ Append(s, h) \in Seq(S)

LEMMA TakeHead ==
  ASSUME NEW S, NEW t \in Seq(S), t # <<>>
  PROVE  \E h \in S, r \in Seq(S) : HeadAndTail(S, t, h, r)
  <1>1. PICK h \in S, r \in Seq(S) : h = Head(t) /\ r = Tail(t)
    BY HeadTailProperties
  <1>2. t = <<h>> \o r
    BY <1>1
  <1>3. ASSUME NEW s \in Seq(S) PROVE s \o t = Append(s, h) \o r /\ Append(s, h) \in Seq(S)
    <2>1. Append(s, h) = s \o <<h>> /\ Append(s, h) \in Seq(S)
      BY AppendProperties
    <2>2. PICK u \in Seq(S) : u = <<h>>
      <3>1. <<h>> \in Seq(S)
        OBVIOUS
      <3> QED
        BY <3>1
    <2>3. (s \o u) \o r = s \o (u \o r)
      BY ConcatAssociative
    <2> QED
      BY <1>2, <2>1, <2>2, <2>3
  <1> QED
    BY <1>1, <1>2, <1>3 DEF HeadAndTail

LEMMA SubSeqOne ==
  ASSUME NEW S, NEW s \in Seq(S), NEW c \in 1 .. Len(s)
  PROVE  SubSeq(s, c, c) = <<s[c]>>
  <1>1. s[c] \in S /\ Len(s) \in Nat
    BY ElementOfSeq, LenProperties
  <1>2. PICK x \in S : x = s[c]
    BY <1>1
  <1>3. PICK u \in Seq(S) : u = SubSeq(s, c, c) /\ Len(u) = 1 /\ u[1] = x
    <2>1. SubSeq(s, c, c) \in Seq(S) /\ Len(SubSeq(s, c, c)) = 1 /\ SubSeq(s, c, c)[1] = x
      BY <1>1, <1>2
    <2> QED
      BY <2>1
  <1>4. PICK v \in Seq(S) : v = <<x>> /\ Len(v) = 1 /\ v[1] = x
    <2>1. <<x>> \in Seq(S) /\ Len(<<x>>) = 1 /\ <<x>>[1] = x
      OBVIOUS
    <2> QED
      BY <2>1
  <1>5. Len(u) = Len(v) /\ \A i \in 1 .. Len(u) : u[i] = v[i]
    BY <1>3, <1>4
  <1>6. u = v
    BY <1>5, SeqEqual
  <1> QED
    BY <1>2, <1>3, <1>4, <1>6

\* Three sequences, so that one fact names them to the provers.
Three(S, a, b, c) == a \in Seq(S) /\ b \in Seq(S) /\ c \in Seq(S)
Regrouped(a, b, c) == (a \o b) \o c = a \o (b \o c)

LEMMA Regroup ==
  ASSUME NEW S, NEW a, NEW b, NEW c, Three(S, a, b, c)
  PROVE  Regrouped(a, b, c)
  <1>1. a \in Seq(S) /\ b \in Seq(S) /\ c \in Seq(S)
    BY DEF Three
  <1> QED
    BY <1>1, ConcatAssociative DEF Regrouped

\* The head of the second of three sequences goes to the first one.
HeadGone(S, done, pend, left, x, t) ==
    Append(done, x) \in Seq(S) /\ done \o (pend \o left) = Append(done, x) \o (t \o left)

LEMMA HeadGoes ==
  ASSUME NEW S, NEW done, NEW pend, NEW left, Three(S, done, pend, left),
         NEW x \in S, NEW t, HeadAndTail(S, pend, x, t)
  PROVE  HeadGone(S, done, pend, left, x, t)
  <1>1. PICK e \in Seq(S) : e = Append(done, x) /\ done \o pend = e \o t
    BY DEF HeadAndTail, Three
  <1>2. (done \o pend) \o left = done \o (pend \o left)
    BY Regroup DEF Regrouped
  <1>3. Three(S, e, t, left)
    BY DEF HeadAndTail, Three
  <1>4. (e \o t) \o left = e \o (t \o left)
    BY <1>3, Regroup DEF Regrouped
  <1> QED
    BY <1>1, <1>2, <1>4 DEF HeadGone

\* A part of a sequence stays where it is when the sequence goes on.
PartOf(S, s, t, a, e) ==
    s \in Seq(S) /\ t \in Seq(S) /\ a \in Nat /\ e \in Nat /\ a <= e /\ e <= Len(s)
Stays(s, t, a, e) == SubSeq(s \o t, a + 1, e) = SubSeq(s, a + 1, e)

LEMMA SubSeqInside ==
  ASSUME NEW S, NEW s, NEW t, NEW a, NEW e, PartOf(S, s, t, a, e)
  PROVE  Stays(s, t, a, e)
  <1> USE DEF Stays
  <1>1. s \in Seq(S) /\ t \in Seq(S) /\ a \in Nat /\ e \in Nat /\ a <= e /\ e <= Len(s)
    BY DEF PartOf
  <1>2. CASE a = e
    BY <1>1, <1>2, SubSeqEmpty
  <1>3. CASE a # e
    <2>1. Len(s) \in Nat
      BY <1>1, LenProperties
    <2>2. a + 1 \in 1 .. Len(s) /\ e \in 1 .. Len(s)
      BY <1>1, <1>3, <2>1
    <2> QED
      BY <1>1, <2>2, SubSeqOfConcat1
  <1> QED
    BY <1>2, <1>3

LEMMA SubSeqBehind ==
  ASSUME NEW S, NEW s \in Seq(S), NEW t \in Seq(S)
  PROVE  SubSeq(s \o t, Len(s) + 1, Len(s) + Len(t)) = t
  <1>1. PICK n \in Nat, l \in Nat : n = Len(s) /\ l = Len(t)
    BY LenProperties
  <1>2. CutAt(S, s \o t, n)
    BY <1>1, ConcatProperties DEF CutAt
  <1>3. PICK p \in Seq(S), q \in Seq(S) : Parts(s \o t, n, p, q)
    BY <1>2, Split
  <1>4. Cuts(S, s, t, p, q) /\ Len(s) = Len(p)
    BY <1>1, <1>3 DEF Cuts, Parts
  <1>5. t = q
    BY <1>4, SameCut
  <1>6. q = SubSeq(s \o t, n + 1, Len(s \o t))
    BY <1>3 DEF Parts
  <1>7. Len(s \o t) = n + l
    BY <1>1, ConcatProperties
  <1> QED
    BY <1>1, <1>5, <1>6, <1>7

=============================================================================
