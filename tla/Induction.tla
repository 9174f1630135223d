------------------------------ MODULE Induction ------------------------------
(***************************************************************************)
(* Induction and recursion over the naturals, stated with sets and         *)
(* functions in the place of operators, so that first-order provers can    *)
(* use them: an induction instantiates a set, a recursive definition a     *)
(* function.                                                               *)
(***************************************************************************)
EXTENDS Integers, Sequences, SequencesExt, WellFoundedInduction, TLAPS

\* The least of some natural numbers.
LEMMA Least ==
  ASSUME NEW T \in SUBSET Nat, T # {}
  PROVE  \E n \in T : \A m \in T : n <= m
<1> DEFINE R == OpToRel(<, Nat)
<1>1. IsWellFoundedOn(R, Nat)
  BY NatLessThanWellFounded, Zenon
<1> HIDE DEF R
<1>2. PICK n \in T : \A m \in T : <<m, n>> \notin R
  BY <1>1, WFMin, Zenon
<1>3. \A m \in T : ~(m < n)
  BY <1>2 DEF R, OpToRel
<1> QED BY <1>3

\* Induction: T is the set of the numbers for which the claim holds.
LEMMA Inductive ==
  ASSUME NEW T \in SUBSET Nat, 0 \in T, \A n \in T : n + 1 \in T
  PROVE  T = Nat
<1> SUFFICES ASSUME Nat \ T # {} PROVE FALSE
  OBVIOUS
<1>1. PICK n \in Nat \ T : \A m \in Nat \ T : n <= m
  BY Least
<1>2. n # 0 /\ n - 1 \in Nat
  BY <1>1
<1>3. n - 1 \in T
  BY <1>1, <1>2
<1> QED BY <1>1, <1>3

\* Induction that may use the claim for all smaller numbers.
LEMMA StronglyInductive ==
  ASSUME NEW T \in SUBSET Nat,
         \A n \in Nat : (\A m \in 0 .. (n - 1) : m \in T) => n \in T
  PROVE  T = Nat
<1> SUFFICES ASSUME Nat \ T # {} PROVE FALSE
  OBVIOUS
<1>1. PICK n \in Nat \ T : \A m \in Nat \ T : n <= m
  BY Least
<1> QED BY <1>1

\* The same for any set whose members have a rank: T is the set of those for
\* which the claim holds, and the first to consider is one of the least rank
\* outside.
LEMMA ByRank ==
  ASSUME NEW D, NEW r \in [D -> Nat], NEW T \in SUBSET D, T # D
  PROVE  \E j \in D : j \notin T /\ \A i \in D : r[i] < r[j] => i \in T
<1> DEFINE R == {n \in Nat : \E j \in D : j \notin T /\ r[j] = n}
<1>1. R \in SUBSET Nat /\ R # {}
  <2>1. PICK j \in D : j \notin T
    OBVIOUS
  <2>2. r[j] \in R
    BY <2>1
  <2> QED BY <2>2
<1> HIDE DEF R
<1>2. PICK n \in R : \A m \in R : n <= m
  BY <1>1, Least
<1>3. PICK j \in D : j \notin T /\ r[j] = n
  BY <1>2 DEF R
<1>4. ASSUME NEW i \in D, r[i] < r[j] PROVE i \in T
  <2>1. r[i] \in Nat /\ r[j] \in Nat
    OBVIOUS
  <2>2. r[i] \notin R
    BY <1>1, <1>2, <1>3, <1>4, <2>1
  <2> QED BY <2>1, <2>2 DEF R
<1> QED BY <1>3, <1>4

\* The value that the rule G gives position j depends only on the values at the
\* positions of a lower rank.
Descends(D, X, r, G) ==
  \A j \in D : \A g1, g2 \in [D -> X] :
    (\A i \in D : r[i] < r[j] => g1[i] = g2[i]) => G[j][g1] = G[j][g2]

Solves(g, D, G) == \A j \in D : g[j] = G[j][g]

\* A recursive definition the calls of which descend in rank has a solution.
LEMMA Solvable ==
  ASSUME NEW D, NEW X, X # {}, NEW r \in [D -> Nat],
         NEW G \in [D -> [[D -> X] -> X]], Descends(D, X, r, G)
  PROVE  \E g \in [D -> X] : Solves(g, D, G)
<1> DEFINE Upto(n, g) == \A j \in D : r[j] < n => g[j] = G[j][g]
           T == {n \in Nat : \E g \in [D -> X] : Upto(n, g)}
<1>1. 0 \in T
  <2>1. PICK x \in X : TRUE
    OBVIOUS
  <2>2. [j \in D |-> x] \in [D -> X] /\ Upto(0, [j \in D |-> x])
    BY <2>1
  <2> HIDE DEF Upto
  <2> QED BY <2>2
<1>2. ASSUME NEW n \in T PROVE n + 1 \in T
  <2>1. PICK g \in [D -> X] : Upto(n, g)
    BY <1>2
  <2> DEFINE h == [j \in D |-> IF r[j] = n THEN G[j][g] ELSE g[j]]
  <2>2. h \in [D -> X]
    OBVIOUS
  <2>3. \A j \in D : h[j] = IF r[j] = n THEN G[j][g] ELSE g[j]
    OBVIOUS
  <2> HIDE DEF h
  <2>4. ASSUME NEW j \in D, r[j] < n + 1 PROVE h[j] = G[j][h]
    <3>1. r[j] \in Nat /\ n \in Nat /\ \A i \in D : r[i] \in Nat
      OBVIOUS
    <3>2. \A i \in D : r[i] < r[j] => g[i] = h[i]
      BY <2>3, <2>4, <3>1
    <3>3. G[j][g] = G[j][h]
      BY <2>2, <3>2 DEF Descends
    <3>4. CASE r[j] = n
      BY <2>3, <3>3, <3>4
    <3>5. CASE r[j] < n
      BY <2>1, <2>3, <3>1, <3>3, <3>5
    <3>6. r[j] = n \/ r[j] < n
      <4>1. \A a, b \in Nat : a < b + 1 => a = b \/ a < b
        OBVIOUS
      <4> QED BY <2>4, <3>1, <4>1, Zenon
    <3> QED BY <3>4, <3>5, <3>6
  <2>5. Upto(n + 1, h)
    BY <2>4
  <2> HIDE DEF Upto
  <2> QED BY <2>2, <2>5
<1>3. T = Nat
  <2>1. T \in SUBSET Nat
    OBVIOUS
  <2> HIDE DEF T
  <2> QED BY <1>1, <1>2, <2>1, Inductive
<1> DEFINE c == [n \in Nat |-> CHOOSE g \in [D -> X] : Upto(n, g)]
           h == [j \in D |-> c[r[j] + 1][j]]
<1>4. \A n \in Nat : c[n] \in [D -> X] /\ Upto(n, c[n])
  <2> HIDE DEF Upto
  <2> QED BY <1>3
<1> HIDE DEF c, T
<1>5. \A j \in D, n \in Nat : r[j] < n => c[n][j] = G[j][c[n]]
  BY <1>4
<1> HIDE DEF Upto
<1>6. h \in [D -> X] /\ \A j \in D : h[j] = c[r[j] + 1][j]
  <2>1. \A j \in D : r[j] + 1 \in Nat /\ c[r[j] + 1][j] \in X
    BY <1>4
  <2> QED BY <2>1
<1> HIDE DEF h
<1> DEFINE S == {j \in D : h[j] = G[j][h] /\ \A n \in Nat : r[j] < n => c[n][j] = h[j]}
<1>7. ASSUME NEW j \in D, \A i \in D : r[i] < r[j] => i \in S
      PROVE  j \in S
  <2>1. ASSUME NEW n \in Nat, r[j] < n PROVE c[n][j] = G[j][h]
    <3>1. \A i \in D : r[i] < r[j] => c[n][i] = h[i]
      BY <1>7, <2>1
    <3>2. G[j][c[n]] = G[j][h]
      BY <1>4, <1>6, <3>1 DEF Descends
    <3> QED BY <1>5, <2>1, <3>2
  <2>2. r[j] + 1 \in Nat /\ r[j] < r[j] + 1
    OBVIOUS
  <2>3. h[j] = G[j][h]
    BY <1>6, <2>1, <2>2
  <2> QED BY <2>1, <2>3
<1>8. ASSUME S # D PROVE FALSE
  <2>1. S \in SUBSET D
    OBVIOUS
  <2> HIDE DEF S
  <2>2. r \in [D -> Nat]
    OBVIOUS
  <2>3. PICK j \in D : j \notin S /\ \A i \in D : r[i] < r[j] => i \in S
    BY ONLY <1>8, <2>1, <2>2, ByRank, ZenonT(20)
  <2> QED BY <1>7, <2>3
<1> QED BY <1>6, <1>8 DEF Solves

\* Two ranks, of which the first counts more.
LEMMA ByRanks ==
  ASSUME NEW D, NEW r \in [D -> Nat], NEW q \in [D -> Nat],
         NEW T \in SUBSET D, T # D
  PROVE  \E j \in D :
           /\ j \notin T
           /\ \A i \in D : r[i] < r[j] \/ (r[i] = r[j] /\ q[i] < q[j]) => i \in T
<1> DEFINE S == {j \in D : \A i \in D : r[i] = r[j] => i \in T}
<1>1. S \in SUBSET D /\ S # D
  OBVIOUS
<1>2. \A i \in S : i \in T
  OBVIOUS
<1>3. \A j \in D : j \notin S => \E i \in D : r[i] = r[j] /\ i \notin T
  OBVIOUS
<1> HIDE DEF S
<1>4. PICK j \in D : j \notin S /\ \A i \in D : r[i] < r[j] => i \in S
  BY <1>1, ByRank
<1> DEFINE E == {i \in D : r[i] = r[j]}
           p == [i \in E |-> q[i]]
           U == E \cap T
<1>5. p \in [E -> Nat] /\ U \in SUBSET E /\ U # E
  BY <1>3, <1>4
<1>6. /\ \A i \in E : i \in D /\ r[i] = r[j] /\ p[i] = q[i]
      /\ \A i \in D : r[i] = r[j] => i \in E
      /\ \A i \in E : i \in U <=> i \in T
  OBVIOUS
<1> HIDE DEF E, p, U
<1>7. PICK a \in E : a \notin U /\ \A i \in E : p[i] < p[a] => i \in U
  BY <1>5, ByRank
<1>8. a \in D /\ a \notin T
  BY <1>6, <1>7
<1>9. ASSUME NEW i \in D, r[i] < r[a] \/ (r[i] = r[a] /\ q[i] < q[a])
      PROVE  i \in T
  <2>1. CASE r[i] < r[a]
    BY <1>2, <1>4, <1>6, <1>7, <2>1
  <2>2. CASE r[i] = r[a] /\ q[i] < q[a]
    <3>1. i \in E /\ p[i] < p[a]
      BY <1>6, <1>7, <2>2
    <3> QED BY <1>6, <1>7, <3>1
  <2> QED BY <1>9, <2>1, <2>2
<1> QED BY <1>8, <1>9

DescendsInTwo(D, X, r, q, G) ==
  \A j \in D : \A g1, g2 \in [D -> X] :
    (\A i \in D : r[i] < r[j] \/ (r[i] = r[j] /\ q[i] < q[j]) => g1[i] = g2[i])
    => G[j][g1] = G[j][g2]

\* The same for two ranks.
LEMMA SolvableInTwo ==
  ASSUME NEW D, NEW X, X # {}, NEW r \in [D -> Nat], NEW q \in [D -> Nat],
         NEW N \in Nat, \A j \in D : r[j] < N,
         NEW G \in [D -> [[D -> X] -> X]], DescendsInTwo(D, X, r, q, G)
  PROVE  \E g \in [D -> X] : Solves(g, D, G)
<1> DEFINE Upto(n, g) == \A j \in D : r[j] < n => g[j] = G[j][g]
           T == {n \in Nat : \E g \in [D -> X] : Upto(n, g)}
<1>1. 0 \in T
  <2>1. PICK x \in X : TRUE
    OBVIOUS
  <2>2. [j \in D |-> x] \in [D -> X] /\ Upto(0, [j \in D |-> x])
    BY <2>1
  <2> HIDE DEF Upto
  <2> QED BY <2>2
<1>2. ASSUME NEW n \in T PROVE n + 1 \in T
  <2>1. PICK g \in [D -> X] : Upto(n, g)
    BY <1>2
  <2> DEFINE Mix(h) == [i \in D |-> IF r[i] = n THEN h[i] ELSE g[i]]
             G1 == [j \in D |-> [h \in [D -> X] |->
                      IF r[j] = n THEN G[j][Mix(h)] ELSE g[j]]]
  <2>2. \A h \in [D -> X] :
          /\ Mix(h) \in [D -> X]
          /\ \A i \in D : Mix(h)[i] = IF r[i] = n THEN h[i] ELSE g[i]
    OBVIOUS
  <2>3. \A j \in D, h \in [D -> X] :
          G1[j][h] = IF r[j] = n THEN G[j][Mix(h)] ELSE g[j]
    OBVIOUS
  <2>4. G1 \in [D -> [[D -> X] -> X]]
    <3>1. \A j \in D, h \in [D -> X] :
            (IF r[j] = n THEN G[j][Mix(h)] ELSE g[j]) \in X
      <4> HIDE DEF Mix
      <4> QED BY <2>2
    <3> HIDE DEF Mix
    <3> QED BY <3>1
  <2> HIDE DEF Mix, G1
  <2>5. ASSUME NEW j \in D, NEW h1 \in [D -> X], NEW h2 \in [D -> X],
               \A i \in D : q[i] < q[j] => h1[i] = h2[i]
        PROVE  G1[j][h1] = G1[j][h2]
    <3>1. CASE r[j] = n
      <4>1. \A i \in D : r[i] < r[j] \/ (r[i] = r[j] /\ q[i] < q[j])
                         => Mix(h1)[i] = Mix(h2)[i]
        BY <2>2, <2>5, <3>1
      <4>2. G[j][Mix(h1)] = G[j][Mix(h2)]
        BY <2>2, <4>1 DEF DescendsInTwo
      <4> QED BY <2>3, <3>1, <4>2
    <3>2. CASE r[j] # n
      BY <2>3, <3>2
    <3> QED BY <3>1, <3>2
  <2>6. Descends(D, X, q, G1)
    BY <2>5 DEF Descends
  <2>7. PICK h \in [D -> X] : Solves(h, D, G1)
    BY <2>4, <2>6, Solvable
  <2>8. \A j \in D : h[j] = IF r[j] = n THEN G[j][Mix(h)] ELSE g[j]
    BY <2>3, <2>7 DEF Solves
  <2>9. \A j \in D : r[j] # n => h[j] = g[j]
    BY <2>8
  <2>10. Mix(h) = h
    <3>1. \A j \in D : Mix(h)[j] = h[j]
      BY <2>2, <2>9
    <3> QED BY <2>2, <3>1
  <2>11. ASSUME NEW j \in D, r[j] < n + 1 PROVE h[j] = G[j][h]
    <3>1. CASE r[j] = n
      BY <2>8, <2>10, <3>1
    <3>2. CASE r[j] < n
      <4>1. \A i \in D : r[i] < r[j] \/ (r[i] = r[j] /\ q[i] < q[j]) => g[i] = h[i]
        BY <2>9, <3>2
      <4>2. G[j][g] = G[j][h]
        BY <4>1 DEF DescendsInTwo
      <4>3. g[j] = G[j][g] /\ r[j] # n
        BY <2>1, <3>2
      <4> QED BY <2>9, <4>2, <4>3
    <3>3. r[j] = n \/ r[j] < n
      <4>1. \A a, b \in Nat : a < b + 1 => a = b \/ a < b
        OBVIOUS
      <4>2. r[j] \in Nat /\ n \in Nat
        OBVIOUS
      <4> QED BY <2>11, <4>1, <4>2, Zenon
    <3> QED BY <3>1, <3>2, <3>3
  <2>12. Upto(n + 1, h)
    BY <2>11
  <2> HIDE DEF Upto
  <2> QED BY <2>12
<1>3. T = Nat
  <2>1. T \in SUBSET Nat
    OBVIOUS
  <2> HIDE DEF T
  <2> QED BY <1>1, <1>2, <2>1, Inductive
<1>4. PICK g \in [D -> X] : Upto(N, g)
  BY <1>3
<1> QED BY <1>4 DEF Solves

\* f[j] is what the first j sequences of q make together.
Concatenates(f, q) ==
  f[0] = <<>> /\ \A j \in 1 .. Len(q) : f[j] = f[j - 1] \o q[j]

\* FlattenSeq appends one sequence after the other.
LEMMA FlattenSteps ==
  ASSUME NEW S, NEW q \in Seq(Seq(S))
  PROVE  \E f \in [0 .. Len(q) -> Seq(S)] :
           Concatenates(f, q) /\ FlattenSeq(q) = f[Len(q)]
<1>0. Len(q) \in Nat /\ \A j \in 1 .. Len(q) : q[j] \in Seq(S)
  OBVIOUS
<1>1. PICK f \in [0 .. Len(q) -> Seq(S)] : Concatenates(f, q)
  <2> DEFINE D == 0 .. Len(q)
             X == Seq(S)
             G == [j \in D |-> [g \in [D -> X] |->
                     IF j = 0 THEN <<>> ELSE g[j - 1] \o q[j]]]
             r == [j \in D |-> j]
  <2>1. X # {}
    BY <1>0
  <2>2. r \in [D -> Nat]
    BY <1>0
  <2>3. \A j \in D, g \in [D -> X] :
          G[j][g] = IF j = 0 THEN <<>> ELSE g[j - 1] \o q[j]
    OBVIOUS
  <2>4. G \in [D -> [[D -> X] -> X]]
    <3>1. \A j \in D, g \in [D -> X] :
            (IF j = 0 THEN <<>> ELSE g[j - 1] \o q[j]) \in X
      <4>1. ASSUME NEW j \in D, NEW g \in [D -> X], j # 0
            PROVE  g[j - 1] \o q[j] \in X
        <5>1. j - 1 \in D /\ j \in 1 .. Len(q)
          BY <1>0, <4>1
        <5>2. g[j - 1] \in Seq(S)
          BY <5>1
        <5> QED BY <1>0, <5>1, <5>2
      <4> QED BY <4>1
    <3> QED BY <3>1
  <2>5. Descends(D, X, r, G)
    <3>1. ASSUME NEW j \in D, NEW g1 \in [D -> X], NEW g2 \in [D -> X],
                 \A i \in D : r[i] < r[j] => g1[i] = g2[i], j # 0
          PROVE  g1[j - 1] = g2[j - 1]
      <4>1. j - 1 \in D /\ r[j - 1] < r[j]
        BY <1>0, <3>1
      <4> QED BY <3>1, <4>1
    <3> HIDE DEF G, r, D, X
    <3>2. ASSUME NEW j \in D, NEW g1 \in [D -> X], NEW g2 \in [D -> X],
                 \A i \in D : r[i] < r[j] => g1[i] = g2[i]
          PROVE  G[j][g1] = G[j][g2]
      <4>1. CASE j = 0
        BY <2>3, <4>1
      <4>2. CASE j # 0
        BY <2>3, <3>1, <3>2, <4>2
      <4> QED BY <4>1, <4>2
    <3> QED BY <3>2 DEF Descends
  <2> HIDE DEF D, X, G, r
  <2>6. PICK f \in [D -> X] : Solves(f, D, G)
    BY <2>1, <2>2, <2>4, <2>5, Solvable
  <2>7. \A j \in D : f[j] = IF j = 0 THEN <<>> ELSE f[j - 1] \o q[j]
    BY <2>3, <2>6 DEF Solves
  <2>8. f \in [0 .. Len(q) -> Seq(S)]
    BY DEF D, X
  <2>9. 0 \in D /\ \A j \in 1 .. Len(q) : j \in D /\ j # 0
    BY <1>0 DEF D
  <2> QED BY <2>7, <2>8, <2>9 DEF Concatenates
<1>2. ASSUME NEW j \in 1 .. Len(q)
      PROVE  f[j] = f[j - 1] \o q[j]
  BY <1>1 DEF Concatenates
<1>4. FlattenSeq(q) = f[Len(q)]
  <2>1. CASE Len(q) = 0
    <3>1. FlattenSeq(q) = q /\ q = <<>>
      BY <2>1 DEF FlattenSeq
    <3> QED BY <1>0, <1>1, <2>1, <3>1 DEF Concatenates
  <2>2. CASE Len(q) # 0
    <3> DEFINE Body(c) == [i \in 1 .. Len(q) |->
                             IF i = 1 THEN q[i] ELSE c[i - 1] \o q[i]]
               c0 == CHOOSE c : c = Body(c)
               d == [i \in 1 .. Len(q) |-> f[i]]
    <3>1. FlattenSeq(q) = c0[Len(q)]
      BY <2>2 DEF FlattenSeq
    <3>2. f[1] = q[1]
      <4>1. f[1] = f[0] \o q[1] /\ f[0] = <<>> /\ q[1] \in Seq(S)
        <5>1. 1 \in 1 .. Len(q) /\ 1 - 1 = 0
          BY <1>0, <2>2
        <5>2. f[1] = f[1 - 1] \o q[1]
          BY <1>2, <5>1
        <5> QED BY <1>0, <1>1, <5>1, <5>2 DEF Concatenates
      <4> QED BY <4>1
    <3>3. d = Body(d)
      <4>1. ASSUME NEW i \in 1 .. Len(q), i # 1 PROVE d[i - 1] = f[i - 1]
        BY <1>0, <4>1
      <4>2. ASSUME NEW i \in 1 .. Len(q)
            PROVE  f[i] = IF i = 1 THEN q[i] ELSE d[i - 1] \o q[i]
        <5> HIDE DEF d
        <5>1. CASE i = 1
          BY <3>2, <5>1
        <5>2. CASE i # 1
          BY <1>2, <4>1, <5>2
        <5> QED BY <5>1, <5>2
      <4> QED BY <4>2
    <3>4. c0 = Body(c0)
      <4> HIDE DEF Body, d
      <4> QED BY <3>3
    <3> HIDE DEF c0, d
    <3>5. c0[1] = q[1]
      BY <1>0, <2>2, <3>4
    <3>6. ASSUME NEW i \in 2 .. Len(q) PROVE c0[i] = c0[i - 1] \o q[i]
      <4>1. i \in 1 .. Len(q) /\ i # 1
        BY <1>0
      <4>2. c0[i] = Body(c0)[i]
        BY <3>4
      <4> QED BY <4>1, <4>2
    <3> HIDE DEF Body
    <3> DEFINE T == {n \in Nat : n \in 1 .. Len(q) => c0[n] = f[n]}
    <3>7. ASSUME NEW n \in T PROVE n + 1 \in T
      <4>1. SUFFICES ASSUME n + 1 \in 1 .. Len(q) PROVE c0[n + 1] = f[n + 1]
        OBVIOUS
      <4>2. CASE n = 0
        BY <3>2, <3>5, <4>2
      <4>3. CASE n # 0
        <5>1. n + 1 \in 2 .. Len(q) /\ n \in 1 .. Len(q) /\ (n + 1) - 1 = n
          BY <1>0, <4>1, <4>3
        <5>2. c0[n] = f[n]
          BY <3>7, <5>1
        <5> QED BY <1>2, <3>6, <4>1, <5>1, <5>2
      <4> QED BY <4>2, <4>3
    <3>8. T = Nat
      <4>1. T \in SUBSET Nat /\ 0 \in T
        OBVIOUS
      <4> HIDE DEF T
      <4> QED BY <3>7, <4>1, Inductive
    <3>9. Len(q) \in T
      BY <1>0, <3>8
    <3> QED BY <1>0, <2>2, <3>1, <3>9
  <2> QED BY <2>1, <2>2
<1> QED BY <1>1, <1>4
=============================================================================
