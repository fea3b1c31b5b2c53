---------------------------- MODULE PickingProofs ----------------------------
(***************************************************************************)
(* What Picked returns, for every sequence: the elements at the chosen      *)
(* positions, all of them, in order.  The induction is over least           *)
(* counterexamples, from the library's theorem that < is well founded.      *)
(***************************************************************************)
EXTENDS Picking, SequenceTheorems, WellFoundedInduction, TLAPS

LEMMA LeastOf ==
  ASSUME NEW S \in SUBSET Nat, S # {}
  PROVE  \E n \in S : \A m \in S : n <= m
<1> DEFINE R == {ss \in Nat \X Nat : ss[1] < ss[2]}
<1>1. R = OpToRel(<, Nat)
  BY DEF OpToRel
<1>2. IsWellFoundedOn(R, Nat)
  BY <1>1, NatLessThanWellFounded, Zenon
<1>3. PICK n \in S : \A m \in S : ~ (<<m, n>> \in R)
  <2> HIDE DEF R
  <2> QED BY <1>2, WFMin
<1>4. \A m \in S : m \in Nat /\ n \in Nat /\ ~ (m < n)
  <2> SUFFICES ASSUME NEW m \in S, m < n PROVE FALSE
    BY <1>3
  <2>1. <<m, n>> \in Nat \X Nat /\ <<m, n>>[1] = m /\ <<m, n>>[2] = n
    OBVIOUS
  <2> QED BY <1>3, <2>1
<1>5. \A m \in S : n <= m
  BY <1>4
<1> QED BY <1>5

\* What upto stands for, on the positions below N.
Upto(f, s, I, N) ==
  f = [n \in 0 .. N |-> IF n = 0 THEN << >>
                        ELSE IF n \in I THEN Append(f[n - 1], s[n]) ELSE f[n - 1]]

\* There is such a function: none of the positions is the first at which there is not.
LEMMA UptoExists ==
  ASSUME NEW s, NEW I, NEW L \in Nat
  PROVE  \E f : Upto(f, s, I, L)
<1> DEFINE Bad == {N \in Nat : ~ \E f : Upto(f, s, I, N)}
<1> SUFFICES ASSUME Bad # {} PROVE FALSE
  OBVIOUS
<1>1. PICK N \in Bad : \A M \in Bad : N <= M
  <2> HIDE DEF Bad
  <2>1. Bad \in SUBSET Nat
    BY DEF Bad
  <2> QED BY <2>1, LeastOf
<1>2. N \in Nat /\ \A f : ~ Upto(f, s, I, N)
  BY <1>1
<1>3. CASE N = 0
  <2> DEFINE f == [n \in 0 .. 0 |-> << >>]
  <2>1. Upto(f, s, I, 0)
    BY DEF Upto
  <2> QED BY <1>2, <1>3, <2>1
<1>4. CASE N # 0
  <2>1. N - 1 \in Nat /\ N - 1 \notin Bad
    BY <1>1, <1>2, <1>4
  <2>2. PICK f : Upto(f, s, I, N - 1)
    BY <2>1
  <2> DEFINE last == IF N \in I THEN Append(f[N - 1], s[N]) ELSE f[N - 1]
             g == [n \in 0 .. N |-> IF n = N THEN last ELSE f[n]]
  <2>3. ASSUME NEW n \in 0 .. N
        PROVE  g[n] = IF n = 0 THEN << >>
                      ELSE IF n \in I THEN Append(g[n - 1], s[n]) ELSE g[n - 1]
    <3>1. CASE n = N
      <4>1. g[n] = last /\ g[n - 1] = f[N - 1] /\ n # 0
        BY <1>2, <1>4, <3>1
      <4> QED BY <3>1, <4>1
    <3>2. CASE n # N
      <4>1. n \in 0 .. N - 1 /\ g[n] = f[n]
        BY <1>2, <3>2
      <4>2. f[n] = IF n = 0 THEN << >>
                   ELSE IF n \in I THEN Append(f[n - 1], s[n]) ELSE f[n - 1]
        BY <2>2, <4>1 DEF Upto
      <4>3. n # 0 => g[n - 1] = f[n - 1]
        BY <1>2, <4>1
      <4> HIDE DEF g
      <4> QED BY <4>1, <4>2, <4>3
    <3> QED BY <3>1, <3>2
  <2>4. g = [n \in 0 .. N |-> g[n]]
    OBVIOUS
  <2> HIDE DEF g
  <2>5. Upto(g, s, I, N)
    BY <2>3, <2>4 DEF Upto
  <2> QED BY <1>2, <2>5
<1> QED BY <1>3, <1>4

\* The elements of q are those of s at the positions p gives them, which are all the positions
\* in I up to n.
PicksAre(q, s, I, n, p) ==
  /\ p \in [1 .. Len(q) -> 1 .. n]
  /\ \A k \in 1 .. Len(q) : p[k] \in I /\ q[k] = s[p[k]]
  /\ \A j, k \in 1 .. Len(q) : j < k => p[j] < p[k]
  /\ \A i \in 1 .. n : i \in I => \E k \in 1 .. Len(q) : p[k] = i

LEMMA UptoPicks ==
  ASSUME NEW T, NEW s \in Seq(T), NEW I, NEW f, Upto(f, s, I, Len(s)), NEW L \in 0 .. Len(s)
  PROVE  f[L] \in Seq(T) /\ Len(f[L]) <= L /\ \E p : PicksAre(f[L], s, I, L, p)
<1> DEFINE Good(N) == f[N] \in Seq(T) /\ Len(f[N]) <= N /\ \E p : PicksAre(f[N], s, I, N, p)
           Bad == {N \in 0 .. Len(s) : ~ Good(N)}
<1> HIDE DEF Good
<1> SUFFICES ASSUME Bad # {} PROVE FALSE
  BY DEF Good
<1>0. Len(s) \in Nat
  OBVIOUS
<1>1. PICK N \in Bad : \A M \in Bad : N <= M
  <2> HIDE DEF Bad
  <2>1. Bad \in SUBSET Nat
    BY <1>0 DEF Bad
  <2> QED BY <2>1, LeastOf
<1>2. N \in 0 .. Len(s) /\ N \in Nat /\ ~ Good(N)
  BY <1>0, <1>1
<1>3. f[N] = IF N = 0 THEN << >>
             ELSE IF N \in I THEN Append(f[N - 1], s[N]) ELSE f[N - 1]
  BY <1>2 DEF Upto
<1>4. CASE N = 0
  <2>1. f[N] = << >> /\ f[N] \in Seq(T) /\ Len(f[N]) = 0
    BY <1>3, <1>4, EmptySeq
  <2>2. PicksAre(f[N], s, I, N, [k \in 1 .. 0 |-> 1])
    BY <1>4, <2>1 DEF PicksAre
  <2> QED BY <1>2, <1>4, <2>1, <2>2 DEF Good
<1>5. CASE N # 0
  <2>1. N - 1 \in 0 .. Len(s) /\ N - 1 \in Nat /\ Good(N - 1) /\ N \in 1 .. Len(s)
    BY <1>0, <1>1, <1>2, <1>5
  <2> DEFINE q == f[N - 1]
  <2>2. q \in Seq(T) /\ Len(q) \in Nat /\ Len(q) <= N - 1
    BY <2>1 DEF Good
  <2>3. PICK p : PicksAre(q, s, I, N - 1, p)
    BY <2>1 DEF Good
  <2> HIDE DEF q
  <2>4. CASE N \in I
    <3> DEFINE r == Append(q, s[N])
               g == [k \in 1 .. Len(q) + 1 |-> IF k = Len(q) + 1 THEN N ELSE p[k]]
    <3>1. /\ r \in Seq(T) /\ Len(r) = Len(q) + 1 /\ r[Len(q) + 1] = s[N]
          /\ \A k \in 1 .. Len(q) : r[k] = q[k]
      BY <2>1, <2>2, AppendProperties
    <3> HIDE DEF r
    <3>2. /\ g[Len(q) + 1] = N
          /\ \A k \in 1 .. Len(q) : g[k] = p[k] /\ p[k] \in 1 .. N - 1
      BY <2>2, <2>3 DEF PicksAre
    <3>3. \A k \in 1 .. Len(q) + 1 : k \in 1 .. Len(q) \/ k = Len(q) + 1
      BY <2>2
    <3>4. g \in [1 .. Len(r) -> 1 .. N]
      <4>1. ASSUME NEW k \in 1 .. Len(q) + 1
            PROVE  (IF k = Len(q) + 1 THEN N ELSE p[k]) \in 1 .. N
        <5>1. CASE k = Len(q) + 1
          BY <1>2, <1>5, <5>1
        <5>2. CASE k \in 1 .. Len(q)
          <6>1. p \in [1 .. Len(q) -> 1 .. N - 1]
            BY <2>3 DEF PicksAre
          <6>2. p[k] \in 1 .. N - 1
            BY <5>2, <6>1
          <6>3. k # Len(q) + 1
            BY <2>2, <5>2
          <6> QED BY <1>2, <6>2, <6>3
        <5> QED BY <3>3, <5>1, <5>2
      <4> QED BY <3>1, <4>1
    <3> HIDE DEF g
    <3>5. \A k \in 1 .. Len(r) : g[k] \in I /\ r[k] = s[g[k]]
      BY <2>3, <2>4, <3>1, <3>2, <3>3 DEF PicksAre
    <3>6. ASSUME NEW j \in 1 .. Len(r), NEW k \in 1 .. Len(r), j < k
          PROVE  g[j] < g[k]
      <4>1. j \in 1 .. Len(q)
        BY <2>2, <3>1, <3>6
      <4>2. CASE k = Len(q) + 1
        BY <1>2, <3>2, <4>1, <4>2
      <4>3. CASE k # Len(q) + 1
        BY <2>3, <3>1, <3>2, <3>3, <3>6, <4>1, <4>3 DEF PicksAre
      <4> QED BY <4>2, <4>3
    <3>7. ASSUME NEW i \in 1 .. N, i \in I
          PROVE  \E k \in 1 .. Len(r) : g[k] = i
      <4>1. CASE i = N
        <5>1. Len(q) + 1 \in 1 .. Len(r)
          BY <2>2, <3>1
        <5> QED BY <3>2, <4>1, <5>1
      <4>2. CASE i # N
        <5>1. i \in 1 .. N - 1
          BY <1>2, <4>2
        <5>2. PICK k \in 1 .. Len(q) : p[k] = i
          BY <2>3, <3>7, <5>1 DEF PicksAre
        <5>3. k \in 1 .. Len(r)
          BY <2>2, <3>1
        <5> QED BY <3>2, <5>2, <5>3
      <4> QED BY <4>1, <4>2
    <3>8. PicksAre(r, s, I, N, g)
      BY <3>4, <3>5, <3>6, <3>7 DEF PicksAre
    <3>9. f[N] = r /\ Len(r) <= N
      BY <1>2, <1>3, <1>5, <2>2, <2>4, <3>1 DEF r, q
    <3> QED BY <1>2, <3>1, <3>8, <3>9 DEF Good
  <2>5. CASE N \notin I
    <3>1. f[N] = q
      BY <1>3, <1>5, <2>5 DEF q
    <3>2. PicksAre(q, s, I, N, p)
      <4>1. p \in [1 .. Len(q) -> 1 .. N]
        BY <1>2, <2>3 DEF PicksAre
      <4>2. \A i \in 1 .. N : i \in I => i \in 1 .. N - 1
        BY <1>2, <2>5
      <4> QED BY <2>3, <4>1, <4>2 DEF PicksAre
    <3> QED BY <1>2, <2>2, <3>1, <3>2 DEF Good
  <2> QED BY <2>4, <2>5
<1> QED BY <1>4, <1>5

\* Picked returns the elements at the chosen positions, all of them, in order.
THEOREM PickedPicks ==
  ASSUME NEW T, NEW s \in Seq(T), NEW I
  PROVE  /\ Picked(s, I) \in Seq(T) /\ Len(Picked(s, I)) <= Len(s)
         /\ \E p : PicksAre(Picked(s, I), s, I, Len(s), p)
<1> DEFINE u == CHOOSE f : Upto(f, s, I, Len(s))
<1>1. Picked(s, I) = u[Len(s)]
  BY Zenon DEF Picked, Upto
<1>2. Len(s) \in Nat
  OBVIOUS
<1>3. \E f : Upto(f, s, I, Len(s))
  BY <1>2, UptoExists
<1>4. Upto(u, s, I, Len(s))
  BY <1>3, Zenon
<1> HIDE DEF u
<1>5. Len(s) \in 0 .. Len(s)
  BY <1>2
<1> QED BY <1>1, <1>4, <1>5, UptoPicks
=============================================================================
