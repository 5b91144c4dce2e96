---------------------------- MODULE SeqOpsProofs ----------------------------
(***************************************************************************)
(* Induction over the natural numbers, recursive functions, and what the   *)
(* operators of SeqOps give for every sequence.                            *)
(***************************************************************************)
EXTENDS SeqOps, TLAPS, WellFoundedInduction

----------------------------------------------------------------------------
(* Induction over the natural numbers, for sets                            *)

\* A set of natural numbers that is not empty has a least one.
LEMMA LeastNumber ==
    ASSUME NEW T \in SUBSET Nat, T # {}
    PROVE  \E n \in T : \A m \in T : n <= m
<1> DEFINE R == OpToRel(<, Nat)
<1>1. IsWellFoundedOn(R, Nat)
  BY NatLessThanWellFounded
<1>2. \A x, y \in Nat : <<y, x>> \in R <=> y < x
  BY DEF OpToRel
<1> HIDE DEF R
<1>3. PICK x \in T : \A y \in T : ~ (<<y, x>> \in R)
  BY <1>1, WFMin
<1>4. \A y \in T : ~ (y < x)
  BY <1>2, <1>3
<1>5. \A y \in T : x <= y
  BY <1>4
<1>6. QED
  BY <1>5

\* Induction: what holds of 0 and of the successor of each number holds of all.
LEMMA SetInduction ==
    ASSUME NEW T, 0 \in T, \A n \in Nat : n \in T => n + 1 \in T
    PROVE  Nat \subseteq T
<1> DEFINE Rest == Nat \ T
<1>1. SUFFICES ASSUME Rest # {} PROVE FALSE
  OBVIOUS
<1>2. PICK n \in Rest : \A m \in Rest : n <= m
  BY <1>1, LeastNumber
<1>3. n # 0 /\ n \in Nat
  BY <1>2
<1>4. n - 1 \in Nat /\ n - 1 \notin Rest
  BY <1>2, <1>3
<1>5. n \in T
  BY <1>3, <1>4
<1>6. QED
  BY <1>2, <1>5

\* g is defined by recursion over 0 .. N: F gives the next value.
Recursive(g, F, a, S, N) ==
    /\ g \in [0 .. N -> S]
    /\ g[0] = a
    /\ \A n \in 1 .. N : g[n] = F[<<n, g[n - 1]>>]

\* Such a function exists.
LEMMA RecursionExists ==
    ASSUME NEW S, NEW F, NEW a \in S,
           \A n \in Nat, s \in S : F[<<n, s>>] \in S,
           NEW N \in Nat
    PROVE  \E g : Recursive(g, F, a, S, N)
<1> DEFINE T == {k \in Nat : \E g : Recursive(g, F, a, S, k)}
<1>1. 0 \in T
  <2> DEFINE g == [n \in 0 .. 0 |-> a]
  <2>1. Recursive(g, F, a, S, 0)
    BY DEF Recursive
  <2> HIDE DEF g
  <2>2. QED BY <2>1
<1>2. ASSUME NEW k \in Nat, k \in T PROVE k + 1 \in T
  <2>0. PICK g : Recursive(g, F, a, S, k)
    BY <1>2
  <2>1. g \in [0 .. k -> S] /\ g[0] = a /\ \A n \in 1 .. k : g[n] = F[<<n, g[n - 1]>>]
    BY <2>0 DEF Recursive
  <2> DEFINE h == [n \in 0 .. k + 1 |-> IF n = k + 1 THEN F[<<k + 1, g[k]>>] ELSE g[n]]
  <2>2. F[<<k + 1, g[k]>>] \in S
    <3>1. k + 1 \in Nat /\ g[k] \in S
      BY <2>1
    <3> HIDE DEF T
    <3>2. QED BY <3>1
  <2>3. h \in [0 .. k + 1 -> S]
    BY <2>1, <2>2
  <2>4. h[0] = a
    BY <2>1
  <2>5. ASSUME NEW n \in 1 .. k + 1 PROVE h[n] = F[<<n, h[n - 1]>>]
    <3>1. CASE n = k + 1
      <4>1. h[k + 1] = F[<<k + 1, g[k]>>] /\ h[k] = g[k] /\ n - 1 = k
        BY <3>1
      <4>2. QED
        BY <3>1, <4>1
    <3>2. CASE n # k + 1
      <4>1. n \in 1 .. k /\ n \in 0 .. k + 1 /\ n - 1 \in 0 .. k + 1 /\ n - 1 # k + 1
        BY <3>2
      <4>2. h[n] = g[n] /\ h[n - 1] = g[n - 1]
        BY <3>2, <4>1
      <4>3. QED
        BY <2>1, <4>1, <4>2
    <3>3. QED BY <3>1, <3>2
  <2> HIDE DEF h
  <2>6. Recursive(h, F, a, S, k + 1)
    BY <2>3, <2>4, <2>5 DEF Recursive
  <2>7. QED
    BY <2>6
<1>3. Nat \subseteq T
  <2> HIDE DEF T
  <2>1. QED BY <1>1, <1>2, SetInduction
<1>4. QED
  BY <1>3

----------------------------------------------------------------------------
(* Picked                                                                  *)

\* p[n] is what is picked from the first n positions.
Picking(p, values, at, S) ==
    /\ p \in [0 .. Len(values) -> Seq(S)]
    /\ p[0] = <<>>
    /\ \A n \in 1 .. Len(values) :
          p[n] = IF n \in at THEN Append(p[n - 1], values[n]) ELSE p[n - 1]
    /\ Picked(values, at) = p[Len(values)]

\* The recursion that Picked is defined by has a solution.
LEMMA PickedDef ==
    ASSUME NEW S, NEW values \in Seq(S), NEW at
    PROVE  \E p : Picking(p, values, at, S)
<1> DEFINE N == Len(values)
           Body(p, n) == IF n = 0 THEN <<>>
                         ELSE IF n \in at THEN Append(p[n - 1], values[n]) ELSE p[n - 1]
           F == [x \in Nat \X Seq(S) |->
                    IF x[1] \in 1 .. N /\ x[1] \in at THEN Append(x[2], values[x[1]])
                    ELSE x[2]]
<1>1. N \in Nat /\ \A i \in 1 .. N : values[i] \in S
  OBVIOUS
<1>2. ASSUME NEW n \in Nat, NEW s \in Seq(S)
      PROVE  /\ F[<<n, s>>] = IF n \in 1 .. N /\ n \in at THEN Append(s, values[n]) ELSE s
             /\ F[<<n, s>>] \in Seq(S)
  <2> HIDE DEF N
  <2>1. F[<<n, s>>] = IF n \in 1 .. N /\ n \in at THEN Append(s, values[n]) ELSE s
    OBVIOUS
  <2>2. n \in 1 .. N => Append(s, values[n]) \in Seq(S)
    BY <1>1
  <2>3. QED BY <2>1, <2>2
<1>3. <<>> \in Seq(S)
  OBVIOUS
<1> HIDE DEF N, F
<1>4. PICK g : Recursive(g, F, <<>>, Seq(S), N)
  <2> DEFINE SS == Seq(S)
  <2>1. \A n \in Nat, s \in SS : F[<<n, s>>] \in SS
    BY <1>2
  <2>2. <<>> \in SS
    BY <1>3
  <2> HIDE DEF SS
  <2>3. \E g : Recursive(g, F, <<>>, SS, N)
    BY <1>1, <2>1, <2>2, RecursionExists
  <2>4. QED BY <2>3 DEF SS
<1>40. /\ g \in [0 .. N -> Seq(S)]
       /\ g[0] = <<>>
       /\ \A n \in 1 .. N : g[n] = F[<<n, g[n - 1]>>]
  BY <1>4 DEF Recursive
<1>5. ASSUME NEW n \in 1 .. N
      PROVE  g[n] = IF n \in at THEN Append(g[n - 1], values[n]) ELSE g[n - 1]
  <2>1. n \in Nat /\ n - 1 \in 0 .. N /\ g[n - 1] \in Seq(S)
    BY <1>1, <1>40
  <2>2. QED BY <1>2, <1>40, <2>1
<1>6. g = [n \in 0 .. N |-> Body(g, n)]
  <2>1. ASSUME NEW n \in 0 .. N PROVE g[n] = Body(g, n)
    <3>1. CASE n = 0
      BY <1>40, <3>1
    <3>2. CASE n # 0
      <4>1. n \in 1 .. N
        BY <1>1, <3>2
      <4>2. QED BY <1>5, <3>2, <4>1
    <3>3. QED BY <3>1, <3>2
  <2> HIDE DEF Body
  <2>2. QED BY <1>40, <2>1
<1> DEFINE p == CHOOSE q : q = [n \in 0 .. N |-> Body(q, n)]
<1>7. p = [n \in 0 .. N |-> Body(p, n)]
  <2> HIDE DEF Body
  <2>1. QED BY <1>6
<1>8. Picked(values, at) = p[N]
  BY DEF Picked, N
<1> HIDE DEF p
<1>9. p[0] = <<>> /\ \A n \in 1 .. N : p[n] = IF n \in at THEN Append(p[n - 1], values[n])
                                             ELSE p[n - 1]
  <2>1. \A n \in 0 .. N : p[n] = Body(p, n)
    <3> HIDE DEF Body
    <3>1. QED BY <1>7
  <2>2. QED BY <1>1, <2>1
<1>10. p = g
  <2> DEFINE T == {n \in Nat : n <= N => p[n] = g[n]}
  <2>1. 0 \in T
    BY <1>40, <1>9
  <2>2. ASSUME NEW n \in Nat, n \in T PROVE n + 1 \in T
    <3>1. SUFFICES ASSUME n + 1 <= N PROVE p[n + 1] = g[n + 1]
      OBVIOUS
    <3>2. n + 1 \in 1 .. N /\ p[n] = g[n] /\ (n + 1) - 1 = n
      BY <1>1, <2>2, <3>1
    <3>3. QED BY <1>5, <1>9, <3>2
  <2>3. Nat \subseteq T
    <3> HIDE DEF T
    <3>1. QED BY <2>1, <2>2, SetInduction
  <2>4. \A n \in 0 .. N : p[n] = g[n]
    BY <1>1, <2>3
  <2>5. DOMAIN p = 0 .. N
    <3> HIDE DEF Body
    <3>1. QED BY <1>7
  <2>6. p = [n \in 0 .. N |-> p[n]]
    <3> HIDE DEF Body
    <3>1. QED BY <1>7, <2>5
  <2>7. QED
    BY <1>40, <2>4, <2>6
<1>11. QED
  BY <1>40, <1>8, <1>9, <1>10 DEF N, Picking

\* What is picked is a sequence of elements at the positions, and has all of them.
LEMMA PickedType ==
    ASSUME NEW S, NEW values \in Seq(S), NEW at
    PROVE  /\ Picked(values, at) \in Seq(S)
           /\ \A k \in 1 .. Len(Picked(values, at)) :
                 \E i \in 1 .. Len(values) : i \in at /\ Picked(values, at)[k] = values[i]
           /\ \A i \in 1 .. Len(values) : i \in at =>
                 \E k \in 1 .. Len(Picked(values, at)) : Picked(values, at)[k] = values[i]
<1> DEFINE N == Len(values)
<1>0. PICK p : Picking(p, values, at, S)
  BY PickedDef
<1>1. /\ p \in [0 .. N -> Seq(S)]
      /\ p[0] = <<>>
      /\ \A n \in 1 .. N :
            p[n] = IF n \in at THEN Append(p[n - 1], values[n]) ELSE p[n - 1]
      /\ Picked(values, at) = p[N]
  BY <1>0 DEF Picking
<1> DEFINE From(n) == \A k \in 1 .. Len(p[n]) :
                         \E i \in 1 .. n : i \in at /\ p[n][k] = values[i]
           All(n) == \A i \in 1 .. n : i \in at =>
                         \E k \in 1 .. Len(p[n]) : p[n][k] = values[i]
           T == {n \in Nat : n <= N => From(n) /\ All(n)}
<1>2. N \in Nat
  OBVIOUS
<1> HIDE DEF N
<1>3. 0 \in T
  BY <1>1
<1>4. ASSUME NEW n \in Nat, n \in T PROVE n + 1 \in T
  <2>1. SUFFICES ASSUME n + 1 <= N PROVE From(n + 1) /\ All(n + 1)
    <3> HIDE DEF From, All
    <3>1. QED OBVIOUS
  <2>2. n \in 0 .. N /\ n + 1 \in 1 .. N /\ (n + 1) - 1 = n /\ From(n) /\ All(n)
    <3> HIDE DEF From, All
    <3>1. QED BY <1>2, <1>4, <2>1
  <2>3. p[n] \in Seq(S) /\ p[n + 1] \in Seq(S)
    BY <1>1, <1>2, <2>2
  <2>4. CASE n + 1 \in at
    <3>1. p[n + 1] = Append(p[n], values[n + 1])
      BY <1>1, <2>2, <2>4
    <3>2. /\ Len(p[n + 1]) = Len(p[n]) + 1
          /\ \A k \in 1 .. Len(p[n]) : p[n + 1][k] = p[n][k]
          /\ p[n + 1][Len(p[n]) + 1] = values[n + 1]
      BY <2>3, <3>1
    <3>3. Len(p[n]) \in Nat
      BY <2>3
    <3>4. From(n + 1)
      <4>1. SUFFICES ASSUME NEW k \in 1 .. Len(p[n + 1])
                     PROVE  \E i \in 1 .. n + 1 : i \in at /\ p[n + 1][k] = values[i]
        OBVIOUS
      <4>2. CASE k = Len(p[n]) + 1
        BY <2>4, <3>2, <4>2
      <4>3. CASE k # Len(p[n]) + 1
        <5>1. k \in 1 .. Len(p[n])
          BY <3>2, <3>3, <4>3
        <5>2. PICK i \in 1 .. n : i \in at /\ p[n][k] = values[i]
          BY <2>2, <5>1
        <5>3. i \in 1 .. n + 1
          OBVIOUS
        <5>4. QED BY <3>2, <5>1, <5>2, <5>3
      <4>4. QED BY <4>2, <4>3
    <3>5. All(n + 1)
      <4>1. SUFFICES ASSUME NEW i \in 1 .. n + 1, i \in at
                     PROVE  \E k \in 1 .. Len(p[n + 1]) : p[n + 1][k] = values[i]
        OBVIOUS
      <4>2. CASE i = n + 1
        BY <3>2, <3>3, <4>2
      <4>3. CASE i # n + 1
        <5>1. i \in 1 .. n
          BY <4>3
        <5>2. PICK k \in 1 .. Len(p[n]) : p[n][k] = values[i]
          BY <2>2, <4>1, <5>1
        <5>3. k \in 1 .. Len(p[n + 1])
          BY <3>2, <3>3
        <5>4. QED BY <3>2, <5>2, <5>3
      <4>4. QED BY <4>2, <4>3
    <3>6. QED BY <3>4, <3>5
  <2>5. CASE n + 1 \notin at
    <3>1. p[n + 1] = p[n]
      BY <1>1, <2>2, <2>5
    <3>2. \A i \in 1 .. n : i \in 1 .. n + 1
      OBVIOUS
    <3>3. From(n + 1)
      BY <2>2, <3>1, <3>2
    <3>4. \A i \in 1 .. n + 1 : i \in at => i \in 1 .. n
      BY <2>5
    <3>5. All(n + 1)
      BY <2>2, <3>1, <3>4
    <3>6. QED BY <3>3, <3>5
  <2>6. QED BY <2>4, <2>5
<1>5. Nat \subseteq T
  <2> HIDE DEF T
  <2>1. QED BY <1>3, <1>4, SetInduction
<1>6. From(N) /\ All(N) /\ p[N] \in Seq(S)
  <2> HIDE DEF From, All
  <2>1. QED BY <1>1, <1>2, <1>5
<1>7. QED
  BY <1>1, <1>6 DEF N

----------------------------------------------------------------------------
(* SumOf                                                                   *)

\* p[n] is the sum of the first n numbers.
Summing(p, numbers) ==
    /\ p \in [0 .. Len(numbers) -> Int]
    /\ p[0] = 0
    /\ \A n \in 1 .. Len(numbers) : p[n] = p[n - 1] + numbers[n]
    /\ SumOf(numbers) = p[Len(numbers)]

\* The recursion that SumOf is defined by has a solution.
LEMMA SumDef ==
    ASSUME NEW numbers \in Seq(Int)
    PROVE  \E p : Summing(p, numbers)
<1> DEFINE N == Len(numbers)
           Body(p, n) == IF n = 0 THEN 0 ELSE p[n - 1] + numbers[n]
           F == [x \in Nat \X Int |-> IF x[1] \in 1 .. N THEN x[2] + numbers[x[1]] ELSE x[2]]
<1>1. N \in Nat /\ \A i \in 1 .. N : numbers[i] \in Int
  OBVIOUS
<1>2. ASSUME NEW n \in Nat, NEW s \in Int
      PROVE  /\ F[<<n, s>>] = IF n \in 1 .. N THEN s + numbers[n] ELSE s
             /\ F[<<n, s>>] \in Int
  <2> HIDE DEF N
  <2>1. F[<<n, s>>] = IF n \in 1 .. N THEN s + numbers[n] ELSE s
    OBVIOUS
  <2>2. n \in 1 .. N => s + numbers[n] \in Int
    BY <1>1
  <2>3. QED BY <2>1, <2>2
<1> HIDE DEF N, F
<1>3. PICK g : Recursive(g, F, 0, Int, N)
  <2>1. \A n \in Nat, s \in Int : F[<<n, s>>] \in Int
    BY <1>2
  <2> DEFINE zero == 0
  <2>2. zero \in Int
    OBVIOUS
  <2> HIDE DEF zero
  <2>3. \E g : Recursive(g, F, zero, Int, N)
    BY <1>1, <2>1, <2>2, RecursionExists
  <2>4. QED BY <2>3 DEF zero
<1>4. /\ g \in [0 .. N -> Int]
      /\ g[0] = 0
      /\ \A n \in 1 .. N : g[n] = F[<<n, g[n - 1]>>]
  BY <1>3 DEF Recursive
<1>5. ASSUME NEW n \in 1 .. N PROVE g[n] = g[n - 1] + numbers[n]
  <2>1. n \in Nat /\ n - 1 \in 0 .. N
    BY <1>1
  <2>2. g[n - 1] \in Int
    BY <1>4, <2>1
  <2>3. QED BY <1>2, <1>4, <2>1, <2>2
<1>6. g = [n \in 0 .. N |-> Body(g, n)]
  <2>1. ASSUME NEW n \in 0 .. N PROVE g[n] = Body(g, n)
    <3>1. CASE n = 0
      BY <1>4, <3>1
    <3>2. CASE n # 0
      <4>1. n \in 1 .. N
        BY <1>1, <3>2
      <4>2. QED BY <1>5, <3>2, <4>1
    <3>3. QED BY <3>1, <3>2
  <2> HIDE DEF Body
  <2>2. QED BY <1>4, <2>1
<1> DEFINE p == CHOOSE q : q = [n \in 0 .. N |-> Body(q, n)]
<1>7. p = [n \in 0 .. N |-> Body(p, n)]
  <2> HIDE DEF Body
  <2>1. QED BY <1>6
<1>8. SumOf(numbers) = p[N]
  BY DEF SumOf, N
<1> HIDE DEF p
<1>9. p[0] = 0 /\ \A n \in 1 .. N : p[n] = p[n - 1] + numbers[n]
  <2>1. \A n \in 0 .. N : p[n] = Body(p, n)
    <3> HIDE DEF Body
    <3>1. QED BY <1>7
  <2>2. QED BY <1>1, <2>1
<1>10. p = g
  <2> DEFINE T == {n \in Nat : n <= N => p[n] = g[n]}
  <2>1. 0 \in T
    BY <1>4, <1>9
  <2>2. ASSUME NEW n \in Nat, n \in T PROVE n + 1 \in T
    <3>1. SUFFICES ASSUME n + 1 <= N PROVE p[n + 1] = g[n + 1]
      OBVIOUS
    <3>2. n + 1 \in 1 .. N /\ p[n] = g[n] /\ (n + 1) - 1 = n
      BY <1>1, <2>2, <3>1
    <3>3. QED BY <1>5, <1>9, <3>2
  <2>3. Nat \subseteq T
    <3> HIDE DEF T
    <3>1. QED BY <2>1, <2>2, SetInduction
  <2>4. \A n \in 0 .. N : p[n] = g[n]
    BY <1>1, <2>3
  <2>5. DOMAIN p = 0 .. N
    <3> HIDE DEF Body
    <3>1. QED BY <1>7
  <2>6. p = [n \in 0 .. N |-> p[n]]
    <3> HIDE DEF Body
    <3>1. QED BY <1>7, <2>5
  <2>7. QED
    BY <1>4, <2>4, <2>6
<1>11. QED
  BY <1>4, <1>8, <1>9, <1>10 DEF N, Summing

\* A sum is a number; nothing adds up to nothing; and the sum of no negative number is
\* none and not below any of them.
LEMMA SumType ==
    ASSUME NEW w \in Seq(Int)
    PROVE  /\ SumOf(w) \in Int
           /\ (\A i \in 1 .. Len(w) : w[i] = 0) => SumOf(w) = 0
           /\ (\A i \in 1 .. Len(w) : w[i] >= 0) =>
                 /\ SumOf(w) >= 0
                 /\ \A i \in 1 .. Len(w) : w[i] <= SumOf(w)
<1> DEFINE N == Len(w)
<1>1. PICK p : Summing(p, w)
  BY SumDef
<1>2. /\ p \in [0 .. N -> Int]
      /\ p[0] = 0
      /\ \A n \in 1 .. N : p[n] = p[n - 1] + w[n]
      /\ SumOf(w) = p[N]
  BY <1>1 DEF Summing
<1>3. N \in Nat /\ \A i \in 1 .. N : w[i] \in Int
  OBVIOUS
<1> HIDE DEF N
<1>4. SumOf(w) \in Int
  BY <1>2, <1>3
<1>5. ASSUME \A i \in 1 .. N : w[i] = 0 PROVE SumOf(w) = 0
  <2> DEFINE T == {n \in Nat : n <= N => p[n] = 0}
  <2>1. 0 \in T
    BY <1>2
  <2>2. ASSUME NEW n \in Nat, n \in T PROVE n + 1 \in T
    <3>1. SUFFICES ASSUME n + 1 <= N PROVE p[n + 1] = 0
      OBVIOUS
    <3>2. n + 1 \in 1 .. N /\ p[n] = 0 /\ (n + 1) - 1 = n
      BY <1>3, <2>2, <3>1
    <3>3. QED BY <1>2, <1>5, <3>2
  <2>3. Nat \subseteq T
    <3> HIDE DEF T
    <3>1. QED BY <2>1, <2>2, SetInduction
  <2>4. QED BY <1>2, <1>3, <2>3
<1>6. ASSUME \A i \in 1 .. N : w[i] >= 0
      PROVE  SumOf(w) >= 0 /\ \A i \in 1 .. N : w[i] <= SumOf(w)
  <2> DEFINE T == {n \in Nat : n <= N => p[n] >= 0 /\ \A i \in 1 .. n : w[i] <= p[n]}
  <2>1. 0 \in T
    BY <1>2
  <2>2. ASSUME NEW n \in Nat, n \in T PROVE n + 1 \in T
    <3>1. SUFFICES ASSUME n + 1 <= N
                   PROVE  p[n + 1] >= 0 /\ \A i \in 1 .. n + 1 : w[i] <= p[n + 1]
      OBVIOUS
    <3>2. n + 1 \in 1 .. N /\ n \in 0 .. N /\ (n + 1) - 1 = n
      BY <1>3, <3>1
    <3>3. p[n] >= 0 /\ \A i \in 1 .. n : w[i] <= p[n]
      BY <1>3, <2>2, <3>1
    <3>4. p[n + 1] = p[n] + w[n + 1] /\ p[n] \in Int /\ w[n + 1] \in Int /\ w[n + 1] >= 0
      BY <1>2, <1>3, <1>6, <3>2
    <3>5. ASSUME NEW i \in 1 .. n + 1 PROVE w[i] <= p[n + 1]
      <4>1. CASE i = n + 1
        BY <3>3, <3>4, <4>1
      <4>2. CASE i # n + 1
        <5>1. i \in 1 .. n /\ i \in 1 .. N
          BY <1>3, <3>1, <4>2
        <5>2. w[i] <= p[n] /\ w[i] \in Int
          BY <1>3, <3>3, <5>1
        <5>3. QED BY <3>4, <5>2
      <4>3. QED BY <4>1, <4>2
    <3>6. QED BY <3>3, <3>4, <3>5
  <2>3. Nat \subseteq T
    <3> HIDE DEF T
    <3>1. QED BY <2>1, <2>2, SetInduction
  <2>4. QED BY <1>2, <1>3, <2>3
<1>7. QED
  BY <1>4, <1>5, <1>6 DEF N

\* Sums are added number by number.
LEMMA SumAdds ==
    ASSUME NEW a \in Seq(Int), NEW b \in Seq(Int), NEW w \in Seq(Int),
           Len(a) = Len(w), Len(b) = Len(w), \A i \in 1 .. Len(w) : w[i] = a[i] + b[i]
    PROVE  SumOf(w) = SumOf(a) + SumOf(b)
<1> DEFINE N == Len(w)
<1>1. PICK p : Summing(p, w)
  BY SumDef
<1>2. PICK q : Summing(q, a)
  BY SumDef
<1>3. PICK r : Summing(r, b)
  BY SumDef
<1>4. N \in Nat /\ \A i \in 1 .. N : w[i] \in Int /\ a[i] \in Int /\ b[i] \in Int
  OBVIOUS
<1>5. /\ p \in [0 .. N -> Int] /\ q \in [0 .. N -> Int] /\ r \in [0 .. N -> Int]
      /\ p[0] = 0 /\ q[0] = 0 /\ r[0] = 0
      /\ \A n \in 1 .. N : /\ p[n] = p[n - 1] + w[n]
                           /\ q[n] = q[n - 1] + a[n]
                           /\ r[n] = r[n - 1] + b[n]
      /\ SumOf(w) = p[N] /\ SumOf(a) = q[N] /\ SumOf(b) = r[N]
  BY <1>1, <1>2, <1>3 DEF Summing
<1>6. \A i \in 1 .. N : w[i] = a[i] + b[i]
  OBVIOUS
<1> HIDE DEF N
<1> DEFINE T == {n \in Nat : n <= N => p[n] = q[n] + r[n]}
<1>7. 0 \in T
  BY <1>5
<1>8. ASSUME NEW n \in Nat, n \in T PROVE n + 1 \in T
  <2>1. SUFFICES ASSUME n + 1 <= N PROVE p[n + 1] = q[n + 1] + r[n + 1]
    OBVIOUS
  <2>2. n + 1 \in 1 .. N /\ n \in 0 .. N /\ p[n] = q[n] + r[n] /\ (n + 1) - 1 = n
    BY <1>4, <1>8, <2>1
  <2>3. p[n + 1] = p[n] + w[n + 1] /\ q[n + 1] = q[n] + a[n + 1] /\ r[n + 1] = r[n] + b[n + 1]
    BY <1>5, <2>2
  <2>4. /\ p[n] \in Int /\ q[n] \in Int /\ r[n] \in Int
        /\ a[n + 1] \in Int /\ b[n + 1] \in Int /\ w[n + 1] = a[n + 1] + b[n + 1]
    <3>1. p[n] \in Int /\ q[n] \in Int /\ r[n] \in Int
      BY <1>5, <2>2
    <3>2. a[n + 1] \in Int /\ b[n + 1] \in Int
      BY <1>4, <2>2
    <3>3. w[n + 1] = a[n + 1] + b[n + 1]
      BY <1>6, <2>2
    <3>4. QED BY <3>1, <3>2, <3>3
  <2>5. p[n + 1] = (q[n] + r[n]) + (a[n + 1] + b[n + 1])
    BY <2>2, <2>3, <2>4
  <2>6. \A x, y, u, v \in Int : (x + y) + (u + v) = (x + u) + (y + v)
    OBVIOUS
  <2>7. (q[n] + r[n]) + (a[n + 1] + b[n + 1]) = (q[n] + a[n + 1]) + (r[n] + b[n + 1])
    BY <2>4, <2>6
  <2>8. QED BY <2>3, <2>5, <2>7
<1>9. Nat \subseteq T
  <2> HIDE DEF T
  <2>1. QED BY <1>7, <1>8, SetInduction
<1>10. QED
  BY <1>4, <1>5, <1>9

\* One more number.
LEMMA SumAppend ==
    ASSUME NEW w \in Seq(Int), NEW x \in Int
    PROVE  SumOf(Append(w, x)) = SumOf(w) + x
<1> DEFINE N == Len(w)
           v == Append(w, x)
<1>1. v \in Seq(Int) /\ Len(v) = N + 1 /\ v[N + 1] = x /\ \A i \in 1 .. N : v[i] = w[i]
  OBVIOUS
<1>2. N \in Nat /\ \A i \in 1 .. N : w[i] \in Int
  OBVIOUS
<1> HIDE DEF v
<1>3. PICK p : Summing(p, w)
  BY SumDef
<1>4. PICK q : Summing(q, v)
  BY <1>1, SumDef
<1>5. /\ p \in [0 .. N -> Int] /\ p[0] = 0
      /\ \A n \in 1 .. N : p[n] = p[n - 1] + w[n]
      /\ SumOf(w) = p[N]
  BY <1>3 DEF Summing
<1>6. /\ q \in [0 .. N + 1 -> Int] /\ q[0] = 0
      /\ \A n \in 1 .. N + 1 : q[n] = q[n - 1] + v[n]
      /\ SumOf(v) = q[N + 1]
  BY <1>1, <1>4 DEF Summing
<1> HIDE DEF N
<1> DEFINE T == {n \in Nat : n <= N => p[n] = q[n]}
<1>7. 0 \in T
  BY <1>5, <1>6
<1>8. ASSUME NEW n \in Nat, n \in T PROVE n + 1 \in T
  <2>1. SUFFICES ASSUME n + 1 <= N PROVE p[n + 1] = q[n + 1]
    OBVIOUS
  <2>2. n + 1 \in 1 .. N /\ n + 1 \in 1 .. N + 1 /\ p[n] = q[n] /\ (n + 1) - 1 = n
    BY <1>2, <1>8, <2>1
  <2>3. p[n + 1] = p[n] + w[n + 1] /\ q[n + 1] = q[n] + v[n + 1] /\ v[n + 1] = w[n + 1]
    BY <1>1, <1>5, <1>6, <2>2
  <2>4. QED BY <2>2, <2>3
<1>9. Nat \subseteq T
  <2> HIDE DEF T
  <2>1. QED BY <1>7, <1>8, SetInduction
<1>10. p[N] = q[N] /\ N + 1 \in 1 .. N + 1 /\ (N + 1) - 1 = N
  BY <1>2, <1>9
<1>11. q[N + 1] = q[N] + v[N + 1]
  BY <1>6, <1>10
<1>12. QED
  BY <1>1, <1>5, <1>6, <1>10, <1>11 DEF v

\* The first number and the others.
LEMMA SumTail ==
    ASSUME NEW w \in Seq(Int), w # <<>>
    PROVE  SumOf(w) = w[1] + SumOf(Tail(w))
<1> DEFINE N == Len(w)
           v == Tail(w)
<1>1. v \in Seq(Int) /\ Len(v) = N - 1 /\ \A i \in 1 .. N - 1 : v[i] = w[i + 1]
  OBVIOUS
<1>2. N \in Nat /\ N >= 1 /\ \A i \in 1 .. N : w[i] \in Int
  OBVIOUS
<1> HIDE DEF v
<1>3. PICK p : Summing(p, w)
  BY SumDef
<1>4. PICK q : Summing(q, v)
  BY <1>1, SumDef
<1>5. /\ p \in [0 .. N -> Int] /\ p[0] = 0
      /\ \A n \in 1 .. N : p[n] = p[n - 1] + w[n]
      /\ SumOf(w) = p[N]
  BY <1>3 DEF Summing
<1>6. /\ q \in [0 .. N - 1 -> Int] /\ q[0] = 0
      /\ \A n \in 1 .. N - 1 : q[n] = q[n - 1] + v[n]
      /\ SumOf(v) = q[N - 1]
  BY <1>1, <1>4 DEF Summing
<1> HIDE DEF N
<1> DEFINE T == {n \in Nat : n <= N - 1 => p[n + 1] = w[1] + q[n]}
<1>7. 0 \in T
  <2>1. 1 \in 1 .. N /\ 1 - 1 = 0
    BY <1>2
  <2>2. p[1] = p[0] + w[1] /\ w[1] \in Int
    BY <1>2, <1>5, <2>1
  <2>3. p[0 + 1] = w[1] + q[0]
    BY <1>5, <1>6, <2>2
  <2>4. QED BY <2>3
<1>8. ASSUME NEW n \in Nat, n \in T PROVE n + 1 \in T
  <2>1. SUFFICES ASSUME n + 1 <= N - 1 PROVE p[(n + 1) + 1] = w[1] + q[n + 1]
    OBVIOUS
  <2>2. /\ n + 1 \in 1 .. N - 1 /\ (n + 1) + 1 \in 1 .. N /\ n \in 0 .. N - 1
        /\ (n + 1) - 1 = n /\ ((n + 1) + 1) - 1 = n + 1 /\ 1 \in 1 .. N
    BY <1>2, <2>1
  <2>3. p[n + 1] = w[1] + q[n]
    BY <1>2, <1>8, <2>1
  <2>4. /\ p[(n + 1) + 1] = p[n + 1] + w[(n + 1) + 1]
        /\ q[n + 1] = q[n] + v[n + 1]
        /\ v[n + 1] = w[(n + 1) + 1]
    BY <1>1, <1>5, <1>6, <2>2
  <2>5. w[1] \in Int /\ q[n] \in Int /\ w[(n + 1) + 1] \in Int
    BY <1>2, <1>6, <2>2
  <2>6. QED BY <2>3, <2>4, <2>5
<1>9. Nat \subseteq T
  <2> HIDE DEF T
  <2>1. QED BY <1>7, <1>8, SetInduction
<1>10. p[N] = w[1] + q[N - 1]
  <2>1. N - 1 \in Nat /\ (N - 1) + 1 = N
    BY <1>2
  <2>2. N - 1 \in T
    BY <1>9, <2>1
  <2>3. p[(N - 1) + 1] = w[1] + q[N - 1]
    BY <2>1, <2>2
  <2>4. QED BY <2>1, <2>3
<1>11. QED
  BY <1>5, <1>6, <1>10 DEF v

\* One number that is not 0.
LEMMA SumSingle ==
    ASSUME NEW w \in Seq(Int), NEW k \in 1 .. Len(w),
           \A i \in 1 .. Len(w) : i # k => w[i] = 0
    PROVE  SumOf(w) = w[k]
<1> DEFINE N == Len(w)
<1>1. PICK p : Summing(p, w)
  BY SumDef
<1>2. /\ p \in [0 .. N -> Int]
      /\ p[0] = 0
      /\ \A n \in 1 .. N : p[n] = p[n - 1] + w[n]
      /\ SumOf(w) = p[N]
  BY <1>1 DEF Summing
<1>3. N \in Nat /\ \A i \in 1 .. N : w[i] \in Int /\ (i # k => w[i] = 0)
  OBVIOUS
<1>4. k \in Nat /\ k >= 1 /\ k <= N /\ w[k] \in Int
  OBVIOUS
<1> HIDE DEF N
<1> DEFINE T == {n \in Nat : n <= N => p[n] = IF n < k THEN 0 ELSE w[k]}
<1>5. 0 \in T
  BY <1>2, <1>4
<1>6. ASSUME NEW n \in Nat, n \in T PROVE n + 1 \in T
  <2>1. SUFFICES ASSUME n + 1 <= N PROVE p[n + 1] = IF n + 1 < k THEN 0 ELSE w[k]
    OBVIOUS
  <2>2. n + 1 \in 1 .. N /\ (n + 1) - 1 = n
    BY <1>3, <2>1
  <2>3. p[n] = IF n < k THEN 0 ELSE w[k]
    BY <1>3, <1>6, <2>1
  <2>4. p[n + 1] = p[n] + w[n + 1]
    BY <1>2, <2>2
  <2>5. n + 1 # k => w[n + 1] = 0
    BY <1>3, <2>2
  <2>6. CASE n + 1 = k
    BY <1>4, <2>3, <2>4, <2>6
  <2>7. CASE n + 1 # k
    <3>1. p[n + 1] = p[n] + 0
      BY <2>4, <2>5, <2>7
    <3>2. (n + 1 < k) <=> (n < k)
      BY <1>4, <2>7
    <3>3. p[n] \in Int
      BY <1>4, <2>3
    <3>4. QED BY <2>3, <3>1, <3>2, <3>3
  <2>8. QED BY <2>6, <2>7
<1>7. Nat \subseteq T
  <2> HIDE DEF T
  <2>1. QED BY <1>5, <1>6, SetInduction
<1>8. p[N] = w[k]
  BY <1>3, <1>4, <1>7
<1>9. QED BY <1>2, <1>8

----------------------------------------------------------------------------
(* The weight of a sequence of things                                      *)

\* f gives each of them a number.
Mapped(values, f) == [i \in DOMAIN values |-> f[values[i]]]
Weigh(values, f) == SumOf(Mapped(values, f))

\* It is a number; 0 if each weighs nothing; and, where none weighs less than nothing, no
\* less than what any of them weighs.
LEMMA WeighType ==
    ASSUME NEW S, NEW f \in [S -> Int], NEW values \in Seq(S)
    PROVE  /\ Mapped(values, f) \in Seq(Int)
           /\ Len(Mapped(values, f)) = Len(values)
           /\ Weigh(values, f) \in Int
           /\ (\A i \in 1 .. Len(values) : f[values[i]] = 0) => Weigh(values, f) = 0
           /\ (\A i \in 1 .. Len(values) : f[values[i]] >= 0) =>
                 /\ Weigh(values, f) >= 0
                 /\ \A i \in 1 .. Len(values) : f[values[i]] <= Weigh(values, f)
<1> DEFINE w == Mapped(values, f)
<1>1. w \in Seq(Int) /\ Len(w) = Len(values) /\ \A i \in 1 .. Len(values) : w[i] = f[values[i]]
  BY DEF Mapped
<1> HIDE DEF w
<1>2. Weigh(values, f) = SumOf(w)
  BY DEF Weigh, w
<1>3. /\ SumOf(w) \in Int
      /\ (\A i \in 1 .. Len(w) : w[i] = 0) => SumOf(w) = 0
      /\ (\A i \in 1 .. Len(w) : w[i] >= 0) =>
            /\ SumOf(w) >= 0
            /\ \A i \in 1 .. Len(w) : w[i] <= SumOf(w)
  BY <1>1, SumType
<1>4. QED BY <1>1, <1>2, <1>3 DEF w

\* Nothing weighs nothing.
LEMMA WeighNothing ==
    ASSUME NEW S, NEW f \in [S -> Int]
    PROVE  Weigh(<<>>, f) = 0
<1> DEFINE nothing == <<>>
<1>1. nothing \in Seq(S) /\ \A i \in 1 .. Len(nothing) : f[nothing[i]] = 0
  OBVIOUS
<1> HIDE DEF nothing
<1>2. Weigh(nothing, f) = 0
  BY <1>1, WeighType
<1>3. QED BY <1>2 DEF nothing

\* One more, one less.
LEMMA WeighAppend ==
    ASSUME NEW S, NEW f \in [S -> Int], NEW values \in Seq(S), NEW x \in S
    PROVE  Weigh(Append(values, x), f) = Weigh(values, f) + f[x]
<1>1. Mapped(Append(values, x), f) = Append(Mapped(values, f), f[x])
  BY DEF Mapped
<1>2. Mapped(values, f) \in Seq(Int) /\ f[x] \in Int
  BY WeighType
<1>3. QED BY <1>1, <1>2, SumAppend DEF Weigh

\* The first value, and the others.
LEMMA WeighTail ==
    ASSUME NEW S, NEW f \in [S -> Int], NEW values \in Seq(S), values # <<>>
    PROVE  Weigh(values, f) = f[values[1]] + Weigh(Tail(values), f)
<1>1. Mapped(Tail(values), f) = Tail(Mapped(values, f))
  BY DEF Mapped
<1>2. Mapped(values, f) \in Seq(Int) /\ Mapped(values, f) # <<>>
      /\ Mapped(values, f)[1] = f[values[1]]
  BY WeighType DEF Mapped
<1>3. QED BY <1>1, <1>2, SumTail DEF Weigh

\* Those at some of the positions.
Masked(values, f, at) == [i \in DOMAIN values |-> IF i \in at THEN f[values[i]] ELSE 0]

\* What the picked values weigh.
LEMMA WeighPicked ==
    ASSUME NEW S, NEW f \in [S -> Int], NEW values \in Seq(S), NEW at
    PROVE  Weigh(Picked(values, at), f) = SumOf(Masked(values, f, at))
<1> DEFINE N == Len(values)
           v == Masked(values, f, at)
<1>1. v \in Seq(Int) /\ Len(v) = N
      /\ \A i \in 1 .. N : v[i] = IF i \in at THEN f[values[i]] ELSE 0
  BY DEF Masked
<1>2. N \in Nat /\ \A i \in 1 .. N : values[i] \in S
  OBVIOUS
<1> HIDE DEF v
<1>3. PICK p : Picking(p, values, at, S)
  BY PickedDef
<1>4. PICK q : Summing(q, v)
  BY <1>1, SumDef
<1>5. /\ p \in [0 .. N -> Seq(S)] /\ p[0] = <<>>
      /\ \A n \in 1 .. N :
            p[n] = IF n \in at THEN Append(p[n - 1], values[n]) ELSE p[n - 1]
      /\ Picked(values, at) = p[N]
  BY <1>3 DEF Picking
<1>6. /\ q \in [0 .. N -> Int] /\ q[0] = 0
      /\ \A n \in 1 .. N : q[n] = q[n - 1] + v[n]
      /\ SumOf(v) = q[N]
  BY <1>1, <1>4 DEF Summing
<1> HIDE DEF N
<1> DEFINE T == {n \in Nat : n <= N => Weigh(p[n], f) = q[n]}
<1>7. 0 \in T
  <2>1. Weigh(<<>>, f) = 0
    BY WeighNothing
  <2>2. QED BY <1>5, <1>6, <2>1
<1>8. ASSUME NEW n \in Nat, n \in T PROVE n + 1 \in T
  <2>1. SUFFICES ASSUME n + 1 <= N PROVE Weigh(p[n + 1], f) = q[n + 1]
    OBVIOUS
  <2>2. /\ n + 1 \in 1 .. N /\ (n + 1) - 1 = n /\ n \in 0 .. N
        /\ p[n] \in Seq(S) /\ values[n + 1] \in S
    BY <1>2, <1>5, <2>1
  <2>3. Weigh(p[n], f) = q[n]
    BY <1>2, <1>8, <2>1
  <2>4. q[n + 1] = q[n] + v[n + 1] /\ q[n] \in Int
    BY <1>6, <2>2
  <2>5. CASE n + 1 \in at
    <3>1. p[n + 1] = Append(p[n], values[n + 1]) /\ v[n + 1] = f[values[n + 1]]
      BY <1>1, <1>5, <2>2, <2>5
    <3>2. Weigh(Append(p[n], values[n + 1]), f) = Weigh(p[n], f) + f[values[n + 1]]
      BY <2>2, WeighAppend
    <3>3. QED BY <2>3, <2>4, <3>1, <3>2
  <2>6. CASE n + 1 \notin at
    <3>1. p[n + 1] = p[n] /\ v[n + 1] = 0
      BY <1>1, <1>5, <2>2, <2>6
    <3>2. QED BY <2>3, <2>4, <3>1
  <2>7. QED BY <2>5, <2>6
<1>9. Nat \subseteq T
  <2> HIDE DEF T
  <2>1. QED BY <1>7, <1>8, SetInduction
<1>10. Weigh(p[N], f) = q[N]
  BY <1>2, <1>9
<1>11. QED BY <1>5, <1>6, <1>10 DEF v

\* What is picked and what is left weigh what there was.
LEMMA WeighParts ==
    ASSUME NEW S, NEW f \in [S -> Int], NEW values \in Seq(S), NEW at
    PROVE  /\ SumOf(Masked(values, f, at)) \in Int
           /\ Weigh(values, f) = Weigh(Picked(values, DOMAIN values \ at), f)
                                 + SumOf(Masked(values, f, at))
<1> DEFINE a == Masked(values, f, DOMAIN values \ at)
           b == Masked(values, f, at)
           w == Mapped(values, f)
<1>1. a \in Seq(Int) /\ b \in Seq(Int) /\ Len(a) = Len(values) /\ Len(b) = Len(values)
  <2>1. ASSUME NEW B
        PROVE  Masked(values, f, B) \in Seq(Int) /\ Len(Masked(values, f, B)) = Len(values)
    BY DEF Masked
  <2>2. QED BY <2>1
<1>2. w \in Seq(Int) /\ Len(w) = Len(values)
  BY WeighType
<1>3. \A i \in 1 .. Len(values) : w[i] = a[i] + b[i]
  BY DEF Mapped, Masked
<1>4. Weigh(values, f) = SumOf(w)
  BY DEF Weigh
<1>5. Weigh(Picked(values, DOMAIN values \ at), f) = SumOf(a)
  BY WeighPicked
<1> HIDE DEF a, b, w
<1>6. SumOf(w) = SumOf(a) + SumOf(b) /\ SumOf(b) \in Int
  BY <1>1, <1>2, <1>3, SumAdds, SumType
<1>7. QED BY <1>4, <1>5, <1>6 DEF b

\* What is left without one of them.
LEMMA WeighWithout ==
    ASSUME NEW S, NEW f \in [S -> Int], NEW values \in Seq(S), NEW k \in 1 .. Len(values)
    PROVE  Weigh(values, f) = Weigh(Without(values, k), f) + f[values[k]]
<1> DEFINE b == Masked(values, f, {k})
<1>1. b \in Seq(Int) /\ Len(b) = Len(values) /\ b[k] = f[values[k]]
      /\ \A i \in 1 .. Len(values) : i # k => b[i] = 0
  BY DEF Masked
<1>2. SumOf(b) = b[k]
  <2> HIDE DEF b
  <2>1. QED BY <1>1, SumSingle
<1>3. Weigh(values, f) = Weigh(Picked(values, DOMAIN values \ {k}), f) + SumOf(b)
  BY WeighParts
<1>4. QED BY <1>1, <1>2, <1>3 DEF Without

----------------------------------------------------------------------------
(* Concat                                                                  *)

\* p[n] is what the first n parts make.
Joining(p, parts, S) ==
    /\ p \in [0 .. Len(parts) -> Seq(S)]
    /\ p[0] = <<>>
    /\ \A n \in 1 .. Len(parts) : p[n] = p[n - 1] \o parts[n]
    /\ Concat(parts) = p[Len(parts)]

\* The recursion that Concat is defined by has a solution.
LEMMA ConcatDef ==
    ASSUME NEW S, NEW parts \in Seq(Seq(S))
    PROVE  \E p : Joining(p, parts, S)
<1> DEFINE N == Len(parts)
           Body(p, n) == IF n = 0 THEN <<>> ELSE p[n - 1] \o parts[n]
           F == [x \in Nat \X Seq(S) |->
                    IF x[1] \in 1 .. N THEN x[2] \o parts[x[1]] ELSE x[2]]
<1>1. N \in Nat /\ \A i \in 1 .. N : parts[i] \in Seq(S)
  OBVIOUS
<1>2. ASSUME NEW n \in Nat, NEW s \in Seq(S)
      PROVE  /\ F[<<n, s>>] = IF n \in 1 .. N THEN s \o parts[n] ELSE s
             /\ F[<<n, s>>] \in Seq(S)
  <2> HIDE DEF N
  <2>1. F[<<n, s>>] = IF n \in 1 .. N THEN s \o parts[n] ELSE s
    OBVIOUS
  <2>2. n \in 1 .. N => s \o parts[n] \in Seq(S)
    BY <1>1
  <2>3. QED BY <2>1, <2>2
<1>3. <<>> \in Seq(S)
  OBVIOUS
<1> HIDE DEF N, F
<1>4. PICK g : Recursive(g, F, <<>>, Seq(S), N)
  <2> DEFINE SS == Seq(S)
  <2>1. \A n \in Nat, s \in SS : F[<<n, s>>] \in SS
    BY <1>2
  <2>2. <<>> \in SS
    BY <1>3
  <2> HIDE DEF SS
  <2>3. \E g : Recursive(g, F, <<>>, SS, N)
    BY <1>1, <2>1, <2>2, RecursionExists
  <2>4. QED BY <2>3 DEF SS
<1>5. /\ g \in [0 .. N -> Seq(S)]
      /\ g[0] = <<>>
      /\ \A n \in 1 .. N : g[n] = F[<<n, g[n - 1]>>]
  BY <1>4 DEF Recursive
<1>6. ASSUME NEW n \in 1 .. N PROVE g[n] = g[n - 1] \o parts[n]
  <2>1. n \in Nat /\ n - 1 \in 0 .. N /\ g[n - 1] \in Seq(S)
    BY <1>1, <1>5
  <2>2. QED BY <1>2, <1>5, <2>1
<1>7. g = [n \in 0 .. N |-> Body(g, n)]
  <2>1. ASSUME NEW n \in 0 .. N PROVE g[n] = Body(g, n)
    <3>1. CASE n = 0
      BY <1>5, <3>1
    <3>2. CASE n # 0
      <4>1. n \in 1 .. N
        BY <1>1, <3>2
      <4>2. QED BY <1>6, <3>2, <4>1
    <3>3. QED BY <3>1, <3>2
  <2> HIDE DEF Body
  <2>2. QED BY <1>5, <2>1
<1> DEFINE p == CHOOSE q : q = [n \in 0 .. N |-> Body(q, n)]
<1>8. p = [n \in 0 .. N |-> Body(p, n)]
  <2> HIDE DEF Body
  <2>1. QED BY <1>7
<1>9. Concat(parts) = p[N]
  BY DEF Concat, N
<1> HIDE DEF p
<1>10. p[0] = <<>> /\ \A n \in 1 .. N : p[n] = p[n - 1] \o parts[n]
  <2>1. \A n \in 0 .. N : p[n] = Body(p, n)
    <3> HIDE DEF Body
    <3>1. QED BY <1>8
  <2>2. 0 \in 0 .. N /\ \A n \in 1 .. N : n \in 0 .. N /\ n # 0
    BY <1>1
  <2>3. p[0] = <<>>
    BY <2>1, <2>2
  <2>4. ASSUME NEW n \in 1 .. N PROVE p[n] = p[n - 1] \o parts[n]
    <3>1. p[n] = Body(p, n) /\ n # 0
      BY <2>1, <2>2
    <3>2. QED BY <3>1
  <2>5. QED BY <2>3, <2>4
<1>11. p = g
  <2> DEFINE T == {n \in Nat : n <= N => p[n] = g[n]}
  <2>1. 0 \in T
    BY <1>5, <1>10
  <2>2. ASSUME NEW n \in Nat, n \in T PROVE n + 1 \in T
    <3>1. SUFFICES ASSUME n + 1 <= N PROVE p[n + 1] = g[n + 1]
      OBVIOUS
    <3>2. n + 1 \in 1 .. N /\ p[n] = g[n] /\ (n + 1) - 1 = n
      BY <1>1, <2>2, <3>1
    <3>3. QED BY <1>6, <1>10, <3>2
  <2>3. Nat \subseteq T
    <3> HIDE DEF T
    <3>1. QED BY <2>1, <2>2, SetInduction
  <2>4. \A n \in 0 .. N : p[n] = g[n]
    BY <1>1, <2>3
  <2>5. DOMAIN p = 0 .. N
    <3> HIDE DEF Body
    <3>1. QED BY <1>8
  <2>6. p = [n \in 0 .. N |-> p[n]]
    <3> HIDE DEF Body
    <3>1. QED BY <1>8, <2>5
  <2>7. QED
    BY <1>5, <2>4, <2>6
<1>12. QED
  BY <1>5, <1>9, <1>10, <1>11 DEF N, Joining

\* Parts of which none has anything make nothing.
LEMMA ConcatNothing ==
    ASSUME NEW S, NEW parts \in Seq(Seq(S)), \A i \in 1 .. Len(parts) : parts[i] = <<>>
    PROVE  Concat(parts) = <<>>
<1> DEFINE N == Len(parts)
<1>1. PICK p : Joining(p, parts, S)
  BY ConcatDef
<1>2. /\ p[0] = <<>>
      /\ \A n \in 1 .. N : p[n] = p[n - 1] \o parts[n]
      /\ Concat(parts) = p[N]
  BY <1>1 DEF Joining
<1>3. N \in Nat /\ \A i \in 1 .. N : parts[i] = <<>>
  OBVIOUS
<1> HIDE DEF N
<1> DEFINE T == {n \in Nat : n <= N => p[n] = <<>>}
<1>4. 0 \in T
  BY <1>2
<1>5. ASSUME NEW n \in Nat, n \in T PROVE n + 1 \in T
  <2>1. SUFFICES ASSUME n + 1 <= N PROVE p[n + 1] = <<>>
    OBVIOUS
  <2>2. n + 1 \in 1 .. N /\ p[n] = <<>> /\ (n + 1) - 1 = n
    BY <1>3, <1>5, <2>1
  <2>3. p[n + 1] = <<>> \o <<>>
    BY <1>2, <1>3, <2>2
  <2>4. QED BY <2>3
<1>6. Nat \subseteq T
  <2> HIDE DEF T
  <2>1. QED BY <1>4, <1>5, SetInduction
<1>7. QED BY <1>2, <1>3, <1>6

\* Concatenation is associative, and nothing changes nothing.
LEMMA Associates ==
    ASSUME NEW S, NEW a \in Seq(S), NEW b \in Seq(S), NEW c \in Seq(S)
    PROVE  (a \o b) \o c = a \o (b \o c)
  OBVIOUS

\* The empty sequence adds nothing.
LEMMA Neutral ==
    ASSUME NEW S, NEW a \in Seq(S)
    PROVE  a \o <<>> = a /\ <<>> \o a = a
  OBVIOUS

\* One more part.
LEMMA ConcatAppend ==
    ASSUME NEW S, NEW parts \in Seq(Seq(S)), NEW x \in Seq(S)
    PROVE  Concat(Append(parts, x)) = Concat(parts) \o x
<1> DEFINE N == Len(parts)
           more == Append(parts, x)
<1>1. /\ more \in Seq(Seq(S)) /\ Len(more) = N + 1
      /\ more[N + 1] = x /\ \A i \in 1 .. N : more[i] = parts[i]
  OBVIOUS
<1>2. N \in Nat
  OBVIOUS
<1> HIDE DEF more
<1>3. PICK p : Joining(p, parts, S)
  BY ConcatDef
<1>4. PICK q : Joining(q, more, S)
  BY <1>1, ConcatDef
<1>5. /\ p \in [0 .. N -> Seq(S)] /\ p[0] = <<>>
      /\ \A n \in 1 .. N : p[n] = p[n - 1] \o parts[n]
      /\ Concat(parts) = p[N]
  BY <1>3 DEF Joining
<1>6. /\ q \in [0 .. N + 1 -> Seq(S)] /\ q[0] = <<>>
      /\ \A n \in 1 .. N + 1 : q[n] = q[n - 1] \o more[n]
      /\ Concat(more) = q[N + 1]
  BY <1>1, <1>4 DEF Joining
<1> HIDE DEF N
<1> DEFINE T == {n \in Nat : n <= N => p[n] = q[n]}
<1>7. 0 \in T
  BY <1>5, <1>6
<1>8. ASSUME NEW n \in Nat, n \in T PROVE n + 1 \in T
  <2>1. SUFFICES ASSUME n + 1 <= N PROVE p[n + 1] = q[n + 1]
    OBVIOUS
  <2>2. n + 1 \in 1 .. N /\ n + 1 \in 1 .. N + 1 /\ p[n] = q[n] /\ (n + 1) - 1 = n
    BY <1>2, <1>8, <2>1
  <2>3. QED BY <1>1, <1>5, <1>6, <2>2
<1>9. Nat \subseteq T
  <2> HIDE DEF T
  <2>1. QED BY <1>7, <1>8, SetInduction
<1>10. p[N] = q[N] /\ N + 1 \in 1 .. N + 1 /\ (N + 1) - 1 = N
  BY <1>2, <1>9
<1>11. q[N + 1] = q[N] \o more[N + 1]
  BY <1>6, <1>10
<1>12. QED
  BY <1>1, <1>5, <1>6, <1>10, <1>11 DEF more

\* What one part has more than another at its beginning, when there is nothing before it, the
\* whole has more at its beginning.
Starts(parts, others, x, k) ==
    /\ Len(parts) = Len(others) /\ k \in 1 .. Len(parts)
    /\ \A i \in 1 .. k - 1 : parts[i] = <<>> /\ others[i] = <<>>
    /\ parts[k] = x \o others[k]
    /\ \A i \in k + 1 .. Len(parts) : parts[i] = others[i]

\* Then the whole loses x from its head.
LEMMA ConcatStart ==
    ASSUME NEW S, NEW parts \in Seq(Seq(S)), NEW others \in Seq(Seq(S)), NEW x \in Seq(S),
           NEW k, Starts(parts, others, x, k)
    PROVE  Concat(parts) = x \o Concat(others)
<1>a. ASSUME NEW b \in Seq(S), NEW c \in Seq(S)
      PROVE  (x \o b) \o c = x \o (b \o c)
  BY Associates
<1> DEFINE N == Len(parts)
<1>0. /\ Len(others) = N /\ k \in 1 .. N
      /\ \A i \in 1 .. k - 1 : parts[i] = <<>> /\ others[i] = <<>>
      /\ parts[k] = x \o others[k]
      /\ \A i \in k + 1 .. N : parts[i] = others[i]
  BY DEF Starts
<1>1. N \in Nat /\ \A i \in 1 .. N : parts[i] \in Seq(S) /\ others[i] \in Seq(S)
  BY <1>0
<1>2. PICK p : Joining(p, parts, S)
  BY ConcatDef
<1>3. PICK q : Joining(q, others, S)
  BY ConcatDef
<1>4. /\ p \in [0 .. N -> Seq(S)] /\ p[0] = <<>>
      /\ \A n \in 1 .. N : p[n] = p[n - 1] \o parts[n]
      /\ Concat(parts) = p[N]
  BY <1>2 DEF Joining
<1>5. /\ q \in [0 .. N -> Seq(S)] /\ q[0] = <<>>
      /\ \A n \in 1 .. N : q[n] = q[n - 1] \o others[n]
      /\ Concat(others) = q[N]
  BY <1>0, <1>3 DEF Joining
<1>6. k \in 1 .. N /\ \A i \in k + 1 .. N : parts[i] = others[i]
  BY <1>0
<1> HIDE DEF N
<1> DEFINE Ahead(n) == IF n < k THEN p[n] = <<>> /\ q[n] = <<>> ELSE p[n] = x \o q[n]
           T == {n \in Nat : n <= N => Ahead(n)}
<1>7. 0 \in T
  BY <1>4, <1>5, <1>6
<1>8. ASSUME NEW n \in Nat, n \in T PROVE n + 1 \in T
  <2>1. SUFFICES ASSUME n + 1 <= N PROVE Ahead(n + 1)
    <3> HIDE DEF Ahead
    <3>1. QED OBVIOUS
  <2>2. n + 1 \in 1 .. N /\ n \in 0 .. N /\ (n + 1) - 1 = n
    BY <1>1, <2>1
  <2>3. IF n < k THEN p[n] = <<>> /\ q[n] = <<>> ELSE p[n] = x \o q[n]
    BY <1>8, <2>2
  <2>4. p[n + 1] = p[n] \o parts[n + 1] /\ q[n + 1] = q[n] \o others[n + 1]
    BY <1>4, <1>5, <2>2
  <2>5. /\ p[n] \in Seq(S) /\ q[n] \in Seq(S)
        /\ parts[n + 1] \in Seq(S) /\ others[n + 1] \in Seq(S)
    BY <1>1, <1>4, <1>5, <2>2
  <2>6. CASE n + 1 < k
    <3>1. n < k /\ n + 1 \in 1 .. k - 1
      BY <1>6, <2>2, <2>6
    <3>2. parts[n + 1] = <<>> /\ others[n + 1] = <<>>
      BY <1>0, <3>1
    <3>3. p[n + 1] = <<>> \o <<>> /\ q[n + 1] = <<>> \o <<>>
      BY <2>3, <2>4, <3>1, <3>2
    <3>4. QED BY <2>6, <3>3
  <2>7. CASE n + 1 = k
    <3>0. n < k /\ parts[n + 1] = x \o others[k] /\ others[n + 1] = others[k]
      <4>1. n < k
        BY <1>6, <2>2, <2>7
      <4>2. parts[k] = x \o others[k]
        BY <1>0
      <4>3. QED BY <2>7, <4>1, <4>2, Zenon
    <3>1. p[n + 1] = <<>> \o (x \o others[k]) /\ q[n + 1] = <<>> \o others[k]
      BY <2>3, <2>4, <3>0
    <3>2. others[k] \in Seq(S) /\ x \o others[k] \in Seq(S)
      BY <2>5, <2>7
    <3>3. p[n + 1] = x \o others[k] /\ q[n + 1] = others[k]
      BY <3>1, <3>2, Neutral
    <3>4. QED BY <2>7, <3>3
  <2>8. CASE n + 1 > k
    <3>1. ~(n < k) /\ ~(n + 1 < k) /\ n + 1 \in k + 1 .. N
      BY <1>6, <2>2, <2>8
    <3>2. p[n + 1] = (x \o q[n]) \o others[n + 1]
      BY <1>6, <2>3, <2>4, <3>1
    <3>3. p[n + 1] = x \o (q[n] \o others[n + 1])
      <4>1. q[n] \in Seq(S) /\ others[n + 1] \in Seq(S)
        BY <2>5
      <4>2. (x \o q[n]) \o others[n + 1] = x \o (q[n] \o others[n + 1])
        BY <1>a, <4>1, Zenon
      <4>3. QED BY <3>2, <4>2, Zenon
    <3>4. QED BY <2>4, <3>1, <3>3
  <2>9. n + 1 < k \/ n + 1 = k \/ n + 1 > k
    BY <1>6, <2>2
  <2> HIDE DEF Ahead
  <2>10. QED BY <2>6, <2>7, <2>8, <2>9
<1>9. Nat \subseteq T
  <2> HIDE DEF T
  <2>1. QED BY <1>7, <1>8, SetInduction
<1>10. p[N] = x \o q[N]
  BY <1>1, <1>6, <1>9
<1>11. QED BY <1>4, <1>5, <1>10

\* The first part and the others.
LEMMA ConcatTail ==
    ASSUME NEW S, NEW parts \in Seq(Seq(S)), parts # <<>>
    PROVE  Concat(parts) = parts[1] \o Concat(Tail(parts))
<1> DEFINE N == Len(parts)
           rest == Tail(parts)
<1>1. /\ N \in Nat /\ N >= 1
      /\ \A i \in 1 .. N : parts[i] \in Seq(S)
  OBVIOUS
<1>2. /\ rest \in Seq(Seq(S)) /\ Len(rest) = N - 1
      /\ \A i \in 1 .. N - 1 : rest[i] = parts[i + 1]
  OBVIOUS
<1> HIDE DEF rest
<1>3. PICK p : Joining(p, parts, S)
  BY ConcatDef
<1>4. PICK q : Joining(q, rest, S)
  BY <1>2, ConcatDef
<1>5. /\ p \in [0 .. N -> Seq(S)] /\ p[0] = <<>>
      /\ \A n \in 1 .. N : p[n] = p[n - 1] \o parts[n]
      /\ Concat(parts) = p[N]
  BY <1>3 DEF Joining
<1>6. /\ q \in [0 .. N - 1 -> Seq(S)] /\ q[0] = <<>>
      /\ \A n \in 1 .. N - 1 : q[n] = q[n - 1] \o rest[n]
      /\ Concat(rest) = q[N - 1]
  BY <1>2, <1>4 DEF Joining
<1> HIDE DEF N
<1> DEFINE Rest(n) == p[n + 1] = parts[1] \o q[n]
           T == {n \in Nat : n <= N - 1 => Rest(n)}
<1>7. 0 \in T
  <2>1. 1 \in 1 .. N /\ 1 - 1 = 0 /\ 0 + 1 = 1 /\ parts[1] \in Seq(S)
    BY <1>1
  <2>2. p[1] = <<>> \o parts[1]
    BY <1>5, <2>1
  <2>3. p[1] = parts[1] \o <<>>
    BY <2>1, <2>2, Neutral
  <2>4. QED BY <1>6, <2>1, <2>3
<1>8. ASSUME NEW n \in Nat, n \in T PROVE n + 1 \in T
  <2>1. SUFFICES ASSUME n + 1 <= N - 1 PROVE Rest(n + 1)
    <3> HIDE DEF Rest
    <3>1. QED OBVIOUS
  <2>2. /\ n + 1 \in 1 .. N - 1 /\ (n + 1) + 1 \in 1 .. N /\ n \in 0 .. N - 1
        /\ (n + 1) - 1 = n /\ ((n + 1) + 1) - 1 = n + 1 /\ n <= N - 1 /\ 1 \in 1 .. N
    BY <1>1, <2>1
  <2>3. p[n + 1] = parts[1] \o q[n]
    BY <1>8, <2>2
  <2>4. p[(n + 1) + 1] = p[n + 1] \o parts[(n + 1) + 1] /\ q[n + 1] = q[n] \o rest[n + 1]
    BY <1>5, <1>6, <2>2
  <2>5. rest[n + 1] = parts[(n + 1) + 1]
    BY <1>2, <2>2
  <2>6. q[n] \in Seq(S) /\ parts[1] \in Seq(S) /\ parts[(n + 1) + 1] \in Seq(S)
    BY <1>1, <1>6, <2>2
  <2>7. (parts[1] \o q[n]) \o parts[(n + 1) + 1] = parts[1] \o (q[n] \o parts[(n + 1) + 1])
    <3> DEFINE a == parts[1]
               b == q[n]
               c == parts[(n + 1) + 1]
    <3>1. a \in Seq(S) /\ b \in Seq(S) /\ c \in Seq(S)
      BY <2>6
    <3> HIDE DEF a, b, c
    <3>2. (a \o b) \o c = a \o (b \o c)
      BY <3>1, Associates
    <3>3. QED BY <3>2 DEF a, b, c
  <2>8. QED BY <2>3, <2>4, <2>5, <2>7
<1>9. Nat \subseteq T
  <2> HIDE DEF T
  <2>1. QED BY <1>7, <1>8, SetInduction
<1>10. p[N] = parts[1] \o q[N - 1]
  <2>1. N - 1 \in Nat /\ (N - 1) + 1 = N
    BY <1>1
  <2>2. N - 1 \in T
    BY <1>9, <2>1
  <2>3. N - 1 <= N - 1 => Rest(N - 1)
    BY <2>2
  <2>4. N - 1 <= N - 1
    BY <2>1
  <2>5. QED BY <2>1, <2>3, <2>4
<1>11. QED BY <1>5, <1>6, <1>10 DEF rest

\* What a function makes of the values, one after the other.
Chained(values, f) == Concat(Mapped(values, f))

\* What is joined has its type, and is empty if every part is.
LEMMA ChainedType ==
    ASSUME NEW S, NEW T, NEW f \in [S -> Seq(T)], NEW values \in Seq(S)
    PROVE  /\ Mapped(values, f) \in Seq(Seq(T))
           /\ Len(Mapped(values, f)) = Len(values)
           /\ \A i \in 1 .. Len(values) : Mapped(values, f)[i] = f[values[i]]
           /\ Chained(values, f) \in Seq(T)
           /\ (\A i \in 1 .. Len(values) : f[values[i]] = <<>>) => Chained(values, f) = <<>>
<1> DEFINE w == Mapped(values, f)
<1>1. w \in Seq(Seq(T)) /\ Len(w) = Len(values) /\ \A i \in 1 .. Len(values) : w[i] = f[values[i]]
  <2>1. w = [i \in 1 .. Len(values) |-> f[values[i]]] /\ Len(values) \in Nat
    BY DEF Mapped
  <2>2. \A i \in 1 .. Len(values) : f[values[i]] \in Seq(T)
    OBVIOUS
  <2> HIDE DEF w
  <2>3. w \in Seq(Seq(T))
    BY <2>1, <2>2
  <2>4. Len(w) = Len(values)
    BY <2>1, <2>3
  <2>5. QED BY <2>1, <2>3, <2>4
<1> HIDE DEF w
<1>2. Chained(values, f) = Concat(w)
  BY DEF Chained, w
<1>3. Concat(w) \in Seq(T)
  <2>1. PICK p : Joining(p, w, T)
    BY <1>1, ConcatDef
  <2>2. p \in [0 .. Len(w) -> Seq(T)] /\ Concat(w) = p[Len(w)] /\ Len(w) \in 0 .. Len(w)
    BY <1>1, <2>1 DEF Joining
  <2>3. QED BY <2>2
<1>4. (\A i \in 1 .. Len(w) : w[i] = <<>>) => Concat(w) = <<>>
  BY <1>1, ConcatNothing
<1>5. QED BY <1>1, <1>2, <1>3, <1>4 DEF w

\* One more value.
LEMMA ChainedAppend ==
    ASSUME NEW S, NEW T, NEW f \in [S -> Seq(T)], NEW values \in Seq(S), NEW x \in S
    PROVE  Chained(Append(values, x), f) = Chained(values, f) \o f[x]
<1>1. Mapped(Append(values, x), f) = Append(Mapped(values, f), f[x])
  BY DEF Mapped
<1>2. Mapped(values, f) \in Seq(Seq(T)) /\ f[x] \in Seq(T)
  BY ChainedType
<1>3. QED BY <1>1, <1>2, ConcatAppend DEF Chained

\* The first value, and the others.
LEMMA ChainedTail ==
    ASSUME NEW S, NEW T, NEW f \in [S -> Seq(T)], NEW values \in Seq(S), values # <<>>
    PROVE  Chained(values, f) = f[values[1]] \o Chained(Tail(values), f)
<1>1. Mapped(Tail(values), f) = Tail(Mapped(values, f))
  BY DEF Mapped
<1>2. Mapped(values, f) \in Seq(Seq(T))
  BY ChainedType
<1>3. Mapped(values, f) # <<>> /\ Mapped(values, f)[1] = f[values[1]]
  BY DEF Mapped
<1>4. QED BY <1>1, <1>2, <1>3, ConcatTail DEF Chained

\* Those that are picked, each in its place.
Veiled(values, f, at) == [i \in DOMAIN values |-> IF i \in at THEN f[values[i]] ELSE <<>>]

\* Their type.
LEMMA VeiledType ==
    ASSUME NEW S, NEW T, NEW f \in [S -> Seq(T)], NEW values \in Seq(S), NEW at
    PROVE  /\ Veiled(values, f, at) \in Seq(Seq(T))
           /\ Len(Veiled(values, f, at)) = Len(values)
           /\ \A i \in 1 .. Len(values) :
                 Veiled(values, f, at)[i] = IF i \in at THEN f[values[i]] ELSE <<>>
<1> DEFINE Q == Seq(T)
<1>1. <<>> \in Q /\ \A i \in 1 .. Len(values) : f[values[i]] \in Q
  OBVIOUS
<1> HIDE DEF Q
<1>2. Veiled(values, f, at) \in Seq(Q)
  <2> DEFINE e(i) == IF i \in at THEN f[values[i]] ELSE <<>>
  <2>1. \A i \in 1 .. Len(values) : e(i) \in Q
    BY <1>1
  <2>2. DOMAIN values = 1 .. Len(values) /\ Len(values) \in Nat
    OBVIOUS
  <2>3. Veiled(values, f, at) = [i \in 1 .. Len(values) |-> e(i)]
    BY <2>2 DEF Veiled
  <2> HIDE DEF e
  <2>4. QED BY <2>1, <2>2, <2>3
<1>3. Len(Veiled(values, f, at)) = Len(values)
  BY DEF Veiled
<1>4. \A i \in 1 .. Len(values) :
         Veiled(values, f, at)[i] = IF i \in at THEN f[values[i]] ELSE <<>>
  BY DEF Veiled
<1>5. QED BY <1>2, <1>3, <1>4 DEF Q

\* Picking values is joining them with the others veiled.
LEMMA ChainedPicked ==
    ASSUME NEW S, NEW T, NEW f \in [S -> Seq(T)], NEW values \in Seq(S), NEW at
    PROVE  Chained(Picked(values, at), f) = Concat(Veiled(values, f, at))
<1> DEFINE N == Len(values)
           v == Veiled(values, f, at)
<1>1. v \in Seq(Seq(T)) /\ Len(v) = N
      /\ \A i \in 1 .. N : v[i] = IF i \in at THEN f[values[i]] ELSE <<>>
  <2>1. v \in Seq(Seq(T))
    BY VeiledType
  <2>2. QED BY <2>1 DEF Veiled
<1>2. N \in Nat /\ \A i \in 1 .. N : values[i] \in S
  OBVIOUS
<1> HIDE DEF v
<1>3. PICK p : Picking(p, values, at, S)
  BY PickedDef
<1>4. PICK q : Joining(q, v, T)
  BY <1>1, ConcatDef
<1>5. /\ p \in [0 .. N -> Seq(S)] /\ p[0] = <<>>
      /\ \A n \in 1 .. N :
            p[n] = IF n \in at THEN Append(p[n - 1], values[n]) ELSE p[n - 1]
      /\ Picked(values, at) = p[N]
  BY <1>3 DEF Picking
<1>6. /\ q \in [0 .. N -> Seq(T)] /\ q[0] = <<>>
      /\ \A n \in 1 .. N : q[n] = q[n - 1] \o v[n]
      /\ Concat(v) = q[N]
  BY <1>1, <1>4 DEF Joining
<1> HIDE DEF N
<1> DEFINE I == {n \in Nat : n <= N => Chained(p[n], f) = q[n]}
<1>7. 0 \in I
  <2>1. Chained(<<>>, f) = <<>>
    <3> DEFINE z == <<>>
    <3>1. z \in Seq(S) /\ \A i \in 1 .. Len(z) : f[z[i]] = <<>>
      OBVIOUS
    <3> HIDE DEF z
    <3>2. Chained(z, f) = <<>>
      BY <3>1, ChainedType
    <3>3. QED BY <3>2 DEF z
  <2>2. QED BY <1>5, <1>6, <2>1
<1>8. ASSUME NEW n \in Nat, n \in I PROVE n + 1 \in I
  <2>1. SUFFICES ASSUME n + 1 <= N PROVE Chained(p[n + 1], f) = q[n + 1]
    OBVIOUS
  <2>2. /\ n + 1 \in 1 .. N /\ (n + 1) - 1 = n /\ n \in 0 .. N
        /\ p[n] \in Seq(S) /\ values[n + 1] \in S
    BY <1>2, <1>5, <2>1
  <2>3. Chained(p[n], f) = q[n]
    BY <1>2, <1>8, <2>1
  <2>4. q[n + 1] = q[n] \o v[n + 1] /\ q[n] \in Seq(T)
    BY <1>6, <2>2
  <2>5. CASE n + 1 \in at
    <3>1. p[n + 1] = Append(p[n], values[n + 1]) /\ v[n + 1] = f[values[n + 1]]
      BY <1>1, <1>5, <2>2, <2>5
    <3>2. Chained(Append(p[n], values[n + 1]), f) = Chained(p[n], f) \o f[values[n + 1]]
      BY <2>2, ChainedAppend
    <3>3. QED BY <2>3, <2>4, <3>1, <3>2
  <2>6. CASE n + 1 \notin at
    <3>1. p[n + 1] = p[n] /\ v[n + 1] = <<>>
      BY <1>1, <1>5, <2>2, <2>6
    <3>2. q[n] \o <<>> = q[n]
      BY <2>4, Neutral
    <3>3. QED BY <2>3, <2>4, <3>1, <3>2
  <2>7. QED BY <2>5, <2>6
<1>9. Nat \subseteq I
  <2> HIDE DEF I
  <2>1. QED BY <1>7, <1>8, SetInduction
<1>10. Chained(p[N], f) = q[N]
  BY <1>2, <1>9
<1>11. QED BY <1>5, <1>6, <1>10 DEF v

\* All that matters is picked, or nothing that does.
LEMMA ChainedSame ==
    ASSUME NEW S, NEW T, NEW f \in [S -> Seq(T)], NEW values \in Seq(S), NEW at
    PROVE  /\ (\A i \in 1 .. Len(values) : i \in at \/ f[values[i]] = <<>>) =>
                 Chained(Picked(values, at), f) = Chained(values, f)
           /\ (\A i \in 1 .. Len(values) : i \in at => f[values[i]] = <<>>) =>
                 Chained(Picked(values, at), f) = <<>>
<1>1. Chained(Picked(values, at), f) = Concat(Veiled(values, f, at))
  BY ChainedPicked
<1>2. ASSUME \A i \in 1 .. Len(values) : i \in at \/ f[values[i]] = <<>>
      PROVE  Chained(Picked(values, at), f) = Chained(values, f)
  <2>1. Veiled(values, f, at) = Mapped(values, f)
    BY <1>2 DEF Veiled, Mapped
  <2>2. QED BY <1>1, <2>1 DEF Chained
<1>3. ASSUME \A i \in 1 .. Len(values) : i \in at => f[values[i]] = <<>>
      PROVE  Chained(Picked(values, at), f) = <<>>
  <2>1. Picked(values, at) \in Seq(S)
        /\ \A k \in 1 .. Len(Picked(values, at)) :
              \E i \in 1 .. Len(values) : i \in at /\ Picked(values, at)[k] = values[i]
    BY PickedType
  <2>2. \A k \in 1 .. Len(Picked(values, at)) : f[Picked(values, at)[k]] = <<>>
    BY <1>3, <2>1
  <2> DEFINE v == Picked(values, at)
  <2>3. v \in Seq(S) /\ \A i \in 1 .. Len(v) : f[v[i]] = <<>>
    BY <2>1, <2>2
  <2> HIDE DEF v
  <2>4. Chained(v, f) = <<>>
    BY <2>3, ChainedType
  <2>5. QED BY <2>4 DEF v
<1>4. QED BY <1>2, <1>3

\* The first that matters is taken out.
LEMMA ChainedWithout ==
    ASSUME NEW S, NEW T, NEW f \in [S -> Seq(T)], NEW values \in Seq(S),
           NEW k \in 1 .. Len(values), \A i \in 1 .. k - 1 : f[values[i]] = <<>>
    PROVE  Chained(values, f) = f[values[k]] \o Chained(Without(values, k), f)
<1> DEFINE a == Mapped(values, f)
           b == Veiled(values, f, DOMAIN values \ {k})
           x == f[values[k]]
<1>1. a \in Seq(Seq(T)) /\ Len(a) = Len(values) /\ \A i \in 1 .. Len(values) : a[i] = f[values[i]]
  <2>1. a \in Seq(Seq(T))
    BY ChainedType
  <2>2. QED BY <2>1 DEF Mapped
<1>2. b \in Seq(Seq(T)) /\ Len(b) = Len(values)
      /\ \A i \in 1 .. Len(values) : b[i] = IF i = k THEN <<>> ELSE f[values[i]]
  <2> DEFINE at == DOMAIN values \ {k}
  <2>1. /\ b \in Seq(Seq(T))
        /\ Len(b) = Len(values)
        /\ \A i \in 1 .. Len(values) : b[i] = IF i \in at THEN f[values[i]] ELSE <<>>
    <3>1. b \in Seq(Seq(T))
      BY VeiledType
    <3>2. QED BY <3>1 DEF Veiled
  <2>2. \A i \in 1 .. Len(values) : i \in at <=> i # k
    OBVIOUS
  <2> HIDE DEF at, b
  <2>3. QED BY <2>1, <2>2
<1>3. x \in Seq(T)
  OBVIOUS
<1>4. a[k] = x \o b[k]
  <2>1. a[k] = x /\ b[k] = <<>>
    BY <1>1, <1>2
  <2>2. QED BY <1>3, <2>1, Neutral
<1>5. k \in 1 .. Len(a) /\ Len(a) = Len(b)
  BY <1>1, <1>2
<1>6. ASSUME NEW i \in 1 .. k - 1 PROVE a[i] = <<>> /\ b[i] = <<>>
  <2>1. i \in 1 .. Len(values) /\ i # k
    OBVIOUS
  <2>2. f[values[i]] = <<>>
    OBVIOUS
  <2>3. QED BY <1>1, <1>2, <2>1, <2>2
<1>7. ASSUME NEW i \in k + 1 .. Len(a) PROVE a[i] = b[i]
  <2>1. i \in 1 .. Len(values) /\ i # k
    BY <1>1
  <2>3. QED BY <1>1, <1>2, <2>1
<1> HIDE DEF a, b, x
<1>8. Concat(a) = x \o Concat(b)
  <2>1. Starts(a, b, x, k)
    BY <1>4, <1>5, <1>6, <1>7 DEF Starts
  <2>2. QED BY <1>1, <1>2, <1>3, <2>1, ConcatStart
<1>9. Chained(Without(values, k), f) = Concat(b)
  BY ChainedPicked DEF Without, b
<1>10. QED BY <1>8, <1>9 DEF Chained, a, x

\* The first bytes and the others.
Leads(all, first, others) == all = first \o others

\* The first that matters is replaced by one that has less.
Lessens(values, others, f, x, k) ==
    /\ Len(others) = Len(values) /\ k \in 1 .. Len(values)
    /\ \A i \in 1 .. k - 1 : f[values[i]] = <<>>
    /\ \A i \in 1 .. Len(values) : i # k => others[i] = values[i]
    /\ f[values[k]] = x \o f[others[k]]

\* Then what is joined loses x from its head.
LEMMA ChainedExcept ==
    ASSUME NEW S, NEW T, NEW f \in [S -> Seq(T)], NEW values \in Seq(S), NEW others \in Seq(S),
           NEW k, NEW x \in Seq(T), Lessens(values, others, f, x, k)
    PROVE  Leads(Chained(values, f), x, Chained(others, f))
<1> DEFINE a == Mapped(values, f)
           b == Mapped(others, f)
           N == Len(values)
<1>1. a \in Seq(Seq(T)) /\ Len(a) = N /\ \A i \in 1 .. N : a[i] = f[values[i]]
  <2>1. a \in Seq(Seq(T))
    BY ChainedType
  <2>2. QED BY <2>1 DEF Mapped
<1>2. b \in Seq(Seq(T)) /\ Len(b) = N /\ \A i \in 1 .. N : b[i] = f[others[i]]
  <2>1. b \in Seq(Seq(T))
    BY ChainedType
  <2>2. Len(others) = N
    BY DEF Lessens
  <2>3. QED BY <2>1, <2>2 DEF Mapped
<1>3. /\ k \in 1 .. N
      /\ \A i \in 1 .. k - 1 : f[values[i]] = <<>>
      /\ \A i \in 1 .. N : i # k => others[i] = values[i]
      /\ f[values[k]] = x \o f[others[k]]
  BY DEF Lessens
<1>4. N \in Nat
  OBVIOUS
<1> HIDE DEF a, b, N
<1>5. Starts(a, b, x, k)
  <2>1. a[k] = x \o b[k]
    BY <1>1, <1>2, <1>3
  <2>2. ASSUME NEW i \in 1 .. k - 1 PROVE a[i] = <<>> /\ b[i] = <<>>
    <3>1. i \in 1 .. N /\ i # k
      BY <1>3, <1>4
    <3>2. f[values[i]] = <<>>
      BY <1>3
    <3>3. others[i] = values[i]
      BY <1>3, <3>1
    <3>4. a[i] = f[values[i]] /\ b[i] = f[others[i]]
      BY <1>1, <1>2, <3>1
    <3>5. QED BY <3>2, <3>3, <3>4
  <2>3. ASSUME NEW i \in k + 1 .. Len(a) PROVE a[i] = b[i]
    <3>1. i \in 1 .. N /\ i # k
      BY <1>1, <1>3, <1>4
    <3>2. others[i] = values[i]
      BY <1>3, <3>1, Zenon
    <3>3. QED BY <1>1, <1>2, <3>1, <3>2
  <2>4. Len(a) = Len(b) /\ k \in 1 .. Len(a)
    BY <1>1, <1>2, <1>3
  <2>5. QED BY <2>1, <2>2, <2>3, <2>4, Zenon DEF Starts
<1>6. Concat(a) = x \o Concat(b)
  BY <1>1, <1>2, <1>5, ConcatStart
<1>7. QED BY <1>6 DEF Chained, Leads, a, b
=============================================================================
