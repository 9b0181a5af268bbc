---------------------------- MODULE GemmChoice_proofs ----------------------------
(***************************************************************************)
(* What the heuristics of fp8_gemm_nt choose, for every shape and number of     *)
(* SMs: the scan of the candidates ends with a candidate, and with one that no   *)
(* other is better than.                                                       *)
(***************************************************************************)
EXTENDS GemmConfig_proofs, WellFoundedInduction

-----------------------------------------------------------------------------
(* Least and greatest positions: induction over them, as facts about sets *)

LEMMA LeastNatural ==
    ASSUME NEW T, T \subseteq Nat, T # {}
    PROVE  \E x \in T : \A y \in T : x <= y
<1> DEFINE R == OpToRel(<, Nat)
<1>1. IsWellFoundedOn(R, Nat)
  BY NatLessThanWellFounded, Zenon
<1>2. \A x, y \in Nat : <<x, y>> \in R <=> x < y
  BY Zenon DEF OpToRel
<1> HIDE DEF R
<1>3. PICK x \in T : \A y \in T : ~(<<y, x>> \in R)
  BY <1>1, WFMin, Zenon
<1>4. \A y \in T : x \in Nat /\ y \in Nat /\ ~(y < x)
  BY <1>2, <1>3
<1>5. \A y \in T : x <= y
  BY <1>4, SMT
<1>6. QED BY <1>5

LEMMA MinOfNaturals ==
    ASSUME NEW T, T \subseteq Nat, T # {}
    PROVE  Min(T) \in T /\ \A y \in T : Min(T) <= y
<1>1. PICK x \in T : \A y \in T : x <= y
  BY LeastNatural, Zenon
<1>2. QED BY <1>1, Zenon DEF Min

LEMMA GreatestPosition ==
    ASSUME NEW N \in Nat, NEW T, T \subseteq 1..N, T # {}
    PROVE  \E x \in T : \A y \in T : y <= x
<1> DEFINE U == {N - x : x \in T}
<1>1. U \subseteq Nat /\ U # {}
  <2>1. \A x \in T : x \in Int /\ x <= N
    OBVIOUS
  <2>2. \A x \in T : N - x \in Nat
    BY <2>1
  <2>3. QED BY <2>2
<1>2. PICK u \in U : \A v \in U : u <= v
  BY <1>1, LeastNatural, Zenon
<1>3. PICK x \in T : u = N - x
  BY <1>2
<1>4. \A y \in T : N - x <= N - y
  BY <1>2, <1>3
<1>5. \A y \in T : y <= x
  BY <1>4, SMT
<1>6. QED BY <1>5

-----------------------------------------------------------------------------
(* The scan *)

From(D, n) == {i \in D : i >= n}

LEMMA FromOnwards ==
    ASSUME NEW N \in Nat, NEW D, D \subseteq Nat, \A i \in D : 1 <= i /\ i <= N, NEW n \in Nat
    PROVE  /\ From(D, 1) = D /\ From(D, N + 1) = {}
           /\ n \notin D => From(D, n) = From(D, n + 1)
           /\ n \in D => n \in From(D, n)
           /\ \A i \in From(D, n) : i = n \/ i \in From(D, n + 1)
           /\ \A i \in From(D, n + 1) : i \in From(D, n) /\ i # n
           /\ \A i \in From(D, n + 1), j \in D : i <= j => j \in From(D, n + 1)
           /\ \A j \in D : n <= j => j = n \/ j \in From(D, n + 1)
<1>1. \A i \in D : i \in Nat /\ (i >= n <=> i >= n + 1 \/ i = n) /\ i >= 1 /\ ~(i >= N + 1)
  OBVIOUS
<1>2. \A i \in D : i >= n + 1 => i # n
  OBVIOUS
<1>3. \A i, j \in D : i >= n + 1 /\ i <= j => j >= n + 1
  OBVIOUS
<1>4. \A j \in D : n <= j => j >= n
  OBVIOUS
<1>5. \A i \in D : i = n => i >= n
  OBVIOUS
<1>6. From(D, 1) = D /\ From(D, N + 1) = {}
  BY <1>1, Zenon DEF From
<1>7. n \notin D => From(D, n) = From(D, n + 1)
  BY <1>1, Zenon DEF From
<1>8. n \in D => n \in From(D, n)
  BY <1>5, Zenon DEF From
<1>9. \A i \in From(D, n) : i = n \/ i \in From(D, n + 1)
  BY <1>1, Zenon DEF From
<1>10. \A i \in From(D, n + 1) : i \in From(D, n) /\ i # n
  BY <1>1, <1>2, Zenon DEF From
<1>11. \A i \in From(D, n + 1), j \in D : i <= j => j \in From(D, n + 1)
  BY <1>3, Zenon DEF From
<1>12. \A j \in D : n <= j => j = n \/ j \in From(D, n + 1)
  BY <1>1, <1>4, Zenon DEF From
<1>13. QED BY <1>6, <1>7, <1>8, <1>9, <1>10, <1>11, <1>12, Zenon

IsScan(f, D, next, leaf) ==
    /\ f = [i \in D |-> f[i]]
    /\ \A i \in D : f[i] = IF next[i] = i THEN leaf[i] ELSE f[next[i]]

\* A function that goes from place to place, never back, until it stays, is defined.
LEMMA ScanIsDefined ==
    ASSUME NEW N \in Nat, NEW D, D \subseteq Nat, \A i \in D : 1 <= i /\ i <= N,
           NEW next \in [D -> D], \A i \in D : i <= next[i], NEW leaf
    PROVE  \E f : IsScan(f, D, next, leaf)
<1> DEFINE Good(n) == \E f : f = [i \in From(D, n) |-> IF next[i] = i THEN leaf[i] ELSE f[next[i]]]
           Bad == {n \in 1..N : ~Good(n)}
<1>1. Good(N + 1)
  <2>1. From(D, N + 1) = {}
    BY FromOnwards, Zenon
  <2> DEFINE e == [i \in From(D, N + 1) |-> 0]
  <2>2. e = [i \in From(D, N + 1) |-> IF next[i] = i THEN leaf[i] ELSE e[next[i]]]
    BY <2>1
  <2> HIDE DEF e
  <2>3. QED BY <2>2
<1>2. Bad = {}
  <2>1. SUFFICES ASSUME Bad # {} PROVE FALSE
    OBVIOUS
  <2>2. Bad \subseteq 1..N
    OBVIOUS
  <2> HIDE DEF Bad
  <2>3. PICK n \in Bad : \A y \in Bad : y <= n
    BY <2>1, <2>2, GreatestPosition, Zenon
  <2>4. n \in 1..N /\ n \in Nat /\ n + 1 \notin Bad
    BY <2>2, <2>3, SMT
  <2>5. ~Good(n)
    BY <2>3, Zenon DEF Bad
  <2>6. Good(n + 1)
    <3>1. CASE n = N BY <3>1, <1>1
    <3>2. CASE n # N
      <4>1. n + 1 \in 1..N
        BY <2>4, <3>2, SMT
      <4>2. QED BY <2>4, <4>1, Zenon DEF Bad
    <3>3. QED BY <3>1, <3>2
  <2>7. PICK f : f = [i \in From(D, n + 1) |-> IF next[i] = i THEN leaf[i] ELSE f[next[i]]]
    BY <2>6
  <2>8. CASE n \notin D
    <3>1. From(D, n) = From(D, n + 1)
      <4>1. n \notin D => From(D, n) = From(D, n + 1)
        BY <2>4, FromOnwards, Zenon
      <4>2. QED BY <2>8, <4>1
    <3>2. QED BY <2>5, <2>7, <3>1
  <2>9. CASE n \in D
    <3> DEFINE g == [i \in From(D, n) |-> IF i = n
                        THEN IF next[n] = n THEN leaf[n] ELSE f[next[n]] ELSE f[i]]
    <3>0. \A i \in From(D, n + 1) : i \in D
      BY DEF From
    <3>1. \A i \in From(D, n) : i = n \/ i \in From(D, n + 1)
      BY <2>4, FromOnwards, Zenon
    <3>2. \A i \in From(D, n + 1) : i \in From(D, n) /\ i # n /\ next[i] \in From(D, n + 1)
      <4>1. \A i \in From(D, n + 1) : next[i] \in D /\ i <= next[i]
        BY <3>0
      <4>2. \A i \in From(D, n + 1) : i \in From(D, n) /\ i # n
        <5>1. \A i \in D : i >= n + 1 => i >= n /\ i # n
          BY <2>4
        <5>2. QED BY <5>1, Zenon DEF From
      <4>3. \A i \in From(D, n + 1), j \in D : i <= j => j \in From(D, n + 1)
        BY <2>4, FromOnwards, Zenon
      <4>4. QED BY <4>1, <4>2, <4>3, Zenon
    <3>3. next[n] = n \/ next[n] \in From(D, n + 1)
      <4>1. next[n] \in D /\ n <= next[n]
        BY <2>9
      <4>2. \A j \in D : n <= j => j = n \/ j \in From(D, n + 1)
        BY <2>4, FromOnwards, Zenon
      <4>3. QED BY <4>1, <4>2, Zenon
    <3>4. n \in From(D, n)
      BY <2>4, <2>9, FromOnwards, Zenon
    <3>5. \A i \in From(D, n + 1) : g[i] = f[i]
      BY <3>2
    <3>6. \A i \in From(D, n) : g[i] = IF next[i] = i THEN leaf[i] ELSE g[next[i]]
      <4>1. g[n] = IF next[n] = n THEN leaf[n] ELSE g[next[n]]
        BY <3>3, <3>4, <3>5
      <4>2. \A i \in From(D, n + 1) : f[i] = IF next[i] = i THEN leaf[i] ELSE f[next[i]]
        BY <2>7, Zenon
      <4> HIDE DEF g
      <4>3. \A i \in From(D, n + 1) : g[i] = IF next[i] = i THEN leaf[i] ELSE g[next[i]]
        BY <3>2, <3>5, <4>2
      <4>4. QED BY <3>1, <4>1, <4>3
    <3>7. g = [i \in From(D, n) |-> IF next[i] = i THEN leaf[i] ELSE g[next[i]]]
      <4>1. g = [i \in From(D, n) |-> g[i]]
        OBVIOUS
      <4> HIDE DEF g
      <4>2. QED BY <3>6, <4>1, Zenon
    <3> HIDE DEF g
    <3>8. Good(n)
      BY <3>7
    <3>9. QED BY <2>5, <3>8
  <2>10. QED BY <2>8, <2>9
<1>3. Good(1)
  <2>1. 1 \in 1..N \/ 1 = N + 1
    BY SMT
  <2> HIDE DEF Good
  <2>2. CASE 1 \in 1..N BY <1>2, <2>2, Zenon
  <2>3. CASE 1 = N + 1 BY <1>1, <2>3
  <2>4. QED BY <2>1, <2>2, <2>3
<1>4. From(D, 1) = D
  BY FromOnwards, Zenon
<1>5. PICK f : f = [i \in D |-> IF next[i] = i THEN leaf[i] ELSE f[next[i]]]
  BY <1>3, <1>4
<1>6. IsScan(f, D, next, leaf)
  BY <1>5 DEF IsScan
<1>7. QED BY <1>6

Better(family, infos, i) == {j \in DOMAIN infos : j > i /\ IsBetter(family, infos[j], infos[i])}

\* The scan from place i on ends at a place b that nothing from i on is better than.
EndsAtBest(family, infos, i, tile) ==
    \E b \in DOMAIN infos :
        /\ i <= b /\ tile = infos[b].tile
        /\ \A j \in DOMAIN infos : i <= j => ~IsBetter(family, infos[j], infos[b])

LEMMA ScanEquation ==
    ASSUME NEW family, NEW infos, NEW N \in Nat,
           DOMAIN infos \subseteq Nat, \A i \in DOMAIN infos : 1 <= i /\ i <= N
    PROVE  \E kept : /\ Best(family, infos) = kept[Min(DOMAIN infos)]
                    /\ \A i \in DOMAIN infos :
                          kept[i] = IF Better(family, infos, i) = {} THEN infos[i].tile
                                    ELSE kept[Min(Better(family, infos, i))]
<1> DEFINE D == DOMAIN infos
           IsKept(f) == f = [i \in D |-> IF Better(family, infos, i) = {} THEN infos[i].tile
                                        ELSE f[Min(Better(family, infos, i))]]
           Kept == CHOOSE f : IsKept(f)
           next == [i \in D |-> IF Better(family, infos, i) = {} THEN i
                               ELSE Min(Better(family, infos, i))]
           leaf == [i \in D |-> infos[i].tile]
<1>1. Best(family, infos) = Kept[Min(D)]
  BY Zenon DEF Best, Better
<1>2. \A i \in D : /\ i \in Nat /\ next[i] \in D /\ i <= next[i]
                   /\ next[i] = i <=> Better(family, infos, i) = {}
  <2> SUFFICES ASSUME NEW i \in D PROVE i \in Nat /\ next[i] \in D /\ i <= next[i]
                                       /\ (next[i] = i <=> Better(family, infos, i) = {})
    BY Zenon
  <2>1. i \in Nat
    OBVIOUS
  <2>2. CASE Better(family, infos, i) = {}
    BY <2>1, <2>2
  <2>3. CASE Better(family, infos, i) # {}
    <3>1. Better(family, infos, i) \subseteq Nat
      BY DEF Better
    <3>2. Min(Better(family, infos, i)) \in Better(family, infos, i)
      BY <2>3, <3>1, MinOfNaturals, Zenon
    <3>3. Min(Better(family, infos, i)) \in D /\ Min(Better(family, infos, i)) > i
      BY <3>2, Zenon DEF Better
    <3>4. PICK m \in D : m = Min(Better(family, infos, i)) /\ m > i
      BY <3>3, Zenon
    <3>5. next[i] = m
      BY <2>3, <3>4, Zenon
    <3>6. m \in Nat
      BY <3>4
    <3>7. i <= m /\ m # i
      BY <2>1, <3>4, <3>6, SMT
    <3>8. QED BY <2>1, <2>3, <3>5, <3>7, Zenon
  <2>4. QED BY <2>2, <2>3
<1>3. next \in [D -> D]
  <2>1. next = [i \in D |-> next[i]]
    OBVIOUS
  <2> HIDE DEF next
  <2>2. QED BY <1>2, <2>1
<1>4. \E f : IsKept(f)
  <2>1. \A i \in D : leaf[i] = infos[i].tile
    OBVIOUS
  <2>2. \A i \in D : Better(family, infos, i) # {} => next[i] = Min(Better(family, infos, i))
    BY Zenon
  <2> HIDE DEF next, leaf
  <2>3. PICK f : /\ f = [i \in D |-> f[i]]
                 /\ \A i \in D : f[i] = IF next[i] = i THEN leaf[i] ELSE f[next[i]]
    <3>1. /\ D \subseteq Nat
          /\ \A i \in D : 1 <= i /\ i <= N
      BY Zenon
    <3>2. \A i \in D : i <= next[i]
      BY <1>2, Zenon
    <3> HIDE DEF D
    <3>3. \E f : IsScan(f, D, next, leaf)
      BY <1>3, <3>1, <3>2, ScanIsDefined, Zenon
    <3>4. QED BY <3>3, Zenon DEF IsScan
  <2>4. \A i \in D : f[i] = IF Better(family, infos, i) = {} THEN infos[i].tile
                            ELSE f[Min(Better(family, infos, i))]
    BY <1>2, <2>1, <2>2, <2>3, Zenon
  <2>5. f = [i \in D |-> f[i]]
    BY <2>3, Zenon
  <2>6. IsKept(f)
    BY <2>4, <2>5, Zenon
  <2>7. QED BY <2>6
<1>5. IsKept(Kept)
  <2> HIDE DEF IsKept
  <2>1. QED BY <1>4, Zenon
<1>6. \A i \in D : Kept[i] = IF Better(family, infos, i) = {} THEN infos[i].tile
                             ELSE Kept[Min(Better(family, infos, i))]
  <2> HIDE DEF Kept
  <2>1. QED BY <1>5, Zenon
<1> HIDE DEF Kept
<1>7. QED BY <1>1, <1>6, Zenon

\* What a strict weak order says of three.
IsOrderAt(family, a, b, c) ==
    /\ ~IsBetter(family, a, a)
    /\ IsBetter(family, a, b) /\ IsBetter(family, b, c) => IsBetter(family, a, c)
    /\ IsBetter(family, a, c) => IsBetter(family, a, b) \/ IsBetter(family, b, c)

\* The scan keeps what no candidate is better than, provided the comparison is a strict
\* weak order: it compares each with the best so far only.
LEMMA ScanEndsAtBest ==
    ASSUME NEW family, NEW infos, NEW N \in Nat,
           DOMAIN infos \subseteq Nat, \A i \in DOMAIN infos : 1 <= i /\ i <= N,
           DOMAIN infos # {},
           \A a, b, c \in DOMAIN infos : IsOrderAt(family, infos[a], infos[b], infos[c])
    PROVE  \E b \in DOMAIN infos :
              /\ Best(family, infos) = infos[b].tile
              /\ \A j \in DOMAIN infos : ~IsBetter(family, infos[j], infos[b])
<1> DEFINE D == DOMAIN infos
           Beats(i, j) == IsBetter(family, infos[i], infos[j])
<1>1. PICK kept : /\ Best(family, infos) = kept[Min(D)]
                  /\ \A i \in D : kept[i] = IF Better(family, infos, i) = {} THEN infos[i].tile
                                           ELSE kept[Min(Better(family, infos, i))]
  BY ScanEquation
<1>2. \A i \in D : ~Beats(i, i)
  BY Zenon DEF IsOrderAt
<1>3. \A i, j, l \in D : Beats(i, j) /\ Beats(j, l) => Beats(i, l)
  BY Zenon DEF IsOrderAt
<1>4. \A i, j, l \in D : Beats(i, l) => Beats(i, j) \/ Beats(j, l)
  BY Zenon DEF IsOrderAt
<1> DEFINE Bad == {i \in D : ~EndsAtBest(family, infos, i, kept[i])}
<1>5. Bad = {}
  <2>1. SUFFICES ASSUME Bad # {} PROVE FALSE
    OBVIOUS
  <2>2. Bad \subseteq 1..N /\ Bad \subseteq D
    BY SMT
  <2>3. PICK i \in Bad : \A y \in Bad : y <= i
    <3> HIDE DEF Bad
    <3>1. QED BY <2>1, <2>2, GreatestPosition, Zenon
  <2>4. i \in D /\ i \in Nat /\ ~EndsAtBest(family, infos, i, kept[i])
    <3>1. i \in D /\ ~EndsAtBest(family, infos, i, kept[i])
      BY <2>3, Zenon
    <3>2. QED BY <3>1
  <2>5. \A j \in D : j > i => EndsAtBest(family, infos, j, kept[j])
    <3>1. \A j \in D : j > i => ~(j <= i)
      BY <2>4
    <3>2. QED BY <2>3, <3>1, Zenon
  <2> HIDE DEF Bad
  <2>6. CASE Better(family, infos, i) = {}
    <3>1. kept[i] = infos[i].tile
      BY <1>1, <2>4, <2>6, Zenon
    <3>2. \A j \in D : i <= j => j = i \/ j > i
      BY <2>4
    <3>3. \A j \in D : i <= j => ~Beats(j, i)
      BY <1>2, <2>4, <2>6, <3>2, Zenon DEF Better
    <3>4. i <= i
      BY <2>4
    <3>5. QED BY <2>4, <3>1, <3>3, <3>4, Zenon DEF EndsAtBest
  <2>7. CASE Better(family, infos, i) # {}
    <3>1. Better(family, infos, i) \subseteq Nat
      BY DEF Better
    <3>2. PICK n : /\ n = Min(Better(family, infos, i))
                   /\ n \in Better(family, infos, i)
                   /\ \A y \in Better(family, infos, i) : n <= y
      BY <2>7, <3>1, MinOfNaturals, Zenon
    <3>3. n \in D /\ n > i /\ Beats(n, i)
      BY <3>2, Zenon DEF Better
    <3>4. kept[i] = kept[n]
      BY <1>1, <2>4, <2>7, <3>2, Zenon
    <3>5. PICK b \in D : /\ n <= b /\ kept[n] = infos[b].tile
                        /\ \A j \in D : n <= j => ~Beats(j, b)
      BY <2>5, <3>3, Zenon DEF EndsAtBest
    <3>6. \A j \in D : i <= j => j = i \/ n <= j \/ (j > i /\ ~(n <= j))
      BY <2>4
    <3>7. n <= n /\ i <= b
      <4>1. n \in Nat /\ b \in Nat
        BY <3>3, <3>5
      <4>2. QED BY <2>4, <3>3, <3>5, <4>1, SMT
    <3>8. ~Beats(i, b)
      <4>1. Beats(i, b) => Beats(n, b)
        BY <1>3, <2>4, <3>3, <3>5, Zenon
      <4>2. QED BY <3>3, <3>5, <3>7, <4>1, Zenon
    <3>9. \A j \in D : j > i /\ ~(n <= j) => ~Beats(j, i)
      BY <3>2, Zenon DEF Better
    <3>10. \A j \in D : j > i /\ ~(n <= j) => ~Beats(j, b)
      <4>1. \A j \in D : Beats(j, b) => Beats(j, i) \/ Beats(i, b)
        BY <1>4, <2>4, <3>5, Zenon
      <4>2. QED BY <3>8, <3>9, <4>1, Zenon
    <3>11. \A j \in D : i <= j => ~Beats(j, b)
      BY <3>5, <3>6, <3>8, <3>10, Zenon
    <3>12. QED BY <2>4, <3>4, <3>5, <3>7, <3>11, Zenon DEF EndsAtBest
  <2>8. QED BY <2>6, <2>7
<1>6. Min(D) \in D /\ \A j \in D : Min(D) <= j
  BY MinOfNaturals, Zenon
<1>7. EndsAtBest(family, infos, Min(D), kept[Min(D)])
  BY <1>5, <1>6, Zenon
<1>8. QED BY <1>1, <1>6, <1>7, Zenon DEF EndsAtBest

-----------------------------------------------------------------------------
(* The candidates *)

Families == {"sm90", "sm100"}
Counts == Nat \ {0}

IsCandidate(family, m, n, k, sms, t) ==
    IF family = "sm90" THEN Sm90IsCandidate(k, sms, t) ELSE Sm100IsCandidate(m, n, sms, t)

LEMMA Sm90Places ==
    ASSUME NEW len \in {3, 4, 5}, NEW i \in Nat, 1 <= i, i <= 3 * (12 * len)
    PROVE  /\ (i - 1) \div (12 * len) + 1 \in {1, 2, 3}
           /\ ((i - 1) % (12 * len)) \div 12 + 1 \in Nat
           /\ ((i - 1) % (12 * len)) \div 12 + 1 >= 1
           /\ ((i - 1) % (12 * len)) \div 12 + 1 <= len
           /\ ((i - 1) % 12) + 1 \in 1..12
<1>1. CASE len = 3 BY <1>1
<1>2. CASE len = 4 BY <1>2
<1>3. CASE len = 5 BY <1>3
<1>4. QED BY <1>1, <1>2, <1>3

LEMMA Sm90BlockMsAreSome ==
    ASSUME NEW m \in Nat
    PROVE  /\ Len(Sm90BlockMs(m)) \in {3, 4, 5}
           /\ \A i \in Nat : 1 <= i /\ i <= Len(Sm90BlockMs(m)) => Sm90BlockMs(m)[i] \in {16, 32, 64, 128, 256}
<1>1. CASE m <= 16
  <2>1. Sm90BlockMs(m) = <<64, 128, 16, 32, 256>>
    BY <1>1 DEF Sm90BlockMs
  <2>2. QED BY <2>1
<1>2. CASE ~(m <= 16) /\ m <= 32
  <2>1. Sm90BlockMs(m) = <<64, 128, 32, 256>>
    BY <1>2 DEF Sm90BlockMs
  <2>2. QED BY <2>1
<1>3. CASE ~(m <= 16) /\ ~(m <= 32)
  <2>1. Sm90BlockMs(m) = <<64, 128, 256>>
    BY <1>3 DEF Sm90BlockMs
  <2>2. QED BY <2>1
<1>4. QED BY <1>1, <1>2, <1>3

LEMMA Sm90TilesAreTiles ==
    ASSUME NEW m \in Nat
    PROVE  /\ \E last \in Nat : DOMAIN Sm90Tiles(m) = 1..last
           /\ \A i \in DOMAIN Sm90Tiles(m) : Sm90Tiles(m)[i] \in Sm90TileSet
<1> DEFINE blockMs == Sm90BlockMs(m)
           len == Len(Sm90BlockMs(m))
<1>1. len \in {3, 4, 5}
  BY Sm90BlockMsAreSome
<1>2. DOMAIN Sm90Tiles(m) = 1..3 * (12 * len)
  BY Zenon DEF Sm90Tiles
<1>3. 3 * (12 * len) \in Nat
  BY <1>1
<1>4. ASSUME NEW i \in DOMAIN Sm90Tiles(m) PROVE Sm90Tiles(m)[i] \in Sm90TileSet
  <2> DEFINE c == (i - 1) \div (12 * len) + 1
             b == ((i - 1) % (12 * len)) \div 12 + 1
             j == ((i - 1) % 12) + 1
  <2>1. i \in Nat /\ 1 <= i /\ i <= 3 * (12 * len)
    BY <1>2, <1>3, <1>4
  <2>2. c \in {1, 2, 3} /\ b \in Nat /\ 1 <= b /\ b <= len /\ j \in 1..12
    BY <1>1, <2>1, Sm90Places
  <2>3. Sm90Tiles(m)[i] = Tile(FALSE, blockMs[b], 16 * j, Clusters[c][1], Clusters[c][2])
    BY <1>2, <1>4, Zenon DEF Sm90Tiles
  <2> HIDE DEF c, b, j
  <2>4. blockMs[b] \in {16, 32, 64, 128, 256}
    BY <2>2, Sm90BlockMsAreSome, Zenon
  <2>5. /\ Clusters[c][1] \in 1..2 /\ Clusters[c][2] \in 1..2
        /\ Clusters[c][1] = 1 \/ Clusters[c][2] = 1
    BY <2>2 DEF Clusters
  <2>6. 16 * j \in {16, 32, 48, 64, 80, 96, 112, 128, 144, 160, 176, 192}
    BY <2>2
  <2>7. QED BY <2>3, <2>4, <2>5, <2>6 DEF Sm90TileSet, TileSet, Tile
<1>5. QED BY <1>2, <1>3, <1>4, Zenon

LEMMA SeqOfFunction ==
    ASSUME NEW S, NEW len \in Nat, NEW f \in [1..len -> S]
    PROVE  f \in Seq(S)
  OBVIOUS

LEMMA Sm100BlockNsAreSome ==
    ASSUME NEW k \in Nat
    PROVE  Sm100BlockNs(k) \in Seq({16, 32, 64, 96, 128, 160, 192, 224, 256})
<1> DEFINE S == {16, 32, 64, 96, 128, 160, 192, 224, 256}
           len == IF k <= 256 THEN 4 ELSE 8
<1>1. <<16>> \in Seq(S)
  OBVIOUS
<1>2. [j \in 1..len |-> 32 * j] \in Seq(S)
  <2>1. \A j \in 1..len : 32 * j \in S
    OBVIOUS
  <2>2. [j \in 1..len |-> 32 * j] \in [1..len -> S]
    <3> HIDE DEF len, S
    <3>1. QED BY <2>1, Zenon
  <2>3. len \in Nat
    OBVIOUS
  <2> HIDE DEF len, S
  <2>4. QED BY <2>2, <2>3
<1> HIDE DEF S
<1>3. QED BY <1>1, <1>2 DEF Sm100BlockNs

Sm100Unswapped(m, k, c) ==
    [j \in DOMAIN Sm100BlockNs(k) |-> Tile(FALSE, Sm100BlockM(m), Sm100BlockNs(k)[j], c, 1)]
Sm100Swapped(c) == [j \in 1..16 |-> Tile(TRUE, 16 * j, 128, 1, c)]

LEMMA Sm100LoopsAreTiles ==
    ASSUME NEW m \in Nat, NEW k \in Nat
    PROVE  /\ \A c \in 1..2 : Sm100Unswapped(m, k, c) \in Seq(Sm100TileSet)
           /\ \A c \in 1..2 : Sm100Swapped(c) \in Seq(Sm100TileSet)
<1> DEFINE S == {16, 32, 64, 96, 128, 160, 192, 224, 256}
           sizes == Sm100BlockNs(k)
<1>1. sizes \in Seq(S)
  BY Sm100BlockNsAreSome
<1>2. Sm100BlockM(m) \in {32, 64, 128}
  BY DEF Sm100BlockM
<1>3. ASSUME NEW c \in 1..2 PROVE Sm100Unswapped(m, k, c) \in Seq(Sm100TileSet)
  <2>1. DOMAIN sizes = 1..Len(sizes) /\ Len(sizes) \in Nat
    BY <1>1
  <2>2. ASSUME NEW j \in DOMAIN sizes PROVE Tile(FALSE, Sm100BlockM(m), sizes[j], c, 1) \in Sm100TileSet
    <3>1. sizes[j] \in S
      BY <1>1
    <3> HIDE DEF sizes
    <3>2. QED BY <1>2, <3>1 DEF Sm100TileSet, TileSet, Tile
  <2> HIDE DEF sizes
  <2>3. Sm100Unswapped(m, k, c) = [j \in DOMAIN sizes |-> Tile(FALSE, Sm100BlockM(m), sizes[j], c, 1)]
    BY Zenon DEF Sm100Unswapped, sizes
  <2>4. Sm100Unswapped(m, k, c) \in [1..Len(sizes) -> Sm100TileSet]
    BY <2>1, <2>2, <2>3
  <2>5. QED BY <2>1, <2>4, SeqOfFunction, Zenon
<1>4. ASSUME NEW c \in 1..2 PROVE Sm100Swapped(c) \in Seq(Sm100TileSet)
  <2>1. ASSUME NEW j \in 1..16 PROVE Tile(TRUE, 16 * j, 128, 1, c) \in Sm100TileSet
    <3>1. 16 * j \in {16, 32, 48, 64, 80, 96, 112, 128, 144, 160, 176, 192, 208, 224, 240, 256}
      OBVIOUS
    <3>2. QED BY <3>1 DEF Sm100TileSet, TileSet, Tile
  <2>2. Sm100Swapped(c) \in [1..16 -> Sm100TileSet]
    BY <2>1 DEF Sm100Swapped
  <2>3. 16 \in Nat
    OBVIOUS
  <2>4. QED BY <2>2, <2>3, SeqOfFunction, Zenon
<1>5. QED BY <1>3, <1>4

LEMMA Sm100TilesAreLoops ==
    ASSUME NEW m \in Nat, NEW k \in Nat
    PROVE  \E s1, s2, s3, s4 \in Seq(Sm100TileSet) :
              s1 = Sm100Unswapped(m, k, 1) /\ Sm100Tiles(m, k) = s1 \o s2 \o s3 \o s4
<1> DEFINE s1 == Sm100Unswapped(m, k, 1)
           s2 == Sm100Unswapped(m, k, 2)
           s3 == Sm100Swapped(1)
           s4 == Sm100Swapped(2)
<1>1. 1 \in 1..2 /\ 2 \in 1..2
  OBVIOUS
<1>2. s1 \in Seq(Sm100TileSet)
  BY <1>1, Sm100LoopsAreTiles, Zenon
<1>3. s2 \in Seq(Sm100TileSet)
  BY <1>1, Sm100LoopsAreTiles, Zenon
<1>4. s3 \in Seq(Sm100TileSet)
  BY <1>1, Sm100LoopsAreTiles, Zenon
<1>5. s4 \in Seq(Sm100TileSet)
  BY <1>1, Sm100LoopsAreTiles, Zenon
<1>6. Sm100Tiles(m, k) = s1 \o s2 \o s3 \o s4
  BY Zenon DEF Sm100Tiles, Sm100Unswapped, Sm100Swapped
<1>7. s1 = Sm100Unswapped(m, k, 1)
  OBVIOUS
<1> HIDE DEF s1, s2, s3, s4
<1>8. QED BY <1>2, <1>3, <1>4, <1>5, <1>6, <1>7, Zenon

LEMMA Sm100TilesAreTiles ==
    ASSUME NEW m \in Nat, NEW k \in Nat
    PROVE  Sm100Tiles(m, k) \in Seq(Sm100TileSet)
<1>1. \A s1, s2, s3, s4 \in Seq(Sm100TileSet) : s1 \o s2 \o s3 \o s4 \in Seq(Sm100TileSet)
  OBVIOUS
<1>2. PICK s1, s2, s3, s4 \in Seq(Sm100TileSet) :
         s1 = Sm100Unswapped(m, k, 1) /\ Sm100Tiles(m, k) = s1 \o s2 \o s3 \o s4
  BY Sm100TilesAreLoops, Zenon
<1>3. QED BY <1>1, <1>2

\* What the loops reach and do not skip.
LEMMA CandidatesAreTiles ==
    ASSUME NEW family \in Families, NEW m \in Nat, NEW n, NEW k \in Nat, NEW sms
    PROVE  LET candidates == Candidates(family, m, n, k, sms) IN
           /\ \E last \in Nat : /\ DOMAIN candidates \subseteq Nat
                                /\ \A i \in DOMAIN candidates : 1 <= i /\ i <= last
           /\ \A i \in DOMAIN candidates :
                 candidates[i] \in TilesOf(family) /\ IsCandidate(family, m, n, k, sms, candidates[i])
<1> DEFINE candidates == Candidates(family, m, n, k, sms)
           Conclusion == /\ \E last \in Nat : /\ DOMAIN candidates \subseteq Nat
                                              /\ \A i \in DOMAIN candidates : 1 <= i /\ i <= last
                         /\ \A i \in DOMAIN candidates :
                               candidates[i] \in TilesOf(family)
                                  /\ IsCandidate(family, m, n, k, sms, candidates[i])
<1>1. CASE family = "sm90"
  <2> DEFINE tiles == Sm90Tiles(m)
             S == {i \in DOMAIN tiles : Sm90IsCandidate(k, sms, tiles[i])}
  <2>1. candidates = [i \in S |-> tiles[i]]
    BY <1>1, Zenon DEF Candidates, RestrictValues, Restrict
  <2>2. PICK last \in Nat : DOMAIN tiles = 1..last
    BY Sm90TilesAreTiles
  <2>3. \A i \in DOMAIN tiles : tiles[i] \in TilesOf(family)
    BY <1>1, Sm90TilesAreTiles, Zenon DEF TilesOf
  <2>4. \A i \in DOMAIN tiles : i \in Nat /\ 1 <= i /\ i <= last
    BY <2>2
  <2> HIDE DEF tiles, candidates
  <2>5. DOMAIN candidates = S /\ \A i \in S : candidates[i] = tiles[i]
    BY <2>1
  <2>6. QED BY <1>1, <2>3, <2>4, <2>5, Zenon DEF IsCandidate, candidates
<1>2. CASE family = "sm100"
  <2> DEFINE tiles == Sm100Tiles(m, k)
             S == {i \in DOMAIN tiles : Sm100IsCandidate(m, n, sms, tiles[i])}
  <2>1. candidates = [i \in S |-> tiles[i]]
    BY <1>2, Zenon DEF Candidates, RestrictValues, Restrict
  <2>2. tiles \in Seq(Sm100TileSet)
    BY Sm100TilesAreTiles
  <2>3. \A i \in DOMAIN tiles : tiles[i] \in TilesOf(family)
    BY <1>2, <2>2 DEF TilesOf
  <2>4. Len(tiles) \in Nat /\ \A i \in DOMAIN tiles : i \in Nat /\ 1 <= i /\ i <= Len(tiles)
    BY <2>2
  <2> HIDE DEF tiles, candidates
  <2>5. DOMAIN candidates = S /\ \A i \in S : candidates[i] = tiles[i]
    BY <2>1
  <2>6. QED BY <1>2, <2>3, <2>4, <2>5, Zenon DEF IsCandidate, candidates
<1>3. QED BY <1>1, <1>2 DEF Families

-----------------------------------------------------------------------------
(* The choice *)

Info(family, m, n, k, sms, t) ==
    IF family = "sm90" THEN Sm90Info(m, n, k, sms, t) ELSE Sm100Info(m, n, sms, t)

LEMMA CyclesAreNatural ==
    ASSUME NEW m \in Nat \ {0}, NEW n \in Nat \ {0}, NEW k \in Nat, NEW sms \in Nat \ {0},
           NEW t \in Sm90TileSet
    PROVE  Cycles(m, n, k, sms, t) \in Nat
<1> DEFINE cd == (t.block_m * t.block_n) \div 4
           x2 == (t.block_m \div t.cluster_n + t.block_n \div t.cluster_m) \div 8
           x1 == (t.block_m + t.block_n + Greater(64, t.block_m) + t.block_n) \div 8
           l2 == k * x2 + cd
           l1 == k * x1 + 2 * cd
           w == Waves(m, n, sms, t)
           cost == IF 64 * sms * 13 <= 80000 THEN Greater(l1, 2 * l2) ELSE Greater(625 * l1, 13 * sms * l2)
<1>1. /\ t.block_m \in Nat \ {0} /\ t.block_n \in Nat \ {0} /\ t \in TileSet
      /\ t.cluster_m \in 1..2 /\ t.cluster_n \in 1..2
  BY DEF Sm90TileSet, TileSet
<1>2. w \in Nat
  <2>1. Blocks(m, n, t) \in Nat \ {0}
    BY <1>1, BlocksArePositive
  <2>2. QED BY <2>1, CeilDivBounds DEF Waves
<1>3. \A i, j \in Nat : i * j \in Nat /\ i + j \in Nat /\ Greater(i, j) \in Nat
  BY DEF Greater
<1>4. \A i \in Nat, j \in 1..8 : i \div j \in Nat
  OBVIOUS
<1>5. cd \in Nat /\ x2 \in Nat /\ x1 \in Nat
  <2>1. t.block_m * t.block_n \in Nat
    BY <1>1, <1>3
  <2>2. cd \in Nat
    BY <1>4, <2>1
  <2>3. t.block_m \div t.cluster_n \in Nat /\ t.block_n \div t.cluster_m \in Nat
    BY <1>1, <1>4
  <2>4. x2 \in Nat
    BY <2>3
  <2>5. Greater(64, t.block_m) \in Nat
    BY <1>1 DEF Greater
  <2>6. x1 \in Nat
    BY <1>1, <2>5
  <2>7. QED BY <2>2, <2>4, <2>6
<1> HIDE DEF cd, x1, x2
<1>6. l1 \in Nat /\ l2 \in Nat
  BY <1>3, <1>5
<1> HIDE DEF l1, l2
<1>7. 2 * l2 \in Nat /\ 625 * l1 \in Nat /\ 13 * sms * l2 \in Nat
  <2>1. 13 * sms \in Nat
    OBVIOUS
  <2>2. QED BY <1>3, <1>6, <2>1
<1>8. cost \in Nat
  <2>1. Greater(l1, 2 * l2) \in Nat /\ Greater(625 * l1, 13 * sms * l2) \in Nat
    BY <1>6, <1>7 DEF Greater
  <2>2. QED BY <2>1, SMT
<1> HIDE DEF cost
<1>9. Cycles(m, n, k, sms, t) = w * cost
  BY SMT DEF Cycles, cost, l1, l2, cd, x1, x2
<1> HIDE DEF w
<1>10. QED BY <1>2, <1>3, <1>8, <1>9, Zenon

LEMMA InfoIsInfo ==
    ASSUME NEW family \in Families, NEW m \in Counts, NEW n \in Counts,
           NEW k \in Nat, NEW sms \in Counts, NEW t \in TilesOf(family)
    PROVE  /\ family = "sm90" => Info(family, m, n, k, sms, t) \in Sm90Infos
           /\ family = "sm100" => Info(family, m, n, k, sms, t) \in Sm100Infos
           /\ Info(family, m, n, k, sms, t).tile = t
<1>1. CASE family = "sm90"
  <2>1. t \in Sm90TileSet /\ t \in TileSet
    BY <1>1 DEF TilesOf, Sm90TileSet
  <2>2. Cycles(m, n, k, sms, t) \in Nat
    BY <2>1, CyclesAreNatural DEF Counts
  <2>3. Info(family, m, n, k, sms, t)
            = [tile |-> t, finite |-> ~(ClusterSize(t) > 1 /\ Waves(m, n, sms, t) <= 1),
               cycles |-> Cycles(m, n, k, sms, t)]
    BY <1>1, Zenon DEF Info, Sm90Info
  <2>4. PICK finite \in BOOLEAN : finite = ~(ClusterSize(t) > 1 /\ Waves(m, n, sms, t) <= 1)
    OBVIOUS
  <2>5. Info(family, m, n, k, sms, t) \in Sm90Infos
    BY <2>1, <2>2, <2>3, <2>4 DEF Sm90Infos
  <2>6. QED BY <1>1, <2>3, <2>5
<1>2. CASE family = "sm100"
  <2>1. t \in Sm100TileSet
    BY <1>2 DEF TilesOf
  <2>2. Sm100Info(m, n, sms, t) \in Sm100Infos
    BY <2>1, Sm100InfoIsInfo DEF Counts
  <2>3. Info(family, m, n, k, sms, t) = Sm100Info(m, n, sms, t)
    BY <1>2 DEF Info
  <2>4. Sm100Info(m, n, sms, t).tile = t
    BY DEF Sm100Info
  <2>5. QED BY <1>2, <2>2, <2>3, <2>4
<1>3. QED BY <1>1, <1>2 DEF Families

LEMMA BetterIsOrder ==
    ASSUME NEW family \in Families, NEW m \in Counts, NEW n \in Counts,
           NEW k \in Nat, NEW sms \in Counts,
           NEW t \in TilesOf(family), NEW u \in TilesOf(family), NEW v \in TilesOf(family)
    PROVE  IsOrderAt(family, Info(family, m, n, k, sms, t), Info(family, m, n, k, sms, u),
                     Info(family, m, n, k, sms, v))
<1> DEFINE a == Info(family, m, n, k, sms, t)
           b == Info(family, m, n, k, sms, u)
           c == Info(family, m, n, k, sms, v)
<1>1. CASE family = "sm90"
  <2>1. a \in Sm90Infos /\ b \in Sm90Infos /\ c \in Sm90Infos
    BY <1>1, InfoIsInfo
  <2> HIDE DEF a, b, c
  <2>2. /\ ~Sm90IsBetter(a, a)
        /\ Sm90IsBetter(a, b) /\ Sm90IsBetter(b, c) => Sm90IsBetter(a, c)
        /\ Sm90IsBetter(a, c) => Sm90IsBetter(a, b) \/ Sm90IsBetter(b, c)
    BY <2>1, Sm90BetterIsOrder, Zenon
  <2>3. QED BY <1>1, <2>2, Zenon DEF IsOrderAt, IsBetter, a, b, c
<1>2. CASE family = "sm100"
  <2>1. a \in Sm100Infos /\ b \in Sm100Infos /\ c \in Sm100Infos
    BY <1>2, InfoIsInfo
  <2> HIDE DEF a, b, c
  <2>2. /\ ~Sm100IsBetter(a, a)
        /\ Sm100IsBetter(a, b) /\ Sm100IsBetter(b, c) => Sm100IsBetter(a, c)
        /\ Sm100IsBetter(a, c) => Sm100IsBetter(a, b) \/ Sm100IsBetter(b, c)
    BY <2>1, Sm100BetterIsOrder, Zenon
  <2>3. family # "sm90"
    BY <1>2
  <2>4. QED BY <2>2, <2>3, Zenon DEF IsOrderAt, IsBetter, a, b, c
<1>3. QED BY <1>1, <1>2 DEF Families

\* What fp8_gemm_nt launches, for every shape and number of SMs for which a loop finds a
\* candidate: a candidate, and one that no other is better than, though the scan compares
\* each with the best so far only (deepgemm_raw_gemm.cc:549, 731).
THEOREM ChoiceIsBest ==
    ASSUME NEW family \in Families, NEW m \in Counts, NEW n \in Counts,
           NEW k \in Nat, NEW sms \in Counts,
           BestConfig(family, m, n, k, sms) # NoConfig
    PROVE  LET candidates == Candidates(family, m, n, k, sms) IN
           \E b \in DOMAIN candidates :
              /\ BestConfig(family, m, n, k, sms) = Configured(family, k, candidates[b])
              /\ candidates[b] \in TilesOf(family)
              /\ IsCandidate(family, m, n, k, sms, candidates[b])
              /\ \A j \in DOMAIN candidates :
                    ~IsBetter(family, Info(family, m, n, k, sms, candidates[j]),
                                      Info(family, m, n, k, sms, candidates[b]))
<1> DEFINE candidates == Candidates(family, m, n, k, sms)
           infos == [i \in DOMAIN candidates |-> Info(family, m, n, k, sms, candidates[i])]
           D == DOMAIN candidates
<1>0. m \in Nat
  BY DEF Counts
<1>1. PICK last \in Nat : D \subseteq Nat /\ \A i \in D : 1 <= i /\ i <= last
  BY <1>0, CandidatesAreTiles, Zenon
<1>2. \A i \in D : /\ candidates[i] \in TilesOf(family)
                   /\ IsCandidate(family, m, n, k, sms, candidates[i])
  BY <1>0, CandidatesAreTiles, Zenon
<1>3. D # {}
  BY Zenon DEF BestConfig
<1>4. BestConfig(family, m, n, k, sms) = Configured(family, k, Best(family, infos))
  <2>1. BestConfig(family, m, n, k, sms)
            = Configured(family, k, BestTile(family, m, n, k, sms, candidates))
    BY <1>3, Zenon DEF BestConfig
  <2>2. BestTile(family, m, n, k, sms, candidates) = Best(family, infos)
    BY Zenon DEF BestTile, Info
  <2>3. QED BY <2>1, <2>2, Zenon
<1>5. DOMAIN infos = D /\ \A i \in D : infos[i] = Info(family, m, n, k, sms, candidates[i])
  BY Zenon
<1> HIDE DEF infos, D
<1>6. \A a, b, c \in D : IsOrderAt(family, infos[a], infos[b], infos[c])
  <2> HIDE DEF candidates
  <2> SUFFICES ASSUME NEW a \in D, NEW b \in D, NEW c \in D
      PROVE  IsOrderAt(family, infos[a], infos[b], infos[c])
    BY Zenon
  <2>1. PICK t \in TilesOf(family), u \in TilesOf(family), v \in TilesOf(family) :
            t = candidates[a] /\ u = candidates[b] /\ v = candidates[c]
    BY <1>2, Zenon
  <2>2. /\ infos[a] = Info(family, m, n, k, sms, t)
        /\ infos[b] = Info(family, m, n, k, sms, u)
        /\ infos[c] = Info(family, m, n, k, sms, v)
    BY <1>5, <2>1, Zenon
  <2>3. IsOrderAt(family, Info(family, m, n, k, sms, t), Info(family, m, n, k, sms, u),
                  Info(family, m, n, k, sms, v))
    BY BetterIsOrder
  <2>4. QED BY <2>2, <2>3, Zenon
<1>7. PICK b \in D : /\ Best(family, infos) = infos[b].tile
                     /\ \A j \in D : ~IsBetter(family, infos[j], infos[b])
  <2>1. PICK is : is = infos
    OBVIOUS
  <2>2. /\ DOMAIN is \subseteq Nat /\ DOMAIN is # {}
        /\ \A i \in DOMAIN is : 1 <= i /\ i <= last
    BY <1>1, <1>3, <1>5, <2>1, Zenon
  <2>3. \A a, b, c \in DOMAIN is : IsOrderAt(family, is[a], is[b], is[c])
    BY <1>5, <1>6, <2>1, Zenon
  <2>4. \E b \in DOMAIN is : /\ Best(family, is) = is[b].tile
                             /\ \A j \in DOMAIN is : ~IsBetter(family, is[j], is[b])
    BY <2>2, <2>3, ScanEndsAtBest, Zenon
  <2>5. QED BY <1>5, <2>1, <2>4, Zenon
<1>8. infos[b].tile = candidates[b]
  <2> HIDE DEF candidates
  <2>1. PICK t \in TilesOf(family) : t = candidates[b]
    BY <1>2, <1>7, Zenon
  <2>2. infos[b] = Info(family, m, n, k, sms, t)
    BY <1>5, <1>7, <2>1, Zenon
  <2>3. Info(family, m, n, k, sms, t).tile = t
    BY InfoIsInfo
  <2>4. QED BY <2>1, <2>2, <2>3, Zenon
<1>9. QED BY <1>2, <1>4, <1>5, <1>7, <1>8, Zenon DEF D

-----------------------------------------------------------------------------
(* When there is a choice *)

LEMMA CandidateIsEnough ==
    ASSUME NEW family, NEW m, NEW n, NEW k, NEW sms,
           DOMAIN Candidates(family, m, n, k, sms) # {}
    PROVE  BestConfig(family, m, n, k, sms) # NoConfig
<1> DEFINE tile == BestTile(family, m, n, k, sms, Candidates(family, m, n, k, sms))
           config == Configured(family, k, tile)
<1>1. BestConfig(family, m, n, k, sms) = config
  BY Zenon DEF BestConfig
<1>2. "threads" \in DOMAIN config
  <2> HIDE DEF tile
  <2>1. QED BY DEF Configured
<1>3. "threads" \notin DOMAIN NoConfig
  BY DEF NoConfig
<1>4. QED BY <1>1, <1>2, <1>3, Zenon

\* On SM100 the heuristics never come out empty.
THEOREM Sm100Chooses ==
    ASSUME NEW m \in Nat \ {0}, NEW n \in Nat \ {0}, NEW k \in Nat, NEW sms \in Nat \ {0}
    PROVE  BestConfig("sm100", m, n, k, sms) # NoConfig
<1> DEFINE tiles == Sm100Tiles(m, k)
           t == Tile(FALSE, Sm100BlockM(m), 16, 1, 1)
           sizes == Sm100BlockNs(k)
<1>1. 1 \in DOMAIN tiles /\ tiles[1] = t
  <2>1. 1 \in DOMAIN sizes /\ sizes[1] = 16
    <3> DEFINE len == IF k <= 256 THEN 4 ELSE 8
               more == [j \in 1..len |-> 32 * j]
    <3>1. more \in Seq(Nat)
      <4>1. len \in Nat
        OBVIOUS
      <4> HIDE DEF len
      <4>2. \A j \in 1..len : 32 * j \in Nat
        BY <4>1
      <4>3. more \in [1..len -> Nat]
        BY <4>2
      <4> HIDE DEF more
      <4>4. QED BY <4>1, <4>3, SeqOfFunction, Zenon
    <3>2. sizes = <<16>> \o more
      BY DEF Sm100BlockNs
    <3> HIDE DEF more, sizes
    <3>3. QED BY <3>1, <3>2
  <2>2. PICK s1, s2, s3, s4 \in Seq(Sm100TileSet) :
            s1 = Sm100Unswapped(m, k, 1) /\ tiles = s1 \o s2 \o s3 \o s4
    BY Sm100TilesAreLoops, Zenon
  <2>3. 1 \in DOMAIN s1 /\ s1[1] = t
    BY <2>1, <2>2 DEF Sm100Unswapped
  <2> HIDE DEF tiles, t
  <2>4. QED BY <2>2, <2>3
<1>2. t \in Sm100TileSet
  BY DEF Sm100TileSet, TileSet, Tile, Sm100BlockM
<1>3. Sm100IsCandidate(m, n, sms, t)
  BY <1>2, Sm100HasCandidate DEF Tile
<1>4. 1 \in DOMAIN Candidates("sm100", m, n, k, sms)
  <2>1. "sm100" # "sm90"
    OBVIOUS
  <2>2. QED BY <1>1, <1>3, <2>1, Zenon DEF Candidates, RestrictValues, Restrict
<1>5. QED BY <1>4, CandidateIsEnough, Zenon

\* On SM90 there is a choice as long as the scales of b leave room for four stages of the
\* smallest tile, whose rows are fewer when m is small (deepgemm_raw_gemm.cc:507).
SmallestTile(m) == Tile(FALSE, IF m <= 16 THEN 16 ELSE IF m <= 32 THEN 32 ELSE 64, 16, 1, 1)

THEOREM Sm90Chooses ==
    ASSUME NEW m \in Nat \ {0}, NEW n, NEW k \in Nat, NEW sms \in Nat \ {0},
           Sm90Once(k, SmallestTile(m)) + 4 * Sm90Stage(SmallestTile(m)) <= Capacity
    PROVE  BestConfig("sm90", m, n, k, sms) # NoConfig
<1> DEFINE tiles == Sm90Tiles(m)
           blockMs == Sm90BlockMs(m)
           len == Len(Sm90BlockMs(m))
           t == SmallestTile(m)
           at == IF m <= 32 THEN 25 ELSE 1
<1>1. at \in DOMAIN tiles /\ tiles[at] = t
  <2>1. len \in {3, 4, 5}
    BY Sm90BlockMsAreSome
  <2>2. DOMAIN tiles = 1..3 * (12 * len)
    BY Zenon DEF Sm90Tiles
  <2>3. at \in DOMAIN tiles
    BY <2>1, <2>2
  <2>4. /\ (at - 1) \div (12 * len) = 0
        /\ ((at - 1) % (12 * len)) \div 12 = IF m <= 32 THEN 2 ELSE 0
        /\ (at - 1) % 12 = 0
    <3>1. CASE len = 3 BY <3>1
    <3>2. CASE len = 4 BY <3>2
    <3>3. CASE len = 5 BY <3>3
    <3>4. QED BY <2>1, <3>1, <3>2, <3>3
  <2>5. tiles[at] = LET c == Clusters[(at - 1) \div (12 * len) + 1]
                    IN Tile(FALSE, blockMs[((at - 1) % (12 * len)) \div 12 + 1],
                            16 * (((at - 1) % 12) + 1), c[1], c[2])
    <3> HIDE DEF at
    <3>1. QED BY <2>3, Zenon DEF Sm90Tiles
  <2>6. blockMs[(IF m <= 32 THEN 2 ELSE 0) + 1] = IF m <= 16 THEN 16 ELSE IF m <= 32 THEN 32 ELSE 64
    <3>1. CASE m <= 16
      BY <3>1 DEF Sm90BlockMs
    <3>2. CASE ~(m <= 16) /\ m <= 32
      BY <3>2 DEF Sm90BlockMs
    <3>3. CASE ~(m <= 16) /\ ~(m <= 32)
      BY <3>3 DEF Sm90BlockMs
    <3>4. QED BY <3>1, <3>2, <3>3
  <2>7. Clusters[0 + 1][1] = 1 /\ Clusters[0 + 1][2] = 1
    BY DEF Clusters
  <2> HIDE DEF blockMs, len, at, tiles
  <2>8. tiles[at] = Tile(FALSE, blockMs[(IF m <= 32 THEN 2 ELSE 0) + 1], 16 * (0 + 1), 1, 1)
    BY <2>4, <2>5, <2>7, Zenon
  <2>9. 16 * (0 + 1) = 16
    OBVIOUS
  <2>10. QED BY <2>3, <2>6, <2>8, <2>9, Zenon DEF SmallestTile
<1>2. /\ t.block_m \in {16, 32, 64} /\ t.block_n = 16
      /\ t.cluster_m = 1 /\ t.cluster_n = 1
  BY DEF SmallestTile, Tile
<1>3. Sm90Stage(t) \in Nat \ {0}
  <2>1. AlignUp(t.block_m * 4, 128) \in Nat
    BY <1>2 DEF AlignUp
  <2>2. QED BY <1>2, <2>1 DEF Sm90Stage, BlockK
<1>4. Sm90Once(k, t) \in Int
  <2>1. CeilDiv(k, BlockK) \in Nat
    BY DEF CeilDiv, BlockK
  <2>2. PICK rows \in Nat : rows = IF BlockK % t.block_n = 0 THEN 1 ELSE 2
    OBVIOUS
  <2>3. CeilDiv(k, BlockK) * 4 * rows \in Nat
    BY <2>1
  <2>4. AlignUp(CeilDiv(k, BlockK) * 4 * rows, 8) \in Nat
    BY <2>3, AlignUpBounds
  <2>5. AlignUp(t.block_m * t.block_n * 2, 1024) \in Nat
    BY <1>2 DEF AlignUp
  <2>6. Sm90Once(k, t) = AlignUp(t.block_m * t.block_n * 2, 1024) + 16 * 8 * 2
                            + AlignUp(CeilDiv(k, BlockK) * 4 * rows, 8)
    BY <2>2, SMT DEF Sm90Once
  <2> HIDE DEF t
  <2>7. QED BY <2>4, <2>5, <2>6
<1>5. Sm90Pipeline(k, t).stages \in Int /\ Sm90Pipeline(k, t).stages >= 4
  <2>1. PICK once \in Int, stage \in Nat \ {0} : once = Sm90Once(k, t) /\ stage = Sm90Stage(t)
    BY <1>3, <1>4, Zenon
  <2>2. once + 4 * stage <= Capacity
    BY <2>1, Zenon
  <2>3. /\ Pipeline(once, stage, 16).stages \in Int
        /\ Pipeline(once, stage, 16).stages >= 4
    <3>1. 4 \in Nat /\ 16 \in Nat /\ 4 <= 16
      OBVIOUS
    <3>2. QED BY <2>2, <3>1, PipelineFits, Zenon
  <2>4. Sm90Pipeline(k, t) = Pipeline(once, stage, 16)
    BY <2>1, Zenon DEF Sm90Pipeline
  <2>5. QED BY <2>3, <2>4, Zenon
<1>6. Sm90IsCandidate(k, sms, t)
  <2>1. ClusterSize(t) = 1
    BY <1>2 DEF ClusterSize
  <2> HIDE DEF t
  <2>2. QED BY <1>2, <1>5, <2>1 DEF Sm90IsCandidate, BlockK
<1>7. at \in DOMAIN Candidates("sm90", m, n, k, sms)
  <2> HIDE DEF at, t
  <2>1. QED BY <1>1, <1>6, Zenon DEF Candidates, RestrictValues, Restrict
<1>8. QED BY <1>7, CandidateIsEnough, Zenon

=============================================================================
