--------------------------- MODULE TokenLedgerProofs ---------------------------
(* Proofs about the token ledger, for any models, amounts, windows, days and retentions and any number
   of usages, dumps, queries, crashes and restarts. *)
EXTENDS TokenLedger, FiniteSetTheorems, WellFoundedInduction, TLAPS

-----------------------------------------------------------------------------
(* 1. Sums.  A sum is the number of its units: amount k of x is the units <<x, 1>> to <<x, k>>, so that
   an injection of units into units compares two sums.                     *)

Units(f) == UNION {{x} \X (1..f[x]) : x \in DOMAIN f}

LEMMA UnitsOfOneAmount ==
  ASSUME NEW a, NEW n \in Nat
  PROVE  IsFiniteSet({a} \X (1..n)) /\ Cardinality({a} \X (1..n)) = n
<1>. DEFINE A == {a}
            N == 1..n
<1>1. IsFiniteSet(A) /\ Cardinality(A) = 1
  BY FS_Singleton
<1>2. IsFiniteSet(N) /\ Cardinality(N) = n
  BY FS_Interval
<1>. HIDE DEF A, N
<1>3. IsFiniteSet(A \X N) /\ Cardinality(A \X N) = Cardinality(A) * Cardinality(N)
  BY <1>1, <1>2, FS_Product, Zenon
<1>4. Cardinality(A \X N) = n
  BY <1>1, <1>2, <1>3
<1>. QED  BY <1>3, <1>4 DEF A, N

LEMMA UnitsAreCounted ==
  ASSUME NEW S, NEW f \in [S -> Nat]
  PROVE  /\ Tokens(f) = Cardinality(Units(f))
         /\ \A u : u \in Units(f) <=> /\ u = <<u[1], u[2]>>
                                      /\ u[1] \in S /\ u[2] \in 1..f[u[1]]
         /\ \A x, k : <<x, k>> \in Units(f) <=> x \in S /\ k \in 1..f[x]
<1>1. Tokens(f) = Cardinality(Units(f))
  BY Zenon DEF Tokens, Units
<1>2. ASSUME NEW u
      PROVE  u \in Units(f) <=> \E x \in S : u \in {x} \X (1..f[x])
  BY DEF Units
<1>3. ASSUME NEW u
      PROVE  u \in Units(f) <=> /\ u = <<u[1], u[2]>> /\ u[1] \in S /\ u[2] \in 1..f[u[1]]
  BY <1>2
<1>4. ASSUME NEW x, NEW k
      PROVE  <<x, k>> \in Units(f) <=> x \in S /\ k \in 1..f[x]
  BY <1>3
<1>. QED  BY <1>1, <1>3, <1>4

LEMMA TokensAreFinite ==
  ASSUME NEW S, IsFiniteSet(S), NEW f \in [S -> Nat]
  PROVE  IsFiniteSet(Units(f)) /\ Tokens(f) \in Nat
<1>. DEFINE part == [x \in S |-> {x} \X (1..f[x])]
            parts == {{x} \X (1..f[x]) : x \in S}
<1>1. part \in Surjection(S, parts)
  BY DEF Surjection
<1>2. IsFiniteSet(parts)
  <2>. HIDE DEF part, parts
  <2>. QED  BY <1>1, FS_Surjection
<1>3. \A p \in parts : IsFiniteSet(p)
  <2>1. ASSUME NEW x \in S
        PROVE  IsFiniteSet({x} \X (1..f[x]))
    <3>1. f[x] \in Nat
      OBVIOUS
    <3>. QED  BY <3>1, UnitsOfOneAmount
  <2>. QED  BY <2>1
<1>4. Units(f) = UNION parts
  BY Zenon DEF Units
<1>5. IsFiniteSet(Units(f))
  <2>. HIDE DEF parts
  <2>. QED  BY <1>2, <1>3, <1>4, FS_UNION
<1>. QED  BY <1>5, UnitsAreCounted, FS_CardinalityType

(* Each amount has its own larger one in another sum. *)
LEMMA TokensInto ==
  ASSUME NEW S, IsFiniteSet(S), NEW f \in [S -> Nat],
         NEW T, IsFiniteSet(T), NEW g \in [T -> Nat],
         NEW j \in Injection(S, T), \A x \in S : f[x] <= g[j[x]]
  PROVE  Tokens(f) <= Tokens(g)
<1>. DEFINE into == [u \in Units(f) |-> <<j[u[1]], u[2]>>]
<1>1. j \in [S -> T] /\ \A x, y \in S : j[x] = j[y] => x = y
  BY DEF Injection, IsInjective
<1>2. ASSUME NEW u \in Units(f)
      PROVE  into[u] \in Units(g) /\ into[u] = <<j[u[1]], u[2]>>
  <2>1. u[1] \in S /\ u[2] \in 1..f[u[1]]
    BY UnitsAreCounted
  <2>2. j[u[1]] \in T /\ u[2] \in 1..g[j[u[1]]]
    BY <1>1, <2>1
  <2>3. <<j[u[1]], u[2]>> \in Units(g)
    BY <2>2, UnitsAreCounted
  <2>. QED  BY <2>3
<1>3. ASSUME NEW u \in Units(f), NEW v \in Units(f), into[u] = into[v]
      PROVE  u = v
  <2>1. j[u[1]] = j[v[1]] /\ u[2] = v[2]
    BY <1>3
  <2>2. u = <<u[1], u[2]>> /\ v = <<v[1], v[2]>> /\ u[1] \in S /\ v[1] \in S
    BY UnitsAreCounted
  <2>. QED  BY <1>1, <2>1, <2>2
<1>4. into \in Injection(Units(f), Units(g))
  <2>1. into \in [Units(f) -> Units(g)]
    BY <1>2
  <2>. QED  BY <1>3, <2>1 DEF Injection, IsInjective
<1>. QED  BY <1>4, TokensAreFinite, UnitsAreCounted, FS_Injection

(* The sum over two parts is the sum of the sums. *)
LEMMA TokensOfParts ==
  ASSUME NEW S, IsFiniteSet(S), NEW f \in [S -> Nat],
         NEW A, NEW B, A \cup B = S, A \cap B = {}
  PROVE  Tokens(f) = Tokens([x \in A |-> f[x]]) + Tokens([x \in B |-> f[x]])
<1>. DEFINE a == [x \in A |-> f[x]]
            b == [x \in B |-> f[x]]
<1>1. IsFiniteSet(A) /\ IsFiniteSet(B) /\ a \in [A -> Nat] /\ b \in [B -> Nat]
  BY FS_Subset
<1>2. (\A x \in A : a[x] = f[x]) /\ (\A x \in B : b[x] = f[x])
  OBVIOUS
<1>. HIDE DEF a, b
<1>3. Units(f) = Units(a) \cup Units(b)
  <2>1. ASSUME NEW u
        PROVE  u \in Units(f) <=> u \in Units(a) \/ u \in Units(b)
    <3>1. u \in Units(f) <=> u = <<u[1], u[2]>> /\ u[1] \in S /\ u[2] \in 1..f[u[1]]
      BY UnitsAreCounted
    <3>2. u \in Units(a) <=> u = <<u[1], u[2]>> /\ u[1] \in A /\ u[2] \in 1..a[u[1]]
      BY <1>1, UnitsAreCounted
    <3>3. u \in Units(b) <=> u = <<u[1], u[2]>> /\ u[1] \in B /\ u[2] \in 1..b[u[1]]
      BY <1>1, UnitsAreCounted
    <3>. QED  BY <1>2, <3>1, <3>2, <3>3
  <2>. QED  BY <2>1
<1>4. Units(a) \cap Units(b) = {}
  <2>1. ASSUME NEW u, u \in Units(a), u \in Units(b)
        PROVE  FALSE
    <3>1. u[1] \in A /\ u[1] \in B
      BY <1>1, <2>1, UnitsAreCounted
    <3>. QED  BY <3>1
  <2>. QED  BY <2>1
<1>5. /\ IsFiniteSet(Units(a)) /\ IsFiniteSet(Units(b))
      /\ Cardinality(Units(a)) \in Nat /\ Cardinality(Units(b)) \in Nat
  BY <1>1, TokensAreFinite, FS_CardinalityType
<1>6. Cardinality(Units(f)) = Cardinality(Units(a)) + Cardinality(Units(b))
  <2>1. Cardinality(Units(a) \cup Units(b))
          = Cardinality(Units(a)) + Cardinality(Units(b)) - Cardinality(Units(a) \cap Units(b))
    BY <1>5, FS_Union, Zenon
  <2>2. Cardinality(Units(a) \cap Units(b)) = 0
    BY <1>4, FS_EmptySet
  <2>. QED  BY <1>3, <1>5, <2>1, <2>2
<1>7. Tokens(a) = Cardinality(Units(a)) /\ Tokens(b) = Cardinality(Units(b))
  BY <1>1, UnitsAreCounted
<1>8. Tokens(f) = Tokens(a) + Tokens(b)
  BY <1>6, <1>7, UnitsAreCounted
<1>. QED  BY <1>8 DEF a, b

LEMMA TokensOfOne ==
  ASSUME NEW a, NEW f \in [{a} -> Nat]
  PROVE  Tokens(f) = f[a]
<1>1. Units(f) = {a} \X (1..f[a])
  BY UnitsAreCounted
<1>2. f[a] \in Nat
  OBVIOUS
<1>3. Tokens(f) = Cardinality(Units(f))
  BY Zenon DEF Tokens, Units
<1>. QED  BY <1>1, <1>2, <1>3, UnitsOfOneAmount

LEMMA TokensOfNone ==
  ASSUME NEW f, DOMAIN f = {}
  PROVE  Tokens(f) = 0
<1>1. Units(f) = {}
  BY DEF Units
<1>2. Tokens(f) = Cardinality(Units(f))
  BY Zenon DEF Tokens, Units
<1>. QED  BY <1>1, <1>2, FS_EmptySet

(* A set that is small enough fits into the units of one amount. *)
LEMMA FitsInto ==
  ASSUME NEW S, IsFiniteSet(S), NEW n \in Nat, Cardinality(S) <= n
  PROVE  \E j \in [S -> 1..n] : \A x, y \in S : j[x] = j[y] => x = y
<1>. DEFINE c == Cardinality(S)
<1>1. c \in Nat /\ c <= n /\ ExistsBijection(1..c, S)
  BY FS_CardinalityType
<1>. HIDE DEF c
<1>2. PICK b : b \in Bijection(1..c, S)
  BY <1>1 DEF ExistsBijection
<1>3. b \in [1..c -> S] /\ \A x \in S : \E k \in 1..c : b[k] = x
  BY <1>2 DEF Bijection, Surjection
<1>. DEFINE j == [x \in S |-> CHOOSE k \in 1..c : b[k] = x]
<1>4. ASSUME NEW x \in S
      PROVE  j[x] \in 1..c /\ b[j[x]] = x
  BY <1>3, Zenon
<1>5. j \in [S -> 1..n]
  <2>1. \A x \in S : j[x] \in 1..n
    <3>1. \A k \in 1..c : k \in 1..n
      BY <1>1
    <3>. QED  BY <1>4, <3>1, Zenon
  <2>. QED  BY <2>1
<1>6. ASSUME NEW x \in S, NEW y \in S, j[x] = j[y]
      PROVE  x = y
  BY <1>4, <1>6, Zenon
<1>. QED  BY <1>5, <1>6

DaySum(S, f, day, d) == Tokens([x \in {y \in S : day[y] = d} |-> f[x]])

(* Amounts that are booked by the day, of which each day that has any is covered by an amount of its
   own. *)
BookedByDay(S, f, day, T, g, date, days) ==
  /\ IsFiniteSet(S) /\ f \in [S -> Nat] /\ \A x \in S : day[x] \in days
  /\ IsFiniteSet(T) /\ g \in [T -> Nat]
  /\ \A d \in days :
       DaySum(S, f, day, d) > 0 => \E r \in T : date[r] = d /\ DaySum(S, f, day, d) <= g[r]

LEMMA TokensByDay ==
  ASSUME NEW S, NEW f, NEW day, NEW T, NEW g, NEW date, NEW days,
         BookedByDay(S, f, day, T, g, date, days)
  PROVE  Tokens(f) <= Tokens(g)
<1>. SUFFICES ASSUME IsFiniteSet(S), f \in [S -> Nat], \A x \in S : day[x] \in days,
                     IsFiniteSet(T), g \in [T -> Nat],
                     \A d \in days : DaySum(S, f, day, d) > 0 =>
                       \E r \in T : date[r] = d /\ DaySum(S, f, day, d) <= g[r]
              PROVE  Tokens(f) <= Tokens(g)
  BY DEF BookedByDay
<1>. DEFINE on(d) == {y \in S : day[y] = d}
            part(d) == [x \in on(d) |-> f[x]]
            covers(d, r) == r \in T /\ date[r] = d /\ Tokens(part(d)) <= g[r]
            row(d) == CHOOSE r : covers(d, r)
            fits(d, j) == /\ j \in [Units(part(d)) -> 1..g[row(d)]]
                          /\ \A u, v \in Units(part(d)) : j[u] = j[v] => u = v
            fit(d) == CHOOSE j : fits(d, j)
            into == [u \in Units(f) |-> <<row(day[u[1]]), fit(day[u[1]])[u]>>]
<1>1. ASSUME NEW d
      PROVE  part(d) \in [on(d) -> Nat] /\ IsFiniteSet(on(d))
  BY FS_Subset
<1>2. ASSUME NEW u \in Units(f)
      PROVE  day[u[1]] \in days /\ u \in Units(part(day[u[1]]))
  <2>. DEFINE d == day[u[1]]
  <2>1. u = <<u[1], u[2]>> /\ u[1] \in S /\ u[2] \in 1..f[u[1]]
    BY UnitsAreCounted
  <2>2. u[1] \in on(d) /\ part(d)[u[1]] = f[u[1]] /\ d \in days
    BY <2>1
  <2>3. part(d) \in [on(d) -> Nat]
    BY <1>1
  <2>. HIDE DEF part, on, d
  <2>4. u \in Units(part(d))
    BY <2>1, <2>2, <2>3, UnitsAreCounted
  <2>. QED  BY <2>2, <2>4 DEF d
<1>3. ASSUME NEW u \in Units(f)
      PROVE  covers(day[u[1]], row(day[u[1]]))
  <2>. DEFINE d == day[u[1]]
  <2>1. d \in days /\ u \in Units(part(d)) /\ part(d) \in [on(d) -> Nat] /\ IsFiniteSet(on(d))
    BY <1>1, <1>2
  <2>2. Tokens(part(d)) > 0
    <3>. HIDE DEF part, on, d
    <3>1. IsFiniteSet(Units(part(d))) /\ Tokens(part(d)) = Cardinality(Units(part(d)))
      BY <2>1, TokensAreFinite, UnitsAreCounted
    <3>2. Cardinality(Units(part(d))) \in Nat /\ Cardinality(Units(part(d))) # 0
      BY <2>1, <3>1, FS_CardinalityType, FS_EmptySet
    <3>. QED  BY <3>1, <3>2
  <2>3. \E r : covers(d, r)
    <3>1. Tokens(part(d)) = DaySum(S, f, day, d)
      BY Zenon DEF DaySum
    <3>. QED  BY <2>1, <2>2, <3>1
  <2>. HIDE DEF covers
  <2>. QED  BY <2>3, Zenon
<1>4. ASSUME NEW u \in Units(f)
      PROVE  fits(day[u[1]], fit(day[u[1]]))
  <2>. DEFINE d == day[u[1]]
  <2>1. part(d) \in [on(d) -> Nat] /\ IsFiniteSet(on(d)) /\ covers(d, row(d))
    BY <1>1, <1>3
  <2>2. g[row(d)] \in Nat /\ Tokens(part(d)) <= g[row(d)]
    BY <2>1
  <2>3. IsFiniteSet(Units(part(d))) /\ Tokens(part(d)) = Cardinality(Units(part(d)))
    <3>. HIDE DEF part, on, d
    <3>. QED  BY <2>1, TokensAreFinite, UnitsAreCounted
  <2>4. \E j : fits(d, j)
    <3>. HIDE DEF part, on, d, row, covers
    <3>1. \E j \in [Units(part(d)) -> 1..g[row(d)]] :
            \A u_1, v \in Units(part(d)) : j[u_1] = j[v] => u_1 = v
      BY <2>2, <2>3, FitsInto
    <3>. QED  BY <3>1, Zenon
  <2>. HIDE DEF fits
  <2>. QED  BY <2>4, Zenon
<1>. HIDE DEF part, on, row, fit
<1>5. ASSUME NEW u \in Units(f)
      PROVE  into[u] \in Units(g)
  <2>1. row(day[u[1]]) \in T /\ fit(day[u[1]])[u] \in 1..g[row(day[u[1]])]
    BY <1>2, <1>3, <1>4
  <2>. QED  BY <2>1, UnitsAreCounted
<1>6. ASSUME NEW u \in Units(f), NEW v \in Units(f), into[u] = into[v]
      PROVE  u = v
  <2>. DEFINE d == day[u[1]]
              e == day[v[1]]
  <2>1. row(d) = row(e) /\ fit(d)[u] = fit(e)[v]
    BY <1>6
  <2>2. d = e
    BY <1>3, <2>1
  <2>3. u \in Units(part(d)) /\ v \in Units(part(d)) /\ fits(d, fit(d))
    BY <1>2, <1>4, <2>2
  <2>. QED  BY <2>1, <2>2, <2>3
<1>7. into \in Injection(Units(f), Units(g))
  <2>1. into \in [Units(f) -> Units(g)]
    BY <1>5
  <2>. QED  BY <1>6, <2>1 DEF Injection, IsInjective
<1>. QED  BY <1>7, TokensAreFinite, UnitsAreCounted, FS_Injection

LEMMA SumOfSome ==
  ASSUME NEW es, NEW P, IsFiniteSet(P), \A i \in P : es[i].values \in Nat
  PROVE  SumOf(es, P) \in Nat
<1>. DEFINE f == [i \in P |-> es[i].values]
<1>1. f \in [P -> Nat] /\ SumOf(es, P) = Tokens(f)
  BY DEF SumOf
<1>. HIDE DEF f
<1>. QED  BY <1>1, TokensAreFinite

LEMMA SumOfUnion ==
  ASSUME NEW es, NEW A, NEW B, IsFiniteSet(A), IsFiniteSet(B), A \cap B = {},
         \A i \in A : es[i].values \in Nat, \A i \in B : es[i].values \in Nat
  PROVE  SumOf(es, A \cup B) = SumOf(es, A) + SumOf(es, B)
<1>. DEFINE f == [i \in A \cup B |-> es[i].values]
            a == [i \in A |-> f[i]]
            b == [i \in B |-> f[i]]
<1>1. f \in [A \cup B -> Nat] /\ IsFiniteSet(A \cup B)
  BY FS_Union
<1>2. a = [i \in A |-> es[i].values] /\ b = [i \in B |-> es[i].values]
  OBVIOUS
<1>3. SumOf(es, A \cup B) = Tokens(f) /\ SumOf(es, A) = Tokens(a) /\ SumOf(es, B) = Tokens(b)
  BY <1>2 DEF SumOf
<1>4. Tokens(f) = Tokens(a) + Tokens(b)
  <2>. HIDE DEF f
  <2>. QED  BY <1>1, TokensOfParts
<1>. QED  BY <1>3, <1>4

LEMMA SumOfSubset ==
  ASSUME NEW es, NEW P, IsFiniteSet(P), \A i \in P : es[i].values \in Nat,
         NEW A \in SUBSET P
  PROVE  /\ SumOf(es, A) <= SumOf(es, P)
         /\ SumOf(es, P) \in Nat /\ SumOf(es, A) \in Nat
<1>1. A \cup (P \ A) = P /\ A \cap (P \ A) = {}
  OBVIOUS
<1>2. IsFiniteSet(A) /\ IsFiniteSet(P \ A)
  BY FS_Subset
<1>3. SumOf(es, A \cup (P \ A)) = SumOf(es, A) + SumOf(es, P \ A)
  BY <1>1, <1>2, SumOfUnion
<1>4. SumOf(es, P) \in Nat /\ SumOf(es, A) \in Nat /\ SumOf(es, P \ A) \in Nat
  BY <1>2, SumOfSome
<1>. QED  BY <1>1, <1>3, <1>4

LEMMA SumsOfParts ==
  ASSUME NEW n \in Nat, NEW es, \A i \in 1..n : es[i].values \in Nat
  PROVE  \A A, B \in SUBSET (1..n) :
           /\ IsFiniteSet(A) /\ SumOf(es, A) \in Nat
           /\ A \subseteq B => SumOf(es, A) <= SumOf(es, B)
           /\ A \cap B = {} => SumOf(es, A \cup B) = SumOf(es, A) + SumOf(es, B)
<1>1. IsFiniteSet(1..n)
  BY FS_Interval
<1>2. ASSUME NEW A \in SUBSET (1..n)
      PROVE  IsFiniteSet(A) /\ SumOf(es, A) \in Nat
  <2>1. IsFiniteSet(A)
    BY <1>1, FS_Subset
  <2>. QED  BY <1>1, <2>1, SumOfSubset
<1>3. ASSUME NEW A \in SUBSET (1..n), NEW B \in SUBSET (1..n), A \subseteq B
      PROVE  SumOf(es, A) <= SumOf(es, B)
  BY <1>2, <1>3, SumOfSubset
<1>4. ASSUME NEW A \in SUBSET (1..n), NEW B \in SUBSET (1..n), A \cap B = {}
      PROVE  SumOf(es, A \cup B) = SumOf(es, A) + SumOf(es, B)
  BY <1>2, <1>4, SumOfUnion
<1>. QED  BY <1>2, <1>3, <1>4

LEMMA SumOfOne ==
  ASSUME NEW es, NEW i, es[i].values \in Nat
  PROVE  SumOf(es, {i}) = es[i].values
<1>. DEFINE f == [k \in {i} |-> es[k].values]
<1>1. f \in [{i} -> Nat] /\ f[i] = es[i].values /\ SumOf(es, {i}) = Tokens(f)
  BY DEF SumOf
<1>. HIDE DEF f
<1>. QED  BY <1>1, TokensOfOne

LEMMA SumOfNone ==
  ASSUME NEW es
  PROVE  SumOf(es, {}) = 0
<1>. DEFINE f == [k \in {} |-> es[k].values]
<1>1. DOMAIN f = {} /\ SumOf(es, {}) = Tokens(f)
  BY DEF SumOf
<1>. HIDE DEF f
<1>. QED  BY <1>1, TokensOfNone

LEMMA SumOfSame ==
  ASSUME NEW es, NEW fs, NEW P, \A i \in P : es[i].values = fs[i].values
  PROVE  SumOf(es, P) = SumOf(fs, P)
<1>1. [i \in P |-> es[i].values] = [i \in P |-> fs[i].values]
  OBVIOUS
<1>. QED  BY <1>1, Zenon DEF SumOf

LEMMA SumInto ==
  ASSUME NEW es, NEW P, IsFiniteSet(P), \A i \in P : es[i].values \in Nat,
         NEW fs, NEW Q, IsFiniteSet(Q), \A i \in Q : fs[i].values \in Nat,
         NEW j \in [P -> Q], \A i, k \in P : j[i] = j[k] => i = k,
         \A i \in P : es[i].values <= fs[j[i]].values
  PROVE  SumOf(es, P) <= SumOf(fs, Q)
<1>. DEFINE f == [i \in P |-> es[i].values]
            g == [i \in Q |-> fs[i].values]
<1>1. f \in [P -> Nat] /\ g \in [Q -> Nat] /\ \A i \in P : f[i] <= g[j[i]]
  OBVIOUS
<1>2. SumOf(es, P) = Tokens(f) /\ SumOf(fs, Q) = Tokens(g)
  BY DEF SumOf
<1>3. j \in Injection(P, Q)
  BY DEF Injection, IsInjective
<1>. HIDE DEF f, g
<1>. QED  BY <1>1, <1>2, <1>3, TokensInto

-----------------------------------------------------------------------------
(* 2. Numbers: the least and the largest of a set, and days.               *)

(* Of a set of numbers up to N one is the least. *)
LEMMA Least ==
  ASSUME NEW N \in Nat, NEW T \in SUBSET (0..N), T # {}
  PROVE  \E m \in T : \A k \in T : m <= k
<1>. DEFINE upto == {0..k : k \in T}
<1>1. IsWellFoundedOn(StrictSubsetOrdering(0..N), SUBSET (0..N))
  <2>. DEFINE S == 0..N
  <2>1. IsFiniteSet(S)
    BY FS_Interval
  <2>. HIDE DEF S
  <2>2. FiniteSubsetsOf(S) = SUBSET S
    BY <2>1, FS_FiniteSubsetsOfFinite
  <2>3. IsWellFoundedOn(StrictSubsetOrdering(S), SUBSET S)
    BY <2>2, FS_StrictSubsetOrderingWellFounded
  <2>. QED  BY <2>3 DEF S
<1>2. upto \in SUBSET SUBSET (0..N) /\ upto # {}
  <2>1. \A k \in T : 0..k \in SUBSET (0..N)
    OBVIOUS
  <2>. QED  BY <2>1
<1>. HIDE DEF upto
<1>3. \E S \in upto : \A r \in upto : ~ (<<r, S>> \in StrictSubsetOrdering(0..N))
  BY <1>1, <1>2, WFMin, Zenon
<1>. USE DEF upto
<1>4. PICK m \in T : \A k \in T : ~ (<<0..k, 0..m>> \in StrictSubsetOrdering(0..N))
  BY <1>3, Zenon
<1>5. ASSUME NEW k \in T, k < m
      PROVE  FALSE
  <2>1. 0..k \subseteq 0..m /\ m \in 0..m /\ m \notin 0..k
    BY <1>5
  <2>2. 0..k # 0..m
    BY <2>1, Zenon
  <2>3. 0..k \in SUBSET (0..N) /\ 0..m \in SUBSET (0..N)
    OBVIOUS
  <2>. QED  BY <1>4, <2>1, <2>2, <2>3 DEF StrictSubsetOrdering
<1>6. \A k \in T : m <= k
  BY <1>5
<1>. QED  BY <1>6

LEMMA LeastIsMin ==
  ASSUME NEW N \in Nat, NEW T \in SUBSET (0..N), T # {}
  PROVE  Min(T) \in T /\ \A k \in T : Min(T) <= k
BY Least DEF Min

LEMMA LargestIsMax ==
  ASSUME NEW N \in Nat, NEW T \in SUBSET (0..N), T # {}
  PROVE  Max(T) \in T /\ \A k \in T : k <= Max(T)
<1>. DEFINE below == {N - k : k \in T}
<1>1. below \in SUBSET (0..N) /\ below # {}
  <2>1. ASSUME NEW k \in T
        PROVE  N - k \in 0..N
    OBVIOUS
  <2>. QED  BY <2>1
<1>. HIDE DEF below
<1>2. PICK b \in below : \A k \in below : b <= k
  BY <1>1, Least
<1>. USE DEF below
<1>3. PICK m \in T : b = N - m
  OBVIOUS
<1>4. ASSUME NEW k \in T
      PROVE  k <= m
  <2>1. N - k \in below
    OBVIOUS
  <2>2. N - m <= N - k
    BY <1>2, <1>3, <2>1
  <2>3. m \in 0..N /\ k \in 0..N
    OBVIOUS
  <2>. QED  BY <2>2, <2>3
<1>5. \A k \in T : m >= k
  <2>1. T \subseteq Int /\ m \in Int
    OBVIOUS
  <2>. QED  BY <1>4, <2>1
<1>6. Max(T) \in T /\ \A k \in T : Max(T) >= k
  BY <1>5, Zenon DEF Max
<1>7. T \subseteq Int
  OBVIOUS
<1>. QED  BY <1>6, <1>7

LEMMA DayGrows ==
  ASSUME NEW t \in Nat, NEW u \in Nat, t <= u
  PROVE  Day(t) \in Nat /\ Day(t) <= Day(u)
<1>. DEFINE d == Day(t)
            e == Day(u)
<1>0. DayLength \in Nat /\ DayLength > 0
  BY LedgerAssumption
<1>1. /\ d \in Int /\ e \in Int
      /\ t = DayLength * d + (t % DayLength) /\ t % DayLength \in 0..DayLength - 1
      /\ u = DayLength * e + (u % DayLength) /\ u % DayLength \in 0..DayLength - 1
  BY <1>0 DEF Day
<1>. HIDE DEF d, e
<1>2. d >= 0
  <2>. SUFFICES ASSUME d <= -1  PROVE FALSE
    BY <1>1
  <2>1. DayLength * d <= DayLength * (-1)
    BY <1>0, <1>1
  <2>. QED  BY <1>0, <1>1, <2>1
<1>3. d <= e
  <2>. SUFFICES ASSUME e + 1 <= d  PROVE FALSE
    BY <1>1
  <2>1. DayLength * (e + 1) <= DayLength * d
    BY <1>0, <1>1
  <2>2. DayLength * (e + 1) = DayLength * e + DayLength
    BY <1>0, <1>1
  <2>. QED  BY <1>0, <1>1, <2>1, <2>2
<1>. QED  BY <1>1, <1>2, <1>3 DEF d, e

-----------------------------------------------------------------------------
(* 3. Logs: what pruning leaves and where a search ends.                   *)

LEMMA DropOlderIsTail ==
  ASSUME NEW S, NEW es \in Seq(S), \A i \in DOMAIN es : es[i].ts \in Int, NEW horizon \in Int
  PROVE  /\ DropOlder(es, horizon) \in Seq(S)
         /\ \E k \in 0..Len(es) :
              /\ Len(DropOlder(es, horizon)) = Len(es) - k
              /\ \A i \in 1..Len(es) - k : DropOlder(es, horizon)[i] = es[i + k]
<1>. DEFINE kept == {i \in DOMAIN es : es[i].ts >= horizon}
<1>1. Len(es) \in Nat /\ kept \in SUBSET (0..Len(es))
  OBVIOUS
<1>2. CASE kept = {}
  <2>1. DropOlder(es, horizon) = <<>>
    BY <1>2 DEF DropOlder
  <2>. QED  BY <1>1, <2>1
<1>3. CASE kept # {}
  <2>. DEFINE m == Min(kept)
  <2>1. DropOlder(es, horizon) = SubSeq(es, m, Len(es))
    BY <1>3 DEF DropOlder
  <2>2. m \in kept
    <3>. HIDE DEF kept
    <3>. QED  BY <1>1, <1>3, LeastIsMin
  <2>3. m \in 1..Len(es)
    BY <2>2
  <2>. HIDE DEF m, kept
  <2>4. /\ SubSeq(es, m, Len(es)) \in Seq(S)
        /\ Len(SubSeq(es, m, Len(es))) = Len(es) - (m - 1)
        /\ \A i \in 1..Len(es) - (m - 1) : SubSeq(es, m, Len(es))[i] = es[i + (m - 1)]
    BY <1>1, <2>3
  <2>5. m - 1 \in 0..Len(es)
    BY <1>1, <2>3
  <2>. QED  BY <2>1, <2>4, <2>5
<1>. QED  BY <1>2, <1>3

SearchRun(R, es, b, N) ==
  R = [n \in 0..N |-> IF n = 0 THEN [lo |-> 0, hi |-> Len(es)] ELSE SearchTurn(es, b, R[n - 1])]

LEMMA SearchRuns ==
  ASSUME NEW es, NEW b, NEW N \in Nat
  PROVE  \E R : SearchRun(R, es, b, N)
<1>. DEFINE none == {n \in 0..N : ~ \E R : SearchRun(R, es, b, n)}
            start == [lo |-> 0, hi |-> Len(es)]
<1>. SUFFICES none = {}
  OBVIOUS
<1>. SUFFICES ASSUME none # {}  PROVE FALSE
  OBVIOUS
<1>1. none \in SUBSET (0..N)
  OBVIOUS
<1>. HIDE DEF none
<1>2. PICK n \in none : \A k \in none : n <= k
  BY <1>1, Least
<1>3. n \in 0..N /\ ~ \E R : SearchRun(R, es, b, n)
  BY DEF none
<1>4. CASE n = 0
  <2>. DEFINE R == [k \in 0..0 |-> start]
  <2>1. R = [k \in 0..0 |-> IF k = 0 THEN start ELSE SearchTurn(es, b, R[k - 1])]
    OBVIOUS
  <2>. QED  BY <1>3, <1>4, <2>1 DEF SearchRun
<1>5. CASE n # 0
  <2>1. n - 1 \in 0..N /\ n - 1 \notin none
    BY <1>2, <1>3, <1>5
  <2>2. PICK R : SearchRun(R, es, b, n - 1)
    BY <2>1 DEF none
  <2>. DEFINE Q == [k \in 0..n |-> IF k = n THEN SearchTurn(es, b, R[n - 1]) ELSE R[k]]
              next(P, k) == IF k = 0 THEN start ELSE SearchTurn(es, b, P[k - 1])
  <2>3. ASSUME NEW k \in 0..n
        PROVE  Q[k] = next(Q, k)
    <3>1. CASE k = n
      <4>1. Q[n] = SearchTurn(es, b, R[n - 1]) /\ Q[n - 1] = R[n - 1]
        BY <1>3, <1>5
      <4>. HIDE DEF Q
      <4>. QED  BY <1>5, <3>1, <4>1
    <3>2. CASE k # n
      <4>1. k \in 0..(n - 1)
        BY <1>3, <3>2
      <4>2. R[k] = next(R, k)
        BY <2>2, <4>1, Zenon DEF SearchRun
      <4>3. Q[k] = R[k] /\ (k # 0 => Q[k - 1] = R[k - 1])
        BY <1>3, <3>2, <4>1
      <4>. HIDE DEF Q
      <4>. QED  BY <4>2, <4>3
    <3>. QED  BY <3>1, <3>2
  <2>4. Q = [k \in 0..n |-> Q[k]]
    BY Zenon
  <2>. HIDE DEF Q
  <2>5. Q = [k \in 0..n |-> next(Q, k)]
    BY <2>3, <2>4
  <2>. QED  BY <1>3, <2>5 DEF SearchRun
<1>. QED  BY <1>4, <1>5

(* R holds the range after every turn of the search. *)
SearchPath(R, es, b) ==
  /\ BinarySearch(es, b) = R[Len(es)].lo
  /\ R[0] = [lo |-> 0, hi |-> Len(es)]
  /\ \A n \in 1..Len(es) : R[n] = SearchTurn(es, b, R[n - 1])

LEMMA SearchUnfolds ==
  ASSUME NEW es, NEW b, Len(es) \in Nat
  PROVE  \E R : SearchPath(R, es, b)
<1>. DEFINE R == CHOOSE R : SearchRun(R, es, b, Len(es))
<1>1. BinarySearch(es, b) = R[Len(es)].lo
  BY DEF BinarySearch, SearchRun
<1>2. SearchRun(R, es, b, Len(es))
  BY SearchRuns, Zenon
<1>. HIDE DEF R
<1>3. \A n \in 0..Len(es) :
        R[n] = IF n = 0 THEN [lo |-> 0, hi |-> Len(es)] ELSE SearchTurn(es, b, R[n - 1])
  BY <1>2, Zenon DEF SearchRun
<1>4. R[0] = [lo |-> 0, hi |-> Len(es)] /\ \A n \in 1..Len(es) : R[n] = SearchTurn(es, b, R[n - 1])
  BY <1>3
<1>5. SearchPath(R, es, b)
  BY <1>1, <1>4, Zenon DEF SearchPath
<1>. QED  BY <1>5

(* What holds after n turns of a search: all that is left of the range is too old, all that is right
   of it is not, and it shrinks with every turn. *)
Narrowed(es, b, range, n) ==
  /\ range.lo \in Nat /\ range.hi \in Nat
  /\ range.lo <= range.hi /\ range.hi <= Len(es)
  /\ range.hi - range.lo <= Len(es) - n
  /\ range.lo = 0 \/ es[range.lo].ts < b
  /\ range.hi = Len(es) \/ es[range.hi + 1].ts >= b

LEMMA TurnNarrows ==
  ASSUME NEW es, Len(es) \in Nat, NEW b \in Int, \A i \in 1..Len(es) : es[i].ts \in Int,
         NEW range, NEW n \in 0..Len(es) - 1, Narrowed(es, b, range, n)
  PROVE  Narrowed(es, b, SearchTurn(es, b, range), n + 1)
<1>. DEFINE lo == range.lo
            hi == range.hi
            mid == (lo + hi) \div 2
            next == SearchTurn(es, b, range)
<1>1. /\ lo \in Nat /\ hi \in Nat /\ lo <= hi /\ hi <= Len(es) /\ hi - lo <= Len(es) - n
      /\ lo = 0 \/ es[lo].ts < b
      /\ hi = Len(es) \/ es[hi + 1].ts >= b
  BY Zenon DEF Narrowed
<1>2. CASE lo >= hi
  <2>1. next = range
    BY <1>2 DEF SearchTurn
  <2>. HIDE DEF next
  <2>. QED  BY <1>1, <1>2, <2>1 DEF Narrowed, next
<1>3. CASE lo < hi
  <2>1. mid \in Nat /\ lo <= mid /\ mid < hi /\ mid + 1 \in 1..Len(es)
    <3>. HIDE DEF lo, hi
    <3>. QED  BY <1>1, <1>3
  <2>2. ~ (lo >= hi)
    BY <1>1, <1>3
  <2>3. CASE es[mid + 1].ts < b
    <3>1. next = [lo |-> mid + 1, hi |-> hi]
      BY <2>2, <2>3, Zenon DEF SearchTurn
    <3>2. next.lo = mid + 1 /\ next.hi = hi
      BY <3>1
    <3>. HIDE DEF next, lo, hi, mid
    <3>3. /\ next.lo \in Nat /\ next.hi \in Nat
          /\ next.lo <= next.hi /\ next.hi <= Len(es)
          /\ next.hi - next.lo <= Len(es) - (n + 1)
      BY <1>1, <2>1, <3>2
    <3>4. es[next.lo].ts < b /\ (next.hi = Len(es) \/ es[next.hi + 1].ts >= b)
      BY <1>1, <2>3, <3>2
    <3>. QED  BY <3>3, <3>4, Zenon DEF Narrowed, next
  <2>4. CASE ~ (es[mid + 1].ts < b)
    <3>1. next = [lo |-> lo, hi |-> mid]
      BY <2>2, <2>4, Zenon DEF SearchTurn
    <3>2. next.lo = lo /\ next.hi = mid
      BY <3>1
    <3>. HIDE DEF next, lo, hi, mid
    <3>3. /\ next.lo \in Nat /\ next.hi \in Nat
          /\ next.lo <= next.hi /\ next.hi <= Len(es)
          /\ next.hi - next.lo <= Len(es) - (n + 1)
      BY <1>1, <2>1, <3>2
    <3>4. es[mid + 1].ts >= b
      BY <2>1, <2>4
    <3>5. (next.lo = 0 \/ es[next.lo].ts < b) /\ es[next.hi + 1].ts >= b
      BY <1>1, <3>2, <3>4
    <3>. QED  BY <3>3, <3>5, Zenon DEF Narrowed, next
  <2>. QED  BY <2>3, <2>4
<1>. QED  BY <1>1, <1>2, <1>3

LEMMA SearchEnds ==
  ASSUME NEW es, Len(es) \in Nat, NEW b \in Int, \A i \in 1..Len(es) : es[i].ts \in Int
  PROVE  /\ BinarySearch(es, b) \in 0..Len(es)
         /\ BinarySearch(es, b) = 0 \/ es[BinarySearch(es, b)].ts < b
         /\ BinarySearch(es, b) = Len(es) \/ es[BinarySearch(es, b) + 1].ts >= b
<1>0. PICK R : SearchPath(R, es, b)
  BY SearchUnfolds
<1>1. /\ BinarySearch(es, b) = R[Len(es)].lo
      /\ R[0] = [lo |-> 0, hi |-> Len(es)]
      /\ \A n \in 1..Len(es) : R[n] = SearchTurn(es, b, R[n - 1])
  BY <1>0, Zenon DEF SearchPath
<1>. DEFINE wrong == {n \in 0..Len(es) : ~ Narrowed(es, b, R[n], n)}
<1>2. wrong = {}
  <2>. SUFFICES ASSUME wrong # {}  PROVE FALSE
    OBVIOUS
  <2>1. wrong \in SUBSET (0..Len(es))
    OBVIOUS
  <2>. HIDE DEF wrong
  <2>2. PICK n \in wrong : \A k \in wrong : n <= k
    BY <2>1, Least
  <2>3. n \in 0..Len(es) /\ ~ Narrowed(es, b, R[n], n)
    BY DEF wrong
  <2>4. CASE n = 0
    <3>1. R[0].lo = 0 /\ R[0].hi = Len(es)
      BY <1>1
    <3>2. Narrowed(es, b, R[0], 0)
      BY <3>1 DEF Narrowed
    <3>. QED  BY <2>3, <2>4, <3>2
  <2>5. CASE n # 0
    <3>1. n - 1 \in 0..Len(es) - 1 /\ n - 1 \notin wrong /\ n \in 1..Len(es) /\ (n - 1) + 1 = n
      BY <2>2, <2>3, <2>5
    <3>2. Narrowed(es, b, R[n - 1], n - 1)
      BY <3>1 DEF wrong
    <3>3. Narrowed(es, b, SearchTurn(es, b, R[n - 1]), (n - 1) + 1)
      BY <3>1, <3>2, TurnNarrows
    <3>. QED  BY <1>1, <2>3, <3>1, <3>3
  <2>. QED  BY <2>4, <2>5
<1>3. Narrowed(es, b, R[Len(es)], Len(es))
  BY <1>2
<1>4. R[Len(es)].hi = R[Len(es)].lo /\ R[Len(es)].lo \in 0..Len(es)
  BY <1>3 DEF Narrowed
<1>. QED  BY <1>1, <1>3, <1>4 DEF Narrowed

-----------------------------------------------------------------------------
(* 4. Where a log comes from.  Every event stands for a usage of its own among the first n of `uses`:
   with the time, the amount and the model in the event log, through the alias in the alias's log. *)

StandsFor(kind, e, h) ==
  /\ h.ts = e.ts /\ h.values = e.values
  /\ IF kind = "alias" THEN h.viaAlias ELSE h.model = e.model

Draws(j, kind, es, uses, n) ==
  /\ j \in [DOMAIN es -> 1..n]
  /\ \A i, k \in DOMAIN es : j[i] = j[k] => i = k
  /\ \A i \in DOMAIN es : StandsFor(kind, es[i], uses[j[i]])
Drawn(kind, es, uses, n) == \E j : Draws(j, kind, es, uses, n)

LEMMA DrawnFromNothing ==
  ASSUME NEW kind, NEW uses, NEW n \in Nat
  PROVE  Drawn(kind, <<>>, uses, n)
<1>. DEFINE j == [i \in {} |-> 0]
<1>1. DOMAIN <<>> = {}
  OBVIOUS
<1>2. Draws(j, kind, <<>>, uses, n)
  BY <1>1 DEF Draws
<1>. QED  BY <1>2, Zenon DEF Drawn

LEMMA DrawnStays ==
  ASSUME NEW kind, NEW es, NEW uses, NEW n \in Nat, Drawn(kind, es, uses, n),
         NEW more, NEW m \in Nat, n <= m, \A h \in 1..n : more[h] = uses[h]
  PROVE  Drawn(kind, es, more, m)
<1>1. PICK j : Draws(j, kind, es, uses, n)
  BY DEF Drawn
<1>2. j \in [DOMAIN es -> 1..m] /\ \A i \in DOMAIN es : j[i] \in 1..n
  BY <1>1 DEF Draws
<1>3. Draws(j, kind, es, more, m)
  BY <1>1, <1>2 DEF Draws
<1>. QED  BY <1>3 DEF Drawn

LEMMA DrawnGrows ==
  ASSUME NEW kind, NEW S, NEW es \in Seq(S), NEW e \in S,
         NEW uses, NEW n \in Nat, Drawn(kind, es, uses, n),
         NEW more, \A h \in 1..n : more[h] = uses[h], StandsFor(kind, e, more[n + 1])
  PROVE  Drawn(kind, Append(es, e), more, n + 1)
<1>1. PICK j : Draws(j, kind, es, uses, n)
  BY DEF Drawn
<1>. DEFINE l == Len(es) + 1
            long == Append(es, e)
            k == [i \in 1..l |-> IF i = l THEN n + 1 ELSE j[i]]
<1>2. /\ Len(es) \in Nat /\ DOMAIN es = 1..Len(es) /\ DOMAIN long = 1..l
      /\ long[l] = e /\ \A i \in 1..Len(es) : long[i] = es[i]
  OBVIOUS
<1>3. /\ \A i \in 1..Len(es) : j[i] \in 1..n /\ StandsFor(kind, es[i], uses[j[i]])
      /\ \A i, h \in 1..Len(es) : j[i] = j[h] => i = h
  BY <1>1, <1>2 DEF Draws
<1>4. k[l] = n + 1 /\ \A i \in 1..Len(es) : k[i] = j[i]
  BY <1>2
<1>5. \A i \in 1..l : i = l \/ i \in 1..Len(es)
  BY <1>2
<1>6. k \in [1..l -> 1..n + 1]
  <2>1. \A i \in 1..l : k[i] \in 1..n + 1
    <3>. HIDE DEF k, l
    <3>1. n + 1 \in 1..n + 1 /\ \A i \in 1..n : i \in 1..n + 1
      OBVIOUS
    <3>. QED  BY <1>3, <1>4, <1>5, <3>1
  <2>. QED  BY <2>1
<1>. HIDE DEF k, long
<1>7. \A i, h \in 1..l : k[i] = k[h] => i = h
  <2>. HIDE DEF l
  <2>1. \A i \in 1..Len(es) : j[i] # n + 1
    BY <1>3
  <2>. QED  BY <1>3, <1>4, <1>5, <2>1
<1>8. \A i \in 1..l : StandsFor(kind, long[i], more[k[i]])
  <2>. HIDE DEF l
  <2>. QED  BY <1>2, <1>3, <1>4, <1>5
<1>9. Draws(k, kind, long, more, n + 1)
  BY <1>2, <1>6, <1>7, <1>8, Zenon DEF Draws
<1>. QED  BY <1>9 DEF Drawn, long

LEMMA DrawnTail ==
  ASSUME NEW kind, NEW es, NEW uses, NEW n \in Nat, Drawn(kind, es, uses, n),
         NEW tail, NEW k \in Nat, NEW l \in Nat, DOMAIN es = 1..l + k, DOMAIN tail = 1..l,
         \A i \in 1..l : tail[i] = es[i + k]
  PROVE  Drawn(kind, tail, uses, n)
<1>1. PICK j : Draws(j, kind, es, uses, n)
  BY DEF Drawn
<1>. DEFINE t == [i \in 1..l |-> j[i + k]]
<1>2. \A i \in 1..l : i + k \in DOMAIN es /\ t[i] = j[i + k]
  OBVIOUS
<1>3. t \in [1..l -> 1..n]
  BY <1>1, <1>2 DEF Draws
<1>. HIDE DEF t
<1>4. ASSUME NEW i \in 1..l, NEW h \in 1..l, t[i] = t[h]
      PROVE  i = h
  <2>1. i + k \in DOMAIN es /\ h + k \in DOMAIN es /\ j[i + k] = j[h + k]
    BY <1>2, <1>4
  <2>2. \A a, c \in DOMAIN es : j[a] = j[c] => a = c
    BY <1>1, Zenon DEF Draws
  <2>3. i + k = h + k
    BY <2>1, <2>2, Zenon
  <2>. QED  BY <2>3
<1>5. \A i \in 1..l : StandsFor(kind, tail[i], uses[t[i]])
  BY <1>1, <1>2 DEF Draws
<1>6. Draws(t, kind, tail, uses, n)
  BY <1>3, <1>4, <1>5, Zenon DEF Draws
<1>. QED  BY <1>6 DEF Drawn

(* What a log holds sums up to no more than the usages it stands for. *)
LEMMA DrawnSum ==
  ASSUME NEW kind, NEW es, NEW uses, NEW n \in Nat, Drawn(kind, es, uses, n),
         NEW P \in SUBSET DOMAIN es, IsFiniteSet(P), \A i \in P : es[i].values \in Nat,
         NEW Q \in SUBSET (1..n), \A h \in 1..n : uses[h].values \in Nat,
         \A i \in P, h \in 1..n : StandsFor(kind, es[i], uses[h]) => h \in Q
  PROVE  SumOf(es, P) <= SumOf(uses, Q)
<1>1. PICK j : Draws(j, kind, es, uses, n)
  BY DEF Drawn
<1>. DEFINE t == [i \in P |-> j[i]]
<1>2. ASSUME NEW i \in P
      PROVE  t[i] \in Q /\ t[i] = j[i] /\ es[i].values <= uses[t[i]].values
  <2>1. j[i] \in 1..n /\ StandsFor(kind, es[i], uses[j[i]])
    BY <1>1 DEF Draws
  <2>2. uses[j[i]].values = es[i].values
    BY <2>1 DEF StandsFor
  <2>. QED  BY <2>1, <2>2
<1>3. t \in [P -> Q]
  BY <1>2
<1>4. \A i, k \in P : t[i] = t[k] => i = k
  BY <1>1, <1>2 DEF Draws
<1>5. IsFiniteSet(1..n)
  BY FS_Interval
<1>6. IsFiniteSet(Q) /\ \A h \in Q : uses[h].values \in Nat
  BY <1>5, FS_Subset
<1>. HIDE DEF t
<1>. QED  BY <1>2, <1>3, <1>4, <1>6, SumInto

(* Nothing is in a log more often than it was used. *)
Copies(es, e) == {i \in DOMAIN es : es[i] = e}
Sources(uses, n, e) == {h \in 1..n : Records(e, uses[h])}

LEMMA DrawnOccurs ==
  ASSUME NEW es, NEW uses, NEW n \in Nat, Drawn("event", es, uses, n), NEW e
  PROVE  Cardinality(Copies(es, e)) <= Cardinality(Sources(uses, n, e))
<1>1. PICK j : Draws(j, "event", es, uses, n)
  BY DEF Drawn
<1>. DEFINE P == {i \in DOMAIN es : es[i] = e}
            Q == {h \in 1..n : Records(e, uses[h])}
            t == [i \in P |-> j[i]]
<1>2. ASSUME NEW i \in P
      PROVE  t[i] \in Q
  <2>1. j[i] \in 1..n /\ StandsFor("event", e, uses[j[i]])
    BY <1>1 DEF Draws
  <2>. QED  BY <2>1 DEF StandsFor, Records
<1>3. t \in [P -> Q] /\ \A i, k \in P : t[i] = t[k] => i = k
  BY <1>1, <1>2 DEF Draws
<1>4. t \in Injection(P, Q)
  BY <1>3 DEF Injection, IsInjective
<1>5. IsFiniteSet(1..n)
  BY FS_Interval
<1>6. IsFiniteSet(Q)
  BY <1>5, FS_Subset
<1>. HIDE DEF P, Q, t
<1>7. Cardinality(P) <= Cardinality(Q)
  BY <1>4, <1>6, FS_Injection
<1>. QED  BY <1>7, Zenon DEF P, Q, Copies, Sources

-----------------------------------------------------------------------------
(* 5. What holds between any two steps of the clock, the totals, the logs and the rows of the file:
   every logged event stands for a usage of its own, and the events of a row for durable ones.       *)

EventsUpTo(t) == [ts : StartTime..t, values : Amounts \ {0}, model : Models]
AliasEventsUpTo(t) == [ts : StartTime..t, values : Amounts \ {0}]
UsesUpTo(t) == [ts : StartTime..t, values : Amounts, model : Models, viaAlias : BOOLEAN]

Clocked ==
  /\ now \in StartTime..StartTime + MaxTime /\ up \in BOOLEAN /\ regular \in BOOLEAN
  /\ IsTotals(modelStats) /\ IsTotals(daily)
  /\ daySlot \in Nat /\ daySlot <= Day(now)
  /\ dumpTs \in 0..now /\ timerAt \in 0..now
  /\ frozen \in Nat /\ cutoff \in 0..now

Logged ==
  /\ events \in Seq(EventsUpTo(now))
  /\ alias \in Seq(AliasEventsUpTo(now)) /\ InOrder(alias)
  /\ history \in Seq(UsesUpTo(now)) /\ durable \in 0..Len(history)
  /\ Drawn("event", events, history, Len(history))
  /\ Drawn("alias", alias, history, Len(history))

Stopped ==
  ~up => events = <<>> /\ alias = <<>> /\ frozen = 0 /\ cutoff = 0 /\ durable = Len(history)

SoundRow(row, t, slot, uses, n) ==
  /\ row.date \in Nat /\ row.date <= slot /\ row.at \in 0..t
  /\ IsTotals(row.stats)
  /\ IsFiniteSet(DOMAIN row.events) /\ DOMAIN row.events \subseteq Nat
  /\ \A i \in DOMAIN row.events :
       /\ row.events[i] \in EventsUpTo(t)
       /\ \E h \in 1..n : Records(row.events[i], uses[h])
  /\ row.alias # <<>> => /\ row.alias[1] \in Seq(AliasEventsUpTo(t)) /\ InOrder(row.alias[1])
                         /\ Drawn("alias", row.alias[1], uses, n)

SoundFile(rows, t, slot, uses, n) ==
  /\ \E S : rows \in Seq(S)
  /\ Len(rows) <= MaxRows
  /\ \A r \in DOMAIN rows : SoundRow(rows[r], t, slot, uses, n)
  /\ \A r, s \in DOMAIN rows : r < s => rows[r].date <= rows[s].date /\ rows[r].at <= rows[s].at

RowIsSound(row) == SoundRow(row, now, daySlot, history, durable)
Written == SoundFile(file, now, daySlot, history, durable)

Sound == Clocked /\ Logged /\ Stopped /\ Written

LEMMA SoundIsTyped == Sound => TypeOK
<1>. SUFFICES ASSUME Sound  PROVE TypeOK
  OBVIOUS
<1>1. \A i \in DOMAIN events : IsEvent(events[i])
  <2>1. events \in Seq(EventsUpTo(now))
    BY DEF Sound, Logged
  <2>2. \A i \in DOMAIN events : events[i] \in EventsUpTo(now)
    BY <2>1
  <2>. QED  BY <2>2, Zenon DEF EventsUpTo, IsEvent
<1>. QED  BY <1>1 DEF Sound, Clocked, Logged, Written, SoundFile, TypeOK

LEMMA SoundIsNotPhantom == Sound => NoPhantomEvents
<1>. SUFFICES ASSUME Sound  PROVE NoPhantomEvents
  OBVIOUS
<1>1. Len(history) \in Nat /\ DOMAIN history = 1..Len(history)
  BY DEF Sound, Logged
<1>2. Drawn("event", events, history, Len(history))
  BY DEF Sound, Logged
<1>3. ASSUME NEW e
      PROVE  Occurrences(e) <= Recorded(e)
  <2>1. Cardinality(Copies(events, e)) <= Cardinality(Sources(history, Len(history), e))
    BY <1>1, <1>2, DrawnOccurs
  <2>. QED  BY <1>1, <2>1, Zenon DEF Occurrences, Recorded, Copies, Sources
<1>. QED  BY <1>3, Zenon DEF NoPhantomEvents

(* The positions of events in the file are in a strict total order. *)
ArePositions(P) == \A p \in P : p = <<p[1], p[2]>> /\ p[1] \in Int /\ p[2] \in Int

LEMMA PlacesAreTaken ==
  ASSUME NEW P, IsFiniteSet(P), ArePositions(P)
  PROVE  /\ Cardinality(P) \in Nat
         /\ \A n \in 1..Cardinality(P) : \E p \in P : Cardinality({q \in P : Before(q, p)}) + 1 = n
<1>. DEFINE c == Cardinality(P)
            below(p) == {q \in P : Before(q, p)}
            place == [p \in P |-> Cardinality(below(p)) + 1]
<1>1. c \in Nat
  BY FS_CardinalityType
<1>2. ASSUME NEW p \in P
      PROVE  IsFiniteSet(below(p)) /\ Cardinality(below(p)) \in Nat /\ place[p] \in 1..c
  <2>1. below(p) \in SUBSET (P \ {p})
    <3>1. ~ Before(p, p)
      BY DEF ArePositions, Before
    <3>. QED  BY <3>1
  <2>. HIDE DEF below
  <2>2. IsFiniteSet(P \ {p}) /\ Cardinality(P \ {p}) = c - 1
    BY FS_RemoveElement
  <2>3. IsFiniteSet(below(p)) /\ Cardinality(below(p)) <= c - 1 /\ Cardinality(below(p)) \in Nat
    BY <2>1, <2>2, FS_Subset, FS_CardinalityType
  <2>. QED  BY <1>1, <2>3
<1>3. ASSUME NEW p \in P, NEW q \in P, Before(p, q)
      PROVE  place[p] # place[q]
  <2>1. \A o \in P : Before(o, p) => Before(o, q)
    BY <1>3 DEF ArePositions, Before
  <2>2. ~ Before(p, p)
    BY DEF ArePositions, Before
  <2>3. below(p) \in SUBSET below(q) /\ p \in below(q) /\ p \notin below(p)
    BY <1>3, <2>1, <2>2
  <2>4. /\ IsFiniteSet(below(q)) /\ Cardinality(below(q)) \in Nat /\ Cardinality(below(p)) \in Nat
        /\ place[p] = Cardinality(below(p)) + 1 /\ place[q] = Cardinality(below(q)) + 1
    BY <1>2
  <2>. HIDE DEF below, place
  <2>5. Cardinality(below(p)) # Cardinality(below(q))
    BY <2>3, <2>4, FS_Subset
  <2>. QED  BY <2>4, <2>5
<1>4. \A p, q \in P : p = q \/ Before(p, q) \/ Before(q, p)
  BY DEF ArePositions, Before
<1>5. place \in Injection(P, 1..c)
  <2>1. place \in [P -> 1..c]
    BY <1>2
  <2>2. \A p, q \in P : place[p] = place[q] => p = q
    <3>. HIDE DEF place
    <3>. QED  BY <1>3, <1>4
  <2>. QED  BY <2>1, <2>2 DEF Injection, IsInjective
<1>6. IsFiniteSet(1..c) /\ Cardinality(1..c) = c
  BY <1>1, FS_Interval
<1>7. place \in Surjection(P, 1..c)
  <2>. HIDE DEF place
  <2>. QED  BY <1>5, <1>6, FS_Injection
<1>. QED  BY <1>1, <1>7 DEF Surjection

LEMMA ReadableEvents ==
  ASSUME Sound
  PROVE  /\ IsFiniteSet(Readable) /\ ArePositions(Readable)
         /\ \A p \in Readable : /\ EventAt(p) \in EventsUpTo(now)
                                /\ \E h \in 1..durable : Records(EventAt(p), history[h])
<1>. DEFINE part == [r \in RetainedRows |-> {r} \X DOMAIN file[r].events]
            parts == {{r} \X DOMAIN file[r].events : r \in RetainedRows}
<1>1. Len(file) \in Nat /\ DOMAIN file = 1..Len(file) /\ RetainedRows \in SUBSET DOMAIN file
  BY DEF Sound, Written, SoundFile, RetainedRows
<1>2. IsFiniteSet(RetainedRows)
  <2>1. IsFiniteSet(1..Len(file))
    BY <1>1, FS_Interval
  <2>. QED  BY <1>1, <2>1, FS_Subset
<1>3. part \in Surjection(RetainedRows, parts)
  BY DEF Surjection
<1>4. IsFiniteSet(parts)
  <2>. HIDE DEF part, parts
  <2>. QED  BY <1>2, <1>3, FS_Surjection
<1>5. \A S \in parts : IsFiniteSet(S)
  <2>1. ASSUME NEW r \in RetainedRows
        PROVE  IsFiniteSet({r} \X DOMAIN file[r].events)
    <3>. DEFINE A == {r}
                B == DOMAIN file[r].events
    <3>1. IsFiniteSet(A)
      BY FS_Singleton
    <3>2. IsFiniteSet(B)
      BY <1>1 DEF Sound, Written, SoundFile, RowIsSound, SoundRow
    <3>. HIDE DEF A, B
    <3>3. IsFiniteSet(A \X B)
      BY <3>1, <3>2, FS_Product
    <3>. QED  BY <3>3 DEF A, B
  <2>. QED  BY <2>1
<1>6. Readable \in SUBSET UNION parts
  BY DEF Readable
<1>7. IsFiniteSet(Readable)
  <2>. HIDE DEF parts
  <2>. QED  BY <1>4, <1>5, <1>6, FS_UNION, FS_Subset
<1>8. ASSUME NEW p \in Readable
      PROVE  p = <<p[1], p[2]>> /\ p[1] \in DOMAIN file /\ p[2] \in DOMAIN file[p[1]].events
  <2>1. PICK r \in RetainedRows : p \in {r} \X DOMAIN file[r].events
    BY DEF Readable
  <2>. QED  BY <1>1, <2>1
<1>9. ASSUME NEW p \in Readable
      PROVE  /\ p = <<p[1], p[2]>> /\ p[1] \in Int /\ p[2] \in Int
             /\ EventAt(p) \in EventsUpTo(now)
             /\ \E h \in 1..durable : Records(EventAt(p), history[h])
  <2>1. RowIsSound(file[p[1]])
    BY <1>8 DEF Sound, Written, SoundFile, RowIsSound
  <2>2. p[2] \in Nat /\ EventAt(p) \in EventsUpTo(now)
    BY <1>8, <2>1 DEF RowIsSound, SoundRow, EventAt
  <2>3. \E h \in 1..durable : Records(EventAt(p), history[h])
    BY <1>8, <2>1 DEF RowIsSound, SoundRow, EventAt
  <2>. QED  BY <1>1, <1>8, <2>2, <2>3
<1>. QED  BY <1>7, <1>9 DEF ArePositions

LEMMA TailInOrder ==
  ASSUME NEW es, NEW tail, NEW k \in Nat, NEW l \in Nat, DOMAIN es = 1..l + k, DOMAIN tail = 1..l,
         \A i \in 1..l : tail[i] = es[i + k], InOrder(es)
  PROVE  InOrder(tail)
<1>. SUFFICES ASSUME NEW i \in 1..l, NEW h \in 1..l, i < h
              PROVE  tail[i].ts <= tail[h].ts
  BY DEF InOrder
<1>1. i + k \in DOMAIN es /\ h + k \in DOMAIN es /\ i + k < h + k
  OBVIOUS
<1>2. es[i + k].ts <= es[h + k].ts
  BY <1>1 DEF InOrder
<1>. QED  BY <1>2

(* Pruning keeps what matters of a log. *)
LEMMA PrunedLog ==
  ASSUME NEW S, NEW es \in Seq(S), \A i \in DOMAIN es : es[i].ts \in Int, NEW horizon \in Int,
         NEW kind, NEW uses, NEW n \in Nat, Drawn(kind, es, uses, n)
  PROVE  /\ DropOlder(es, horizon) \in Seq(S)
         /\ Drawn(kind, DropOlder(es, horizon), uses, n)
         /\ InOrder(es) => InOrder(DropOlder(es, horizon))
         /\ \E k \in Nat, l \in Nat :
              /\ DOMAIN es = 1..l + k /\ DOMAIN DropOlder(es, horizon) = 1..l
              /\ \A i \in 1..l : DropOlder(es, horizon)[i] = es[i + k]
<1>. DEFINE tail == DropOlder(es, horizon)
<1>1. /\ tail \in Seq(S)
      /\ \E k \in 0..Len(es) :
           /\ Len(tail) = Len(es) - k
           /\ \A i \in 1..Len(es) - k : tail[i] = es[i + k]
  BY DropOlderIsTail
<1>. HIDE DEF tail
<1>2. PICK k \in 0..Len(es) :
        /\ Len(tail) = Len(es) - k
        /\ \A i \in 1..Len(es) - k : tail[i] = es[i + k]
  BY <1>1
<1>. DEFINE l == Len(es) - k
<1>3. l \in Nat /\ k \in Nat /\ DOMAIN es = 1..l + k /\ DOMAIN tail = 1..l
  BY <1>1, <1>2
<1>4. \A i \in 1..l : tail[i] = es[i + k]
  BY <1>2
<1>. HIDE DEF l
<1>5. Drawn(kind, tail, uses, n)
  BY <1>3, <1>4, DrawnTail
<1>6. InOrder(es) => InOrder(tail)
  BY <1>3, <1>4, TailInOrder
<1>. QED  BY <1>1, <1>3, <1>4, <1>5, <1>6 DEF tail

(* What a restart loads: distinct events, each of them a durable usage; totals of known models; and a
   tail of the log of the alias. *)
LEMMA LoadedEvents ==
  ASSUME Sound
  PROVE  /\ RestoredEvents \in Seq(EventsUpTo(now))
         /\ Drawn("event", RestoredEvents, history, durable)
<1>. DEFINE N == Cardinality(Pushed)
            at(n) == CHOOSE p \in Pushed : Place(p) = n
            all == [n \in 1..N |-> EventAt(at(n))]
            use(n) == CHOOSE h \in 1..durable : Records(all[n], history[h])
            j == [n \in 1..N |-> use(n)]
<1>1. Pushed \in SUBSET Readable /\ IsFiniteSet(Pushed) /\ ArePositions(Pushed)
  <2>1. Pushed \in SUBSET Readable
    BY DEF Pushed
  <2>. QED  BY <2>1, ReadableEvents, FS_Subset DEF ArePositions
<1>2. N \in Nat
  BY <1>1, FS_CardinalityType
<1>3. ASSUME NEW n \in 1..N
      PROVE  at(n) \in Pushed /\ Place(at(n)) = n /\ all[n] = EventAt(at(n))
  <2>1. \E p \in Pushed : Cardinality({q \in Pushed : Before(q, p)}) + 1 = n
    BY <1>1, PlacesAreTaken
  <2>2. \E p \in Pushed : Place(p) = n
    BY <2>1, Zenon DEF Place
  <2>3. at(n) \in Pushed /\ Place(at(n)) = n
    BY <2>2, Zenon
  <2>. QED  BY <2>3
<1>. HIDE DEF at, N
<1>4. ASSUME NEW n \in 1..N
      PROVE  /\ all[n] \in EventsUpTo(now)
             /\ j[n] \in 1..durable /\ Records(all[n], history[j[n]])
  <2>1. EventAt(at(n)) \in EventsUpTo(now) /\ \E h \in 1..durable : Records(EventAt(at(n)), history[h])
    BY <1>1, <1>3, ReadableEvents
  <2>2. all[n] = EventAt(at(n)) /\ j[n] = use(n)
    OBVIOUS
  <2>. HIDE DEF all
  <2>3. use(n) \in 1..durable /\ Records(all[n], history[use(n)])
    BY <2>1, <2>2, Zenon
  <2>. QED  BY <2>1, <2>2, <2>3
<1>5. ASSUME NEW m \in 1..N, NEW n \in 1..N, all[m] = all[n]
      PROVE  m = n
  <2>. DEFINE p == at(m)
              q == at(n)
  <2>1. p \in Pushed /\ q \in Pushed /\ Place(p) = m /\ Place(q) = n /\ EventAt(p) = EventAt(q)
    BY <1>3, <1>5
  <2>. HIDE DEF p, q
  <2>2. ~ Before(p, q) /\ ~ Before(q, p)
    BY <2>1 DEF Pushed
  <2>3. p = q
    BY <1>1, <2>1, <2>2 DEF ArePositions, Before
  <2>. QED  BY <2>1, <2>3
<1>6. all \in Seq(EventsUpTo(now)) /\ DOMAIN all = 1..N /\ Len(all) = N
  <2>1. \A n \in 1..N : EventAt(at(n)) \in EventsUpTo(now)
    BY <1>4
  <2>. QED  BY <1>2, <2>1
<1>7. DOMAIN j = 1..N
  OBVIOUS
<1>. HIDE DEF all, j
<1>8. ASSUME NEW m \in 1..N, NEW n \in 1..N, j[m] = j[n]
      PROVE  m = n
  <2>1. /\ all[m].ts = all[n].ts /\ all[m].values = all[n].values /\ all[m].model = all[n].model
    BY <1>4, <1>8 DEF Records
  <2>2. all[m] = all[n]
    BY <1>4, <2>1 DEF EventsUpTo
  <2>. QED  BY <1>5, <2>2
<1>9. Draws(j, "event", all, history, durable)
  <2>1. j \in [DOMAIN all -> 1..durable]
    <3>. USE DEF j
    <3>1. \A n \in 1..N : use(n) \in 1..durable
      BY <1>4
    <3>. HIDE DEF use
    <3>. QED  BY <1>6, <3>1
  <2>2. \A n \in 1..N : StandsFor("event", all[n], history[j[n]])
    BY <1>4 DEF Records, StandsFor
  <2>. QED  BY <1>6, <1>8, <2>1, <2>2, Zenon DEF Draws
<1>10. Drawn("event", all, history, durable)
  BY <1>9, Zenon DEF Drawn
<1>. DEFINE horizon == now - RetentionDays * DayLength
<1>11. RestoredEvents = DropOlder(all, horizon)
  BY DEF RestoredEvents, all, at, N
<1>12. horizon \in Int /\ \A n \in DOMAIN all : all[n].ts \in Int
  <2>1. StartTime \in Int /\ now \in Int
    BY LedgerAssumption DEF Sound, Clocked
  <2>2. RetentionDays * DayLength \in Int
    BY LedgerAssumption
  <2>. QED  BY <1>4, <1>6, <2>1, <2>2 DEF EventsUpTo
<1>. HIDE DEF horizon
<1>13. durable \in Nat
  BY DEF Sound, Logged
<1>. QED  BY <1>6, <1>10, <1>11, <1>12, <1>13, PrunedLog

LEMMA LatestRowsAreRows ==
  ASSUME Sound
  PROVE  /\ Len(file) \in Nat /\ DOMAIN file = 1..Len(file)
         /\ LatestRows \in SUBSET DOMAIN file /\ IsFiniteSet(LatestRows)
         /\ \A r \in LatestRows : RowIsSound(file[r])
<1>1. Len(file) \in Nat /\ DOMAIN file = 1..Len(file)
  BY DEF Sound, Written, SoundFile
<1>2. LatestRows \in SUBSET DOMAIN file
  BY DEF LatestRows, RetainedRows
<1>3. IsFiniteSet(1..Len(file))
  BY <1>1, FS_Interval
<1>. QED  BY <1>1, <1>2, <1>3, FS_Subset DEF Sound, Written, SoundFile, RowIsSound

LEMMA LoadedTotals ==
  ASSUME Sound
  PROVE  /\ IsTotals(RestoredModelStats) /\ IsTotals(RestoredDaily)
         /\ \A m \in RestoredModels : /\ Max(RowsWith(m)) \in RowsWith(m)
                                      /\ \A r \in RowsWith(m) : r <= Max(RowsWith(m))
         /\ \A m : /\ IsFiniteSet(RowsWith(m))
                   /\ \A r \in RowsWith(m) : file[r].stats[m] \in Nat
<1>1. ASSUME NEW m
      PROVE  /\ RowsWith(m) \in SUBSET LatestRows /\ IsFiniteSet(RowsWith(m))
             /\ \A r \in RowsWith(m) : file[r].stats[m] \in Nat
  <2>1. RowsWith(m) \in SUBSET LatestRows /\ \A r \in RowsWith(m) : m \in DOMAIN file[r].stats
    BY DEF RowsWith
  <2>2. IsFiniteSet(RowsWith(m))
    BY <2>1, LatestRowsAreRows, FS_Subset
  <2>3. \A r \in RowsWith(m) : IsTotals(file[r].stats)
    BY <2>1, LatestRowsAreRows DEF RowIsSound, SoundRow
  <2>. QED  BY <2>1, <2>2, <2>3 DEF IsTotals
<1>2. ASSUME NEW m \in RestoredModels
      PROVE  /\ Max(RowsWith(m)) \in RowsWith(m)
             /\ \A r \in RowsWith(m) : r <= Max(RowsWith(m))
  <2>1. RowsWith(m) # {}
    BY DEF RestoredModels
  <2>2. RowsWith(m) \in SUBSET (0..Len(file)) /\ Len(file) \in Nat
    BY <1>1, LatestRowsAreRows
  <2>. QED  BY <2>1, <2>2, LargestIsMax
<1>3. ASSUME NEW m \in RestoredModels
      PROVE  Tokens([r \in RowsWith(m) |-> file[r].stats[m]]) \in Nat
  <2>. DEFINE f == [r \in RowsWith(m) |-> file[r].stats[m]]
  <2>1. f \in [RowsWith(m) -> Nat]
    BY <1>1
  <2>. HIDE DEF f
  <2>2. Tokens(f) \in Nat
    BY <1>1, <2>1, TokensAreFinite
  <2>. QED  BY <2>2 DEF f
<1>4. RestoredModels \subseteq Models
  BY DEF RestoredModels
<1>5. IsTotals(RestoredModelStats)
  BY <1>3, <1>4 DEF IsTotals, RestoredModelStats
<1>6. IsTotals(RestoredDaily)
  <2>1. \A m \in RestoredModels : file[Max(RowsWith(m))].stats[m] \in Nat
    BY <1>1, <1>2
  <2>. QED  BY <1>4, <2>1 DEF IsTotals, RestoredDaily
<1>. QED  BY <1>1, <1>2, <1>5, <1>6


LEMMA LoadedAlias ==
  ASSUME Sound
  PROVE  /\ RestoredAlias \in Seq(AliasEventsUpTo(now)) /\ InOrder(RestoredAlias)
         /\ Drawn("alias", RestoredAlias, history, durable)
<1>0. durable \in Nat
  BY DEF Sound, Logged
<1>1. CASE AliasRows = {}
  <2>1. RestoredAlias = <<>>
    BY <1>1 DEF RestoredAlias
  <2>2. InOrder(<<>>) /\ <<>> \in Seq(AliasEventsUpTo(now))
    BY DEF InOrder
  <2>3. Drawn("alias", <<>>, history, durable)
    BY <1>0, DrawnFromNothing
  <2>. QED  BY <2>1, <2>2, <2>3
<1>2. CASE AliasRows # {}
  <2>. DEFINE row == file[Max(AliasRows)]
              horizon == now - Retention
  <2>1. AliasRows \in SUBSET (0..Len(file)) /\ Len(file) \in Nat
    BY LatestRowsAreRows DEF AliasRows
  <2>2. Max(AliasRows) \in AliasRows
    BY <1>2, <2>1, LargestIsMax
  <2>3. RowIsSound(row) /\ row.alias # <<>>
    BY <2>2, LatestRowsAreRows DEF AliasRows
  <2>4. RestoredAlias = DropOlder(row.alias[1], horizon)
    BY <1>2 DEF RestoredAlias
  <2>. HIDE DEF row
  <2>5. /\ row.alias[1] \in Seq(AliasEventsUpTo(now)) /\ InOrder(row.alias[1])
        /\ Drawn("alias", row.alias[1], history, durable)
    BY <2>3 DEF RowIsSound, SoundRow
  <2>. DEFINE es == row.alias[1]
  <2>6. horizon \in Int
    BY LedgerAssumption DEF Sound, Clocked
  <2>. HIDE DEF es, horizon
  <2>7. \A i \in DOMAIN es : es[i].ts \in Int
    <3>1. \A i \in DOMAIN es : es[i] \in AliasEventsUpTo(now)
      BY <2>5 DEF es
    <3>2. StartTime \in Int
      BY LedgerAssumption
    <3>. QED  BY <3>1, <3>2 DEF AliasEventsUpTo
  <2>8. es \in Seq(AliasEventsUpTo(now)) /\ InOrder(es) /\ Drawn("alias", es, history, durable)
    BY <2>5 DEF es
  <2>9. RestoredAlias = DropOlder(es, horizon)
    BY <2>4 DEF es
  <2>. QED  BY <1>0, <2>6, <2>7, <2>8, <2>9, PrunedLog
<1>. QED  BY <1>1, <1>2

LEMMA AddToTotals ==
  ASSUME NEW totals, IsTotals(totals), NEW m \in Models, NEW v \in Nat
  PROVE  /\ IsTotals(AddTo(totals, m, v))
         /\ TotalOf(AddTo(totals, m, v), m) = TotalOf(totals, m) + v
         /\ \A x \in Models \ {m} : TotalOf(AddTo(totals, m, v), x) = TotalOf(totals, x)
<1>1. \A x : TotalOf(totals, x) \in Nat
  BY DEF IsTotals, TotalOf
<1>2. /\ DOMAIN AddTo(totals, m, v) = DOMAIN totals \cup {m}
      /\ \A x \in DOMAIN totals \cup {m} :
           AddTo(totals, m, v)[x] = TotalOf(totals, x) + (IF x = m THEN v ELSE 0)
  BY Zenon DEF AddTo
<1>3. IsTotals(AddTo(totals, m, v))
  BY <1>1, <1>2 DEF IsTotals
<1>4. TotalOf(AddTo(totals, m, v), m) = TotalOf(totals, m) + v
  <2>1. AddTo(totals, m, v)[m] = TotalOf(totals, m) + v
    BY <1>2
  <2>. QED  BY <1>2, <2>1 DEF TotalOf
<1>5. ASSUME NEW x \in Models \ {m}
      PROVE  TotalOf(AddTo(totals, m, v), x) = TotalOf(totals, x)
  <2>1. CASE x \in DOMAIN totals
    <3>1. AddTo(totals, m, v)[x] = TotalOf(totals, x)
      BY <1>1, <1>2, <2>1
    <3>. QED  BY <1>2, <2>1, <3>1 DEF TotalOf
  <2>2. CASE x \notin DOMAIN totals
    BY <1>2, <2>2 DEF TotalOf
  <2>. QED  BY <2>1, <2>2
<1>. QED  BY <1>3, <1>4, <1>5

LEMMA NoTotalsAreTotals == IsTotals(NoTotals) /\ \A m : TotalOf(NoTotals, m) = 0
BY DEF IsTotals, NoTotals, TotalOf

-----------------------------------------------------------------------------
(* 6. The window.  What has been absorbed is usage from before the last boundary. *)

AbsorbedIsPast(sum, from) == sum <= UsedBefore(from)

(* The parts of the log one query tells apart: [1..lo] passed over, [lo+1..split] absorbed, the rest
   scanned. *)
LEMMA QueryParts ==
  ASSUME Sound, NEW w \in Windows
  PROVE  /\ now - w \in 0..now
         /\ \E lo \in 0..Len(events) : \E split \in lo..Len(events) :
              /\ WindowQuery(events, now - w).frozen = frozen + SumOf(events, lo + 1..split)
              /\ WindowQuery(events, now - w).result
                   = frozen + SumOf(events, lo + 1..split) + SumOf(events, split + 1..Len(events))
              /\ lo = 0 \/ events[lo].ts < cutoff
              /\ lo = Len(events) \/ events[lo + 1].ts >= cutoff
              /\ \A i \in lo + 1..split : events[i].ts < now - w
              /\ split = Len(events) \/ events[split + 1].ts >= now - w
<1>. DEFINE from == now - w
            n == Len(events)
            lo == IF cutoff > 0 THEN BinarySearch(events, cutoff) ELSE 0
            live == {i \in lo + 1..n : events[i].ts >= from}
            split == IF live = {} THEN n ELSE Min(live) - 1
<1>1. /\ n \in Nat /\ DOMAIN events = 1..n
      /\ \A i \in 1..n : events[i].ts \in Int /\ events[i].ts >= 0
  <2>1. n \in Nat /\ DOMAIN events = 1..n /\ \A i \in 1..n : events[i] \in EventsUpTo(now)
    BY DEF Sound, Logged
  <2>2. \A i \in 1..n : events[i].ts \in StartTime..now
    BY <2>1 DEF EventsUpTo
  <2>3. StartTime \in Nat /\ now \in Int
    BY LedgerAssumption DEF Sound, Clocked
  <2>. QED  BY <2>1, <2>2, <2>3
<1>2. cutoff \in 0..now /\ now \in Nat /\ from \in 0..now
  <2>1. /\ StartTime \in Nat /\ StartTime > Retention /\ Retention \in Nat /\ w \in 1..Retention
        /\ MaxTime \in Nat
    BY LedgerAssumption
  <2>2. now \in StartTime..StartTime + MaxTime /\ cutoff \in 0..now
    BY DEF Sound, Clocked
  <2>. QED  BY <2>1, <2>2
<1>3. WindowQuery(events, from)
        = [frozen |-> frozen + SumOf(events, lo + 1..split),
           result |-> frozen + SumOf(events, lo + 1..split) + SumOf(events, split + 1..n)]
  BY Zenon DEF WindowQuery
<1>4. /\ lo \in 0..n
      /\ lo = 0 \/ events[lo].ts < cutoff
      /\ lo = n \/ events[lo + 1].ts >= cutoff
  <2>1. CASE cutoff > 0
    <3>1. lo = BinarySearch(events, cutoff)
      BY <2>1
    <3>. HIDE DEF lo, n
    <3>2. Len(events) \in Nat /\ cutoff \in Int /\ \A i \in 1..Len(events) : events[i].ts \in Int
      BY <1>1, <1>2 DEF n
    <3>. QED  BY <3>1, <3>2, SearchEnds DEF n
  <2>2. CASE ~ (cutoff > 0)
    <3>1. lo = 0 /\ cutoff = 0
      BY <1>2, <2>2
    <3>2. lo = n \/ lo + 1 \in 1..n
      BY <1>1, <3>1
    <3>. HIDE DEF lo, n
    <3>. QED  BY <1>1, <3>1, <3>2
  <2>. QED  BY <2>1, <2>2
<1>. HIDE DEF lo, from
<1>5. /\ split \in lo..n /\ \A i \in lo + 1..split : events[i].ts < from
      /\ split = n \/ events[split + 1].ts >= from
  <2>1. CASE live = {}
    <3>1. split = n
      BY <2>1
    <3>2. \A i \in lo + 1..n : ~ (events[i].ts >= from)
      BY <2>1
    <3>. HIDE DEF n, split
    <3>. QED  BY <1>1, <1>2, <1>4, <3>1, <3>2
  <2>2. CASE live # {}
    <3>1. split = Min(live) - 1
      BY <2>2
    <3>2. live \in SUBSET (0..n)
      <4>1. live \subseteq lo + 1..n
        OBVIOUS
      <4>. HIDE DEF live, n
      <4>. QED  BY <1>1, <1>4, <4>1
    <3>3. Min(live) \in live /\ \A i \in live : Min(live) <= i
      <4>. HIDE DEF live, n
      <4>. QED  BY <1>1, <2>2, <3>2, LeastIsMin
    <3>4. Min(live) \in lo + 1..n
      BY <3>3
    <3>5. ASSUME NEW i \in lo + 1..Min(live) - 1
          PROVE  events[i].ts < from
      <4>1. i \in 1..n /\ i \in lo + 1..n /\ ~ (Min(live) <= i)
        <5>. HIDE DEF live, n
        <5>. QED  BY <1>1, <1>4, <3>4
      <4>2. i \notin live
        BY <3>3, <4>1
      <4>. QED  BY <1>1, <1>2, <4>1, <4>2
    <3>6. events[Min(live)].ts >= from
      BY <3>3
    <3>7. Min(live) \in Int /\ split + 1 = Min(live)
      <4>. HIDE DEF split, live, n
      <4>. QED  BY <1>1, <1>4, <3>1, <3>4
    <3>. HIDE DEF split, live, n
    <3>. QED  BY <1>1, <1>4, <3>1, <3>4, <3>5, <3>6, <3>7
  <2>. QED  BY <2>1, <2>2
<1>. HIDE DEF split, live
<1>6. /\ WindowQuery(events, from).frozen = frozen + SumOf(events, lo + 1..split)
      /\ WindowQuery(events, from).result
           = frozen + SumOf(events, lo + 1..split) + SumOf(events, split + 1..n)
  BY <1>3
<1>. QED  BY <1>2, <1>4, <1>5, <1>6 DEF from

LEMMA LogSums ==
  ASSUME Sound
  PROVE  /\ Len(events) \in Nat /\ DOMAIN events = 1..Len(events)
         /\ \A i \in DOMAIN events : /\ events[i] \in EventsUpTo(now)
                                     /\ events[i].ts \in StartTime..now /\ events[i].values \in Nat
         /\ \A A, B \in SUBSET DOMAIN events :
              /\ IsFiniteSet(A) /\ SumOf(events, A) \in Nat
              /\ A \subseteq B => SumOf(events, A) <= SumOf(events, B)
              /\ A \cap B = {} => SumOf(events, A \cup B) = SumOf(events, A) + SumOf(events, B)
<1>1. Len(events) \in Nat /\ DOMAIN events = 1..Len(events) /\ \A i \in DOMAIN events : events[i] \in EventsUpTo(now)
  BY DEF Sound, Logged
<1>2. \A i \in DOMAIN events : events[i].ts \in StartTime..now /\ events[i].values \in Nat
  BY <1>1, LedgerAssumption DEF EventsUpTo
<1>. DEFINE n == Len(events)
<1>3. n \in Nat /\ DOMAIN events = 1..n /\ \A i \in 1..n : events[i].values \in Nat
  BY <1>1, <1>2
<1>. HIDE DEF n
<1>4. \A A, B \in SUBSET (1..n) :
        /\ IsFiniteSet(A) /\ SumOf(events, A) \in Nat
        /\ A \subseteq B => SumOf(events, A) <= SumOf(events, B)
        /\ A \cap B = {} => SumOf(events, A \cup B) = SumOf(events, A) + SumOf(events, B)
  BY <1>3, SumsOfParts
<1>. QED  BY <1>1, <1>2, <1>3, <1>4

LEMMA HistorySums ==
  ASSUME Sound
  PROVE  /\ Len(history) \in Nat /\ DOMAIN history = 1..Len(history)
         /\ \A h \in DOMAIN history : /\ history[h] \in UsesUpTo(now)
                                      /\ history[h].ts \in StartTime..now /\ history[h].values \in Nat
         /\ Sum(history) \in Nat
         /\ \A A, B \in SUBSET DOMAIN history :
              /\ IsFiniteSet(A) /\ SumOf(history, A) \in Nat
              /\ A \subseteq B => SumOf(history, A) <= SumOf(history, B)
              /\ A \cap B = {} => SumOf(history, A \cup B) = SumOf(history, A) + SumOf(history, B)
<1>1. /\ Len(history) \in Nat /\ DOMAIN history = 1..Len(history)
      /\ \A h \in DOMAIN history : history[h] \in UsesUpTo(now)
  BY DEF Sound, Logged
<1>2. \A h \in DOMAIN history : history[h].ts \in StartTime..now /\ history[h].values \in Nat
  BY <1>1, LedgerAssumption DEF UsesUpTo
<1>3. \A A, B \in SUBSET DOMAIN history :
        /\ IsFiniteSet(A) /\ SumOf(history, A) \in Nat
        /\ A \subseteq B => SumOf(history, A) <= SumOf(history, B)
        /\ A \cap B = {} => SumOf(history, A \cup B) = SumOf(history, A) + SumOf(history, B)
  <2>. DEFINE n == Len(history)
  <2>1. n \in Nat /\ DOMAIN history = 1..n /\ \A i \in 1..n : history[i].values \in Nat
    BY <1>1, <1>2
  <2>. HIDE DEF n
  <2>2. \A A, B \in SUBSET (1..n) :
          /\ IsFiniteSet(A) /\ SumOf(history, A) \in Nat
          /\ A \subseteq B => SumOf(history, A) <= SumOf(history, B)
          /\ A \cap B = {} => SumOf(history, A \cup B) = SumOf(history, A) + SumOf(history, B)
    BY <2>1, SumsOfParts
  <2>. QED  BY <2>1, <2>2
<1>4. Sum(history) \in Nat
  BY <1>3 DEF Sum
<1>. QED  BY <1>1, <1>2, <1>3, <1>4

(* What was used before a boundary grows with it. *)
LEMMA UsedParts ==
  ASSUME Sound, NEW a \in Int, NEW b \in Int, a <= b
  PROVE  /\ UsedBefore(a) \in Nat /\ UsedSince(a) \in Nat
         /\ UsedBefore(b)
              = UsedBefore(a) + SumOf(history, {h \in DOMAIN history : history[h].ts >= a /\ history[h].ts < b})
<1>. DEFINE A == {h \in DOMAIN history : history[h].ts < a}
            B == {h \in DOMAIN history : history[h].ts < b}
            C == {h \in DOMAIN history : history[h].ts >= a}
            D == {h \in DOMAIN history : history[h].ts >= a /\ history[h].ts < b}
<1>1. \A h \in DOMAIN history : history[h].ts \in Int
  BY HistorySums, LedgerAssumption DEF Sound, Clocked
<1>2. A \cap D = {} /\ A \cup D = B
  BY <1>1
<1>3. /\ A \in SUBSET DOMAIN history /\ B \in SUBSET DOMAIN history
      /\ C \in SUBSET DOMAIN history /\ D \in SUBSET DOMAIN history
  OBVIOUS
<1>4. UsedBefore(a) = SumOf(history, A) /\ UsedBefore(b) = SumOf(history, B) /\ UsedSince(a) = SumOf(history, C)
  BY Zenon DEF UsedBefore, UsedSince
<1>. HIDE DEF A, B, C, D
<1>5. SumOf(history, A) \in Nat /\ SumOf(history, C) \in Nat
  BY <1>3, HistorySums
<1>6. SumOf(history, B) = SumOf(history, A) + SumOf(history, D)
  BY <1>2, <1>3, HistorySums
<1>. QED  BY <1>4, <1>5, <1>6 DEF D

(* Events that are all of a time stand for usages of that time. *)
LEMMA EventsWereUsed ==
  ASSUME Sound, NEW P \in SUBSET DOMAIN events, NEW Q \in SUBSET DOMAIN history,
         \A i \in P, h \in DOMAIN history : history[h].ts = events[i].ts => h \in Q
  PROVE  SumOf(events, P) <= SumOf(history, Q)
<1>. DEFINE n == Len(history)
<1>1. n \in Nat /\ DOMAIN history = 1..n /\ Drawn("event", events, history, n)
  BY HistorySums DEF Sound, Logged
<1>2. IsFiniteSet(P) /\ (\A i \in P : events[i].values \in Nat) /\ \A h \in 1..n : history[h].values \in Nat
  BY LogSums, HistorySums
<1>. HIDE DEF n
<1>3. Q \in SUBSET (1..n) /\ \A i \in P, h \in 1..n : StandsFor("event", events[i], history[h]) => h \in Q
  BY <1>1 DEF StandsFor
<1>. QED  BY <1>1, <1>2, <1>3, DrawnSum

(* A query whose boundary does not go back absorbs usage from before the new one, and leaves in the
   window only usage since. *)
LEMMA QuerySplits ==
  ASSUME Sound, NEW w \in Windows
  PROVE  /\ now - w \in 0..now
         /\ WindowQuery(events, now - w).frozen \in Nat
         /\ InOrder(events) /\ AbsorbedIsPast(frozen, cutoff) /\ cutoff <= now - w =>
              QueryIsSplit(WindowQuery(events, now - w), now - w)
<1>. DEFINE n == Len(events)
            from == now - w
<1>1. PICK lo \in 0..n : \E split \in lo..n :
        /\ WindowQuery(events, from).frozen = frozen + SumOf(events, lo + 1..split)
        /\ WindowQuery(events, from).result
             = frozen + SumOf(events, lo + 1..split) + SumOf(events, split + 1..n)
        /\ lo = 0 \/ events[lo].ts < cutoff
        /\ lo = n \/ events[lo + 1].ts >= cutoff
        /\ \A i \in lo + 1..split : events[i].ts < from
        /\ split = n \/ events[split + 1].ts >= from
  BY QueryParts
<1>2. PICK split \in lo..n :
        /\ WindowQuery(events, from).frozen = frozen + SumOf(events, lo + 1..split)
        /\ WindowQuery(events, from).result
             = frozen + SumOf(events, lo + 1..split) + SumOf(events, split + 1..n)
        /\ lo = 0 \/ events[lo].ts < cutoff
        /\ lo = n \/ events[lo + 1].ts >= cutoff
        /\ \A i \in lo + 1..split : events[i].ts < from
        /\ split = n \/ events[split + 1].ts >= from
  BY <1>1
<1>. DEFINE A == lo + 1..split
            B == split + 1..n
<1>3. n \in Nat /\ DOMAIN events = 1..n /\ \A i \in 1..n : events[i].ts \in Int
  BY LogSums, LedgerAssumption DEF Sound, Clocked
<1>4. from \in 0..now /\ now \in Int /\ cutoff \in Int /\ frozen \in Nat
  <2>1. from \in 0..now
    BY QueryParts
  <2>. QED  BY <2>1, LedgerAssumption DEF Sound, Clocked
<1>. HIDE DEF n, from
<1>5. A \in SUBSET DOMAIN events /\ B \in SUBSET DOMAIN events
  BY <1>3
<1>6. SumOf(events, A) \in Nat /\ SumOf(events, B) \in Nat
  <2>. HIDE DEF A, B
  <2>. QED  BY <1>5, LogSums
<1>7. /\ WindowQuery(events, from).frozen = frozen + SumOf(events, A)
      /\ WindowQuery(events, from).result = frozen + SumOf(events, A) + SumOf(events, B)
  BY <1>2, Zenon
<1>8. WindowQuery(events, from).frozen \in Nat
  <2>. HIDE DEF A, B
  <2>. QED  BY <1>4, <1>6, <1>7
<1>9. ASSUME InOrder(events), AbsorbedIsPast(frozen, cutoff), cutoff <= from
      PROVE  QueryIsSplit(WindowQuery(events, from), from)
  <2>. DEFINE Between == {h \in DOMAIN history : history[h].ts >= cutoff /\ history[h].ts < from}
              Since == {h \in DOMAIN history : history[h].ts >= from}
  <2>1. ASSUME NEW i \in A
        PROVE  events[i].ts >= cutoff /\ events[i].ts < from
    <3>1. lo + 1 \in 1..n /\ i \in 1..n /\ (i = lo + 1 \/ lo + 1 < i) /\ lo # n
      BY <1>3
    <3>2. events[lo + 1].ts <= events[i].ts
      BY <1>3, <1>9, <3>1 DEF InOrder
    <3>3. events[lo + 1].ts >= cutoff /\ events[i].ts < from
      BY <1>2, <3>1
    <3>. QED  BY <1>3, <1>4, <3>1, <3>2, <3>3
  <2>2. ASSUME NEW i \in B
        PROVE  events[i].ts >= from
    <3>1. split + 1 \in 1..n /\ i \in 1..n /\ (i = split + 1 \/ split + 1 < i) /\ split # n
      BY <1>3
    <3>2. events[split + 1].ts <= events[i].ts
      BY <1>3, <1>9, <3>1 DEF InOrder
    <3>3. events[split + 1].ts >= from
      BY <1>2, <3>1
    <3>. QED  BY <1>3, <1>4, <3>1, <3>2, <3>3
  <2>3. Between \in SUBSET DOMAIN history /\ Since \in SUBSET DOMAIN history
    OBVIOUS
  <2>4. /\ \A i \in A, h \in DOMAIN history : history[h].ts = events[i].ts => h \in Between
        /\ \A i \in B, h \in DOMAIN history : history[h].ts = events[i].ts => h \in Since
    BY <2>1, <2>2
  <2>5. UsedBefore(from) = UsedBefore(cutoff) + SumOf(history, Between) /\ UsedBefore(cutoff) \in Nat
    BY <1>4, <1>9, UsedParts
  <2>6. UsedSince(from) = SumOf(history, Since)
    BY Zenon DEF UsedSince
  <2>. HIDE DEF A, B, Between, Since
  <2>7. SumOf(events, A) <= SumOf(history, Between) /\ SumOf(events, B) <= SumOf(history, Since)
    BY <1>5, <2>3, <2>4, EventsWereUsed
  <2>8. SumOf(history, Between) \in Nat /\ SumOf(history, Since) \in Nat
    BY <2>3, HistorySums
  <2>9. frozen <= UsedBefore(cutoff)
    BY <1>9 DEF AbsorbedIsPast
  <2>. QED  BY <1>4, <1>6, <1>7, <2>5, <2>6, <2>7, <2>8, <2>9 DEF QueryIsSplit
<1>. QED  BY <1>4, <1>8, <1>9 DEF from

-----------------------------------------------------------------------------
(* 7. Every step keeps what holds between the steps.                       *)

LEMMA SoundRowStays ==
  ASSUME NEW row, NEW t \in Nat, NEW slot \in Nat, NEW uses, NEW n \in Nat,
         SoundRow(row, t, slot, uses, n),
         NEW u \in Nat, t <= u, NEW next \in Nat, slot <= next,
         NEW more, NEW k \in Nat, n <= k, \A h \in 1..n : more[h] = uses[h]
  PROVE  SoundRow(row, u, next, more, k)
<1>1. EventsUpTo(t) \subseteq EventsUpTo(u) /\ AliasEventsUpTo(t) \subseteq AliasEventsUpTo(u)
  <2>1. StartTime..t \subseteq StartTime..u
    BY LedgerAssumption
  <2>. QED  BY <2>1 DEF EventsUpTo, AliasEventsUpTo
<1>2. row.date \in Nat /\ row.date <= next /\ row.at \in 0..u
  BY DEF SoundRow
<1>3. ASSUME NEW i \in DOMAIN row.events
      PROVE  /\ row.events[i] \in EventsUpTo(u)
             /\ \E h \in 1..k : Records(row.events[i], more[h])
  <2>1. row.events[i] \in EventsUpTo(t) /\ \E h \in 1..n : Records(row.events[i], uses[h])
    BY DEF SoundRow
  <2>2. PICK h \in 1..n : Records(row.events[i], uses[h])
    BY <2>1
  <2>3. h \in 1..k /\ Records(row.events[i], more[h])
    BY <2>2
  <2>. QED  BY <1>1, <2>1, <2>3
<1>4. ASSUME row.alias # <<>>
      PROVE  /\ row.alias[1] \in Seq(AliasEventsUpTo(u)) /\ InOrder(row.alias[1])
             /\ Drawn("alias", row.alias[1], more, k)
  <2>. DEFINE es == row.alias[1]
  <2>1. es \in Seq(AliasEventsUpTo(t)) /\ InOrder(es) /\ Drawn("alias", es, uses, n)
    BY <1>4 DEF SoundRow
  <2>. HIDE DEF es
  <2>2. Drawn("alias", es, more, k)
    BY <2>1, DrawnStays
  <2>3. es \in Seq(AliasEventsUpTo(u))
    BY <1>1, <2>1
  <2>. QED  BY <2>1, <2>2, <2>3 DEF es
<1>5. IsTotals(row.stats) /\ IsFiniteSet(DOMAIN row.events) /\ DOMAIN row.events \subseteq Nat
  BY DEF SoundRow
<1>. QED  BY <1>2, <1>3, <1>4, <1>5 DEF SoundRow

LEMMA SoundFileStays ==
  ASSUME NEW rows, NEW t \in Nat, NEW slot \in Nat, NEW uses, NEW n \in Nat,
         SoundFile(rows, t, slot, uses, n),
         NEW u \in Nat, t <= u, NEW next \in Nat, slot <= next,
         NEW more, NEW k \in Nat, n <= k, \A h \in 1..n : more[h] = uses[h]
  PROVE  SoundFile(rows, u, next, more, k)
<1>1. ASSUME NEW r \in DOMAIN rows
      PROVE  SoundRow(rows[r], u, next, more, k)
  <2>1. SoundRow(rows[r], t, slot, uses, n)
    BY DEF SoundFile
  <2>. QED  BY <2>1, SoundRowStays
<1>. QED  BY <1>1 DEF SoundFile

LEMMA SoundFileGrows ==
  ASSUME NEW rows, NEW t \in Nat, NEW slot \in Nat, NEW uses, NEW n \in Nat,
         SoundFile(rows, t, slot, uses, n),
         NEW row, SoundRow(row, t, slot, uses, n), row.date = slot, row.at = t,
         Len(rows) < MaxRows
  PROVE  SoundFile(Append(rows, row), t, slot, uses, n)
<1>. DEFINE l == Len(rows)
            long == Append(rows, row)
<1>1. PICK S : rows \in Seq(S)
  BY DEF SoundFile
<1>. DEFINE T == S \cup {row}
<1>2. rows \in Seq(T) /\ row \in T
  BY <1>1
<1>. HIDE DEF T
<1>3. /\ l \in Nat /\ DOMAIN rows = 1..l /\ long \in Seq(T)
      /\ Len(long) = l + 1 /\ DOMAIN long = 1..l + 1
      /\ long[l + 1] = row /\ \A r \in 1..l : long[r] = rows[r]
  BY <1>2
<1>. HIDE DEF l, long
<1>4. \A r \in 1..l + 1 : r = l + 1 \/ r \in 1..l
  BY <1>3
<1>5. /\ \A r \in 1..l : SoundRow(rows[r], t, slot, uses, n)
      /\ \A r, s \in 1..l : r < s => rows[r].date <= rows[s].date /\ rows[r].at <= rows[s].at
  BY <1>3 DEF SoundFile
<1>6. \A r \in 1..l : rows[r].date <= slot /\ rows[r].at <= t
  BY <1>5 DEF SoundRow
<1>7. \A r \in DOMAIN long : SoundRow(long[r], t, slot, uses, n)
  BY <1>3, <1>4, <1>5
<1>8. ASSUME NEW r \in DOMAIN long, NEW s \in DOMAIN long, r < s
      PROVE  long[r].date <= long[s].date /\ long[r].at <= long[s].at
  <2>1. r \in 1..l
    BY <1>3, <1>4, <1>8
  <2>2. CASE s = l + 1
    BY <1>3, <1>6, <2>1, <2>2
  <2>3. CASE s \in 1..l
    BY <1>3, <1>5, <1>8, <2>1, <2>3
  <2>. QED  BY <1>3, <1>4, <2>2, <2>3
<1>9. Len(long) <= MaxRows
  <2>1. MaxRows \in Nat
    BY LedgerAssumption
  <2>. QED  BY <1>3, <2>1 DEF l
<1>10. SoundFile(long, t, slot, uses, n)
  BY <1>3, <1>7, <1>8, <1>9 DEF SoundFile
<1>. QED  BY <1>10 DEF long

LEMMA DailyRowIsSound ==
  ASSUME Sound, NEW evs, IsFiniteSet(DOMAIN evs), DOMAIN evs \subseteq Nat,
         \A i \in DOMAIN evs :
           Day(evs[i].ts) = daySlot =>
             evs[i] \in EventsUpTo(now) /\ \E h \in 1..Len(history) : Records(evs[i], history[h])
  PROVE  SoundRow(DailyRow(daySlot, evs), now, daySlot, history, Len(history))
<1>. DEFINE row == DailyRow(daySlot, evs)
            P == {i \in DOMAIN evs : Day(evs[i].ts) = daySlot /\ evs[i].ts >= now - HeatmapWindow}
<1>1. /\ row.date = daySlot /\ row.at = now /\ row.stats = daily /\ row.alias = <<alias>>
      /\ row.events = [i \in P |-> evs[i]]
  BY DEF DailyRow, Restrict
<1>. HIDE DEF row
<1>2. daySlot \in Nat /\ now \in 0..now /\ IsTotals(daily)
  BY LedgerAssumption DEF Sound, Clocked
<1>3. DOMAIN row.events = P /\ \A i \in P : row.events[i] = evs[i]
  BY <1>1
<1>4. P \in SUBSET DOMAIN evs /\ IsFiniteSet(P)
  <2>1. P \in SUBSET DOMAIN evs
    OBVIOUS
  <2>. HIDE DEF P
  <2>. QED  BY <2>1, FS_Subset
<1>5. \A i \in P : /\ row.events[i] \in EventsUpTo(now)
                   /\ \E h \in 1..Len(history) : Records(row.events[i], history[h])
  BY <1>3
<1>6. /\ row.alias[1] \in Seq(AliasEventsUpTo(now)) /\ InOrder(row.alias[1])
      /\ Drawn("alias", row.alias[1], history, Len(history))
  <2>1. row.alias[1] = alias
    BY <1>1
  <2>. QED  BY <2>1 DEF Sound, Logged
<1>. HIDE DEF P
<1>7. SoundRow(row, now, daySlot, history, Len(history))
  BY <1>1, <1>2, <1>3, <1>4, <1>5, <1>6 DEF SoundRow
<1>. QED  BY <1>7 DEF row

LEMMA EventsAreUsed ==
  ASSUME Sound
  PROVE  /\ IsFiniteSet(DOMAIN events) /\ DOMAIN events \subseteq Nat
         /\ \A i \in DOMAIN events :
              events[i] \in EventsUpTo(now) /\ \E h \in 1..Len(history) : Records(events[i], history[h])
<1>1. Len(events) \in Nat /\ DOMAIN events = 1..Len(events) /\ \A i \in DOMAIN events : events[i] \in EventsUpTo(now)
  BY DEF Sound, Logged
<1>2. IsFiniteSet(1..Len(events))
  BY <1>1, FS_Interval
<1>3. PICK j : Draws(j, "event", events, history, Len(history))
  BY DEF Sound, Logged, Drawn
<1>4. ASSUME NEW i \in DOMAIN events
      PROVE  \E h \in 1..Len(history) : Records(events[i], history[h])
  <2>1. j[i] \in 1..Len(history) /\ StandsFor("event", events[i], history[j[i]])
    BY <1>3 DEF Draws
  <2>2. Records(events[i], history[j[i]])
    BY <2>1 DEF StandsFor, Records
  <2>. QED  BY <2>1, <2>2
<1>. QED  BY <1>1, <1>2, <1>4

LEMMA TodayRowIsSound ==
  ASSUME Sound, NEW after, NEW totals, IsTotals(totals), NEW slot, slot = Day(now)
  PROVE  SoundRow(TodayRow(after, totals), now, slot, history, Len(history))
<1>. DEFINE row == TodayRow(after, totals)
            P == {i \in DOMAIN events : /\ Day(events[i].ts) = Day(now)
                                        /\ events[i].ts > after
                                        /\ events[i].ts >= now - HeatmapWindow}
<1>1. /\ row.date = slot /\ row.at = now /\ row.stats = totals /\ row.alias = <<>>
      /\ row.events = [i \in P |-> events[i]]
  BY DEF TodayRow, Restrict
<1>. HIDE DEF row
<1>2. now \in Nat /\ now \in 0..now
  BY LedgerAssumption DEF Sound, Clocked
<1>3. slot \in Nat /\ slot <= slot
  BY <1>2, DayGrows
<1>4. DOMAIN row.events = P /\ \A i \in P : row.events[i] = events[i]
  BY <1>1
<1>5. P \in SUBSET DOMAIN events
  OBVIOUS
<1>. HIDE DEF P
<1>6. IsFiniteSet(P)
  BY <1>5, EventsAreUsed, FS_Subset
<1>7. \A i \in P : /\ row.events[i] \in EventsUpTo(now)
                   /\ \E h \in 1..Len(history) : Records(row.events[i], history[h])
  BY <1>4, <1>5, EventsAreUsed
<1>8. DOMAIN row.events \subseteq Nat
  BY <1>4, <1>5, EventsAreUsed
<1>9. SoundRow(row, now, slot, history, Len(history))
  BY <1>1, <1>2, <1>3, <1>4, <1>6, <1>7, <1>8 DEF SoundRow
<1>. QED  BY <1>9 DEF row

LEMMA LogGrows ==
  ASSUME NEW S, NEW es \in Seq(S), NEW e \in S, NEW horizon \in Int, \A x \in S : x.ts \in Int,
         NEW U, NEW uses \in Seq(U), NEW use \in U,
         NEW kind, Drawn(kind, es, uses, Len(uses)), StandsFor(kind, e, use)
  PROVE  /\ DropOlder(Append(es, e), horizon) \in Seq(S)
         /\ Drawn(kind, DropOlder(Append(es, e), horizon), Append(uses, use), Len(uses) + 1)
         /\ InOrder(es) /\ (\A i \in DOMAIN es : es[i].ts <= e.ts)
              => InOrder(DropOlder(Append(es, e), horizon))
<1>. DEFINE long == Append(es, e)
            more == Append(uses, use)
            n == Len(uses)
<1>1. /\ n \in Nat /\ more[n + 1] = use /\ \A h \in 1..n : more[h] = uses[h]
  OBVIOUS
<1>2. /\ long \in Seq(S) /\ Len(es) \in Nat /\ DOMAIN es = 1..Len(es)
      /\ DOMAIN long = 1..Len(es) + 1 /\ long[Len(es) + 1] = e
      /\ \A i \in 1..Len(es) : long[i] = es[i]
  OBVIOUS
<1>3. \A i \in DOMAIN long : long[i].ts \in Int
  <2>1. \A i \in DOMAIN long : long[i] \in S
    BY <1>2
  <2>. QED  BY <2>1
<1>4. StandsFor(kind, e, more[n + 1])
  BY <1>1
<1>. HIDE DEF more, n
<1>5. Drawn(kind, es, uses, n)
  BY DEF n
<1>6. Drawn(kind, long, more, n + 1)
  BY <1>1, <1>4, <1>5, DrawnGrows
<1>. HIDE DEF long
<1>7. /\ DropOlder(long, horizon) \in Seq(S)
      /\ Drawn(kind, DropOlder(long, horizon), more, n + 1)
      /\ InOrder(long) => InOrder(DropOlder(long, horizon))
  BY <1>1, <1>2, <1>3, <1>6, PrunedLog
<1>8. ASSUME InOrder(es), \A i \in DOMAIN es : es[i].ts <= e.ts
      PROVE  InOrder(long)
  <2>. SUFFICES ASSUME NEW i \in DOMAIN long, NEW k \in DOMAIN long, i < k
                PROVE  long[i].ts <= long[k].ts
    BY DEF InOrder
  <2>1. i \in 1..Len(es) /\ (k \in 1..Len(es) \/ k = Len(es) + 1)
    BY <1>2
  <2>. QED  BY <1>2, <1>8, <2>1 DEF InOrder
<1>. QED  BY <1>7, <1>8 DEF long, more, n

LEMMA Clock ==
  ASSUME Sound
  PROVE  /\ now \in Nat /\ now \in StartTime..now /\ Retention \in Nat /\ now - Retention \in Int
         /\ Day(now) \in Nat /\ daySlot \in Nat /\ daySlot <= Day(now)
         /\ durable \in Nat /\ Len(history) \in Nat /\ durable <= Len(history)
<1>1. now \in Nat /\ now \in StartTime..now /\ Retention \in Nat /\ now - Retention \in Int
  BY LedgerAssumption DEF Sound, Clocked
<1>2. Day(now) \in Nat
  BY <1>1, DayGrows
<1>3. Len(history) \in Nat /\ durable \in 0..Len(history)
  BY DEF Sound, Logged
<1>. QED  BY <1>1, <1>2, <1>3 DEF Sound, Clocked

LEMMA EventFields ==
  ASSUME Sound
  PROVE  /\ \A x \in EventsUpTo(now) : x.ts \in Int /\ x.values \in Nat
         /\ \A x \in AliasEventsUpTo(now) : x.ts \in Int /\ x.values \in Nat
         /\ \A x \in UsesUpTo(now) : x.ts \in Int /\ x.values \in Nat
<1>1. Amounts \subseteq Nat /\ StartTime \in Int /\ now \in Int
  BY Clock, LedgerAssumption
<1>2. \A t \in StartTime..now, v \in Amounts : t \in Int /\ v \in Nat
  BY <1>1
<1>3. ASSUME NEW x \in EventsUpTo(now)
      PROVE  x.ts \in StartTime..now /\ x.values \in Amounts
  BY DEF EventsUpTo
<1>4. ASSUME NEW x \in AliasEventsUpTo(now)
      PROVE  x.ts \in StartTime..now /\ x.values \in Amounts
  BY DEF AliasEventsUpTo
<1>5. ASSUME NEW x \in UsesUpTo(now)
      PROVE  x.ts \in StartTime..now /\ x.values \in Amounts
  BY DEF UsesUpTo
<1>. QED  BY <1>2, <1>3, <1>4, <1>5, Zenon

LEMMA InitIsSound == Init => Sound
<1>. SUFFICES ASSUME Init  PROVE Sound
  OBVIOUS
<1>1. now = StartTime /\ now \in Nat /\ MaxTime \in Nat
  BY LedgerAssumption DEF Init
<1>2. Day(now) \in Nat
  BY <1>1, DayGrows
<1>3. Clocked
  BY <1>1, <1>2, NoTotalsAreTotals DEF Init, Clocked
<1>4. Logged
  <2>1. \A S : <<>> \in Seq(S)
    OBVIOUS
  <2>2. InOrder(<<>>) /\ Len(<<>>) = 0 /\ durable \in 0..0
    BY DEF InOrder, Init
  <2>3. Drawn("event", <<>>, <<>>, 0) /\ Drawn("alias", <<>>, <<>>, 0)
    BY DrawnFromNothing
  <2>. QED  BY <2>1, <2>2, <2>3 DEF Init, Logged
<1>5. Stopped
  BY DEF Init, Stopped
<1>6. Written
  <2>1. <<>> \in Seq({}) /\ Len(<<>>) = 0 /\ DOMAIN <<>> = {}
    OBVIOUS
  <2>2. MaxRows \in Nat
    BY LedgerAssumption
  <2>3. file = <<>>
    BY DEF Init
  <2>. QED  BY <2>1, <2>2, <2>3 DEF Written, SoundFile
<1>. QED  BY <1>3, <1>4, <1>5, <1>6 DEF Sound

(* What a usage adds to the event log. *)
RecordedEvents(m, v) ==
  IF v > 0 THEN DropOlder(Append(events, [ts |-> now, values |-> v, model |-> m]), now - Retention)
  ELSE events
Usage(m, v, viaAlias) == [ts |-> now, values |-> v, model |-> m, viaAlias |-> viaAlias]

LEMMA UsageIsLogged ==
  ASSUME Sound, NEW m \in Models, NEW v \in Amounts, NEW viaAlias \in BOOLEAN
  PROVE  /\ Append(history, Usage(m, v, viaAlias)) \in Seq(UsesUpTo(now))
         /\ Len(Append(history, Usage(m, v, viaAlias))) = Len(history) + 1
         /\ Append(history, Usage(m, v, viaAlias))[Len(history) + 1] = Usage(m, v, viaAlias)
         /\ \A h \in 1..Len(history) : Append(history, Usage(m, v, viaAlias))[h] = history[h]
         /\ RecordedEvents(m, v) \in Seq(EventsUpTo(now))
         /\ Drawn("event", RecordedEvents(m, v), Append(history, Usage(m, v, viaAlias)), Len(history) + 1)
         /\ InOrder(events) => InOrder(RecordedEvents(m, v))
<1>. DEFINE use == Usage(m, v, viaAlias)
            e == [ts |-> now, values |-> v, model |-> m]
            n == Len(history)
            more == Append(history, use)
<1>1. now \in Nat /\ now \in StartTime..now /\ now - Retention \in Int /\ n \in Nat
  BY Clock
<1>2. use \in UsesUpTo(now)
  BY <1>1 DEF Usage, UsesUpTo
<1>3. /\ history \in Seq(UsesUpTo(now)) /\ events \in Seq(EventsUpTo(now))
      /\ Drawn("event", events, history, n)
  BY DEF Sound, Logged
<1>4. StandsFor("event", e, use)
  BY DEF StandsFor, Usage
<1>. HIDE DEF use
<1>5. /\ more \in Seq(UsesUpTo(now)) /\ Len(more) = n + 1 /\ more[n + 1] = use
      /\ \A h \in 1..n : more[h] = history[h]
  BY <1>2, <1>3
<1>6. \A x \in EventsUpTo(now) : x.ts \in Int /\ x.ts <= now
  BY <1>1, LedgerAssumption DEF EventsUpTo
<1>7. CASE v > 0
  <2>1. e \in EventsUpTo(now)
    <3>1. v \in Amounts \ {0}
      BY <1>7, LedgerAssumption
    <3>. QED  BY <1>1, <3>1 DEF EventsUpTo
  <2>2. e.ts = now
    OBVIOUS
  <2>3. \A i \in DOMAIN events : events[i].ts <= e.ts
    <3>1. \A i \in DOMAIN events : events[i] \in EventsUpTo(now)
      BY <1>3
    <3>. QED  BY <1>6, <2>2, <3>1
  <2>. HIDE DEF e, n
  <2>4. Drawn("event", events, history, Len(history))
    BY <1>3 DEF n
  <2>. DEFINE evs == DropOlder(Append(events, e), now - Retention)
  <2>5. /\ evs \in Seq(EventsUpTo(now))
        /\ Drawn("event", evs, more, Len(history) + 1)
        /\ InOrder(events) => InOrder(evs)
    BY <1>1, <1>2, <1>3, <1>4, <1>6, <2>1, <2>3, <2>4, LogGrows
  <2>6. RecordedEvents(m, v) = evs
    BY <1>7 DEF RecordedEvents, e
  <2>. HIDE DEF evs, more
  <2>. QED  BY <1>5, <2>5, <2>6 DEF more, use, n
<1>8. CASE ~ (v > 0)
  <2>1. RecordedEvents(m, v) = events
    BY <1>8 DEF RecordedEvents
  <2>. HIDE DEF more, n
  <2>2. n + 1 \in Nat /\ n <= n + 1
    BY <1>1
  <2>3. Drawn("event", events, more, n + 1)
    BY <1>1, <1>3, <1>5, <2>2, DrawnStays
  <2>. QED  BY <1>3, <1>5, <2>1, <2>3 DEF more, use, n
<1>. QED  BY <1>7, <1>8

LEMMA RecordIsSound ==
  ASSUME Sound, NEW m \in Models, NEW v \in Amounts, NEW viaAlias \in BOOLEAN, RecordUsage(m, v, viaAlias)
  PROVE  Sound'
<1>. DEFINE use == Usage(m, v, viaAlias)
            evs == RecordedEvents(m, v)
            n == Len(history)
            rollover == Day(now) # daySlot
            closed == IF rollover THEN Append(file, DailyRow(daySlot, evs)) ELSE file
<1>1. /\ up /\ up' = up /\ now' = now /\ regular' = regular
      /\ (rollover => Len(file) < MaxRows)
      /\ events' = evs /\ modelStats' = AddTo(modelStats, m, v)
      /\ daily' = AddTo(IF rollover THEN NoTotals ELSE daily, m, v)
      /\ daySlot' = Day(now) /\ file' = closed
      /\ dumpTs' = (IF rollover THEN now ELSE dumpTs)
      /\ durable' = (IF rollover THEN n ELSE durable)
      /\ alias' = (IF viaAlias /\ v > 0
                   THEN DropOlder(Append(alias, [ts |-> now, values |-> v]), now - Retention)
                   ELSE alias)
      /\ history' = Append(history, use)
      /\ frozen' = frozen /\ cutoff' = cutoff /\ timerAt' = timerAt
  BY DEF RecordUsage, RecordedEvents, Usage
<1>2. /\ now \in Nat /\ now \in 0..now /\ now \in StartTime..now /\ now - Retention \in Int
      /\ n \in Nat /\ durable \in 0..n /\ n \in 0..n + 1
      /\ Day(now) \in Nat /\ daySlot \in Nat /\ daySlot <= Day(now)
  BY Clock
<1>3. /\ history' \in Seq(UsesUpTo(now)) /\ Len(history') = n + 1
      /\ history'[n + 1] = use /\ \A h \in 1..n : history'[h] = history[h]
      /\ evs \in Seq(EventsUpTo(now)) /\ Drawn("event", evs, history', n + 1)
  BY <1>1, UsageIsLogged, Zenon
<1>. HIDE DEF use, evs
<1>4. Clocked'
  <2>1. v \in Nat
    BY LedgerAssumption
  <2>2. IsTotals(modelStats) /\ IsTotals(daily) /\ IsTotals(NoTotals)
    BY NoTotalsAreTotals DEF Sound, Clocked
  <2>3. IsTotals(AddTo(modelStats, m, v)) /\ IsTotals(AddTo(daily, m, v)) /\ IsTotals(AddTo(NoTotals, m, v))
    BY <2>1, <2>2, AddToTotals
  <2>4. IsTotals(modelStats')
    BY <1>1, <2>3
  <2>5. IsTotals(daily')
    BY <1>1, <2>3
  <2>6. daySlot' \in Nat /\ daySlot' <= Day(now') /\ dumpTs' \in 0..now'
    BY <1>1, <1>2 DEF Sound, Clocked
  <2>. QED  BY <1>1, <2>4, <2>5, <2>6 DEF Sound, Clocked, IsTotals
<1>5. /\ alias' \in Seq(AliasEventsUpTo(now)) /\ InOrder(alias')
      /\ Drawn("alias", alias', history', n + 1)
  <2>1. /\ alias \in Seq(AliasEventsUpTo(now)) /\ InOrder(alias)
        /\ Drawn("alias", alias, history, n) /\ history \in Seq(UsesUpTo(now))
    BY DEF Sound, Logged
  <2>2. CASE viaAlias /\ v > 0
    <3>. DEFINE e == [ts |-> now, values |-> v]
    <3>1. e \in AliasEventsUpTo(now)
      <4>1. v \in Amounts \ {0}
        BY <2>2, LedgerAssumption
      <4>. QED  BY <1>2, <4>1 DEF AliasEventsUpTo
    <3>2. \A x \in AliasEventsUpTo(now) : x.ts \in Int /\ x.ts <= now
      BY <1>2, LedgerAssumption DEF AliasEventsUpTo
    <3>3. use \in UsesUpTo(now) /\ StandsFor("alias", e, use)
      BY <1>2, <2>2 DEF use, Usage, UsesUpTo, StandsFor
    <3>4. e.ts = now
      OBVIOUS
    <3>5. \A i \in DOMAIN alias : alias[i].ts <= e.ts
      <4>1. \A i \in DOMAIN alias : alias[i] \in AliasEventsUpTo(now)
        BY <2>1
      <4>. QED  BY <3>2, <3>4, <4>1
    <3>6. alias' = DropOlder(Append(alias, e), now - Retention)
      BY <1>1, <2>2
    <3>. HIDE DEF e
    <3>7. Drawn("alias", alias, history, Len(history))
      BY <2>1
    <3>. DEFINE es == DropOlder(Append(alias, e), now - Retention)
                more == Append(history, use)
    <3>8. /\ es \in Seq(AliasEventsUpTo(now)) /\ Drawn("alias", es, more, Len(history) + 1)
          /\ InOrder(es)
      BY <1>2, <2>1, <3>1, <3>2, <3>3, <3>5, <3>7, LogGrows
    <3>9. alias' = es /\ history' = more
      BY <1>1, <3>6
    <3>. HIDE DEF es, more
    <3>. QED  BY <3>8, <3>9
  <2>3. CASE ~ (viaAlias /\ v > 0)
    <3>1. alias' = alias
      BY <1>1, <2>3
    <3>. DEFINE more == history'
    <3>0. \A h \in 1..n : more[h] = history[h]
      BY <1>3
    <3>. HIDE DEF more, n
    <3>2. n + 1 \in Nat /\ n <= n + 1
      BY <1>2
    <3>3. Drawn("alias", alias, more, n + 1)
      BY <1>2, <2>1, <3>0, <3>2, DrawnStays
    <3>. QED  BY <2>1, <3>1, <3>3 DEF more
  <2>. QED  BY <2>2, <2>3
<1>6. Logged'
  <2>1. durable' \in 0..n + 1
    BY <1>1, <1>2
  <2>. HIDE DEF n
  <2>. QED  BY <1>1, <1>3, <1>5, <2>1 DEF Logged
<1>7. Stopped'
  BY <1>1 DEF Stopped
<1>8. Written'
  <2>. DEFINE more == history'
              k == durable'
              d == Day(now)
  <2>1. d \in Nat /\ daySlot <= d /\ \A h \in 1..n : more[h] = history[h]
    BY <1>2, <1>3
  <2>2. SoundFile(file, now, daySlot, history, durable)
    BY DEF Sound, Written
  <2>3. CASE rollover
    <3>1. k = n /\ k <= n
      BY <1>1, <1>2, <2>3
    <3>. DEFINE row == DailyRow(daySlot, evs)
    <3>2. row.date = daySlot /\ row.at = now
      BY DEF DailyRow
    <3>3. SoundRow(row, now, daySlot, history, n)
      <4>1. Len(evs) \in Nat /\ DOMAIN evs = 1..Len(evs) /\ \A i \in DOMAIN evs : evs[i] \in EventsUpTo(now)
        BY <1>3
      <4>2. IsFiniteSet(1..Len(evs))
        BY <4>1, FS_Interval
      <4>3. IsFiniteSet(DOMAIN evs) /\ DOMAIN evs \subseteq Nat
        BY <4>1, <4>2
      <4>4. PICK j : Draws(j, "event", evs, more, n + 1)
        BY <1>3 DEF Drawn
      <4>5. ASSUME NEW i \in DOMAIN evs, Day(evs[i].ts) = daySlot
            PROVE  evs[i] \in EventsUpTo(now) /\ \E h \in 1..Len(history) : Records(evs[i], history[h])
        <5>1. j[i] \in 1..n + 1 /\ Records(evs[i], more[j[i]])
          BY <4>4 DEF Draws, StandsFor, Records
        <5>2. j[i] # n + 1
          <6>. SUFFICES ASSUME j[i] = n + 1  PROVE FALSE
            OBVIOUS
          <6>1. evs[i].ts = use.ts
            BY <1>3, <5>1 DEF Records
          <6>2. use.ts = now
            BY DEF use, Usage
          <6>. QED  BY <2>3, <4>5, <6>1, <6>2
        <5>3. j[i] \in 1..n
          BY <1>2, <5>1, <5>2
        <5>. QED  BY <2>1, <4>1, <5>1, <5>3
      <4>. QED  BY <4>3, <4>5, DailyRowIsSound
    <3>4. file' = Append(file, row) /\ Len(file) < MaxRows
      BY <1>1, <2>3
    <3>. DEFINE long == Append(file, row)
    <3>5. SoundFile(file, now, daySlot, history, n)
      <4>. HIDE DEF n
      <4>1. durable \in Nat /\ durable <= n /\ \A h \in 1..durable : history[h] = history[h]
        BY <1>2
      <4>. QED  BY <1>2, <2>2, <4>1, SoundFileStays
    <3>. HIDE DEF row, n, d, more, k
    <3>6. SoundFile(long, now, daySlot, history, n)
      BY <1>2, <3>2, <3>3, <3>4, <3>5, SoundFileGrows
    <3>. HIDE DEF long
    <3>7. n \in Nat /\ n <= n /\ now <= now
      BY <1>2
    <3>8. SoundFile(long, now, d, more, n)
      BY <1>2, <2>1, <3>6, <3>7, SoundFileStays
    <3>9. file' = long /\ now' = now /\ daySlot' = d /\ history' = more /\ durable' = n
      BY <1>1, <3>1, <3>4 DEF long, d, more, k
    <3>. QED  BY <3>8, <3>9 DEF Written
  <2>4. CASE ~ rollover
    <3>1. file' = file /\ daySlot' = d /\ durable' = durable /\ now' = now
      BY <1>1, <2>4
    <3>. HIDE DEF d, more
    <3>2. durable \in Nat /\ durable <= durable /\ \A h \in 1..durable : more[h] = history[h]
      BY <1>2, <2>1
    <3>3. SoundFile(file, now, d, more, durable)
      BY <1>2, <2>1, <2>2, <3>2, SoundFileStays
    <3>. QED  BY <3>1, <3>3 DEF Written, more
  <2>. QED  BY <2>3, <2>4
<1>. QED  BY <1>4, <1>6, <1>7, <1>8 DEF Sound

LEMMA DumpIsSound ==
  ASSUME Sound, PeriodicDump
  PROVE  Sound'
<1>. DEFINE n == Len(history)
            d == Day(now)
            rollover == d # daySlot
            totals == IF rollover THEN NoTotals ELSE daily
            after == IF rollover THEN now ELSE dumpTs
            closing == DailyRow(daySlot, events)
            closed == IF rollover THEN Append(file, closing) ELSE file
            today == TodayRow(after, totals)
<1>1. /\ up /\ up' = up /\ now' = now /\ regular' = regular
      /\ Len(closed) < MaxRows /\ file' = Append(closed, today)
      /\ daily' = totals /\ daySlot' = d /\ dumpTs' = now /\ timerAt' = now /\ durable' = n
      /\ events' = events /\ modelStats' = modelStats /\ alias' = alias
      /\ frozen' = frozen /\ cutoff' = cutoff /\ history' = history
  BY DEF PeriodicDump
<1>2. /\ now \in Nat /\ now \in 0..now /\ n \in Nat /\ n \in 0..n /\ durable \in Nat /\ durable <= n
      /\ d \in Nat /\ daySlot \in Nat /\ daySlot <= d /\ d <= d /\ now <= now /\ n <= n
  BY Clock
<1>3. IsTotals(totals)
  BY NoTotalsAreTotals DEF Sound, Clocked
<1>4. Clocked'
  <2>1. IsTotals(daily')
    BY <1>1, <1>3
  <2>. QED  BY <1>1, <1>2, <2>1 DEF Sound, Clocked, IsTotals
<1>5. Logged'
  BY <1>1, <1>2 DEF Sound, Logged
<1>6. Stopped'
  BY <1>1 DEF Stopped
<1>7. SoundFile(file, now, daySlot, history, n)
  <2>1. SoundFile(file, now, daySlot, history, durable) /\ \A h \in 1..durable : history[h] = history[h]
    BY DEF Sound, Written
  <2>. HIDE DEF n
  <2>. QED  BY <1>2, <2>1, SoundFileStays
<1>8. SoundFile(closed, now, daySlot, history, n)
  <2>1. CASE rollover
    <3>1. closed = Append(file, closing)
      BY <2>1
    <3>2. closing.date = daySlot /\ closing.at = now
      BY DEF DailyRow
    <3>3. SoundRow(closing, now, daySlot, history, n)
      BY EventsAreUsed, DailyRowIsSound
    <3>4. Len(file) < MaxRows
      <4>1. PICK S : file \in Seq(S)
        BY DEF Sound, Written, SoundFile
      <4>. DEFINE T == S \cup {closing}
      <4>2. file \in Seq(T) /\ closing \in T
        BY <4>1
      <4>. HIDE DEF T, closing
      <4>3. Len(Append(file, closing)) = Len(file) + 1 /\ Len(file) \in Nat /\ MaxRows \in Nat
        BY <4>2, LedgerAssumption
      <4>. QED  BY <1>1, <3>1, <4>3
    <3>. HIDE DEF closing, n, closed
    <3>. QED  BY <1>2, <1>7, <3>1, <3>2, <3>3, <3>4, SoundFileGrows
  <2>2. CASE ~ rollover
    BY <1>7, <2>2
  <2>. QED  BY <2>1, <2>2
<1>9. today.date = d /\ today.at = now /\ SoundRow(today, now, d, history, n)
  <2>1. today.date = d /\ today.at = now
    BY DEF TodayRow
  <2>2. d = Day(now)
    OBVIOUS
  <2>. HIDE DEF d, totals, after
  <2>. QED  BY <1>3, <2>1, <2>2, TodayRowIsSound DEF n
<1>. HIDE DEF today, closed, n, d
<1>10. SoundFile(closed, now, d, history, n)
  <2>1. \A h \in 1..n : history[h] = history[h]
    OBVIOUS
  <2>. QED  BY <1>2, <1>8, <2>1, SoundFileStays
<1>11. SoundFile(Append(closed, today), now, d, history, n)
  BY <1>1, <1>2, <1>9, <1>10, SoundFileGrows
<1>12. Written'
  BY <1>1, <1>11 DEF Written
<1>. QED  BY <1>4, <1>5, <1>6, <1>12 DEF Sound

LEMMA QueryIsSound ==
  ASSUME Sound, NEW w \in Windows, QueryWindow(w)
  PROVE  Sound'
<1>1. now - w \in 0..now /\ WindowQuery(events, now - w).frozen \in Nat
  BY QuerySplits
<1>2. /\ up /\ frozen' = WindowQuery(events, now - w).frozen /\ cutoff' = now - w
      /\ regular' = (regular /\ cutoff <= now - w)
      /\ UNCHANGED <<now, up, events, modelStats, daily, daySlot, alias, dumpTs, timerTotal, timerAt,
                     file, history, durable>>
  BY Zenon DEF QueryWindow
<1>3. Clocked'
  <2>1. frozen' \in Nat /\ cutoff' \in 0..now' /\ regular' \in BOOLEAN
    BY <1>1, <1>2
  <2>. QED  BY <1>2, <2>1 DEF Sound, Clocked, IsTotals
<1>4. Logged' /\ Stopped' /\ Written'
  <2>1. Logged'
    BY <1>2 DEF Sound, Logged
  <2>2. Stopped'
    BY <1>2 DEF Stopped
  <2>3. Written'
    BY <1>2 DEF Sound, Written
  <2>. QED  BY <2>1, <2>2, <2>3
<1>. QED  BY <1>3, <1>4 DEF Sound

LEMMA TimeIsSound ==
  ASSUME Sound, PassTime
  PROVE  Sound'
<1>1. /\ now < StartTime + MaxTime /\ now' = now + 1
      /\ UNCHANGED <<up, memory, file, queries, history, durable, regular>>
  BY DEF PassTime
<1>. DEFINE t == now + 1
<1>2. /\ now \in Nat /\ t \in Nat /\ now <= t /\ Day(now) <= Day(t)
      /\ daySlot \in Nat /\ daySlot <= daySlot /\ daySlot <= Day(now) /\ Day(now) \in Nat
      /\ durable \in Nat /\ durable <= durable /\ Day(t) \in Nat
  <2>1. now \in Nat /\ t \in Nat /\ now <= t
    BY Clock
  <2>. HIDE DEF t
  <2>2. Day(now) \in Nat /\ Day(now) <= Day(t) /\ Day(t) \in Nat
    BY <2>1, DayGrows
  <2>3. daySlot \in Nat /\ daySlot <= Day(now) /\ durable \in Nat
    BY Clock
  <2>. QED  BY <2>1, <2>2, <2>3
<1>3. EventsUpTo(now) \subseteq EventsUpTo(t) /\ AliasEventsUpTo(now) \subseteq AliasEventsUpTo(t)
      /\ UsesUpTo(now) \subseteq UsesUpTo(t)
  <2>1. StartTime..now \subseteq StartTime..t
    BY <1>2, LedgerAssumption
  <2>. QED  BY <2>1 DEF EventsUpTo, AliasEventsUpTo, UsesUpTo
<1>4. Clocked'
  <2>1. now' \in StartTime..StartTime + MaxTime
    BY <1>1, LedgerAssumption DEF Sound, Clocked
  <2>2. daySlot' <= Day(now')
    BY <1>1, <1>2 DEF memory
  <2>3. dumpTs' \in 0..now' /\ timerAt' \in 0..now' /\ cutoff' \in 0..now'
    BY <1>1, <1>2 DEF memory, Sound, Clocked
  <2>. QED  BY <1>1, <2>1, <2>2, <2>3 DEF Sound, Clocked, IsTotals, memory
<1>. HIDE DEF t
<1>5. Logged'
  <2>1. events \in Seq(EventsUpTo(t)) /\ alias \in Seq(AliasEventsUpTo(t)) /\ history \in Seq(UsesUpTo(t))
    BY <1>3 DEF Sound, Logged
  <2>. QED  BY <1>1, <2>1 DEF Sound, Logged, memory, t
<1>6. Stopped'
  BY <1>1 DEF Sound, Stopped, memory
<1>7. Written'
  <2>1. SoundFile(file, now, daySlot, history, durable) /\ \A h \in 1..durable : history[h] = history[h]
    BY DEF Sound, Written
  <2>2. SoundFile(file, t, daySlot, history, durable)
    BY <1>2, <2>1, SoundFileStays
  <2>. QED  BY <1>1, <2>2 DEF Written, memory, t
<1>. QED  BY <1>4, <1>5, <1>6, <1>7 DEF Sound

LEMMA CrashIsSound ==
  ASSUME Sound, Crash
  PROVE  Sound'
<1>. DEFINE kept == SubSeq(history, 1, durable)
<1>1. /\ up' = FALSE /\ history' = kept
      /\ events' = <<>> /\ alias' = <<>> /\ modelStats' = NoTotals /\ daily' = NoTotals
      /\ daySlot' = Day(now) /\ dumpTs' = 0 /\ frozen' = 0 /\ cutoff' = 0 /\ timerAt' = now
      /\ now' = now /\ file' = file /\ durable' = durable /\ regular' = regular
  BY DEF Crash
<1>2. /\ now \in Nat /\ now \in 0..now /\ 0 \in 0..now /\ now <= now
      /\ Day(now) \in Nat /\ daySlot \in Nat /\ daySlot <= Day(now)
      /\ durable \in Nat /\ durable <= durable /\ durable <= Len(history) /\ Len(history) \in Nat
  BY Clock
<1>3. kept \in Seq(UsesUpTo(now)) /\ Len(kept) = durable /\ \A h \in 1..durable : kept[h] = history[h]
  <2>1. history \in Seq(UsesUpTo(now))
    BY DEF Sound, Logged
  <2>. QED  BY <1>2, <2>1
<1>. HIDE DEF kept
<1>4. Clocked'
  <2>1. IsTotals(modelStats') /\ IsTotals(daily')
    BY <1>1, NoTotalsAreTotals
  <2>2. daySlot' \in Nat /\ daySlot' <= Day(now')
    <3>1. daySlot' = Day(now') /\ Day(now') = Day(now)
      BY <1>1
    <3>2. Day(now) <= Day(now)
      BY <1>2
    <3>. QED  BY <1>2, <3>1, <3>2
  <2>3. up' \in BOOLEAN /\ regular' \in BOOLEAN
    BY <1>1 DEF Sound, Clocked
  <2>4. dumpTs' \in 0..now' /\ timerAt' \in 0..now' /\ frozen' \in Nat /\ cutoff' \in 0..now'
    BY <1>1, <1>2
  <2>. QED  BY <1>1, <2>1, <2>2, <2>3, <2>4 DEF Sound, Clocked, IsTotals
<1>5. Logged'
  <2>1. \A S : <<>> \in Seq(S)
    OBVIOUS
  <2>2. InOrder(<<>>)
    BY DEF InOrder
  <2>3. Drawn("event", <<>>, kept, durable) /\ Drawn("alias", <<>>, kept, durable)
    BY <1>2, DrawnFromNothing
  <2>4. durable \in 0..Len(kept)
    BY <1>2, <1>3
  <2>. QED  BY <1>1, <1>3, <2>1, <2>2, <2>3, <2>4 DEF Logged
<1>6. Stopped'
  BY <1>1, <1>3 DEF Stopped
<1>7. Written'
  <2>1. SoundFile(file, now, daySlot, history, durable)
    BY DEF Sound, Written
  <2>. DEFINE d == Day(now)
  <2>2. d \in Nat /\ daySlot <= d
    BY <1>2
  <2>. HIDE DEF d
  <2>3. SoundFile(file, now, d, kept, durable)
    BY <1>2, <1>3, <2>1, <2>2, SoundFileStays
  <2>. QED  BY <1>1, <2>3 DEF Written, d
<1>. QED  BY <1>4, <1>5, <1>6, <1>7 DEF Sound

LEMMA RestartIsSound ==
  ASSUME Sound, Restart
  PROVE  Sound'
<1>1. /\ ~up /\ up' = TRUE
      /\ events' = RestoredEvents /\ alias' = RestoredAlias
      /\ modelStats' = RestoredModelStats /\ daily' = RestoredDaily
      /\ daySlot' = Day(now) /\ timerAt' = now /\ regular' = InOrder(RestoredEvents)
      /\ UNCHANGED <<now, dumpTs, frozen, cutoff, timerTotal, file, queries, history, durable>>
  BY Zenon DEF Restart
<1>2. /\ now \in Nat /\ now \in 0..now /\ now <= now
      /\ Day(now) \in Nat /\ daySlot \in Nat /\ daySlot <= Day(now)
      /\ durable \in Nat /\ durable <= durable /\ Len(history) \in Nat /\ durable = Len(history)
  BY <1>1, Clock DEF Sound, Stopped
<1>3. Clocked'
  <2>1. IsTotals(modelStats') /\ IsTotals(daily')
    BY <1>1, LoadedTotals
  <2>2. regular' \in BOOLEAN
    BY <1>1 DEF InOrder
  <2>. QED  BY <1>1, <1>2, <2>1, <2>2 DEF Sound, Clocked, IsTotals
<1>4. Logged'
  <2>1. /\ RestoredEvents \in Seq(EventsUpTo(now)) /\ Drawn("event", RestoredEvents, history, Len(history))
        /\ RestoredAlias \in Seq(AliasEventsUpTo(now)) /\ InOrder(RestoredAlias)
        /\ Drawn("alias", RestoredAlias, history, Len(history))
    BY <1>2, LoadedEvents, LoadedAlias
  <2>2. history \in Seq(UsesUpTo(now)) /\ durable \in 0..Len(history)
    BY DEF Sound, Logged
  <2>. DEFINE es == RestoredEvents
              as == RestoredAlias
  <2>3. events' = es /\ alias' = as
    BY <1>1
  <2>4. /\ es \in Seq(EventsUpTo(now)) /\ Drawn("event", es, history, Len(history))
        /\ as \in Seq(AliasEventsUpTo(now)) /\ InOrder(as) /\ Drawn("alias", as, history, Len(history))
    BY <2>1
  <2>. HIDE DEF es, as
  <2>. QED  BY <1>1, <2>2, <2>3, <2>4 DEF Logged
<1>5. Stopped'
  BY <1>1 DEF Stopped
<1>6. Written'
  <2>1. SoundFile(file, now, daySlot, history, durable) /\ \A h \in 1..durable : history[h] = history[h]
    BY DEF Sound, Written
  <2>. DEFINE d == Day(now)
  <2>2. d \in Nat /\ daySlot <= d
    BY <1>2
  <2>. HIDE DEF d
  <2>3. SoundFile(file, now, d, history, durable)
    BY <1>2, <2>1, <2>2, SoundFileStays
  <2>. QED  BY <1>1, <2>3 DEF Written, d
<1>. QED  BY <1>3, <1>4, <1>5, <1>6 DEF Sound

LEMMA StepIsSound == Sound /\ [Next]_vars => Sound'
<1>. SUFFICES ASSUME Sound, [Next]_vars  PROVE Sound'
  OBVIOUS
<1>1. ASSUME NEW m \in Models, NEW v \in Amounts, NEW viaAlias \in BOOLEAN, RecordUsage(m, v, viaAlias)
      PROVE  Sound'
  BY <1>1, RecordIsSound
<1>2. CASE PeriodicDump
  BY <1>2, DumpIsSound
<1>3. ASSUME NEW w \in Windows, QueryWindow(w)
      PROVE  Sound'
  BY <1>3, QueryIsSound
<1>4. CASE PassTime
  BY <1>4, TimeIsSound
<1>5. CASE Crash
  BY <1>5, CrashIsSound
<1>6. CASE Restart
  BY <1>6, RestartIsSound
<1>7. CASE UNCHANGED vars
  <2>1. Clocked'
    BY <1>7 DEF vars, memory, Sound, Clocked, IsTotals
  <2>2. Logged'
    BY <1>7 DEF vars, memory, Sound, Logged
  <2>3. Stopped'
    BY <1>7 DEF vars, memory, Sound, Stopped
  <2>4. Written'
    BY <1>7 DEF vars, memory, Sound, Written
  <2>. QED  BY <2>1, <2>2, <2>3, <2>4 DEF Sound
<1>. QED  BY <1>1, <1>2, <1>3, <1>4, <1>5, <1>6, <1>7 DEF Next

LEMMA AlwaysSound == Spec => []Sound
BY InitIsSound, StepIsSound, PTL DEF Spec

(* Whatever is recorded, dumped, lost and loaded, the ledger's state keeps its types. *)
THEOREM TypeCorrect == Spec => []TypeOK
BY AlwaysSound, SoundIsTyped, PTL

-----------------------------------------------------------------------------
(* 8. No usage is counted twice, and none on the wrong side of a boundary. *)

LEMMA SumOfAppend ==
  ASSUME NEW S, NEW es \in Seq(S), \A x \in S : x.values \in Nat, NEW e \in S
  PROVE  /\ Sum(Append(es, e)) = Sum(es) + e.values
         /\ \A Q \in SUBSET (1..Len(es) + 1) :
              /\ SumOf(Append(es, e), Q) <= SumOf(es, Q \ {Len(es) + 1}) + e.values
              /\ Len(es) + 1 \notin Q => SumOf(Append(es, e), Q) = SumOf(es, Q)
<1>. DEFINE n == Len(es)
            long == Append(es, e)
<1>1. /\ n \in Nat /\ DOMAIN es = 1..n /\ DOMAIN long = 1..n + 1 /\ long[n + 1] = e
      /\ \A i \in 1..n : long[i] = es[i] /\ es[i] \in S
  OBVIOUS
<1>2. (\A i \in 1..n + 1 : long[i].values \in Nat) /\ (\A i \in 1..n : es[i].values \in Nat)
  <2>1. \A i \in 1..n + 1 : i = n + 1 \/ i \in 1..n
    BY <1>1
  <2>. HIDE DEF n, long
  <2>. QED  BY <1>1, <2>1
<1>. HIDE DEF n, long
<1>3. ASSUME NEW Q \in SUBSET (1..n + 1)
      PROVE  /\ IsFiniteSet(Q \ {n + 1}) /\ IsFiniteSet({n + 1})
             /\ SumOf(long, Q \ {n + 1}) = SumOf(es, Q \ {n + 1})
             /\ SumOf(long, Q \ {n + 1}) \in Nat
  <2>1. Q \ {n + 1} \in SUBSET (1..n)
    BY <1>1
  <2>. DEFINE A == Q \ {n + 1}
  <2>2. IsFiniteSet(1..n) /\ IsFiniteSet({n + 1})
    <3>1. IsFiniteSet(1..n)
      BY <1>1, FS_Interval
    <3>2. IsFiniteSet({n + 1})
      BY FS_Singleton, Zenon
    <3>. QED  BY <3>1, <3>2
  <2>3. \A i \in A : long[i].values = es[i].values /\ long[i].values \in Nat
    BY <1>1, <1>2, <2>1
  <2>4. A \in SUBSET (1..n)
    BY <2>1
  <2>. HIDE DEF A
  <2>5. IsFiniteSet(A)
    BY <2>2, <2>4, FS_Subset
  <2>6. SumOf(long, A) = SumOf(es, A)
    BY <2>3, SumOfSame
  <2>7. SumOf(long, A) \in Nat
    BY <2>3, <2>5, SumOfSome
  <2>. QED  BY <2>2, <2>5, <2>6, <2>7 DEF A
<1>4. ASSUME NEW Q \in SUBSET (1..n + 1), n + 1 \in Q
      PROVE  SumOf(long, Q) = SumOf(es, Q \ {n + 1}) + e.values
  <2>. DEFINE A == Q \ {n + 1}
              B == {n + 1}
  <2>1. A \cap B = {} /\ A \cup B = Q
    BY <1>4
  <2>2. IsFiniteSet(A) /\ IsFiniteSet(B) /\ SumOf(long, A) = SumOf(es, A)
    BY <1>3
  <2>3. \A i \in A : long[i].values \in Nat
    BY <1>2
  <2>4. \A i \in B : long[i].values \in Nat
    BY <1>1, <1>2
  <2>5. SumOf(long, B) = e.values
    BY <1>1, <1>2, <2>4, SumOfOne
  <2>. HIDE DEF A, B
  <2>6. SumOf(long, A \cup B) = SumOf(long, A) + SumOf(long, B)
    BY <2>1, <2>2, <2>3, <2>4, SumOfUnion
  <2>. QED  BY <2>1, <2>2, <2>5, <2>6 DEF A
<1>5. ASSUME NEW Q \in SUBSET (1..n + 1)
      PROVE  /\ SumOf(long, Q) <= SumOf(es, Q \ {n + 1}) + e.values
             /\ n + 1 \notin Q => SumOf(long, Q) = SumOf(es, Q)
  <2>1. SumOf(es, Q \ {n + 1}) \in Nat /\ e.values \in Nat
    BY <1>3
  <2>2. CASE n + 1 \in Q
    BY <1>4, <2>1, <2>2
  <2>3. CASE n + 1 \notin Q
    <3>. DEFINE A == Q \ {n + 1}
    <3>1. A = Q
      BY <2>3
    <3>2. SumOf(long, A) = SumOf(es, A)
      BY <1>3
    <3>3. SumOf(es, A) <= SumOf(es, A) + e.values
      BY <2>1
    <3>. HIDE DEF A
    <3>4. SumOf(long, Q) = SumOf(es, Q) /\ SumOf(es, Q) <= SumOf(es, A) + e.values
      BY <3>1, <3>2, <3>3
    <3>. QED  BY <2>3, <3>1, <3>4 DEF A
  <2>. QED  BY <2>2, <2>3
<1>6. Sum(long) = Sum(es) + e.values
  <2>1. DOMAIN long \ {n + 1} = DOMAIN es /\ DOMAIN long \in SUBSET (1..n + 1) /\ n + 1 \in DOMAIN long
    BY <1>1
  <2>2. SumOf(long, DOMAIN long) = SumOf(es, DOMAIN long \ {n + 1}) + e.values
    BY <1>4, <2>1
  <2>. QED  BY <2>1, <2>2 DEF Sum
<1>. QED  BY <1>5, <1>6 DEF n, long

LEMMA AliasIsNotOverstated == Sound => AliasUseNeverOverstated
<1>. SUFFICES ASSUME Sound, NEW w \in Windows
              PROVE  AliasSum(now - w) <= AliasUse(now - w)
  BY DEF AliasUseNeverOverstated
<1>. DEFINE from == now - w
            n == Len(history)
            l == Len(alias)
            lo == BinarySearch(alias, from)
            P == lo + 1..l
            Q == {h \in 1..n : history[h].viaAlias /\ history[h].ts >= from}
<1>1. /\ l \in Nat /\ DOMAIN alias = 1..l /\ n \in Nat /\ DOMAIN history = 1..n
      /\ \A i \in 1..l : alias[i] \in AliasEventsUpTo(now)
      /\ Drawn("alias", alias, history, n) /\ InOrder(alias)
  BY DEF Sound, Logged
<1>2. from \in Int
  <2>1. w \in Int
    BY LedgerAssumption
  <2>. QED  BY <2>1, Clock
<1>3. \A i \in 1..l : alias[i].ts \in Int /\ alias[i].values \in Nat
  <2>1. \A x \in AliasEventsUpTo(now) : x.ts \in Int /\ x.values \in Nat
    BY EventFields
  <2>. QED  BY <1>1, <2>1
<1>4. lo \in 0..l /\ (lo = l \/ alias[lo + 1].ts >= from)
  <2>. HIDE DEF from
  <2>. QED  BY <1>1, <1>2, <1>3, SearchEnds
<1>. HIDE DEF lo, l, n, from
<1>5. P \in SUBSET DOMAIN alias
  BY <1>1, <1>4
<1>6. ASSUME NEW i \in P
      PROVE  alias[i].ts >= from
  <2>1. i \in 1..l /\ lo + 1 \in 1..l /\ (i = lo + 1 \/ lo + 1 < i) /\ lo # l
    BY <1>1, <1>4
  <2>2. alias[lo + 1].ts <= alias[i].ts
    <3>1. CASE i = lo + 1
      BY <1>3, <2>1, <3>1
    <3>2. CASE lo + 1 < i
      BY <1>1, <2>1, <3>2 DEF InOrder
    <3>. QED  BY <2>1, <3>1, <3>2
  <2>. QED  BY <1>2, <1>3, <1>4, <2>1, <2>2
<1>7. IsFiniteSet(P)
  <2>1. IsFiniteSet(1..l)
    BY <1>1, FS_Interval
  <2>. HIDE DEF P
  <2>. QED  BY <1>1, <1>5, <2>1, FS_Subset
<1>8. \A i \in P, h \in 1..n : StandsFor("alias", alias[i], history[h]) => h \in Q
  BY <1>6 DEF StandsFor
<1>9. \A h \in 1..n : history[h].values \in Nat
  BY HistorySums DEF n
<1>10. \A i \in P : alias[i].values \in Nat
  BY <1>1, <1>3, <1>5
<1>11. Q \in SUBSET (1..n)
  OBVIOUS
<1>. HIDE DEF P, Q
<1>12. SumOf(alias, P) <= SumOf(history, Q)
  BY <1>1, <1>5, <1>7, <1>8, <1>9, <1>10, <1>11, DrawnSum
<1>13. AliasSum(from) = SumOf(alias, P)
  BY Zenon DEF AliasSum, P, lo, l
<1>14. AliasUse(from) = SumOf(history, Q)
  <2>1. Q = {h \in DOMAIN history : history[h].viaAlias /\ history[h].ts >= from}
    BY <1>1 DEF Q
  <2>. QED  BY <2>1, Zenon DEF AliasUse
<1>. QED  BY <1>12, <1>13, <1>14 DEF from

(* What every step keeps of the window, on top of Sound. *)
WindowIsSound == up /\ regular => InOrder(events) /\ AbsorbedIsPast(frozen, cutoff)

(* Nothing absorbed is usage of the past. *)
LEMMA NothingAbsorbed == Sound /\ frozen = 0 => AbsorbedIsPast(frozen, cutoff)
<1>. SUFFICES ASSUME Sound, frozen = 0  PROVE 0 <= UsedBefore(cutoff)
  BY DEF AbsorbedIsPast
<1>1. cutoff \in Int /\ cutoff <= cutoff
  <2>1. cutoff \in 0..now /\ now \in Int
    BY Clock DEF Sound, Clocked
  <2>. QED  BY <2>1
<1>2. UsedBefore(cutoff) \in Nat
  BY <1>1, UsedParts
<1>. QED  BY <1>2

LEMMA InitIsSplit == Init => WindowIsSound
<1>. SUFFICES ASSUME Init  PROVE WindowIsSound
  OBVIOUS
<1>1. events = <<>> /\ frozen = 0 /\ Sound
  BY InitIsSound DEF Init
<1>2. InOrder(<<>>)
  <2>1. DOMAIN <<>> = {}
    OBVIOUS
  <2>. QED  BY <2>1 DEF InOrder
<1>. QED  BY <1>1, <1>2, NothingAbsorbed DEF WindowIsSound

(* A usage is not older than the boundary of the last query. *)
LEMMA RecordKeepsSplit ==
  ASSUME Sound, WindowIsSound, NEW m \in Models, NEW v \in Amounts, NEW viaAlias \in BOOLEAN,
         RecordUsage(m, v, viaAlias)
  PROVE  WindowIsSound'
<1>. DEFINE use == Usage(m, v, viaAlias)
            more == Append(history, use)
            n == Len(history)
            old == {h \in DOMAIN history : history[h].ts < cutoff}
<1>1. /\ up /\ up' = up /\ regular' = regular /\ frozen' = frozen /\ cutoff' = cutoff
      /\ events' = RecordedEvents(m, v) /\ history' = more
  BY DEF RecordUsage, RecordedEvents, Usage
<1>. SUFFICES ASSUME regular  PROVE InOrder(events') /\ frozen <= UsedBefore(cutoff)'
  BY <1>1 DEF WindowIsSound, AbsorbedIsPast
<1>2. InOrder(events) /\ frozen <= UsedBefore(cutoff)
  BY <1>1 DEF WindowIsSound, AbsorbedIsPast
<1>3. InOrder(events')
  BY <1>1, <1>2, UsageIsLogged
<1>4. /\ more \in Seq(UsesUpTo(now)) /\ Len(more) = n + 1 /\ more[n + 1] = use
      /\ \A h \in 1..n : more[h] = history[h]
  BY UsageIsLogged
<1>5. use.ts = now /\ cutoff \in 0..now /\ now \in Int
  BY Clock DEF Usage, Sound, Clocked
<1>6. n \in Nat /\ DOMAIN history = 1..n /\ \A h \in 1..n : history[h].values \in Nat
  BY HistorySums
<1>. HIDE DEF use, more, n
<1>7. DOMAIN more = 1..n + 1 /\ ~ (more[n + 1].ts < cutoff)
  BY <1>4, <1>5, <1>6
<1>8. {h \in DOMAIN more : more[h].ts < cutoff} = old
  <2>1. \A h \in 1..n + 1 : h \in 1..n \/ h = n + 1
    BY <1>6
  <2>2. \A h \in 1..n : h \in 1..n + 1
    BY <1>6
  <2>. QED  BY <1>4, <1>6, <1>7, <2>1, <2>2
<1>9. SumOf(more, old) = SumOf(history, old)
  <2>1. \A h \in old : h \in 1..n
    BY <1>6
  <2>2. \A h \in old : more[h].values = history[h].values
    BY <1>4, <2>1
  <2>. HIDE DEF old
  <2>. QED  BY <2>2, SumOfSame
<1>10. UsedBefore(cutoff)' = SumOf(more, old)
  BY <1>1, <1>8, Zenon DEF UsedBefore
<1>11. UsedBefore(cutoff) = SumOf(history, old)
  BY Zenon DEF UsedBefore
<1>. QED  BY <1>2, <1>3, <1>9, <1>10, <1>11

LEMMA StepKeepsSplit == Sound /\ Sound' /\ WindowIsSound /\ [Next]_vars => WindowIsSound'
<1>. SUFFICES ASSUME Sound, Sound', WindowIsSound, [Next]_vars  PROVE WindowIsSound'
  OBVIOUS
<1>1. ASSUME UNCHANGED <<up, regular, events, frozen, cutoff, history>>
      PROVE  WindowIsSound'
  BY <1>1 DEF WindowIsSound, AbsorbedIsPast, UsedBefore
<1>2. ASSUME NEW m \in Models, NEW v \in Amounts, NEW viaAlias \in BOOLEAN, RecordUsage(m, v, viaAlias)
      PROVE  WindowIsSound'
  BY <1>2, RecordKeepsSplit
<1>3. CASE PeriodicDump
  BY <1>1, <1>3 DEF PeriodicDump
<1>4. ASSUME NEW w \in Windows, QueryWindow(w)
      PROVE  WindowIsSound'
  <2>1. /\ up /\ frozen' = WindowQuery(events, now - w).frozen /\ cutoff' = now - w
        /\ regular' = (regular /\ cutoff <= now - w)
        /\ events' = events /\ history' = history
    BY <1>4, Zenon DEF QueryWindow
  <2>2. CASE ~ regular'
    BY <2>2 DEF WindowIsSound
  <2>3. CASE regular'
    <3>1. regular /\ cutoff <= now - w
      BY <2>1, <2>3
    <3>2. InOrder(events) /\ AbsorbedIsPast(frozen, cutoff)
      BY <2>1, <3>1 DEF WindowIsSound
    <3>3. QueryIsSplit(WindowQuery(events, now - w), now - w)
      BY <3>1, <3>2, QuerySplits
    <3>. DEFINE query == WindowQuery(events, now - w)
                from == now - w
    <3>4. query.frozen <= UsedBefore(from) /\ frozen' = query.frozen /\ cutoff' = from
      BY <2>1, <3>3 DEF QueryIsSplit
    <3>. HIDE DEF query, from
    <3>5. UsedBefore(cutoff)' = UsedBefore(from)
      BY <2>1, <3>4 DEF UsedBefore
    <3>6. AbsorbedIsPast(frozen, cutoff)'
      BY <3>4, <3>5 DEF AbsorbedIsPast
    <3>. QED  BY <2>1, <3>2, <3>6 DEF WindowIsSound
  <2>. QED  BY <2>2, <2>3
<1>5. CASE PassTime
  BY <1>1, <1>5 DEF PassTime, memory
<1>6. CASE Crash
  BY <1>6 DEF Crash, WindowIsSound
<1>7. CASE Restart
  <2>1. frozen' = 0 /\ events' = RestoredEvents /\ regular' = InOrder(RestoredEvents)
    BY <1>7, Zenon DEF Restart, Sound, Stopped
  <2>2. (Sound /\ frozen = 0 => AbsorbedIsPast(frozen, cutoff))'
    BY NothingAbsorbed, PTL
  <2>. QED  BY <2>1, <2>2 DEF WindowIsSound
<1>8. CASE UNCHANGED vars
  BY <1>1, <1>8 DEF vars, memory
<1>. QED  BY <1>2, <1>3, <1>4, <1>5, <1>6, <1>7, <1>8 DEF Next

LEMMA SplitIsEnough == Sound /\ WindowIsSound => UsageCountsOnce
<1>. SUFFICES ASSUME Sound, WindowIsSound  PROVE UsageCountsOnce
  OBVIOUS
<1>1. WindowSplitsUsage
  BY QuerySplits DEF WindowIsSound, WindowSplitsUsage
<1>. QED  BY <1>1, AliasIsNotOverstated DEF UsageCountsOnce

(* A query of the window counts each usage once and on its own side of the boundary, as long as the log
   came back in order and the boundary does not go back, and the usage of an alias in a window is never
   more than what the alias used in it. *)
THEOREM UsageHolds == Spec => []UsageCountsOnce
<1>1. Init => WindowIsSound
  BY InitIsSplit
<1>2. Sound /\ Sound' /\ WindowIsSound /\ [Next]_vars => WindowIsSound'
  BY StepKeepsSplit
<1>3. Sound /\ WindowIsSound => UsageCountsOnce
  BY SplitIsEnough
<1>. QED  BY <1>1, <1>2, <1>3, AlwaysSound, PTL DEF Spec

-----------------------------------------------------------------------------
(* 9. No total is missing.  What a model used on the days of a set, up to usage n; the last row of a
   day; and a file whose last rows cover the usages up to n.               *)

UseOn(uses, n, days, m) ==
  SumOf(uses, {h \in 1..n : uses[h].model = m /\ Day(uses[h].ts) \in days})

Closes(rows, r, d) == rows[r].date = d /\ \A s \in DOMAIN rows : s > r => rows[s].date # d

Covered(rows, uses, n) ==
  \A d \in Nat, m \in Models :
    UseOn(uses, n, {d}, m) > 0 =>
      \E r \in DOMAIN rows : Closes(rows, r, d) /\ UseOn(uses, n, {d}, m) <= TotalOf(rows[r].stats, m)

DaysCovered ==
  /\ Covered(file, history, durable)
  /\ up => /\ \A m \in Models : UseOn(history, Len(history), {daySlot}, m) <= TotalOf(daily, m)
           /\ \A h \in DOMAIN history : /\ Day(history[h].ts) <= daySlot
                                        /\ h > durable => Day(history[h].ts) = daySlot

RetainedDays == {d \in Nat : Retained(d)}

LEMMA UseIsNatural ==
  ASSUME NEW uses, NEW n \in Nat, \A h \in 1..n : uses[h].values \in Nat, NEW days, NEW m
  PROVE  UseOn(uses, n, days, m) \in Nat
<1>. DEFINE P == {h \in 1..n : uses[h].model = m /\ Day(uses[h].ts) \in days}
<1>1. IsFiniteSet(1..n) /\ P \in SUBSET (1..n)
  BY FS_Interval
<1>2. \A h \in P : uses[h].values \in Nat
  OBVIOUS
<1>. HIDE DEF P
<1>3. IsFiniteSet(P)
  BY <1>1, FS_Subset
<1>4. SumOf(uses, P) \in Nat
  BY <1>2, <1>3, SumOfSome
<1>. QED  BY <1>4 DEF UseOn, P

LEMMA UseOfPrefix ==
  ASSUME NEW uses, NEW more, NEW n \in Nat, \A h \in 1..n : more[h] = uses[h], NEW days, NEW m
  PROVE  UseOn(more, n, days, m) = UseOn(uses, n, days, m)
<1>. DEFINE P == {h \in 1..n : uses[h].model = m /\ Day(uses[h].ts) \in days}
            Q == {h \in 1..n : more[h].model = m /\ Day(more[h].ts) \in days}
<1>1. P = Q /\ \A h \in Q : more[h].values = uses[h].values
  OBVIOUS
<1>. HIDE DEF P, Q
<1>2. SumOf(more, Q) = SumOf(uses, Q)
  BY <1>1, SumOfSame
<1>. QED  BY <1>1, <1>2 DEF UseOn, P, Q

(* Usages of other days add nothing. *)
LEMMA UseOfOtherDays ==
  ASSUME NEW uses, NEW k \in Nat, NEW n \in Nat, k <= n, NEW days,
         \A h \in 1..n : h > k => Day(uses[h].ts) \notin days, NEW m
  PROVE  UseOn(uses, n, days, m) = UseOn(uses, k, days, m)
<1>. DEFINE P == {h \in 1..n : uses[h].model = m /\ Day(uses[h].ts) \in days}
            Q == {h \in 1..k : uses[h].model = m /\ Day(uses[h].ts) \in days}
<1>1. P = Q
  <2>1. ASSUME NEW h \in P
        PROVE  h \in Q
    <3>1. h \in 1..n /\ ~ (h > k)
      OBVIOUS
    <3>2. h \in 1..k
      BY <3>1
    <3>. QED  BY <3>2
  <2>2. \A h \in 1..k : h \in 1..n
    OBVIOUS
  <2>3. \A h \in Q : h \in P
    BY <2>2
  <2>. QED  BY <2>1, <2>3
<1>. HIDE DEF P, Q
<1>2. SumOf(uses, P) = SumOf(uses, Q)
  BY <1>1
<1>. QED  BY <1>2 DEF UseOn, P, Q

LEMMA NoUse ==
  ASSUME NEW uses, NEW days, NEW m
  PROVE  UseOn(uses, 0, days, m) = 0
<1>1. {h \in 1..0 : uses[h].model = m /\ Day(uses[h].ts) \in days} = {}
  OBVIOUS
<1>. QED  BY <1>1, SumOfNone, Zenon DEF UseOn

LEMMA UseOnFewerDays ==
  ASSUME NEW uses, NEW n \in Nat, \A h \in 1..n : uses[h].values \in Nat, NEW m,
         NEW days, NEW fewer \in SUBSET days
  PROVE  UseOn(uses, n, fewer, m) <= UseOn(uses, n, days, m)
<1>. DEFINE P == {h \in 1..n : uses[h].model = m /\ Day(uses[h].ts) \in days}
            Q == {h \in 1..n : uses[h].model = m /\ Day(uses[h].ts) \in fewer}
<1>1. P \in SUBSET (1..n) /\ Q \in SUBSET (1..n) /\ Q \subseteq P
  OBVIOUS
<1>. HIDE DEF P, Q
<1>2. SumOf(uses, Q) <= SumOf(uses, P)
  BY <1>1, SumsOfParts
<1>. QED  BY <1>2 DEF UseOn, P, Q

LEMMA UseGrows ==
  ASSUME NEW S, NEW uses \in Seq(S), \A x \in S : x.values \in Nat, NEW e \in S, NEW days, NEW m
  PROVE  /\ UseOn(Append(uses, e), Len(uses) + 1, days, m) <= UseOn(uses, Len(uses), days, m) + e.values
         /\ e.model # m =>
              UseOn(Append(uses, e), Len(uses) + 1, days, m) <= UseOn(uses, Len(uses), days, m)
<1>. DEFINE n == Len(uses)
            more == Append(uses, e)
            Q == {h \in 1..n + 1 : more[h].model = m /\ Day(more[h].ts) \in days}
            P == {h \in 1..n : uses[h].model = m /\ Day(uses[h].ts) \in days}
<1>1. n \in Nat /\ DOMAIN uses = 1..n /\ more[n + 1] = e /\ (\A h \in 1..n : more[h] = uses[h] /\ uses[h] \in S)
  OBVIOUS
<1>2. Q \in SUBSET (1..n + 1)
  OBVIOUS
<1>3. Q \ {n + 1} = P
  <2>. HIDE DEF more, n
  <2>1. \A h : h \in 1..n + 1 /\ h # n + 1 <=> h \in 1..n
    BY <1>1
  <2>2. ASSUME NEW h
        PROVE  h \in Q \ {n + 1} <=> h \in P
    BY <1>1, <2>1
  <2>. HIDE DEF P, Q
  <2>. QED  BY <2>2
<1>4. e.model # m => n + 1 \notin Q
  BY <1>1
<1>5. /\ SumOf(more, Q) <= SumOf(uses, Q \ {n + 1}) + e.values
      /\ n + 1 \notin Q => SumOf(more, Q) = SumOf(uses, Q)
  <2>. HIDE DEF Q
  <2>. QED  BY <1>2, SumOfAppend
<1>6. UseOn(more, n + 1, days, m) = SumOf(more, Q) /\ UseOn(uses, n, days, m) = SumOf(uses, P)
  BY DEF UseOn
<1>7. UseOn(uses, n, days, m) \in Nat
  <2>1. \A h \in 1..n : uses[h].values \in Nat
    BY <1>1
  <2>. HIDE DEF n
  <2>. QED  BY <1>1, <2>1, UseIsNatural
<1>. HIDE DEF Q, P, n, more
<1>8. n + 1 \notin Q => Q = P
  BY <1>3
<1>9. n + 1 \notin Q => SumOf(more, Q) = SumOf(uses, P)
  BY <1>5, <1>8
<1>10. UseOn(more, n + 1, days, m) <= UseOn(uses, n, days, m) + e.values
  BY <1>3, <1>5, <1>6
<1>11. e.model # m => UseOn(more, n + 1, days, m) <= UseOn(uses, n, days, m)
  BY <1>4, <1>6, <1>7, <1>9
<1>. QED  BY <1>10, <1>11 DEF n, more

LEMMA UsesAreNatural ==
  ASSUME Sound
  PROVE  /\ Len(history) \in Nat /\ DOMAIN history = 1..Len(history)
         /\ \A h \in 1..Len(history) : /\ history[h].values \in Nat
                                       /\ Day(history[h].ts) \in Nat /\ Day(history[h].ts) <= Day(now)
         /\ \A days, m : UseOn(history, Len(history), days, m) \in Nat
<1>1. /\ Len(history) \in Nat /\ DOMAIN history = 1..Len(history)
      /\ \A h \in DOMAIN history : history[h].ts \in StartTime..now /\ history[h].values \in Nat
  BY HistorySums
<1>2. ASSUME NEW h \in 1..Len(history)
      PROVE  Day(history[h].ts) \in Nat /\ Day(history[h].ts) <= Day(now)
  <2>. DEFINE t == history[h].ts
  <2>1. t \in StartTime..now /\ now \in Nat /\ StartTime \in Nat
    <3>1. t \in StartTime..now
      BY <1>1, Zenon
    <3>. QED  BY <3>1, Clock, LedgerAssumption
  <2>. HIDE DEF t
  <2>2. t \in Nat /\ t <= now
    BY <2>1
  <2>3. Day(t) \in Nat /\ Day(t) <= Day(now)
    BY <2>1, <2>2, DayGrows
  <2>. QED  BY <2>3 DEF t
<1>3. ASSUME NEW days, NEW m
      PROVE  UseOn(history, Len(history), days, m) \in Nat
  BY <1>1, UseIsNatural
<1>. QED  BY <1>1, <1>2, <1>3

LEMMA RetainedUseIsUse ==
  ASSUME Sound, NEW m
  PROVE  RetainedUse(m) = UseOn(history, Len(history), RetainedDays, m)
<1>1. {h \in DOMAIN history : history[h].model = m /\ Retained(Day(history[h].ts))}
        = {h \in 1..Len(history) : history[h].model = m /\ Day(history[h].ts) \in RetainedDays}
  BY UsesAreNatural DEF RetainedDays
<1>. QED  BY <1>1, Zenon DEF RetainedUse, UseOn

(* A full row of a day covers it for the usages so far. *)
LEMMA CoveredGrows ==
  ASSUME NEW S, NEW rows \in Seq(S), NEW row \in S, NEW uses, NEW k \in Nat, NEW n \in Nat, k <= n,
         Covered(rows, uses, k), NEW slot \in Nat, row.date = slot,
         \A h \in 1..n : h > k => Day(uses[h].ts) = slot,
         \A m \in Models : UseOn(uses, n, {slot}, m) <= TotalOf(row.stats, m)
  PROVE  Covered(Append(rows, row), uses, n)
<1>. DEFINE l == Len(rows)
            long == Append(rows, row)
<1>1. /\ l \in Nat /\ DOMAIN rows = 1..l /\ DOMAIN long = 1..l + 1
      /\ long[l + 1] = row /\ \A r \in 1..l : long[r] = rows[r]
  OBVIOUS
<1>. HIDE DEF l, long
<1>2. \A r \in 1..l + 1 : r \in 1..l \/ r = l + 1
  BY <1>1
<1>. SUFFICES ASSUME NEW d \in Nat, NEW m \in Models, UseOn(uses, n, {d}, m) > 0
              PROVE  \E r \in DOMAIN long :
                       Closes(long, r, d) /\ UseOn(uses, n, {d}, m) <= TotalOf(long[r].stats, m)
  BY Zenon DEF Covered, long
<1>3. CASE d = slot
  <2>1. Closes(long, l + 1, d)
    BY <1>1, <1>3 DEF Closes
  <2>2. UseOn(uses, n, {d}, m) <= TotalOf(long[l + 1].stats, m)
    BY <1>1, <1>3
  <2>3. l + 1 \in DOMAIN long
    BY <1>1
  <2>. QED  BY <2>1, <2>2, <2>3
<1>4. CASE d # slot
  <2>1. UseOn(uses, n, {d}, m) = UseOn(uses, k, {d}, m)
    <3>1. \A h \in 1..n : h > k => Day(uses[h].ts) \notin {d}
      BY <1>4
    <3>. QED  BY <3>1, UseOfOtherDays
  <2>2. PICK r \in DOMAIN rows : Closes(rows, r, d) /\ UseOn(uses, k, {d}, m) <= TotalOf(rows[r].stats, m)
    BY <2>1 DEF Covered
  <2>3. r \in DOMAIN long /\ long[r] = rows[r]
    BY <1>1, <2>2
  <2>4. Closes(long, r, d)
    BY <1>1, <1>2, <1>4, <2>2, <2>3 DEF Closes
  <2>. QED  BY <2>1, <2>2, <2>3, <2>4
<1>. QED  BY <1>3, <1>4

LEMMA InitIsCovered == Init => DaysCovered /\ DurableTotalsSurvive
<1>. SUFFICES ASSUME Init  PROVE DaysCovered /\ DurableTotalsSurvive
  OBVIOUS
<1>1. history = <<>> /\ Len(<<>>) = 0 /\ DOMAIN <<>> = {} /\ durable = 0 /\ daily = NoTotals /\ modelStats = NoTotals
  BY DEF Init
<1>2. \A days, m : UseOn(history, 0, days, m) = 0
  BY NoUse
<1>3. Covered(file, history, durable)
  BY <1>1, <1>2 DEF Covered
<1>4. \A m : UseOn(history, Len(history), {daySlot}, m) <= TotalOf(daily, m)
  <2>1. \A m : UseOn(history, Len(history), {daySlot}, m) = 0 /\ TotalOf(daily, m) = 0
    BY <1>1, <1>2, NoTotalsAreTotals
  <2>. QED  BY <2>1
<1>5. ASSUME NEW m
      PROVE  RetainedUse(m) <= TotalOf(modelStats, m)
  <2>1. RetainedUse(m) = UseOn(history, Len(history), RetainedDays, m)
    BY InitIsSound, RetainedUseIsUse
  <2>2. RetainedUse(m) = 0 /\ TotalOf(modelStats, m) = 0
    BY <1>1, <1>2, <2>1, NoTotalsAreTotals
  <2>. QED  BY <2>2
<1>. QED  BY <1>1, <1>3, <1>4, <1>5 DEF DaysCovered, DurableTotalsSurvive

LEMMA SoundTotals ==
  ASSUME Sound
  PROVE  /\ \A m : TotalOf(daily, m) \in Nat /\ TotalOf(modelStats, m) \in Nat
         /\ \E S : file \in Seq(S)
BY DEF Sound, Clocked, IsTotals, TotalOf, Written, SoundFile

(* The row that closes a day the process turns away from covers it. *)
LEMMA ClosingRowCovers ==
  ASSUME Sound, DaysCovered, up, NEW evs
  PROVE  Covered(Append(file, DailyRow(daySlot, evs)), history, Len(history))
<1>. DEFINE row == DailyRow(daySlot, evs)
            n == Len(history)
<1>1. row.date = daySlot /\ row.stats = daily
  BY DEF DailyRow
<1>. HIDE DEF row
<1>2. PICK S : file \in Seq(S)
  BY SoundTotals
<1>. DEFINE T == S \cup {row}
<1>3. file \in Seq(T) /\ row \in T
  BY <1>2
<1>. HIDE DEF T
<1>4. daySlot \in Nat /\ durable \in Nat /\ n \in Nat /\ durable <= n
  BY Clock
<1>5. Covered(file, history, durable)
  BY DEF DaysCovered
<1>6. \A h \in 1..n : h > durable => Day(history[h].ts) = daySlot
  BY UsesAreNatural DEF DaysCovered
<1>7. \A m \in Models : UseOn(history, n, {daySlot}, m) <= TotalOf(row.stats, m)
  BY <1>1 DEF DaysCovered
<1>. HIDE DEF n
<1>8. Covered(Append(file, row), history, n)
  BY <1>1, <1>3, <1>4, <1>5, <1>6, <1>7, CoveredGrows
<1>. QED  BY <1>8 DEF row, n

(* On a day the process has not turned to yet nothing was used. *)
LEMMA NothingUsedYet ==
  ASSUME Sound, DaysCovered, up, NEW d \in Nat, daySlot < d, NEW m
  PROVE  UseOn(history, Len(history), {d}, m) = 0
<1>. DEFINE n == Len(history)
<1>1. n \in Nat /\ daySlot \in Nat
  BY Clock
<1>2. \A h \in 1..n : h > 0 => Day(history[h].ts) \notin {d}
  <2>1. ASSUME NEW h \in 1..n
        PROVE  Day(history[h].ts) # d
    <3>1. Day(history[h].ts) <= daySlot /\ Day(history[h].ts) \in Nat
      BY UsesAreNatural DEF DaysCovered
    <3>. QED  BY <1>1, <3>1
  <2>. QED  BY <2>1
<1>. HIDE DEF n
<1>3. UseOn(history, n, {d}, m) = UseOn(history, 0, {d}, m)
  BY <1>1, <1>2, UseOfOtherDays
<1>. QED  BY <1>3, NoUse DEF n

LEMMA RecordKeepsDays ==
  ASSUME Sound, DaysCovered, DurableTotalsSurvive,
         NEW m \in Models, NEW v \in Amounts, NEW viaAlias \in BOOLEAN, RecordUsage(m, v, viaAlias)
  PROVE  DaysCovered' /\ DurableTotalsSurvive'
<1>. DEFINE use == Usage(m, v, viaAlias)
            evs == RecordedEvents(m, v)
            n == Len(history)
            more == Append(history, use)
            rollover == Day(now) # daySlot
            old == IF rollover THEN NoTotals ELSE daily
<1>1. /\ up /\ up' = up /\ now' = now
      /\ modelStats' = AddTo(modelStats, m, v) /\ daily' = AddTo(old, m, v)
      /\ daySlot' = Day(now)
      /\ file' = (IF rollover THEN Append(file, DailyRow(daySlot, evs)) ELSE file)
      /\ durable' = (IF rollover THEN n ELSE durable)
      /\ history' = more
  BY DEF RecordUsage, RecordedEvents, Usage
<1>2. /\ more \in Seq(UsesUpTo(now)) /\ Len(more) = n + 1 /\ more[n + 1] = use
      /\ \A h \in 1..n : more[h] = history[h]
  BY UsageIsLogged, Zenon
<1>3. /\ n \in Nat /\ durable \in Nat /\ durable <= n /\ now \in StartTime..now
      /\ Day(now) \in Nat /\ daySlot \in Nat /\ daySlot <= Day(now)
  BY Clock
<1>4. history \in Seq(UsesUpTo(now)) /\ (\A x \in UsesUpTo(now) : x.values \in Nat) /\ use \in UsesUpTo(now)
  <2>1. use \in UsesUpTo(now)
    BY <1>3 DEF Usage, UsesUpTo
  <2>. QED  BY <2>1, EventFields DEF Sound, Logged
<1>5. use.values = v /\ use.model = m /\ use.ts = now /\ v \in Nat
  BY LedgerAssumption DEF Usage
<1>. HIDE DEF use
<1>6. ASSUME NEW days, NEW x
      PROVE  /\ UseOn(more, n + 1, days, x) <= UseOn(history, n, days, x) + v
             /\ x # m => UseOn(more, n + 1, days, x) <= UseOn(history, n, days, x)
             /\ UseOn(history, n, days, x) \in Nat /\ UseOn(more, n + 1, days, x) \in Nat
             /\ UseOn(more, n, days, x) = UseOn(history, n, days, x)
             /\ UseOn(more, durable, days, x) = UseOn(history, durable, days, x)
  <2>1. /\ UseOn(more, n + 1, days, x) <= UseOn(history, n, days, x) + use.values
        /\ use.model # x => UseOn(more, n + 1, days, x) <= UseOn(history, n, days, x)
    BY <1>4, UseGrows
  <2>2. UseOn(history, n, days, x) \in Nat
    BY UsesAreNatural
  <2>3. \A h \in 1..n + 1 : more[h].values \in Nat
    BY <1>2, <1>4
  <2>4. (\A h \in 1..n : more[h] = history[h]) /\ (\A h \in 1..durable : more[h] = history[h])
    BY <1>2, <1>3
  <2>. HIDE DEF n, more
  <2>5. UseOn(more, n + 1, days, x) \in Nat
    BY <1>3, <2>3, UseIsNatural
  <2>6. UseOn(more, n, days, x) = UseOn(history, n, days, x)
    BY <1>3, <2>4, UseOfPrefix
  <2>7. UseOn(more, durable, days, x) = UseOn(history, durable, days, x)
    BY <1>3, <2>4, UseOfPrefix
  <2>. QED  BY <1>5, <2>1, <2>2, <2>5, <2>6, <2>7
<1>. DEFINE slot == Day(now)
<1>7. IsTotals(old) /\ IsTotals(modelStats)
  BY NoTotalsAreTotals DEF Sound, Clocked
<1>8. \A x \in Models : UseOn(history, n, {slot}, x) <= TotalOf(old, x)
  <2>1. CASE rollover
    <3>1. old = NoTotals /\ daySlot < slot /\ slot \in Nat
      BY <1>3, <2>1
    <3>. HIDE DEF slot, old
    <3>2. \A x : UseOn(history, n, {slot}, x) = 0 /\ TotalOf(old, x) = 0
      BY <1>1, <3>1, NothingUsedYet, NoTotalsAreTotals
    <3>. QED  BY <3>2
  <2>2. CASE ~ rollover
    <3>1. old = daily /\ slot = daySlot
      BY <2>2
    <3>. HIDE DEF slot, old
    <3>. QED  BY <1>1, <3>1 DEF DaysCovered
  <2>. QED  BY <2>1, <2>2
<1>. HIDE DEF more, n, old, evs
<1>9. ASSUME NEW x \in Models, NEW days, NEW totals, IsTotals(totals),
             UseOn(history, n, days, x) <= TotalOf(totals, x)
      PROVE  UseOn(more, n + 1, days, x) <= TotalOf(AddTo(totals, m, v), x)
  <2>1. /\ UseOn(more, n + 1, days, x) <= UseOn(history, n, days, x) + v
        /\ x # m => UseOn(more, n + 1, days, x) <= UseOn(history, n, days, x)
        /\ UseOn(history, n, days, x) \in Nat /\ UseOn(more, n + 1, days, x) \in Nat
    BY <1>6
  <2>2. TotalOf(totals, x) \in Nat
    BY <1>9 DEF IsTotals, TotalOf
  <2>3. CASE x = m
    <3>1. TotalOf(AddTo(totals, m, v), m) = TotalOf(totals, m) + v
      BY <1>5, <1>9, AddToTotals
    <3>. QED  BY <1>5, <1>9, <2>1, <2>2, <2>3, <3>1
  <2>4. CASE x # m
    <3>1. TotalOf(AddTo(totals, m, v), x) = TotalOf(totals, x)
      BY <1>5, <1>9, <2>4, AddToTotals
    <3>. QED  BY <1>9, <2>1, <2>2, <2>4, <3>1
  <2>. QED  BY <2>3, <2>4
<1>10. \A x \in Models : UseOn(more, n + 1, {slot}, x) <= TotalOf(daily', x)
  BY <1>1, <1>7, <1>8, <1>9
<1>11. ASSUME NEW h \in 1..n + 1
       PROVE  Day(more[h].ts) <= slot /\ (h > durable' => Day(more[h].ts) = slot)
  <2>1. CASE h = n + 1
    <3>1. more[h].ts = now
      BY <1>2, <1>5, <2>1
    <3>2. Day(more[h].ts) = slot
      BY <3>1
    <3>. QED  BY <1>3, <3>2
  <2>2. CASE h # n + 1
    <3>1. h \in 1..n /\ more[h] = history[h]
      BY <1>2, <1>3, <2>2
    <3>2. /\ Day(history[h].ts) <= daySlot /\ Day(history[h].ts) \in Nat
          /\ h > durable => Day(history[h].ts) = daySlot
      BY <1>1, <3>1, UsesAreNatural DEF DaysCovered, n
    <3>3. rollover => ~ (h > durable')
      BY <1>1, <1>3, <3>1
    <3>4. ~ rollover => durable' = durable /\ slot = daySlot
      BY <1>1
    <3>. QED  BY <1>3, <3>1, <3>2, <3>3, <3>4
  <2>. QED  BY <2>1, <2>2
<1>12. Covered(file', more, durable')
  <2>1. CASE rollover
    <3>. DEFINE long == Append(file, DailyRow(daySlot, evs))
    <3>1. Covered(long, history, n)
      BY <1>1, ClosingRowCovers DEF n
    <3>2. file' = long /\ durable' = n
      BY <1>1, <2>1
    <3>. HIDE DEF long
    <3>. QED  BY <1>6, <3>1, <3>2 DEF Covered
  <2>2. CASE ~ rollover
    <3>1. file' = file /\ durable' = durable
      BY <1>1, <2>2
    <3>. QED  BY <1>6, <3>1 DEF Covered, DaysCovered
  <2>. QED  BY <2>1, <2>2
<1>13. DOMAIN more = 1..n + 1 /\ Len(more) = n + 1
  BY <1>2
<1>14. DaysCovered'
  BY <1>1, <1>10, <1>11, <1>12, <1>13 DEF DaysCovered
<1>15. DurableTotalsSurvive'
  <2>. SUFFICES ASSUME NEW x \in Models  PROVE RetainedUse(x)' <= TotalOf(modelStats', x)
    BY DEF DurableTotalsSurvive
  <2>1. RetainedUse(x)' = UseOn(more, n + 1, RetainedDays, x)
    <3>1. \A d \in Int : Retained(d)' <=> Retained(d)
      BY <1>1 DEF Retained
    <3>2. \A h \in 1..n + 1 : Day(more[h].ts) \in Nat
      <4>1. \A h \in 1..n : Day(history[h].ts) \in Nat
        BY UsesAreNatural DEF n
      <4>2. \A h \in 1..n + 1 : h \in 1..n \/ h = n + 1
        BY <1>3
      <4>. QED  BY <1>2, <1>3, <1>5, <4>1, <4>2
    <3>3. {h \in DOMAIN more : more[h].model = x /\ Retained(Day(more[h].ts))}
            = {h \in 1..n + 1 : more[h].model = x /\ Day(more[h].ts) \in RetainedDays}
      BY <1>13, <3>2 DEF RetainedDays
    <3>4. RetainedUse(x)' = SumOf(more, {h \in DOMAIN more : more[h].model = x /\ Retained(Day(more[h].ts))})
      BY <1>1 DEF RetainedUse, Retained
    <3>. QED  BY <3>3, <3>4, Zenon DEF UseOn
  <2>2. UseOn(history, n, RetainedDays, x) <= TotalOf(modelStats, x)
    BY <1>1, RetainedUseIsUse DEF DurableTotalsSurvive, n
  <2>3. UseOn(more, n + 1, RetainedDays, x) <= TotalOf(AddTo(modelStats, m, v), x)
    BY <1>7, <1>9, <2>2
  <2>. QED  BY <1>1, <2>1, <2>3
<1>. QED  BY <1>14, <1>15

LEMMA DumpKeepsDays ==
  ASSUME Sound, DaysCovered, PeriodicDump
  PROVE  DaysCovered'
<1>. DEFINE n == Len(history)
            d == Day(now)
            rollover == d # daySlot
            totals == IF rollover THEN NoTotals ELSE daily
            after == IF rollover THEN now ELSE dumpTs
            closed == IF rollover THEN Append(file, DailyRow(daySlot, events)) ELSE file
            today == TodayRow(after, totals)
<1>1. /\ up /\ up' = up /\ file' = Append(closed, today)
      /\ daily' = totals /\ daySlot' = d /\ durable' = n /\ history' = history
  BY DEF PeriodicDump
<1>2. today.date = d /\ today.stats = totals
  BY DEF TodayRow
<1>3. n \in Nat /\ durable \in Nat /\ durable <= n /\ d \in Nat /\ daySlot \in Nat /\ daySlot <= d
  BY Clock
<1>. HIDE DEF today, n, d
<1>4. \A x \in Models : UseOn(history, n, {d}, x) <= TotalOf(totals, x)
  <2>1. CASE rollover
    <3>1. totals = NoTotals /\ daySlot < d
      BY <1>3, <2>1
    <3>. HIDE DEF totals
    <3>2. \A x : UseOn(history, n, {d}, x) = 0 /\ TotalOf(totals, x) = 0
      BY <1>1, <1>3, <3>1, NothingUsedYet, NoTotalsAreTotals DEF n
    <3>. QED  BY <3>2
  <2>2. CASE ~ rollover
    <3>1. totals = daily /\ d = daySlot
      BY <2>2
    <3>. HIDE DEF totals
    <3>. QED  BY <1>1, <3>1 DEF DaysCovered, n
  <2>. QED  BY <2>1, <2>2
<1>5. PICK k \in 0..n : Covered(closed, history, k) /\ \A h \in 1..n : h > k => Day(history[h].ts) = d
  <2>1. CASE rollover
    <3>1. Covered(closed, history, n)
      BY <1>1, <2>1, ClosingRowCovers DEF n
    <3>2. n \in 0..n /\ \A h \in 1..n : ~ (h > n)
      BY <1>3
    <3>. QED  BY <3>1, <3>2
  <2>2. CASE ~ rollover
    <3>1. Covered(closed, history, durable)
      BY <2>2 DEF DaysCovered
    <3>2. \A h \in 1..n : h > durable => Day(history[h].ts) = d
      BY <1>1, <2>2, UsesAreNatural DEF DaysCovered, n
    <3>3. durable \in 0..n
      BY <1>3
    <3>. QED  BY <3>1, <3>2, <3>3
  <2>. QED  BY <2>1, <2>2
<1>6. \E S : closed \in Seq(S)
  <2>1. PICK S : file \in Seq(S)
    BY SoundTotals
  <2>. DEFINE row == DailyRow(daySlot, events)
              T == S \cup {row}
  <2>2. file \in Seq(T) /\ row \in T
    BY <2>1
  <2>. HIDE DEF row, T
  <2>3. closed \in Seq(T)
    BY <2>2 DEF row
  <2>. QED  BY <2>3
<1>7. PICK S : closed \in Seq(S)
  BY <1>6
<1>. HIDE DEF closed
<1>. DEFINE T == S \cup {today}
<1>8. closed \in Seq(T) /\ today \in T
  BY <1>7
<1>9. k \in Nat /\ k <= n /\ Covered(closed, history, k) /\ \A h \in 1..n : h > k => Day(history[h].ts) = d
  BY <1>3, <1>5
<1>10. \A x \in Models : UseOn(history, n, {d}, x) <= TotalOf(today.stats, x)
  BY <1>2, <1>4
<1>. HIDE DEF T, totals
<1>11. Covered(Append(closed, today), history, n)
  BY <1>2, <1>3, <1>8, <1>9, <1>10, CoveredGrows
<1>12. ASSUME NEW h \in DOMAIN history
       PROVE  Day(history[h].ts) <= d /\ ~ (h > n)
  BY <1>3, UsesAreNatural DEF d, n
<1>13. DOMAIN history' = DOMAIN history /\ Len(history') = n
  BY <1>1 DEF n
<1>. QED  BY <1>1, <1>4, <1>11, <1>12, <1>13 DEF DaysCovered

LEMMA TimeKeepsTotals ==
  ASSUME Sound, DaysCovered, DurableTotalsSurvive, PassTime
  PROVE  DaysCovered' /\ DurableTotalsSurvive'
<1>1. /\ now' = now + 1 /\ up' = up /\ history' = history /\ modelStats' = modelStats
      /\ file' = file /\ durable' = durable /\ daySlot' = daySlot /\ daily' = daily
  BY DEF PassTime, memory
<1>2. DaysCovered'
  BY <1>1 DEF DaysCovered
<1>3. ASSUME NEW x \in Models, up
      PROVE  RetainedUse(x)' <= TotalOf(modelStats', x)
  <2>. DEFINE old == {h \in DOMAIN history : history[h].model = x /\ Retained(Day(history[h].ts))}
              new == {h \in DOMAIN history :
                        history[h].model = x /\ Day(history[h].ts) > Day(now + 1) - RetentionDays}
  <2>1. /\ now \in Nat /\ now + 1 \in Nat /\ now <= now + 1
        /\ Day(now) \in Nat /\ Day(now + 1) \in Nat /\ Day(now) <= Day(now + 1)
    <3>. DEFINE t == now + 1
    <3>1. now \in Nat /\ t \in Nat /\ now <= t
      BY Clock
    <3>. HIDE DEF t
    <3>2. Day(now) \in Nat /\ Day(t) \in Nat /\ Day(now) <= Day(t)
      BY <3>1, DayGrows
    <3>. QED  BY <3>1, <3>2 DEF t
  <2>2. new \subseteq old
    <3>1. ASSUME NEW h \in DOMAIN history, Day(history[h].ts) > Day(now + 1) - RetentionDays
          PROVE  Day(history[h].ts) > Day(now) - RetentionDays
      <4>1. Day(history[h].ts) \in Nat /\ RetentionDays \in Int
        BY UsesAreNatural, LedgerAssumption
      <4>. QED  BY <2>1, <3>1, <4>1
    <3>. QED  BY <3>1 DEF Retained
  <2>3. old \in SUBSET DOMAIN history /\ new \in SUBSET DOMAIN history
    BY <2>2
  <2>4. RetainedUse(x)' = SumOf(history, new)
    BY <1>1 DEF RetainedUse, Retained
  <2>5. RetainedUse(x) = SumOf(history, old)
    BY DEF RetainedUse
  <2>. HIDE DEF old, new
  <2>6. SumOf(history, new) <= SumOf(history, old) /\ SumOf(history, new) \in Nat /\ SumOf(history, old) \in Nat
    BY <2>2, <2>3, HistorySums
  <2>7. RetainedUse(x) <= TotalOf(modelStats, x) /\ TotalOf(modelStats, x) \in Nat
    BY <1>3, SoundTotals DEF DurableTotalsSurvive
  <2>. QED  BY <1>1, <2>4, <2>5, <2>6, <2>7
<1>4. DurableTotalsSurvive'
  BY <1>1, <1>3 DEF DurableTotalsSurvive
<1>. QED  BY <1>2, <1>4

LEMMA CrashKeepsDays ==
  ASSUME Sound, DaysCovered, Crash
  PROVE  DaysCovered' /\ DurableTotalsSurvive'
<1>. DEFINE kept == SubSeq(history, 1, durable)
<1>1. up' = FALSE /\ history' = kept /\ file' = file /\ durable' = durable
  BY DEF Crash
<1>2. durable \in Nat /\ \A h \in 1..durable : kept[h] = history[h]
  <2>1. durable \in Nat /\ Len(history) \in Nat /\ durable <= Len(history) /\ history \in Seq(UsesUpTo(now))
    BY Clock DEF Sound, Logged
  <2>. QED  BY <2>1
<1>. HIDE DEF kept
<1>3. \A days, m : UseOn(kept, durable, days, m) = UseOn(history, durable, days, m)
  BY <1>2, UseOfPrefix
<1>4. Covered(file, kept, durable)
  BY <1>3 DEF DaysCovered, Covered
<1>. QED  BY <1>1, <1>4 DEF DaysCovered, DurableTotalsSurvive

(* The last row of a retained day is the row a restart reads for it. *)
LEMMA ClosingIsLatest ==
  ASSUME Sound, NEW d, Retained(d), NEW r \in DOMAIN file, Closes(file, r, d)
  PROVE  r \in LatestRows
<1>1. DOMAIN file = 1..Len(file) /\ Len(file) \in Nat /\ file[r].date = d
  BY LatestRowsAreRows DEF Closes
<1>2. r \in RetainedRows
  BY <1>1 DEF RetainedRows
<1>3. ASSUME NEW s \in RetainedRows, file[s].date = file[r].date
      PROVE  file[s].at <= file[r].at
  <2>1. s \in DOMAIN file /\ ~ (s > r)
    BY <1>1, <1>3 DEF RetainedRows, Closes
  <2>2. CASE s = r
    <3>1. file[r].at \in 0..now /\ now \in Int
      BY Clock DEF Sound, Written, SoundFile, SoundRow
    <3>. QED  BY <2>2, <3>1
  <2>3. CASE s < r
    BY <2>1, <2>3 DEF Sound, Written, SoundFile
  <2>. QED  BY <1>1, <2>1, <2>2, <2>3
<1>. QED  BY <1>2, <1>3 DEF LatestRows

LEMMA RestartKeepsDays ==
  ASSUME Sound, DaysCovered, Restart
  PROVE  DaysCovered'
<1>. DEFINE n == Len(history)
            d == Day(now)
<1>1. /\ daily' = RestoredDaily /\ daySlot' = d /\ up' = TRUE
      /\ file' = file /\ history' = history /\ durable' = durable /\ durable = n
  BY Zenon DEF Restart, Sound, Stopped
<1>2. n \in Nat /\ d \in Nat /\ daySlot \in Nat /\ daySlot <= d
  BY Clock
<1>3. Covered(file, history, n)
  BY <1>1 DEF DaysCovered
<1>4. Retained(d)
  <2>1. RetentionDays \in Nat /\ RetentionDays > 0
    BY LedgerAssumption
  <2>. QED  BY <1>2, <2>1 DEF Retained
<1>5. ASSUME NEW m \in Models
      PROVE  UseOn(history, n, {d}, m) <= TotalOf(RestoredDaily, m)
  <2>1. UseOn(history, n, {d}, m) \in Nat /\ TotalOf(RestoredDaily, m) \in Nat
    BY UsesAreNatural, LoadedTotals DEF IsTotals, TotalOf
  <2>2. CASE UseOn(history, n, {d}, m) > 0
    <3>. HIDE DEF n, d
    <3>1. PICK r \in DOMAIN file : Closes(file, r, d) /\ UseOn(history, n, {d}, m) <= TotalOf(file[r].stats, m)
      BY <1>2, <1>3, <2>2 DEF Covered
    <3>2. m \in DOMAIN file[r].stats
      BY <2>1, <2>2, <3>1 DEF TotalOf
    <3>3. r \in RowsWith(m)
      BY <1>4, <3>1, <3>2, ClosingIsLatest DEF RowsWith
    <3>4. m \in RestoredModels
      BY <3>3 DEF RestoredModels
    <3>. DEFINE last == Max(RowsWith(m))
    <3>5. last \in RowsWith(m) /\ r <= last
      BY <3>3, <3>4, LoadedTotals
    <3>. HIDE DEF last
    <3>6. last = r
      <4>1. last \in DOMAIN file /\ DOMAIN file = 1..Len(file) /\ Len(file) \in Nat
        BY <3>5, LatestRowsAreRows DEF RowsWith
      <4>. SUFFICES ASSUME last > r  PROVE FALSE
        BY <3>5, <4>1
      <4>2. file[last].date # d /\ file[r].date = d
        BY <3>1, <4>1 DEF Closes
      <4>3. file[r].date <= file[last].date
        BY <3>1, <4>1 DEF Sound, Written, SoundFile
      <4>4. file[last].date \in Nat /\ file[last].date <= daySlot
        BY <4>1 DEF Sound, Written, SoundFile, SoundRow
      <4>. QED  BY <1>2, <4>2, <4>3, <4>4
    <3>7. RestoredDaily[m] = file[r].stats[m]
      BY <3>4, <3>6 DEF RestoredDaily, last
    <3>8. m \in DOMAIN RestoredDaily
      BY <3>4 DEF RestoredDaily
    <3>. QED  BY <3>1, <3>2, <3>7, <3>8 DEF TotalOf
  <2>3. CASE ~ (UseOn(history, n, {d}, m) > 0)
    BY <2>1, <2>3
  <2>. QED  BY <2>2, <2>3
<1>6. ASSUME NEW h \in DOMAIN history
      PROVE  Day(history[h].ts) <= d /\ ~ (h > n)
  <2>1. h \in 1..n
    BY UsesAreNatural
  <2>. QED  BY <1>2, <2>1, UsesAreNatural
<1>7. Covered(file', history', durable')
  BY <1>1, <1>3
<1>8. \A m \in Models : UseOn(history', Len(history'), {daySlot'}, m) <= TotalOf(daily', m)
  BY <1>1, <1>5
<1>9. \A h \in DOMAIN history' : Day(history'[h].ts) <= daySlot' /\ ~ (h > durable')
  BY <1>1, <1>6
<1>. QED  BY <1>7, <1>8, <1>9 DEF DaysCovered

(* The totals a restart adds up over the days cover what was used on them. *)
LEMMA RestartKeepsTotals ==
  ASSUME Sound, DaysCovered, Restart
  PROVE  DurableTotalsSurvive'
<1>. DEFINE n == Len(history)
<1>1. /\ modelStats' = RestoredModelStats /\ now' = now /\ history' = history /\ durable = n
  BY Zenon DEF Restart, Sound, Stopped
<1>2. Covered(file, history, n) /\ n \in Nat
  BY <1>1, Clock DEF DaysCovered
<1>3. ASSUME NEW m \in Models
      PROVE  RetainedUse(m) <= TotalOf(RestoredModelStats, m)
  <2>. DEFINE S == {h \in 1..n : history[h].model = m /\ Day(history[h].ts) \in RetainedDays}
              f == [h \in S |-> history[h].values]
              day == [h \in 1..n |-> Day(history[h].ts)]
              T == RowsWith(m)
              g == [r \in T |-> file[r].stats[m]]
              date == [r \in DOMAIN file |-> file[r].date]
  <2>1. RetainedUse(m) = Tokens(f)
    <3>1. RetainedUse(m) = UseOn(history, n, RetainedDays, m)
      BY RetainedUseIsUse
    <3>. QED  BY <3>1, Zenon DEF UseOn, SumOf
  <2>2. S \in SUBSET (1..n) /\ f \in [S -> Nat] /\ \A h \in S : day[h] \in RetainedDays
    BY UsesAreNatural
  <2>3. IsFiniteSet(S)
    <3>1. IsFiniteSet(1..n)
      BY <1>2, FS_Interval
    <3>. HIDE DEF S
    <3>. QED  BY <2>2, <3>1, FS_Subset
  <2>4. IsFiniteSet(T) /\ g \in [T -> Nat]
    BY LoadedTotals
  <2>5. ASSUME NEW d \in RetainedDays
        PROVE  DaySum(S, f, day, d) = UseOn(history, n, {d}, m)
    <3>. DEFINE A == {k \in S : day[k] = d}
                B == {h \in 1..n : history[h].model = m /\ Day(history[h].ts) \in {d}}
    <3>1. A = B
      OBVIOUS
    <3>2. \A h \in A : f[h] = history[h].values
      OBVIOUS
    <3>. HIDE DEF A, B, f
    <3>3. [h \in A |-> f[h]] = [h \in B |-> history[h].values]
      BY <3>1, <3>2
    <3>4. UseOn(history, n, {d}, m) = Tokens([h \in B |-> history[h].values])
      BY Zenon DEF UseOn, SumOf, B
    <3>. QED  BY <3>3, <3>4 DEF A, DaySum
  <2>6. ASSUME NEW d \in RetainedDays, UseOn(history, n, {d}, m) > 0
        PROVE  \E r \in T : date[r] = d /\ UseOn(history, n, {d}, m) <= g[r]
    <3>1. d \in Nat /\ Retained(d)
      BY DEF RetainedDays
    <3>2. PICK r \in DOMAIN file : Closes(file, r, d) /\ UseOn(history, n, {d}, m) <= TotalOf(file[r].stats, m)
      BY <1>2, <2>6, <3>1 DEF Covered
    <3>3. UseOn(history, n, {d}, m) \in Nat
      BY UsesAreNatural
    <3>4. m \in DOMAIN file[r].stats
      BY <2>6, <3>2, <3>3 DEF TotalOf
    <3>5. r \in T
      BY <3>1, <3>2, <3>4, ClosingIsLatest DEF RowsWith
    <3>6. date[r] = d /\ g[r] = TotalOf(file[r].stats, m)
      BY <3>2, <3>4, <3>5 DEF Closes, TotalOf
    <3>. QED  BY <3>2, <3>5, <3>6
  <2>7. \A d \in RetainedDays :
          DaySum(S, f, day, d) > 0 => \E r \in T : date[r] = d /\ DaySum(S, f, day, d) <= g[r]
    BY <2>5, <2>6
  <2>8. TotalOf(RestoredModelStats, m) = Tokens(g)
    <3>1. CASE T = {}
      <4>1. m \notin RestoredModels /\ DOMAIN g = {}
        BY <3>1 DEF RestoredModels
      <4>2. TotalOf(RestoredModelStats, m) = 0
        BY <4>1 DEF TotalOf, RestoredModelStats
      <4>. HIDE DEF g
      <4>. QED  BY <4>1, <4>2, TokensOfNone
    <3>2. CASE T # {}
      <4>1. m \in RestoredModels
        BY <3>2 DEF RestoredModels
      <4>2. m \in DOMAIN RestoredModelStats /\ RestoredModelStats[m] = Tokens(g)
        BY <4>1, Zenon DEF RestoredModelStats
      <4>. QED  BY <4>2 DEF TotalOf
    <3>. QED  BY <3>1, <3>2
  <2>. HIDE DEF S, f, day, T, g, date
  <2>9. Tokens(f) <= Tokens(g)
    <3>1. BookedByDay(S, f, day, T, g, date, RetainedDays)
      BY <2>2, <2>3, <2>4, <2>7 DEF BookedByDay
    <3>. QED  BY <3>1, TokensByDay
  <2>. QED  BY <2>1, <2>8, <2>9
<1>4. ASSUME NEW m
      PROVE  RetainedUse(m)' = RetainedUse(m)
  BY <1>1 DEF RetainedUse, Retained
<1>. QED  BY <1>1, <1>3, <1>4 DEF DurableTotalsSurvive

LEMMA StepKeepsDays ==
  Sound /\ DaysCovered /\ DurableTotalsSurvive /\ [Next]_vars => DaysCovered' /\ DurableTotalsSurvive'
<1>. SUFFICES ASSUME Sound, DaysCovered, DurableTotalsSurvive, [Next]_vars
              PROVE  DaysCovered' /\ DurableTotalsSurvive'
  OBVIOUS
<1>1. ASSUME UNCHANGED <<now, up, history, modelStats>>
      PROVE  DurableTotalsSurvive'
  BY <1>1 DEF DurableTotalsSurvive, RetainedUse, Retained
<1>2. ASSUME UNCHANGED <<up, file, history, durable, daySlot, daily>>
      PROVE  DaysCovered'
  BY <1>2 DEF DaysCovered
<1>3. ASSUME NEW m \in Models, NEW v \in Amounts, NEW viaAlias \in BOOLEAN, RecordUsage(m, v, viaAlias)
      PROVE  DaysCovered' /\ DurableTotalsSurvive'
  BY <1>3, RecordKeepsDays
<1>4. CASE PeriodicDump
  BY <1>1, <1>4, DumpKeepsDays DEF PeriodicDump
<1>5. ASSUME NEW w \in Windows, QueryWindow(w)
      PROVE  DaysCovered' /\ DurableTotalsSurvive'
  BY <1>1, <1>2, <1>5 DEF QueryWindow
<1>6. CASE PassTime
  BY <1>6, TimeKeepsTotals
<1>7. CASE Crash
  BY <1>7, CrashKeepsDays
<1>8. CASE Restart
  BY <1>8, RestartKeepsDays, RestartKeepsTotals
<1>9. CASE UNCHANGED vars
  BY <1>1, <1>2, <1>9 DEF vars, memory
<1>. QED  BY <1>3, <1>4, <1>5, <1>6, <1>7, <1>8, <1>9 DEF Next

(* Through any number of dumps, crashes and restarts, no usage comes back more often than it was
   recorded, and the all-time total of a model never falls below its usage on the retained days. *)
THEOREM RestoreHolds == Spec => []RestoreIsFaithful
<1>1. Init => DaysCovered /\ DurableTotalsSurvive
  BY InitIsCovered
<1>2. Sound /\ DaysCovered /\ DurableTotalsSurvive /\ [Next]_vars => DaysCovered' /\ DurableTotalsSurvive'
  BY StepKeepsDays
<1>3. Sound /\ DurableTotalsSurvive => RestoreIsFaithful
  BY SoundIsNotPhantom DEF RestoreIsFaithful
<1>. QED  BY <1>1, <1>2, <1>3, AlwaysSound, PTL DEF Spec
=============================================================================
