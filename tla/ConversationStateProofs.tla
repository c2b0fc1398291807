----------------------- MODULE ConversationStateProofs -----------------------
(* Proofs about the conversation store, for any number of requests and conversations and any cap. *)
EXTENDS ConversationState, FiniteSetTheorems, TLAPS

-----------------------------------------------------------------------------
(* What is kept of a sequence: the positions are taken in order, each of them once. *)

Rank(positions, k) == Cardinality({j \in positions : j <= k})

LEMMA RankIsOneToOne ==
  ASSUME NEW n \in Nat, NEW K \in SUBSET (1..n)
  PROVE  /\ IsFiniteSet(K) /\ Cardinality(K) \in Nat
         /\ \A k \in K : Rank(K, k) \in 1..Cardinality(K)
         /\ \A j, k \in K : j < k => Rank(K, j) < Rank(K, k)
         /\ \A j, k \in K : Rank(K, j) = Rank(K, k) => j = k
         /\ \A i \in 1..Cardinality(K) : \E k \in K : Rank(K, k) = i
<1>. DEFINE upTo(k) == {j \in K : j <= k}
            c == Cardinality(K)
<1>0. K \subseteq Int
  OBVIOUS
<1>1. IsFiniteSet(K) /\ c \in Nat
  <2>1. IsFiniteSet(1..n)
    BY FS_Interval
  <2>2. IsFiniteSet(K)
    BY <2>1, FS_Subset
  <2>. QED  BY <2>2, FS_CardinalityType
<1>2. ASSUME NEW k \in K
      PROVE  IsFiniteSet(upTo(k)) /\ Rank(K, k) \in Nat /\ Rank(K, k) \in 1..c
  <2>1. upTo(k) \in SUBSET K /\ k \in upTo(k)
    OBVIOUS
  <2>2. IsFiniteSet(upTo(k)) /\ Cardinality(upTo(k)) \in Nat /\ Cardinality(upTo(k)) <= c
    BY <1>1, <2>1, FS_Subset, FS_CardinalityType
  <2>3. Cardinality(upTo(k)) # 0
    BY <2>1, <2>2, FS_EmptySet
  <2>. QED  BY <1>1, <2>2, <2>3 DEF Rank
<1>3. ASSUME NEW j \in K, NEW k \in K, j < k
      PROVE  Rank(K, j) < Rank(K, k)
  <2>1. \A l \in upTo(j) : l \in upTo(k)
    BY <1>0, <1>3
  <2>2. j \in Int /\ k \in Int
    BY <1>0
  <2>3. k \in upTo(k) /\ k \notin upTo(j)
    BY <1>3, <2>2
  <2>4. upTo(j) \in SUBSET upTo(k) /\ k \in upTo(k) /\ k \notin upTo(j)
    BY <2>1, <2>3
  <2>. HIDE DEF upTo
  <2>5. Cardinality(upTo(j)) <= Cardinality(upTo(k)) /\ Cardinality(upTo(j)) # Cardinality(upTo(k))
    BY <1>2, <2>4, FS_Subset
  <2>6. Cardinality(upTo(j)) \in Nat /\ Cardinality(upTo(k)) \in Nat
    BY <1>2, FS_CardinalityType
  <2>. USE DEF upTo
  <2>. QED  BY <2>5, <2>6 DEF Rank
<1>4. ASSUME NEW j \in K, NEW k \in K, Rank(K, j) = Rank(K, k)
      PROVE  j = k
  <2>1. Rank(K, j) \in Int
    <3>. HIDE DEF upTo, c
    <3>. QED  BY <1>2
  <2>2. ~ (j < k) /\ ~ (k < j)
    BY <1>3, <1>4, <2>1
  <2>3. j \in Int /\ k \in Int
    BY <1>0
  <2>. QED  BY <2>2, <2>3
<1>5. ASSUME NEW i \in 1..c
      PROVE  \E k \in K : Rank(K, k) = i
  <2>. DEFINE rank == [k \in K |-> Rank(K, k)]
  <2>1. rank \in Injection(K, 1..c)
    <3>1. rank \in [K -> 1..c]
      BY <1>2
    <3>2. \A j, k \in K : rank[j] = rank[k] => j = k
      BY <1>4
    <3>. QED  BY <3>1, <3>2 DEF Injection, IsInjective
  <2>2. IsFiniteSet(1..c) /\ Cardinality(1..c) = c
    BY <1>1, FS_Interval
  <2>3. rank \in Surjection(K, 1..c)
    BY <2>1, <2>2, FS_Injection
  <2>. QED  BY <2>3 DEF Surjection
<1>. QED  BY <1>1, <1>2, <1>3, <1>4, <1>5

LEMMA NthIsInOrder ==
  ASSUME NEW n \in Nat, NEW K \in SUBSET (1..n)
  PROVE  /\ Cardinality(K) \in Nat
         /\ \A i \in 1..Cardinality(K) : Nth(K, i) \in K /\ Rank(K, Nth(K, i)) = i
         /\ \A i, j \in 1..Cardinality(K) : i < j => Nth(K, i) < Nth(K, j)
         /\ \A k \in K : Rank(K, k) \in 1..Cardinality(K) /\ Nth(K, Rank(K, k)) = k
<1>1. ASSUME NEW i \in 1..Cardinality(K)
      PROVE  Nth(K, i) \in K /\ Rank(K, Nth(K, i)) = i
  <2>1. \E k \in K : Rank(K, k) = i
    BY RankIsOneToOne
  <2>2. Nth(K, i) = CHOOSE k \in K : Rank(K, k) = i
    BY DEF Nth, Rank
  <2>. QED  BY <2>1, <2>2
<1>2. ASSUME NEW i \in 1..Cardinality(K), NEW j \in 1..Cardinality(K), i < j
      PROVE  Nth(K, i) < Nth(K, j)
  <2>1. Cardinality(K) \in Nat
    BY RankIsOneToOne
  <2>2. Nth(K, i) \in K /\ Nth(K, j) \in K
    BY <1>1
  <2>3. K \subseteq Int
    OBVIOUS
  <2>4. Nth(K, i) \in K /\ Nth(K, j) \in K /\ Nth(K, i) \in Int /\ Nth(K, j) \in Int
    BY <2>2, <2>3
  <2>5. Rank(K, Nth(K, i)) < Rank(K, Nth(K, j)) /\ i \in Int /\ j \in Int
    BY <1>1, <1>2, <2>1
  <2>6. Nth(K, i) # Nth(K, j) /\ ~ (Nth(K, j) < Nth(K, i))
    <3>1. ~ (Nth(K, j) < Nth(K, i))
      <4>. SUFFICES ASSUME Nth(K, j) < Nth(K, i)
                    PROVE  FALSE
        OBVIOUS
      <4>1. Rank(K, Nth(K, j)) < Rank(K, Nth(K, i))
        BY <2>4, RankIsOneToOne
      <4>. QED  BY <1>1, <2>5, <4>1
    <3>2. Nth(K, i) # Nth(K, j)
      BY <1>1, <2>5
    <3>. QED  BY <3>1, <3>2
  <2>. QED  BY <2>4, <2>6
<1>3. ASSUME NEW k \in K
      PROVE  Rank(K, k) \in 1..Cardinality(K) /\ Nth(K, Rank(K, k)) = k
  <2>1. Rank(K, k) \in 1..Cardinality(K)
    BY RankIsOneToOne
  <2>2. Nth(K, Rank(K, k)) \in K /\ Rank(K, Nth(K, Rank(K, k))) = Rank(K, k)
    BY <1>1, <2>1
  <2>. QED  BY <2>1, <2>2, RankIsOneToOne
<1>. QED  BY <1>1, <1>2, <1>3, RankIsOneToOne

(* One sequence is what is left of another. *)
Thinned(new, old) ==
  \E at \in [DOMAIN new -> DOMAIN old] :
    /\ \A i, j \in DOMAIN new : i < j => at[i] < at[j]
    /\ \A i \in DOMAIN new : new[i] = old[at[i]]

LEMMA KeptIsThinned ==
  ASSUME NEW S, NEW s \in Seq(S), NEW K \in SUBSET (DOMAIN s)
  PROVE  /\ Kept(s, K) \in Seq(S) /\ Len(Kept(s, K)) = Cardinality(K)
         /\ Thinned(Kept(s, K), s)
         /\ \A k \in K : \E i \in DOMAIN Kept(s, K) : Kept(s, K)[i] = s[k]
         /\ \A i \in DOMAIN Kept(s, K) : \E k \in K : Kept(s, K)[i] = s[k]
<1>. DEFINE c == Cardinality(K)
            at == [i \in 1..c |-> Nth(K, i)]
<1>1. Len(s) \in Nat /\ K \in SUBSET (1..Len(s)) /\ DOMAIN s = 1..Len(s)
  OBVIOUS
<1>2. /\ c \in Nat
      /\ \A i \in 1..c : Nth(K, i) \in K
      /\ \A i, j \in 1..c : i < j => Nth(K, i) < Nth(K, j)
      /\ \A k \in K : Rank(K, k) \in 1..c /\ Nth(K, Rank(K, k)) = k
  BY <1>1, NthIsInOrder
<1>3. /\ Kept(s, K) = [i \in 1..c |-> s[Nth(K, i)]]
      /\ DOMAIN Kept(s, K) = 1..c
  BY DEF Kept
<1>4. Kept(s, K) \in Seq(S) /\ Len(Kept(s, K)) = c
  BY <1>1, <1>2, <1>3
<1>5. at \in [1..c -> DOMAIN s]
  BY <1>1, <1>2
<1>6. Thinned(Kept(s, K), s)
  <2>1. \A i, j \in 1..c : i < j => at[i] < at[j]
    BY <1>2
  <2>2. \A i \in 1..c : Kept(s, K)[i] = s[at[i]]
    BY <1>3
  <2>. HIDE DEF at
  <2>. QED  BY <1>3, <1>5, <2>1, <2>2 DEF Thinned
<1>7. \A k \in K : Kept(s, K)[Rank(K, k)] = s[k]
  BY <1>2, <1>3
<1>. QED  BY <1>2, <1>3, <1>4, <1>6, <1>7

LEMMA TailIsThinned ==
  ASSUME NEW S, NEW s \in Seq(S)
  PROVE  /\ Rest(s) \in Seq(S) /\ Thinned(Rest(s), s)
         /\ Len(Rest(s)) = IF s = <<>> THEN 0 ELSE Len(s) - 1
         /\ s # <<>> => Len(s) > 0
         /\ \A i \in 2..Len(s) : i - 1 \in DOMAIN Rest(s) /\ Rest(s)[i - 1] = s[i]
<1>1. CASE s = <<>>
  <2>. DEFINE at == [i \in {} |-> i]
  <2>1. Rest(s) = <<>> /\ DOMAIN s = {} /\ Len(s) = 0
    BY <1>1 DEF Rest
  <2>2. at \in [DOMAIN Rest(s) -> DOMAIN s]
    BY <1>1, <2>1
  <2>3. Thinned(Rest(s), s)
    BY <1>1, <2>1, <2>2 DEF Thinned
  <2>4. Rest(s) \in Seq(S) /\ Len(Rest(s)) = 0
    BY <1>1, <2>1
  <2>5. 2..Len(s) = {}
    BY <2>1
  <2>. QED  BY <1>1, <2>3, <2>4, <2>5
<1>2. CASE s # <<>>
  <2>. DEFINE at == [i \in 1..Len(s) - 1 |-> i + 1]
  <2>1. /\ Rest(s) = Tail(s) /\ Tail(s) \in Seq(S) /\ Len(Tail(s)) = Len(s) - 1 /\ Len(s) > 0
        /\ Len(s) \in Nat
    BY <1>2 DEF Rest
  <2>2. DOMAIN Tail(s) = 1..Len(s) - 1 /\ DOMAIN s = 1..Len(s)
    BY <2>1
  <2>3. \A i \in 1..Len(s) - 1 : Tail(s)[i] = s[i + 1]
    BY <1>2, <2>1
  <2>4. at \in [1..Len(s) - 1 -> 1..Len(s)]
    BY <2>1
  <2>5. \A i, j \in 1..Len(s) - 1 : i < j => at[i] < at[j]
    BY <2>1
  <2>6. \A i \in 1..Len(s) - 1 : Tail(s)[i] = s[at[i]]
    BY <2>3
  <2>7. Thinned(Rest(s), s)
    <3>. HIDE DEF at
    <3>. QED  BY <2>1, <2>2, <2>4, <2>5, <2>6 DEF Thinned
  <2>8. \A i \in 2..Len(s) : i - 1 \in 1..Len(s) - 1 /\ Tail(s)[i - 1] = s[i]
    BY <2>1, <2>3
  <2>. QED  BY <1>2, <2>1, <2>2, <2>7, <2>8
<1>. QED  BY <1>1, <1>2

-----------------------------------------------------------------------------
(* Maps: sequences of entries whose keys differ.  What is left of one is one. *)

Entries(map) == {map[k] : k \in DOMAIN map}
KeysDiffer(map) == \A j, k \in DOMAIN map : map[j].key = map[k].key => j = k
OldestFirst(map) == \A j, k \in DOMAIN map : j < k => map[j].expires <= map[k].expires

(* The keys of the entries that a time later than t still finds. *)
Alive(map, t) == {e.key : e \in {f \in Entries(map) : f.expires > t}}

LEMMA ThinnedIsMap ==
  ASSUME NEW S, NEW old \in Seq(S), NEW T, NEW new \in Seq(T), Thinned(new, old)
  PROVE  /\ Entries(new) \subseteq Entries(old)
         /\ Keys(new) \subseteq Keys(old)
         /\ \A t : Alive(new, t) \subseteq Alive(old, t)
         /\ KeysDiffer(old) => KeysDiffer(new)
         /\ OldestFirst(old) => OldestFirst(new)
<1>1. PICK at \in [DOMAIN new -> DOMAIN old] :
        /\ \A i, j \in DOMAIN new : i < j => at[i] < at[j]
        /\ \A i \in DOMAIN new : new[i] = old[at[i]]
  BY DEF Thinned
<1>2. Entries(new) \subseteq Entries(old)
  BY <1>1 DEF Entries
<1>3. Keys(new) \subseteq Keys(old)
  BY <1>1 DEF Keys
<1>4. \A t : Alive(new, t) \subseteq Alive(old, t)
  BY <1>2 DEF Alive
<1>5. DOMAIN new \subseteq Int /\ DOMAIN old \subseteq Int
  OBVIOUS
<1>6. ASSUME KeysDiffer(old), NEW j \in DOMAIN new, NEW k \in DOMAIN new, new[j].key = new[k].key
      PROVE  j = k
  <2>1. at[j] = at[k]
    BY <1>1, <1>6 DEF KeysDiffer
  <2>2. at[j] \in Int
    BY <1>1, <1>5
  <2>3. ~ (j < k) /\ ~ (k < j)
    BY <1>1, <2>1, <2>2
  <2>4. j \in Int /\ k \in Int
    BY <1>5
  <2>. QED  BY <2>3, <2>4
<1>7. ASSUME OldestFirst(old), NEW j \in DOMAIN new, NEW k \in DOMAIN new, j < k
      PROVE  new[j].expires <= new[k].expires
  BY <1>1, <1>7 DEF OldestFirst
<1>. QED  BY <1>2, <1>3, <1>4, <1>6, <1>7 DEF KeysDiffer, OldestFirst

LEMMA SizeIsKeys ==
  ASSUME NEW S, NEW map \in Seq(S), KeysDiffer(map)
  PROVE  /\ IsFiniteSet(Keys(map)) /\ Cardinality(Keys(map)) = Len(map) /\ Len(map) \in Nat
         /\ \A t : /\ Alive(map, t) \subseteq Keys(map)
                   /\ IsFiniteSet(Alive(map, t))
                   /\ Cardinality(Alive(map, t)) \in Nat
                   /\ Cardinality(Alive(map, t)) <= Len(map)
<1>. DEFINE n == Len(map)
            key == [k \in 1..n |-> map[k].key]
<1>1. n \in Nat /\ DOMAIN map = 1..n
  OBVIOUS
<1>2. IsFiniteSet(1..n) /\ Cardinality(1..n) = n
  BY <1>1, FS_Interval
<1>3. key \in [1..n -> Keys(map)]
  BY <1>1 DEF Keys
<1>4. key \in Surjection(1..n, Keys(map))
  BY <1>1, <1>3 DEF Surjection, Keys
<1>5. \A j, k \in 1..n : key[j] = key[k] => j = k
  BY <1>1 DEF KeysDiffer
<1>6. key \in Injection(1..n, Keys(map))
  BY <1>3, <1>5 DEF Injection, IsInjective
<1>7. IsFiniteSet(Keys(map)) /\ Cardinality(Keys(map)) = n
  BY <1>2, <1>4, <1>6, FS_Surjection
<1>8. ASSUME NEW t
      PROVE  /\ Alive(map, t) \subseteq Keys(map)
             /\ IsFiniteSet(Alive(map, t))
             /\ Cardinality(Alive(map, t)) \in Nat
             /\ Cardinality(Alive(map, t)) <= n
  <2>1. Alive(map, t) \in SUBSET Keys(map)
    BY DEF Alive, Keys, Entries
  <2>. QED  BY <1>7, <2>1, FS_Subset, FS_CardinalityType
<1>. QED  BY <1>1, <1>7, <1>8

(* Time passes over the maps without a trace: what has expired is not alive at any later time. *)
LEMMA UnexpiredIsMap ==
  ASSUME NEW S, NEW map \in Seq(S), now \in Int
  PROVE  /\ Unexpired(map) \in Seq(S) /\ Thinned(Unexpired(map), map)
         /\ Entries(Unexpired(map)) = {e \in Entries(map) : e.expires > now}
<1>. DEFINE K == {k \in DOMAIN map : map[k].expires > now}
<1>1. K \in SUBSET DOMAIN map /\ Unexpired(map) = Kept(map, K)
  BY DEF Unexpired
<1>. HIDE DEF K
<1>2. /\ Kept(map, K) \in Seq(S) /\ Thinned(Kept(map, K), map)
      /\ \A k \in K : \E i \in DOMAIN Kept(map, K) : Kept(map, K)[i] = map[k]
      /\ \A i \in DOMAIN Kept(map, K) : \E k \in K : Kept(map, K)[i] = map[k]
  BY <1>1, KeptIsThinned
<1>3. Entries(Kept(map, K)) = {map[k] : k \in K}
  BY <1>2 DEF Entries
<1>4. {map[k] : k \in K} = {e \in Entries(map) : e.expires > now}
  BY DEF K, Entries
<1>. QED  BY <1>1, <1>2, <1>3, <1>4

LEMMA WithoutIsMap ==
  ASSUME NEW S, NEW map \in Seq(S), NEW key
  PROVE  /\ Without(map, key) \in Seq(S) /\ Thinned(Without(map, key), map)
         /\ Entries(Without(map, key)) = {e \in Entries(map) : e.key # key}
<1>. DEFINE K == {k \in DOMAIN map : map[k].key # key}
<1>1. K \in SUBSET DOMAIN map /\ Without(map, key) = Kept(map, K)
  BY DEF Without
<1>. HIDE DEF K
<1>2. /\ Kept(map, K) \in Seq(S) /\ Thinned(Kept(map, K), map)
      /\ \A k \in K : \E i \in DOMAIN Kept(map, K) : Kept(map, K)[i] = map[k]
      /\ \A i \in DOMAIN Kept(map, K) : \E k \in K : Kept(map, K)[i] = map[k]
  BY <1>1, KeptIsThinned
<1>3. Entries(Kept(map, K)) = {map[k] : k \in K}
  BY <1>2 DEF Entries
<1>4. {map[k] : k \in K} = {e \in Entries(map) : e.key # key}
  BY DEF K, Entries
<1>. QED  BY <1>1, <1>2, <1>3, <1>4

(* A key that is new comes last, one that is there keeps its place. *)
LEMMA PutIsMap ==
  ASSUME NEW S, NEW map \in Seq(S), KeysDiffer(map), NEW key, NEW turns,
         NEW new \in S, new = [key |-> key, turns |-> turns, expires |-> now + TTL]
  PROVE  /\ Put(map, key, turns) \in Seq(S) /\ KeysDiffer(Put(map, key, turns))
         /\ Entries(Put(map, key, turns)) = {e \in Entries(map) : e.key # key} \cup {new}
         /\ key \notin Keys(map) => Put(map, key, turns) = Append(map, new)
         /\ Len(Put(map, key, turns)) <= Len(map) + 1
<1>. DEFINE replaced == [k \in DOMAIN map |-> IF map[k].key = key THEN new ELSE map[k]]
<1>1. Len(map) \in Nat /\ DOMAIN map = 1..Len(map) /\ new.key = key /\ new \in S
  OBVIOUS
<1>2. CASE key \in Keys(map)
  <2>1. Put(map, key, turns) = replaced
    BY <1>2 DEF Put
  <2>2. replaced \in [1..Len(map) -> S]
    BY <1>1
  <2>3. replaced \in Seq(S) /\ Len(replaced) = Len(map) /\ DOMAIN replaced = DOMAIN map
    BY <1>1, <2>2
  <2>4. \A k \in DOMAIN map : replaced[k].key = map[k].key
    BY <1>1
  <2>5. KeysDiffer(replaced)
    BY <2>3, <2>4 DEF KeysDiffer
  <2>6. PICK l \in DOMAIN map : map[l].key = key
    BY <1>2 DEF Keys
  <2>7. Entries(replaced) = {e \in Entries(map) : e.key # key} \cup {new}
    BY <2>3, <2>6 DEF Entries
  <2>8. Len(replaced) <= Len(map) + 1
    BY <1>1, <2>3
  <2>. HIDE DEF replaced
  <2>. QED  BY <1>2, <2>1, <2>3, <2>5, <2>7, <2>8
<1>3. CASE key \notin Keys(map)
  <2>. DEFINE longer == Append(map, new)
  <2>1. Put(map, key, turns) = longer
    BY <1>3 DEF Put
  <2>2. longer \in Seq(S) /\ Len(longer) = Len(map) + 1 /\ DOMAIN longer = 1..Len(map) + 1
    BY <1>1
  <2>3. \A k \in DOMAIN longer : longer[k] = IF k \in DOMAIN map THEN map[k] ELSE new
    BY <1>1
  <2>4. \A k \in DOMAIN map : map[k].key # key
    BY <1>3 DEF Keys
  <2>5. KeysDiffer(longer)
    <3>. SUFFICES ASSUME NEW j \in DOMAIN longer, NEW k \in DOMAIN longer, longer[j].key = longer[k].key
                  PROVE  j = k
      BY DEF KeysDiffer
    <3>1. j \in DOMAIN map <=> k \in DOMAIN map
      BY <1>1, <2>3, <2>4
    <3>2. CASE j \in DOMAIN map
      BY <2>3, <3>1, <3>2 DEF KeysDiffer
    <3>3. CASE j \notin DOMAIN map
      BY <1>1, <2>2, <3>1, <3>3
    <3>. QED  BY <3>2, <3>3
  <2>6. Entries(longer) = Entries(map) \cup {new}
    <3>1. Len(map) + 1 \in DOMAIN longer /\ Len(map) + 1 \notin DOMAIN map
      BY <1>1, <2>2
    <3>2. DOMAIN map \subseteq DOMAIN longer
      BY <1>1, <2>2
    <3>. HIDE DEF longer
    <3>. QED  BY <2>3, <3>1, <3>2 DEF Entries
  <2>7. \A e \in Entries(map) : e.key # key
    BY <2>4 DEF Entries
  <2>8. Entries(longer) = {e \in Entries(map) : e.key # key} \cup {new}
    BY <2>6, <2>7
  <2>9. Len(longer) <= Len(map) + 1
    BY <1>1, <2>2
  <2>. QED  BY <1>3, <2>1, <2>2, <2>5, <2>8, <2>9
<1>. QED  BY <1>2, <1>3

-----------------------------------------------------------------------------
(* Making room.  For every time at which an entry may still be found there are at least as many
   responses as threads, d more than that between the two writes of a completion. *)

Balanced(s, t, d) ==
  \A x \in now..now + TTL - 1 : Cardinality(Alive(t, x)) + d <= Cardinality(Alive(s, x))

(* The entry that was put last is the last one. *)
Newest(s, e) == s # <<>> /\ s[Len(s)] = e

LEMMA NewestStays ==
  ASSUME NEW S, NEW old \in Seq(S), NEW new \in Seq(S), Thinned(new, old), KeysDiffer(old),
         NEW e, Newest(old, e), e \in Entries(new)
  PROVE  Newest(new, e)
<1>1. PICK at \in [DOMAIN new -> DOMAIN old] :
        /\ \A i, j \in DOMAIN new : i < j => at[i] < at[j]
        /\ \A i \in DOMAIN new : new[i] = old[at[i]]
  BY DEF Thinned
<1>2. PICK i \in DOMAIN new : new[i] = e
  BY DEF Entries
<1>3. /\ Len(old) \in Nat /\ Len(new) \in Nat /\ DOMAIN old = 1..Len(old) /\ DOMAIN new = 1..Len(new)
      /\ Len(old) \in DOMAIN old /\ Len(new) \in DOMAIN new /\ new # <<>>
  BY <1>2 DEF Newest
<1>4. at[i] = Len(old)
  BY <1>1, <1>2, <1>3 DEF Newest, KeysDiffer
<1>5. i = Len(new)
  <2>. SUFFICES ASSUME i < Len(new)
                PROVE  FALSE
    BY <1>3
  <2>1. at[i] < at[Len(new)] /\ at[Len(new)] \in 1..Len(old)
    BY <1>1, <1>3
  <2>. QED  BY <1>3, <1>4, <2>1
<1>. QED  BY <1>2, <1>3, <1>5 DEF Newest

(* One eviction takes a thread only together with a response, so the balance is kept; and it leaves
   the newest response in its place. *)
LEMMA EvictOnceBalance ==
  ASSUME now \in Nat,
         NEW S, NEW s \in Seq(S), KeysDiffer(s), OldestFirst(s),
         NEW T, NEW t \in Seq(T), KeysDiffer(t),
         \A e \in Entries(s) : e.expires \in Int /\ e.expires > now,
         \A e \in Entries(t) : e.expires > now,
         NEW d \in {0, 1}, Balanced(s, t, d),
         NEW new, Newest(s, new), new.expires = now + TTL \/ d = 0,
         Size(s, t) > MaxEntries
  PROVE  /\ Balanced(Rest(s), Rest(t), d)
         /\ Size(Rest(s), Rest(t)) <= Size(s, t) - 1
         /\ d = 1 \/ MaxEntries > 1 => Newest(Rest(s), new)
<1>. USE ConversationAssumption
<1>1. /\ Rest(s) \in Seq(S) /\ Thinned(Rest(s), s)
      /\ Rest(t) \in Seq(T) /\ Thinned(Rest(t), t)
      /\ Len(s) \in Nat /\ Len(t) \in Nat /\ Len(s) > 0
      /\ Len(Rest(s)) = Len(s) - 1
      /\ Len(Rest(t)) = IF t = <<>> THEN 0 ELSE Len(t) - 1
      /\ t # <<>> => Len(t) > 0
  BY TailIsThinned DEF Newest
<1>2. /\ KeysDiffer(Rest(s)) /\ KeysDiffer(Rest(t))
      /\ \A x : Alive(Rest(t), x) \subseteq Alive(t, x)
  BY <1>1, ThinnedIsMap
<1>3. Cardinality(Alive(s, now)) <= Len(s) /\ Cardinality(Alive(t, now)) = Len(t)
  <2>1. Alive(t, now) = Keys(t)
    BY DEF Alive, Keys, Entries
  <2>. QED  BY <2>1, SizeIsKeys
<1>4. Len(t) + d <= Len(s)
  <2>1. now \in now..now + TTL - 1
    OBVIOUS
  <2>2. Cardinality(Alive(t, now)) + d <= Cardinality(Alive(s, now))
    BY <2>1 DEF Balanced
  <2>. QED  BY <1>1, <1>3, <2>2, SizeIsKeys
<1>5. ASSUME Len(s) > 1
      PROVE  Newest(Rest(s), new)
  <2>1. Len(s) \in 2..Len(s)
    BY <1>1, <1>5
  <2>2. Rest(s)[Len(s) - 1] = s[Len(s)] /\ Rest(s) # <<>>
    BY <2>1, TailIsThinned
  <2>. QED  BY <1>1, <2>2 DEF Newest
<1>6. d = 1 \/ MaxEntries > 1 => Len(s) > 1
  BY <1>1, <1>4 DEF Size
<1>7. Size(Rest(s), Rest(t)) <= Size(s, t) - 1
  BY <1>1 DEF Size
<1>8. ASSUME NEW x \in now..now + TTL - 1
      PROVE  Cardinality(Alive(Rest(t), x)) + d <= Cardinality(Alive(Rest(s), x))
  <2>1. /\ IsFiniteSet(Alive(t, x)) /\ Cardinality(Alive(t, x)) \in Nat
        /\ IsFiniteSet(Alive(s, x)) /\ Cardinality(Alive(s, x)) \in Nat
        /\ IsFiniteSet(Alive(Rest(s), x)) /\ Cardinality(Alive(Rest(s), x)) \in Nat
        /\ Cardinality(Alive(Rest(t), x)) \in Nat
        /\ Cardinality(Alive(Rest(t), x)) <= Len(Rest(t))
        /\ Cardinality(Alive(t, x)) + d <= Cardinality(Alive(s, x))
    BY <1>1, <1>2, <1>8, SizeIsKeys DEF Balanced
  <2>2. CASE t = <<>>
    <3>1. Cardinality(Alive(Rest(t), x)) = 0
      BY <1>1, <2>1, <2>2
    <3>2. ASSUME d = 1
          PROVE  Cardinality(Alive(Rest(s), x)) # 0
      <4>1. new \in Entries(Rest(s))
        BY <1>1, <1>5, <1>6, <3>2 DEF Newest, Entries
      <4>2. new.expires > x
        BY <3>2
      <4>3. new.key \in Alive(Rest(s), x)
        BY <4>1, <4>2 DEF Alive
      <4>. QED  BY <2>1, <4>3, FS_EmptySet
    <3>. QED  BY <2>1, <3>1, <3>2
  <2>3. CASE t # <<>> /\ s[1].expires > x
    <3>1. \A e \in Entries(s) : e.expires > x
      <4>1. 1 \in DOMAIN s /\ \A k \in DOMAIN s : k = 1 \/ 1 < k
        BY <1>1
      <4>2. \A k \in DOMAIN s : s[k].expires \in Int
        BY DEF Entries
      <4>3. \A k \in DOMAIN s : s[k].expires > x
        BY <1>8, <2>3, <4>1, <4>2 DEF OldestFirst
      <4>. QED  BY <4>3 DEF Entries
    <3>2. Alive(Rest(s), x) = Keys(Rest(s))
      <4>1. Entries(Rest(s)) \subseteq Entries(s)
        BY <1>1, ThinnedIsMap
      <4>. QED  BY <3>1, <4>1 DEF Alive, Keys, Entries
    <3>3. Cardinality(Alive(Rest(s), x)) = Len(s) - 1
      BY <1>1, <1>2, <3>2, SizeIsKeys
    <3>. QED  BY <1>1, <1>4, <2>1, <2>3, <3>3
  <2>4. CASE t # <<>> /\ ~ (s[1].expires > x)
    <3>1. Alive(s, x) \subseteq Alive(Rest(s), x)
      <4>. SUFFICES ASSUME NEW e \in Entries(s), e.expires > x
                    PROVE  e \in Entries(Rest(s))
        BY DEF Alive
      <4>1. PICK k \in DOMAIN s : s[k] = e
        BY DEF Entries
      <4>2. k \in 2..Len(s)
        BY <1>1, <2>4, <4>1
      <4>3. k - 1 \in DOMAIN Rest(s) /\ Rest(s)[k - 1] = e
        BY <4>1, <4>2, TailIsThinned
      <4>. QED  BY <4>3 DEF Entries
    <3>2. Cardinality(Alive(s, x)) <= Cardinality(Alive(Rest(s), x))
      BY <2>1, <3>1, FS_Subset
    <3>3. Cardinality(Alive(Rest(t), x)) <= Cardinality(Alive(t, x))
      BY <1>2, <2>1, FS_Subset
    <3>. QED  BY <2>1, <3>2, <3>3
  <2>. QED  BY <2>2, <2>3, <2>4
<1>. QED  BY <1>5, <1>6, <1>7, <1>8 DEF Balanced

(* What a write leaves of the two maps after the opportunistic cleanup. *)
LEMMA EvictBalance ==
  ASSUME now \in Nat,
         NEW S, NEW s \in Seq(S), KeysDiffer(s), OldestFirst(s),
         NEW T, NEW t \in Seq(T), KeysDiffer(t),
         \A e \in Entries(s) \cup Entries(t) : e.expires \in Int,
         NEW d \in {0, 1}, Balanced(s, t, d),
         NEW new, Newest(s, new), new.expires = now + TTL,
         Size(s, t) <= MaxEntries + 1
  PROVE  /\ Evict(s, t).s \in Seq(S) /\ KeysDiffer(Evict(s, t).s) /\ OldestFirst(Evict(s, t).s)
         /\ Evict(s, t).t \in Seq(T) /\ KeysDiffer(Evict(s, t).t)
         /\ Entries(Evict(s, t).s) \subseteq Entries(s) /\ Entries(Evict(s, t).t) \subseteq Entries(t)
         /\ Keys(Evict(s, t).s) \subseteq Keys(s)
         /\ Balanced(Evict(s, t).s, Evict(s, t).t, d)
         /\ Size(Evict(s, t).s, Evict(s, t).t) <= MaxEntries
         /\ d = 1 \/ MaxEntries > 1 => Newest(Evict(s, t).s, new)
<1>. USE ConversationAssumption
<1>. DEFINE u == Unexpired(s)
            v == Unexpired(t)
<1>1. /\ u \in Seq(S) /\ Thinned(u, s) /\ Entries(u) = {e \in Entries(s) : e.expires > now}
      /\ v \in Seq(T) /\ Thinned(v, t) /\ Entries(v) = {e \in Entries(t) : e.expires > now}
  BY UnexpiredIsMap
<1>2. /\ KeysDiffer(u) /\ OldestFirst(u) /\ KeysDiffer(v)
      /\ Entries(u) \subseteq Entries(s) /\ Entries(v) \subseteq Entries(t) /\ Keys(u) \subseteq Keys(s)
      /\ Keys(v) \subseteq Keys(t)
  BY <1>1, ThinnedIsMap
<1>3. Balanced(u, v, d)
  <2>. SUFFICES ASSUME NEW x \in now..now + TTL - 1
                PROVE  Alive(u, x) = Alive(s, x) /\ Alive(v, x) = Alive(t, x)
    BY DEF Balanced
  <2>1. \A y \in Int : y > x => y > now
    OBVIOUS
  <2>2. \A e \in Entries(s) \cup Entries(t) : e.expires > x => e.expires > now
    BY <2>1
  <2>3. Alive(u, x) = Alive(s, x)
    BY <1>1, <2>2 DEF Alive
  <2>4. Alive(v, x) = Alive(t, x)
    BY <1>1, <2>2 DEF Alive
  <2>. QED  BY <2>3, <2>4
<1>4. Newest(u, new)
  <2>1. new \in Entries(s) /\ new.expires > now
    BY DEF Newest, Entries
  <2>. QED  BY <1>1, <2>1, NewestStays
<1>5. Size(u, v) <= MaxEntries + 1 /\ Size(u, v) \in Nat
  <2>1. /\ Cardinality(Keys(u)) <= Cardinality(Keys(s)) /\ Cardinality(Keys(v)) <= Cardinality(Keys(t))
    BY <1>1, <1>2, SizeIsKeys, FS_Subset
  <2>2. Len(u) <= Len(s) /\ Len(v) <= Len(t) /\ Len(u) \in Nat /\ Len(v) \in Nat
    BY <1>1, <1>2, <2>1, SizeIsKeys
  <2>. QED  BY <2>2 DEF Size
<1>6. Evict(s, t) = IF Size(u, v) > MaxEntries THEN [s |-> Rest(u), t |-> Rest(v)]
                                               ELSE [s |-> u, t |-> v]
  BY DEF Evict, EvictOnce
<1>. HIDE DEF u, v
<1>7. CASE Size(u, v) > MaxEntries
  <2>1. \A e \in Entries(u) : e.expires \in Int /\ e.expires > now
    BY <1>1
  <2>2. \A e \in Entries(v) : e.expires > now
    BY <1>1
  <2>3. /\ Balanced(Rest(u), Rest(v), d)
        /\ Size(Rest(u), Rest(v)) <= Size(u, v) - 1
        /\ d = 1 \/ MaxEntries > 1 => Newest(Rest(u), new)
    BY <1>1, <1>2, <1>3, <1>4, <1>7, <2>1, <2>2, EvictOnceBalance
  <2>4. /\ Rest(u) \in Seq(S) /\ Thinned(Rest(u), u) /\ Rest(v) \in Seq(T) /\ Thinned(Rest(v), v)
        /\ Size(Rest(u), Rest(v)) \in Nat
    <3>1. /\ Rest(u) \in Seq(S) /\ Thinned(Rest(u), u) /\ Rest(v) \in Seq(T) /\ Thinned(Rest(v), v)
      BY <1>1, TailIsThinned
    <3>. QED  BY <3>1 DEF Size
  <2>5. /\ KeysDiffer(Rest(u)) /\ OldestFirst(Rest(u)) /\ KeysDiffer(Rest(v))
        /\ Entries(Rest(u)) \subseteq Entries(s) /\ Entries(Rest(v)) \subseteq Entries(t)
        /\ Keys(Rest(u)) \subseteq Keys(s)
    BY <1>1, <1>2, <2>4, ThinnedIsMap
  <2>6. Size(Rest(u), Rest(v)) <= MaxEntries
    BY <1>5, <2>3, <2>4
  <2>7. Evict(s, t).s = Rest(u) /\ Evict(s, t).t = Rest(v)
    BY <1>6, <1>7
  <2>. QED  BY <2>3, <2>4, <2>5, <2>6, <2>7
<1>8. CASE ~ (Size(u, v) > MaxEntries)
  <2>1. Evict(s, t).s = u /\ Evict(s, t).t = v
    BY <1>6, <1>8
  <2>2. Size(u, v) <= MaxEntries
    BY <1>5, <1>8
  <2>. QED  BY <1>1, <1>2, <1>3, <1>4, <2>1, <2>2
<1>. QED  BY <1>7, <1>8

-----------------------------------------------------------------------------
(* The maps. *)

EntryOf(keys) == [key : keys, turns : Seq(Requests), expires : 0..now + TTL]
Answered == {r \in Requests : pc[r] = "answered"}

MapInv ==
  /\ now \in 0..MaxTime
  /\ store \in Seq(EntryOf(Requests)) /\ KeysDiffer(store) /\ OldestFirst(store)
  /\ threads \in Seq(EntryOf(Conversations)) /\ KeysDiffer(threads)
  /\ Balanced(store, threads, 0)
  /\ Size(store, threads) <= MaxEntries
  /\ Keys(store) \subseteq Answered

ResponseEntry(r) == [key |-> r, turns |-> Following(merged[r], r), expires |-> now + TTL]
ThreadEntry(t, c, r) == [key |-> c, turns |-> Append(Read(t, c), r), expires |-> now + TTL]

LEMMA EntryTypes ==
  ASSUME MapInv
  PROVE  /\ now \in Nat
         /\ \A e \in Entries(store) : e \in EntryOf(Requests) /\ e.expires \in 0..now + TTL
         /\ \A e \in Entries(threads) : e \in EntryOf(Conversations) /\ e.expires \in 0..now + TTL
<1>. USE ConversationAssumption
<1>1. now \in Nat
  BY DEF MapInv
<1>2. \A k \in DOMAIN store : store[k] \in EntryOf(Requests)
  BY DEF MapInv
<1>3. \A k \in DOMAIN threads : threads[k] \in EntryOf(Conversations)
  BY DEF MapInv
<1>. QED  BY <1>1, <1>2, <1>3 DEF Entries, EntryOf

(* saveConversation: the new response is there, and it is one more than the threads can outnumber. *)
LEMMA SavedIsBalanced ==
  ASSUME MapInv, NEW r \in Requests, r \notin Keys(store), merged[r] \in Seq(Requests)
  PROVE  /\ ResponseEntry(r) \in EntryOf(Requests)
         /\ Saved(r).s \in Seq(EntryOf(Requests)) /\ KeysDiffer(Saved(r).s) /\ OldestFirst(Saved(r).s)
         /\ Saved(r).t \in Seq(EntryOf(Conversations)) /\ KeysDiffer(Saved(r).t)
         /\ Entries(Saved(r).s) \subseteq Entries(store) \cup {ResponseEntry(r)}
         /\ Entries(Saved(r).t) \subseteq Entries(threads)
         /\ Keys(Saved(r).s) \subseteq Keys(store) \cup {r}
         /\ Balanced(Saved(r).s, Saved(r).t, 1)
         /\ Size(Saved(r).s, Saved(r).t) <= MaxEntries
         /\ Newest(Saved(r).s, ResponseEntry(r))
<1>. USE ConversationAssumption
<1>. DEFINE new == ResponseEntry(r)
            s == Put(store, r, Following(merged[r], r))
<1>1. now \in Nat /\ \A e \in Entries(store) : e.expires \in 0..now + TTL
  BY EntryTypes
<1>2. new \in EntryOf(Requests) /\ new.key = r /\ new.expires = now + TTL
  BY <1>1 DEF ResponseEntry, EntryOf, Following
<1>3. /\ s \in Seq(EntryOf(Requests)) /\ KeysDiffer(s) /\ s = Append(store, new)
      /\ Entries(s) = {e \in Entries(store) : e.key # r} \cup {new}
      /\ Len(s) <= Len(store) + 1
  <2>. DEFINE turns == Following(merged[r], r)
  <2>1. new = [key |-> r, turns |-> turns, expires |-> now + TTL] /\ s = Put(store, r, turns)
    BY DEF ResponseEntry
  <2>2. store \in Seq(EntryOf(Requests)) /\ KeysDiffer(store)
    BY DEF MapInv
  <2>. HIDE DEF s, new, turns
  <2>. QED  BY <1>2, <2>1, <2>2, PutIsMap
<1>. HIDE DEF s, new
<1>4. /\ Len(store) \in Nat /\ Len(s) = Len(store) + 1
      /\ DOMAIN store = 1..Len(store) /\ DOMAIN s = 1..Len(store) + 1
      /\ \A k \in DOMAIN store : s[k] = store[k]
      /\ s[Len(store) + 1] = new /\ s # <<>>
  BY <1>2, <1>3 DEF MapInv
<1>5. Newest(s, new)
  BY <1>4 DEF Newest
<1>6. OldestFirst(s)
  <2>. SUFFICES ASSUME NEW j \in DOMAIN s, NEW k \in DOMAIN s, j < k
                PROVE  s[j].expires <= s[k].expires
    BY DEF OldestFirst
  <2>1. j \in DOMAIN store
    BY <1>4
  <2>2. store[j].expires \in 0..now + TTL
    BY <1>1, <2>1 DEF Entries
  <2>3. CASE k \in DOMAIN store
    BY <1>4, <2>1, <2>3 DEF MapInv, OldestFirst
  <2>4. CASE k = Len(store) + 1
    BY <1>1, <1>2, <1>4, <2>1, <2>2, <2>4
  <2>. QED  BY <1>4, <2>3, <2>4
<1>7. Keys(s) = Keys(store) \cup {r}
  <2>1. Keys(s) = {e.key : e \in Entries(s)} /\ Keys(store) = {e.key : e \in Entries(store)}
    BY DEF Keys, Entries
  <2>. QED  BY <1>2, <1>3, <2>1
<1>8. Balanced(s, threads, 1)
  <2>. SUFFICES ASSUME NEW x \in now..now + TTL - 1
                PROVE  Cardinality(Alive(threads, x)) + 1 <= Cardinality(Alive(s, x))
    BY DEF Balanced
  <2>1. Entries(s) = Entries(store) \cup {new}
    <3>1. \A e \in Entries(store) : e.key # r
      BY DEF Keys, Entries
    <3>. QED  BY <1>3, <3>1
  <2>2. new.expires > x
    BY <1>1, <1>2
  <2>3. Alive(s, x) = Alive(store, x) \cup {r}
    BY <1>2, <2>1, <2>2 DEF Alive
  <2>4. /\ IsFiniteSet(Alive(store, x)) /\ r \notin Alive(store, x)
        /\ Cardinality(Alive(store, x)) \in Nat /\ Cardinality(Alive(threads, x)) \in Nat
    BY SizeIsKeys DEF MapInv
  <2>5. Cardinality(Alive(s, x)) = Cardinality(Alive(store, x)) + 1
    BY <2>3, <2>4, FS_AddElement
  <2>6. Cardinality(Alive(threads, x)) + 0 <= Cardinality(Alive(store, x))
    BY DEF MapInv, Balanced
  <2>. QED  BY <2>4, <2>5, <2>6
<1>9. Size(s, threads) <= MaxEntries + 1
  <2>1. Len(threads) \in Nat
    BY DEF MapInv
  <2>. QED  BY <1>4, <2>1 DEF Size, MapInv
<1>10. \A e \in Entries(s) \cup Entries(threads) : e.expires \in Int
  <2>1. \A e \in Entries(s) : e.expires \in Int
    BY <1>1, <1>2, <1>3
  <2>2. \A e \in Entries(threads) : e.expires \in Int
    BY <1>1, EntryTypes
  <2>. QED  BY <2>1, <2>2
<1>11. Saved(r) = Evict(s, threads)
  BY DEF Saved, s
<1>12. threads \in Seq(EntryOf(Conversations)) /\ KeysDiffer(threads)
  BY DEF MapInv
<1>13. /\ Evict(s, threads).s \in Seq(EntryOf(Requests)) /\ KeysDiffer(Evict(s, threads).s)
       /\ OldestFirst(Evict(s, threads).s)
       /\ Evict(s, threads).t \in Seq(EntryOf(Conversations)) /\ KeysDiffer(Evict(s, threads).t)
       /\ Entries(Evict(s, threads).s) \subseteq Entries(s)
       /\ Entries(Evict(s, threads).t) \subseteq Entries(threads)
       /\ Keys(Evict(s, threads).s) \subseteq Keys(s)
       /\ Balanced(Evict(s, threads).s, Evict(s, threads).t, 1)
       /\ Size(Evict(s, threads).s, Evict(s, threads).t) <= MaxEntries
       /\ Newest(Evict(s, threads).s, new)
  BY <1>1, <1>2, <1>3, <1>5, <1>6, <1>8, <1>9, <1>10, <1>12, EvictBalance
<1>14. Entries(s) \subseteq Entries(store) \cup {new}
  BY <1>3
<1>. QED  BY <1>2, <1>7, <1>11, <1>13, <1>14 DEF new

LEMMA ReadIsEntry ==
  ASSUME NEW keys, NEW map \in Seq(EntryOf(keys)), NEW key
  PROVE  /\ Read(map, key) \in Seq(Requests)
         /\ \/ Read(map, key) = <<>>
            \/ \E e \in Entries(map) : e.key = key /\ e.turns = Read(map, key)
<1>1. CASE Live(map, key)
  <2>1. PICK k \in DOMAIN map : map[k].key = key /\ Entry(map, key) = map[k]
    BY <1>1 DEF Live, Keys, Entry
  <2>2. Read(map, key) = map[k].turns /\ map[k] \in Entries(map)
    BY <1>1, <2>1 DEF Read, Entries
  <2>3. map[k] \in EntryOf(keys)
    OBVIOUS
  <2>4. map[k].turns \in Seq(Requests)
    BY <2>3 DEF EntryOf
  <2>. QED  BY <2>1, <2>2, <2>4
<1>2. CASE ~Live(map, key)
  BY <1>2 DEF Read
<1>. QED  BY <1>1, <1>2

(* The two writes of a completion: the threads stay no more than the responses, and with a cap of two
   the new response is there after both of them. *)
LEMMA StoredIsBalanced ==
  ASSUME MapInv, NEW r \in Requests, r \notin Keys(store), merged[r] \in Seq(Requests),
         NEW c \in Conversations \cup {None}, ref[r].conversation = c
  PROVE  /\ Stored(r).s \in Seq(EntryOf(Requests)) /\ KeysDiffer(Stored(r).s)
         /\ OldestFirst(Stored(r).s)
         /\ Stored(r).t \in Seq(EntryOf(Conversations)) /\ KeysDiffer(Stored(r).t)
         /\ Entries(Stored(r).s) \subseteq Entries(store) \cup {ResponseEntry(r)}
         /\ Entries(Stored(r).t) \subseteq
              {e \in Entries(threads) : e.key # c}
                \cup IF c = None THEN {} ELSE {ThreadEntry(Saved(r).t, c, r)}
         /\ Keys(Stored(r).s) \subseteq Keys(store) \cup {r}
         /\ Balanced(Stored(r).s, Stored(r).t, 0)
         /\ Size(Stored(r).s, Stored(r).t) <= MaxEntries
         /\ MaxEntries > 1 => Newest(Stored(r).s, ResponseEntry(r))
<1>. USE ConversationAssumption
<1>. DEFINE s == Saved(r).s
            t == Saved(r).t
            new == ResponseEntry(r)
<1>1. /\ new \in EntryOf(Requests)
      /\ s \in Seq(EntryOf(Requests)) /\ KeysDiffer(s) /\ OldestFirst(s)
      /\ t \in Seq(EntryOf(Conversations)) /\ KeysDiffer(t)
      /\ Entries(s) \subseteq Entries(store) \cup {new} /\ Entries(t) \subseteq Entries(threads)
      /\ Keys(s) \subseteq Keys(store) \cup {r}
      /\ Balanced(s, t, 1) /\ Size(s, t) <= MaxEntries /\ Newest(s, new)
  BY SavedIsBalanced
<1>2. /\ now \in Nat
      /\ \A e \in Entries(store) : e.expires \in 0..now + TTL
      /\ \A e \in Entries(threads) : e \in EntryOf(Conversations) /\ e.expires \in 0..now + TTL
      /\ new.expires = now + TTL
  BY EntryTypes DEF ResponseEntry
<1>3. /\ Len(s) \in Nat /\ Len(t) \in Nat
      /\ \A x \in now..now + TTL - 1 :
           Cardinality(Alive(s, x)) \in Nat /\ Cardinality(Alive(t, x)) \in Nat
  BY <1>1, SizeIsKeys
<1>4. CASE c = None
  <2>1. Stored(r).s = s /\ Stored(r).t = t
    BY <1>4 DEF Stored
  <2>2. Balanced(s, t, 0)
    BY <1>1, <1>3 DEF Balanced
  <2>3. \A e \in Entries(threads) : e.key # None
    BY <1>2 DEF EntryOf
  <2>. HIDE DEF s, t, new
  <2>. QED  BY <1>1, <1>4, <2>1, <2>2, <2>3 DEF new
<1>5. CASE c # None
  <2>. DEFINE u == Accumulated(t, c, r)
              mine == ThreadEntry(t, c, r)
  <2>. HIDE DEF s, t, new
  <2>1. Read(t, c) \in Seq(Requests)
    BY <1>1, ReadIsEntry
  <2>2. mine \in EntryOf(Conversations) /\ mine.key = c /\ mine.expires = now + TTL
    BY <1>2, <1>5, <2>1 DEF ThreadEntry, EntryOf
  <2>3. u = Put(t, c, Append(Read(t, c), r))
    BY DEF Accumulated
  <2>4. mine = [key |-> c, turns |-> Append(Read(t, c), r), expires |-> now + TTL]
    BY DEF ThreadEntry
  <2>. HIDE DEF u, mine
  <2>5. /\ u \in Seq(EntryOf(Conversations)) /\ KeysDiffer(u)
        /\ Entries(u) = {e \in Entries(t) : e.key # c} \cup {mine}
        /\ Len(u) <= Len(t) + 1
    <3>1. t \in Seq(EntryOf(Conversations)) /\ KeysDiffer(t) /\ mine \in EntryOf(Conversations)
      BY <1>1, <2>2
    <3>. DEFINE turns == Append(Read(t, c), r)
    <3>2. mine = [key |-> c, turns |-> turns, expires |-> now + TTL] /\ u = Put(t, c, turns)
      BY <2>3, <2>4
    <3>. HIDE DEF turns
    <3>. QED  BY <3>1, <3>2, PutIsMap
  <2>6. Balanced(s, u, 0)
    <3>. SUFFICES ASSUME NEW x \in now..now + TTL - 1
                  PROVE  Cardinality(Alive(u, x)) + 0 <= Cardinality(Alive(s, x))
      BY DEF Balanced
    <3>1. Alive(u, x) \in SUBSET (Alive(t, x) \cup {c})
      BY <2>2, <2>5 DEF Alive
    <3>2. /\ IsFiniteSet(Alive(t, x)) /\ Cardinality(Alive(t, x)) \in Nat
          /\ IsFiniteSet(Alive(u, x)) /\ Cardinality(Alive(u, x)) \in Nat
          /\ Cardinality(Alive(s, x)) \in Nat
      BY <1>1, <2>5, SizeIsKeys
    <3>3. /\ IsFiniteSet(Alive(t, x) \cup {c})
          /\ Cardinality(Alive(t, x) \cup {c})
               = IF c \in Alive(t, x) THEN Cardinality(Alive(t, x)) ELSE Cardinality(Alive(t, x)) + 1
      BY <3>2, FS_AddElement
    <3>4. Cardinality(Alive(u, x)) <= Cardinality(Alive(t, x)) + 1
      <4>1. Cardinality(Alive(u, x)) <= Cardinality(Alive(t, x) \cup {c})
        BY <3>1, <3>3, FS_Subset
      <4>. QED  BY <3>2, <3>3, <4>1
    <3>5. Cardinality(Alive(t, x)) + 1 <= Cardinality(Alive(s, x))
      BY <1>1 DEF Balanced
    <3>. QED  BY <3>2, <3>4, <3>5
  <2>7. Size(s, u) <= MaxEntries + 1
    <3>1. Len(u) \in Nat
      BY <2>5
    <3>. QED  BY <1>1, <1>3, <2>5, <3>1 DEF Size
  <2>8. \A e \in Entries(s) \cup Entries(u) : e.expires \in Int
    <3>1. \A e \in Entries(s) : e.expires \in Int
      BY <1>1, <1>2
    <3>2. \A e \in Entries(u) : e.expires \in Int
      BY <1>1, <1>2, <2>2, <2>5
    <3>. QED  BY <3>1, <3>2
  <2>9. /\ Evict(s, u).s \in Seq(EntryOf(Requests)) /\ KeysDiffer(Evict(s, u).s)
        /\ OldestFirst(Evict(s, u).s)
        /\ Evict(s, u).t \in Seq(EntryOf(Conversations)) /\ KeysDiffer(Evict(s, u).t)
        /\ Entries(Evict(s, u).s) \subseteq Entries(s) /\ Entries(Evict(s, u).t) \subseteq Entries(u)
        /\ Keys(Evict(s, u).s) \subseteq Keys(s)
        /\ Balanced(Evict(s, u).s, Evict(s, u).t, 0)
        /\ Size(Evict(s, u).s, Evict(s, u).t) <= MaxEntries
        /\ MaxEntries > 1 => Newest(Evict(s, u).s, new)
    BY <1>1, <1>2, <2>5, <2>6, <2>7, <2>8, EvictBalance
  <2>10. Stored(r) = Evict(s, u)
    BY <1>5 DEF Stored, s, t, u
  <2>11. Entries(u) \subseteq {e \in Entries(threads) : e.key # c} \cup {mine}
    BY <1>1, <2>5
  <2>. QED  BY <1>1, <1>5, <2>9, <2>10, <2>11 DEF new, mine, t
<1>. QED  BY <1>4, <1>5

(* A read drops what it finds expired, which no later time would find. *)
LEMMA AfterReadIsMap ==
  ASSUME now \in Nat, NEW S, NEW map \in Seq(S), NEW key, KeysDiffer(map),
         \A e \in Entries(map) : e.expires \in Int
  PROVE  /\ AfterRead(map, key) \in Seq(S) /\ KeysDiffer(AfterRead(map, key))
         /\ OldestFirst(map) => OldestFirst(AfterRead(map, key))
         /\ Entries(AfterRead(map, key)) \subseteq Entries(map)
         /\ Keys(AfterRead(map, key)) \subseteq Keys(map)
         /\ Len(AfterRead(map, key)) <= Len(map)
         /\ \A x \in now..now + TTL - 1 : Alive(AfterRead(map, key), x) = Alive(map, x)
<1>. USE ConversationAssumption
<1>1. CASE Live(map, key)
  BY <1>1 DEF AfterRead
<1>2. CASE ~Live(map, key)
  <2>. DEFINE rest == Without(map, key)
  <2>1. AfterRead(map, key) = rest
    BY <1>2 DEF AfterRead
  <2>2. /\ rest \in Seq(S) /\ Thinned(rest, map)
        /\ Entries(rest) = {e \in Entries(map) : e.key # key}
    BY WithoutIsMap
  <2>. HIDE DEF rest
  <2>3. /\ KeysDiffer(rest) /\ OldestFirst(map) => OldestFirst(rest)
    BY <2>2, ThinnedIsMap
  <2>4. /\ KeysDiffer(rest)
        /\ Entries(rest) \subseteq Entries(map) /\ Keys(rest) \subseteq Keys(map)
    BY <2>2, ThinnedIsMap
  <2>5. Len(rest) <= Len(map)
    <3>1. Cardinality(Keys(rest)) <= Cardinality(Keys(map))
      BY <2>4, SizeIsKeys, FS_Subset
    <3>. QED  BY <2>2, <2>4, <3>1, SizeIsKeys
  <2>6. \A e \in Entries(map) : e.key = key => ~ (e.expires > now)
    <3>. SUFFICES ASSUME NEW k \in DOMAIN map, map[k].key = key
                  PROVE  ~ (map[k].expires > now)
      BY DEF Entries
    <3>1. key \in Keys(map) /\ Entry(map, key) = map[k]
      BY DEF Keys, Entry, KeysDiffer
    <3>. QED  BY <1>2, <3>1 DEF Live
  <2>7. ASSUME NEW x \in now..now + TTL - 1
        PROVE  Alive(rest, x) = Alive(map, x)
    <3>1. \A e \in Entries(map) : e.expires > x => e.expires > now
      OBVIOUS
    <3>2. \A e \in Entries(map) : e.expires > x => e.key # key
      BY <2>6, <3>1
    <3>. QED  BY <2>2, <3>2 DEF Alive
  <2>. QED  BY <2>1, <2>2, <2>3, <2>4, <2>5, <2>7
<1>. QED  BY <1>1, <1>2

-----------------------------------------------------------------------------
(* The ends of sequences. *)

Ends(t, s) ==
  /\ Len(s) <= Len(t)
  /\ \A i \in 1..Len(s) : s[i] = t[Len(t) - Len(s) + i]

LEMMA SuffixIsEnd ==
  ASSUME NEW S, NEW s \in Seq(S), NEW t \in Seq(S)
  PROVE  IsSuffix(s, t) <=> Ends(t, s)
<1>. DEFINE m == Len(s)
            n == Len(t)
            rs == [i \in 1..m |-> s[m - i + 1]]
            rt == [i \in 1..n |-> t[n - i + 1]]
<1>1. /\ m \in Nat /\ n \in Nat
      /\ \A i \in 1..m : m - i + 1 \in 1..m
      /\ \A i \in 1..n : n - i + 1 \in 1..n
  OBVIOUS
<1>2. \A i \in 1..m : s[m - i + 1] \in S
  BY <1>1
<1>3. \A i \in 1..n : t[n - i + 1] \in S
  BY <1>1
<1>4. rs \in Seq(S) /\ rt \in Seq(S) /\ Len(rs) = m /\ Len(rt) = n
  BY <1>1, <1>2, <1>3
<1>5. Reverse(s) = rs /\ Reverse(t) = rt
  BY DEF Reverse
<1>6. /\ \A i \in 1..m : rs[i] = s[m - i + 1]
      /\ \A i \in 1..n : rt[i] = t[n - i + 1]
  OBVIOUS
<1>. HIDE DEF rs, rt
<1>7. IsSuffix(s, t) <=> m <= n /\ SubSeq(rs, 1, m) = SubSeq(rt, 1, m)
  BY <1>4, <1>5 DEF IsSuffix, IsPrefix
<1>8. ASSUME m <= n
      PROVE  SubSeq(rs, 1, m) = SubSeq(rt, 1, m) <=> \A i \in 1..m : rs[i] = rt[i]
  <2>1. /\ SubSeq(rs, 1, m) = [i \in 1..m |-> rs[i]]
        /\ SubSeq(rt, 1, m) = [i \in 1..m |-> rt[i]]
    BY <1>1, <1>4, <1>8
  <2>2. ASSUME SubSeq(rs, 1, m) = SubSeq(rt, 1, m), NEW i \in 1..m
        PROVE  rs[i] = rt[i]
    <3>1. [j \in 1..m |-> rs[j]][i] = [j \in 1..m |-> rt[j]][i]
      BY <2>1, <2>2
    <3>. QED  BY <3>1
  <2>. QED  BY <2>1, <2>2
<1>9. ASSUME m <= n
      PROVE  (\A i \in 1..m : rs[i] = rt[i]) <=> \A i \in 1..m : s[i] = t[n - m + i]
  <2>1. \A i \in 1..m : rs[i] = s[m - i + 1] /\ rt[i] = t[n - i + 1]
    BY <1>1, <1>6, <1>9
  <2>2. \A i \in 1..m : m - i + 1 \in 1..m /\ m - (m - i + 1) + 1 = i /\ n - (m - i + 1) + 1 = n - m + i
    BY <1>1
  <2>3. ASSUME \A i \in 1..m : rs[i] = rt[i], NEW i \in 1..m
        PROVE  s[i] = t[n - m + i]
    <3>1. rs[m - i + 1] = rt[m - i + 1]
      BY <2>2, <2>3
    <3>2. rs[m - i + 1] = s[i] /\ rt[m - i + 1] = t[n - m + i]
      BY <2>1, <2>2
    <3>. QED  BY <3>1, <3>2
  <2>4. ASSUME \A i \in 1..m : s[i] = t[n - m + i], NEW i \in 1..m
        PROVE  rs[i] = rt[i]
    <3>1. s[m - i + 1] = t[n - m + (m - i + 1)]
      BY <2>2, <2>4
    <3>2. n - m + (m - i + 1) = n - i + 1
      BY <1>1
    <3>. QED  BY <2>1, <3>1, <3>2
  <2>. QED  BY <2>3, <2>4
<1>. QED  BY <1>7, <1>8, <1>9 DEF Ends

LEMMA LongerEnds ==
  ASSUME NEW S, NEW s \in Seq(S), NEW t \in Seq(S), NEW e \in S
  PROVE  /\ Ends(t, <<>>)
         /\ Ends(t, s) => Ends(Append(t, e), Append(s, e))
<1>1. Ends(t, <<>>)
  BY DEF Ends
<1>2. ASSUME Ends(t, s)
      PROVE  Ends(Append(t, e), Append(s, e))
  <2>. DEFINE m == Len(s)
              n == Len(t)
              ss == Append(s, e)
              tt == Append(t, e)
  <2>1. /\ m \in Nat /\ n \in Nat /\ Len(ss) = m + 1 /\ Len(tt) = n + 1
        /\ \A i \in 1..m : ss[i] = s[i]
        /\ ss[m + 1] = e
        /\ \A i \in 1..n : tt[i] = t[i]
        /\ tt[n + 1] = e
    OBVIOUS
  <2>2. m <= n /\ \A i \in 1..m : s[i] = t[n - m + i]
    BY <1>2 DEF Ends
  <2>. HIDE DEF ss, tt
  <2>3. ASSUME NEW i \in 1..m + 1
        PROVE  ss[i] = tt[(n + 1) - (m + 1) + i]
    <3>1. CASE i = m + 1
      BY <2>1, <2>2, <3>1
    <3>2. CASE i \in 1..m
      <4>1. n - m + i \in 1..n /\ (n + 1) - (m + 1) + i = n - m + i
        BY <2>1, <2>2, <3>2
      <4>. QED  BY <2>1, <2>2, <3>2, <4>1
    <3>. QED  BY <2>1, <3>1, <3>2
  <2>4. Ends(tt, ss)
    BY <2>1, <2>2, <2>3 DEF Ends
  <2>. QED  BY <2>4 DEF ss, tt
<1>. QED  BY <1>1, <1>2

(* What is kept of a sequence that grows: the same, or one more at the end. *)
LEMMA KeptOfLonger ==
  ASSUME NEW S, NEW s \in Seq(S), NEW e \in S, NEW K \in SUBSET DOMAIN s
  PROVE  /\ Kept(Append(s, e), K) = Kept(s, K)
         /\ Kept(Append(s, e), K \cup {Len(s) + 1}) = Append(Kept(s, K), e)
<1>. DEFINE n == Len(s)
            c == Cardinality(K)
            l == Append(s, e)
            L == K \cup {n + 1}
<1>1. /\ n \in Nat /\ DOMAIN s = 1..n /\ K \in SUBSET (1..n) /\ l[n + 1] = e
      /\ \A k \in 1..n : l[k] = s[k]
  OBVIOUS
<1>2. /\ IsFiniteSet(K) /\ c \in Nat
      /\ \A k \in K : Rank(K, k) \in 1..c
      /\ \A i \in 1..c : Nth(K, i) \in K
      /\ \A i \in 1..c : Rank(K, Nth(K, i)) = i
  BY <1>1, RankIsOneToOne, NthIsInOrder
<1>. HIDE DEF l
<1>3. Kept(l, K) = Kept(s, K)
  <2>1. \A i \in 1..c : l[Nth(K, i)] = s[Nth(K, i)]
    BY <1>1, <1>2
  <2>. QED  BY <2>1 DEF Kept
<1>4. L \in SUBSET (1..n + 1) /\ n + 1 \notin K /\ Cardinality(L) = c + 1
  <2>1. L \in SUBSET (1..n + 1) /\ n + 1 \notin K
    BY <1>1
  <2>. QED  BY <1>2, <2>1, FS_AddElement
<1>5. \A k \in L : Nth(L, Rank(L, k)) = k
  <2>. HIDE DEF L
  <2>1. n + 1 \in Nat /\ L \in SUBSET (1..(n + 1))
    BY <1>1, <1>4
  <2>. QED  BY <2>1, NthIsInOrder
<1>6. \A k \in K : Rank(L, k) = Rank(K, k)
  <2>. SUFFICES ASSUME NEW k \in K
                PROVE  {j \in L : j <= k} = {j \in K : j <= k}
    BY DEF Rank
  <2>1. ~ (n + 1 <= k)
    BY <1>1
  <2>. QED  BY <2>1
<1>7. Rank(L, n + 1) = c + 1
  <2>1. \A j \in L : j <= n + 1
    BY <1>1
  <2>2. {j \in L : j <= n + 1} = L
    BY <2>1
  <2>. QED  BY <1>4, <2>2 DEF Rank
<1>. HIDE DEF L
<1>8. \A i \in 1..c : Nth(L, i) = Nth(K, i)
  <2>. SUFFICES ASSUME NEW i \in 1..c
                PROVE  Nth(L, i) = Nth(K, i)
    OBVIOUS
  <2>1. Nth(K, i) \in K /\ Nth(K, i) \in L /\ Rank(K, Nth(K, i)) = i
    BY <1>2 DEF L
  <2>2. Rank(L, Nth(K, i)) = i
    BY <1>6, <2>1
  <2>. QED  BY <1>5, <2>1, <2>2
<1>9. Nth(L, c + 1) = n + 1
  <2>1. n + 1 \in L
    BY DEF L
  <2>. QED  BY <1>5, <1>7, <2>1
<1>10. Kept(s, K) \in Seq(S) /\ Len(Kept(s, K)) = c
  BY KeptIsThinned
<1>11. Kept(l, L) = Append(Kept(s, K), e)
  <2>1. Append(Kept(s, K), e) = [i \in 1..c + 1 |-> IF i = c + 1 THEN e ELSE Kept(s, K)[i]]
    <3>. DEFINE q == Kept(s, K)
    <3>. HIDE DEF q, c
    <3>1. q \in Seq(S) /\ Len(q) = c /\ c \in Nat
      BY <1>2, <1>10 DEF q
    <3>. DEFINE a == Append(q, e)
    <3>2. /\ a \in Seq(S) /\ Len(a) = c + 1 /\ a[c + 1] = e
          /\ \A i \in 1..c : a[i] = q[i]
      BY <3>1
    <3>. HIDE DEF a
    <3>3. a = [i \in 1..c + 1 |-> a[i]]
      BY <3>1, <3>2
    <3>4. \A i \in 1..c + 1 : a[i] = IF i = c + 1 THEN e ELSE q[i]
      BY <3>1, <3>2
    <3>5. a = [i \in 1..c + 1 |-> IF i = c + 1 THEN e ELSE q[i]]
      BY <3>3, <3>4
    <3>. QED  BY <3>5 DEF q, a
  <2>2. Kept(l, L) = [i \in 1..c + 1 |-> l[Nth(L, i)]]
    BY <1>4 DEF Kept
  <2>3. ASSUME NEW i \in 1..c + 1
        PROVE  l[Nth(L, i)] = IF i = c + 1 THEN e ELSE Kept(s, K)[i]
    <3>1. CASE i = c + 1
      BY <1>1, <1>9, <3>1
    <3>2. CASE i \in 1..c
      <4>1. Kept(s, K)[i] = s[Nth(K, i)]
        BY <3>2 DEF Kept
      <4>2. Nth(K, i) \in 1..n /\ i # c + 1
        BY <1>1, <1>2, <3>2
      <4>. QED  BY <1>1, <1>8, <3>2, <4>1, <4>2
    <3>. QED  BY <1>2, <3>1, <3>2
  <2>. QED  BY <2>1, <2>2, <2>3
<1>. QED  BY <1>3, <1>11 DEF l, L

-----------------------------------------------------------------------------
(* The invariant: the maps as above, and the types of the rest. *)

Types ==
  /\ pc \in [Requests -> {"new", "calling", "answered", "failed"}]
  /\ ref \in [Requests -> [previous : Requests \cup {None}, conversation : Conversations \cup {None}]]
  /\ merged \in [Requests -> Seq(Requests)]
  /\ done \in Seq(Requests)

MapsFit(s, t) ==
  /\ s \in Seq(EntryOf(Requests)) /\ KeysDiffer(s) /\ OldestFirst(s)
  /\ t \in Seq(EntryOf(Conversations)) /\ KeysDiffer(t)
  /\ Balanced(s, t, 0)
  /\ Size(s, t) <= MaxEntries

LEMMA MapsLater ==
  ASSUME now' = now, now \in 0..MaxTime, MapsFit(store', threads'), Keys(store') \subseteq Answered'
  PROVE  MapInv'
BY DEF MapsFit, MapInv, EntryOf, KeysDiffer, OldestFirst, Balanced, Alive, Entries, Keys, Size

LEMMA ReadFits ==
  ASSUME MapInv, NEW key
  PROVE  /\ MapsFit(AfterRead(store, key), threads) /\ MapsFit(store, AfterRead(threads, key))
         /\ Keys(AfterRead(store, key)) \subseteq Answered
         /\ Entries(AfterRead(store, key)) \subseteq Entries(store)
         /\ Entries(AfterRead(threads, key)) \subseteq Entries(threads)
<1>. USE ConversationAssumption
<1>1. /\ now \in Nat
      /\ \A e \in Entries(store) : e.expires \in Int
      /\ \A e \in Entries(threads) : e.expires \in Int
  BY EntryTypes
<1>2. /\ store \in Seq(EntryOf(Requests)) /\ KeysDiffer(store) /\ OldestFirst(store)
      /\ threads \in Seq(EntryOf(Conversations)) /\ KeysDiffer(threads)
      /\ Balanced(store, threads, 0) /\ Size(store, threads) <= MaxEntries
      /\ Keys(store) \subseteq Answered
      /\ Len(store) \in Nat /\ Len(threads) \in Nat
  BY DEF MapInv
<1>. DEFINE s == AfterRead(store, key)
            t == AfterRead(threads, key)
<1>3. /\ s \in Seq(EntryOf(Requests)) /\ KeysDiffer(s) /\ OldestFirst(s)
      /\ Entries(s) \subseteq Entries(store) /\ Keys(s) \subseteq Keys(store) /\ Len(s) <= Len(store)
      /\ \A x \in now..now + TTL - 1 : Alive(s, x) = Alive(store, x)
  BY <1>1, <1>2, AfterReadIsMap
<1>4. /\ t \in Seq(EntryOf(Conversations)) /\ KeysDiffer(t)
      /\ Entries(t) \subseteq Entries(threads) /\ Len(t) <= Len(threads)
      /\ \A x \in now..now + TTL - 1 : Alive(t, x) = Alive(threads, x)
  BY <1>1, <1>2, AfterReadIsMap
<1>. HIDE DEF s, t
<1>5. Len(s) \in Nat /\ Len(t) \in Nat
  BY <1>3, <1>4
<1>6. Balanced(s, threads, 0) /\ Balanced(store, t, 0)
  BY <1>2, <1>3, <1>4 DEF Balanced
<1>7. Size(s, threads) <= MaxEntries /\ Size(store, t) <= MaxEntries
  BY <1>2, <1>3, <1>4, <1>5 DEF Size
<1>. QED  BY <1>2, <1>3, <1>4, <1>6, <1>7 DEF MapsFit, s, t

LEMMA CompletionFits ==
  ASSUME MapInv, Types, NEW r \in Requests, pc[r] = "calling"
  PROVE  /\ MapsFit(Stored(r).s, Stored(r).t)
         /\ Keys(Stored(r).s) \subseteq Answered \cup {r}
         /\ Entries(Stored(r).s) \subseteq Entries(store) \cup {ResponseEntry(r)}
         /\ Entries(Stored(r).t) \subseteq
              {e \in Entries(threads) : e.key # ref[r].conversation}
                \cup IF ref[r].conversation = None THEN {}
                     ELSE {ThreadEntry(Saved(r).t, ref[r].conversation, r)}
         /\ MaxEntries > 1 => r \in Keys(Stored(r).s)
<1>1. r \notin Keys(store) /\ Keys(store) \subseteq Answered
  BY DEF MapInv, Answered
<1>. DEFINE c == ref[r].conversation
<1>2. merged[r] \in Seq(Requests) /\ c \in Conversations \cup {None} /\ ref[r].conversation = c
  BY DEF Types
<1>. HIDE DEF c
<1>3. /\ Stored(r).s \in Seq(EntryOf(Requests)) /\ KeysDiffer(Stored(r).s)
      /\ OldestFirst(Stored(r).s)
      /\ Stored(r).t \in Seq(EntryOf(Conversations)) /\ KeysDiffer(Stored(r).t)
      /\ Entries(Stored(r).s) \subseteq Entries(store) \cup {ResponseEntry(r)}
      /\ Entries(Stored(r).t) \subseteq
           {e \in Entries(threads) : e.key # c}
             \cup IF c = None THEN {} ELSE {ThreadEntry(Saved(r).t, c, r)}
      /\ Keys(Stored(r).s) \subseteq Keys(store) \cup {r}
      /\ Balanced(Stored(r).s, Stored(r).t, 0)
      /\ Size(Stored(r).s, Stored(r).t) <= MaxEntries
      /\ MaxEntries > 1 => Newest(Stored(r).s, ResponseEntry(r))
  BY <1>1, <1>2, StoredIsBalanced
<1>4. Newest(Stored(r).s, ResponseEntry(r)) => r \in Keys(Stored(r).s)
  <2>1. Len(Stored(r).s) \in DOMAIN Stored(r).s \/ Stored(r).s = <<>>
    BY <1>3
  <2>2. ResponseEntry(r).key = r
    BY DEF ResponseEntry
  <2>. QED  BY <2>1, <2>2 DEF Newest, Keys
<1>. QED  BY <1>1, <1>2, <1>3, <1>4 DEF MapsFit

LEMMA TimePasses ==
  ASSUME MapInv, Types, PassTime
  PROVE  MapInv'
<1>. USE ConversationAssumption
<1>1. /\ now' = now + 1 /\ now < MaxTime /\ now \in Nat /\ store' = store /\ threads' = threads /\ pc' = pc
  BY DEF PassTime, MapInv
<1>2. store \in Seq(EntryOf(Requests)') /\ threads \in Seq(EntryOf(Conversations)')
  <2>1. /\ EntryOf(Requests) \subseteq EntryOf(Requests)'
        /\ EntryOf(Conversations) \subseteq EntryOf(Conversations)'
    BY <1>1 DEF EntryOf
  <2>. QED  BY <2>1 DEF MapInv
<1>3. ASSUME NEW x \in now + 1..now + 1 + TTL - 1
      PROVE  Cardinality(Alive(threads, x)) + 0 <= Cardinality(Alive(store, x))
  <2>1. Cardinality(Alive(threads, x)) \in Nat /\ Cardinality(Alive(store, x)) \in Nat
    BY SizeIsKeys DEF MapInv
  <2>2. CASE x \in now..now + TTL - 1
    BY <2>2 DEF MapInv, Balanced
  <2>3. CASE x = now + TTL
    <3>1. \A e \in Entries(threads) : ~ (e.expires > x)
      BY <1>1, <2>3, EntryTypes
    <3>2. Alive(threads, x) = {}
      BY <3>1 DEF Alive
    <3>. QED  BY <2>1, <3>2, FS_EmptySet
  <2>. QED  BY <1>1, <2>2, <2>3
<1>4. Balanced(store, threads, 0)'
  <2>1. \A x \in now' .. now' + TTL - 1 :
          Cardinality(Alive(threads, x)) + 0 <= Cardinality(Alive(store, x))
    BY <1>1, <1>3
  <2>2. \A x : Alive(threads, x)' = Alive(threads, x) /\ Alive(store, x)' = Alive(store, x)
    BY <1>1 DEF Alive, Entries
  <2>. QED  BY <2>1, <2>2 DEF Balanced
<1>5. /\ KeysDiffer(store)' /\ OldestFirst(store)' /\ KeysDiffer(threads)'
      /\ (Size(store, threads) <= MaxEntries)' /\ (Keys(store) \subseteq Answered)'
      /\ (now \in 0..MaxTime)'
  BY <1>1 DEF MapInv, KeysDiffer, OldestFirst, Size, Keys, Answered
<1>6. (store \in Seq(EntryOf(Requests)))' /\ (threads \in Seq(EntryOf(Conversations)))'
  BY <1>1, <1>2
<1>. QED  BY <1>4, <1>5, <1>6 DEF MapInv

LEMMA MapsAtStart ==
  ASSUME Init
  PROVE  MapInv /\ Types
<1>. USE ConversationAssumption
<1>1. now = 0 /\ store = <<>> /\ threads = <<>> /\ Len(store) = 0 /\ Len(threads) = 0
  BY DEF Init
<1>2. DOMAIN store = {} /\ DOMAIN threads = {}
  BY <1>1
<1>3. Keys(store) = {} /\ Entries(store) = {} /\ Entries(threads) = {}
  BY <1>2 DEF Keys, Entries
<1>4. Alive(store, now) = Alive(threads, now) /\ \A x : Alive(store, x) = {} /\ Alive(threads, x) = {}
  BY <1>3 DEF Alive
<1>5. Balanced(store, threads, 0)
  BY <1>4, FS_EmptySet DEF Balanced
<1>6. MapInv
  BY <1>1, <1>2, <1>3, <1>5 DEF MapInv, KeysDiffer, OldestFirst, Size
<1>7. Types
  BY DEF Init, Types
<1>. QED  BY <1>6, <1>7

LEMMA MapsStep ==
  ASSUME MapInv, Types, [Next]_vars
  PROVE  MapInv' /\ Types'
<1>0. now \in 0..MaxTime /\ MapsFit(store, threads) /\ Keys(store) \subseteq Answered
  BY DEF MapInv, MapsFit
<1>1. ASSUME NEW r \in Requests, Fresh(r)
      PROVE  MapInv' /\ Types'
  <2>1. now' = now /\ store' = store /\ threads' = threads /\ pc' = [pc EXCEPT ![r] = "calling"]
    BY <1>1 DEF Fresh
  <2>2. Keys(store') \subseteq Answered'
    BY <1>0, <1>1, <2>1 DEF Answered, Types, Fresh
  <2>3. MapInv'
    BY <1>0, <2>1, <2>2, MapsLater
  <2>4. Types'
    BY <1>1 DEF Types, Fresh
  <2>. QED  BY <2>3, <2>4
<1>2. ASSUME NEW r \in Requests, NEW p \in Known, Continue(r, p)
      PROVE  MapInv' /\ Types'
  <2>1. /\ now' = now /\ store' = AfterRead(store, p) /\ threads' = threads
        /\ pc' = [pc EXCEPT ![r] = "calling"] /\ pc[r] = "new"
    BY <1>2 DEF Continue
  <2>2. MapsFit(store', threads') /\ Keys(store') \subseteq Answered
    BY <2>1, ReadFits
  <2>3. Keys(store') \subseteq Answered'
    BY <2>1, <2>2 DEF Answered, Types
  <2>4. MapInv'
    BY <1>0, <2>1, <2>2, <2>3, MapsLater
  <2>5. Read(store, p) \in Seq(Requests) /\ p \in Requests
    BY ReadIsEntry DEF MapInv, Known
  <2>6. Types'
    BY <1>2, <2>5 DEF Types, Continue
  <2>. QED  BY <2>4, <2>6
<1>3. ASSUME NEW r \in Requests, NEW c \in Conversations, Converse(r, c)
      PROVE  MapInv' /\ Types'
  <2>1. /\ now' = now /\ store' = store /\ threads' = AfterRead(threads, c)
        /\ pc' = [pc EXCEPT ![r] = "calling"] /\ pc[r] = "new"
    BY <1>3 DEF Converse
  <2>2. MapsFit(store', threads')
    BY <2>1, ReadFits
  <2>3. Keys(store') \subseteq Answered'
    BY <1>0, <2>1 DEF Answered, Types
  <2>4. MapInv'
    BY <1>0, <2>1, <2>2, <2>3, MapsLater
  <2>5. Read(threads, c) \in Seq(Requests)
    BY ReadIsEntry DEF MapInv
  <2>6. Types'
    BY <1>3, <2>5 DEF Types, Converse
  <2>. QED  BY <2>4, <2>6
<1>4. ASSUME NEW r \in Requests, NEW stored \in BOOLEAN, Complete(r, stored)
      PROVE  MapInv' /\ Types'
  <2>1. now' = now /\ pc' = [pc EXCEPT ![r] = "answered"] /\ pc[r] = "calling"
    BY <1>4 DEF Complete
  <2>2. Answered \cup {r} \subseteq Answered'
    BY <2>1 DEF Answered, Types
  <2>3. MapsFit(store', threads') /\ Keys(store') \subseteq Answered'
    <3>1. CASE stored
      <4>1. store' = Stored(r).s /\ threads' = Stored(r).t
        BY <1>4, <3>1 DEF Complete
      <4>. QED  BY <2>1, <2>2, <4>1, CompletionFits
    <3>2. CASE ~stored
      <4>1. store' = store /\ threads' = threads
        BY <1>4, <3>2 DEF Complete
      <4>. QED  BY <1>0, <2>2, <4>1
    <3>. QED  BY <3>1, <3>2
  <2>4. MapInv'
    BY <1>0, <2>1, <2>3, MapsLater
  <2>5. done' \in Seq(Requests)
    <3>1. done \in Seq(Requests) /\ Append(done, r) \in Seq(Requests)
      BY DEF Types
    <3>2. done' = Append(done, r) \/ done' = done
      BY <1>4 DEF Complete
    <3>. QED  BY <3>1, <3>2
  <2>6. Types'
    BY <1>4, <2>1, <2>5 DEF Types, Complete
  <2>. QED  BY <2>4, <2>6
<1>5. ASSUME NEW r \in Requests, Fail(r)
      PROVE  MapInv' /\ Types'
  <2>1. /\ now' = now /\ store' = store /\ threads' = threads /\ pc' = [pc EXCEPT ![r] = "failed"]
        /\ pc[r] = "calling"
    BY <1>5 DEF Fail
  <2>2. Keys(store') \subseteq Answered'
    BY <1>0, <2>1 DEF Answered, Types
  <2>3. MapInv'
    BY <1>0, <2>1, <2>2, MapsLater
  <2>4. Types'
    BY <1>5 DEF Types, Fail
  <2>. QED  BY <2>3, <2>4
<1>6. ASSUME NEW p \in Known, Retrieve(p)
      PROVE  MapInv' /\ Types'
  <2>1. now' = now /\ store' = AfterRead(store, p) /\ threads' = threads /\ pc' = pc
    BY <1>6 DEF Retrieve
  <2>2. MapsFit(store', threads') /\ Keys(store') \subseteq Answered'
    BY <2>1, ReadFits DEF Answered
  <2>3. MapInv'
    BY <1>0, <2>1, <2>2, MapsLater
  <2>4. Types'
    BY <1>6 DEF Types, Retrieve
  <2>. QED  BY <2>3, <2>4
<1>7. CASE PassTime
  <2>1. Types'
    BY <1>7 DEF Types, PassTime
  <2>. QED  BY <1>7, <2>1, TimePasses
<1>8. CASE UNCHANGED vars
  <2>1. now' = now /\ store' = store /\ threads' = threads /\ pc' = pc
    BY <1>8 DEF vars
  <2>2. MapsFit(store', threads') /\ Keys(store') \subseteq Answered'
    BY <1>0, <2>1 DEF Answered
  <2>3. MapInv'
    BY <1>0, <2>1, <2>2, MapsLater
  <2>4. Types'
    BY <1>8 DEF Types, vars
  <2>. QED  BY <2>3, <2>4
<1>. QED  BY <1>1, <1>2, <1>3, <1>4, <1>5, <1>6, <1>7, <1>8 DEF Next

(* Types and the cap: however responses and conversations fill the two maps of conversation-store.ts,
   one eviction after each write keeps them within CONVERSATION_MAX_ENTRIES together. *)
THEOREM StoreTypeCorrect == Spec => []TypeOK
<1>1. Spec => [](MapInv /\ Types)
  BY MapsAtStart, MapsStep, PTL DEF Spec
<1>2. MapInv /\ Types => TypeOK
  BY DEF MapInv, Types, TypeOK, IsMap, EntryOf, KeysDiffer
<1>. QED  BY <1>1, <1>2, PTL

(* The eviction that makes room for a response never takes that response (saveConversation and the
   append that follows it): for any cap from two. *)
THEOREM JustStoredHolds == Spec => JustStoredIsRetrievable
<1>1. Spec => [](MapInv /\ Types)
  BY MapsAtStart, MapsStep, PTL DEF Spec
<1>2. ASSUME MapInv, Types, NEW r \in Requests, MaxEntries > 1, Complete(r, TRUE)
      PROVE  r \in Keys(store')
  <2>1. store' = Stored(r).s /\ pc[r] = "calling"
    BY <1>2 DEF Complete
  <2>. QED  BY <1>2, <2>1, CompletionFits
<1>3. MapInv /\ Types /\ [Next]_vars
        => [\A r \in Requests : MaxEntries > 1 /\ Complete(r, TRUE) => r \in Keys(store')]_vars
  BY <1>2
<1>. QED  BY <1>1, <1>3, PTL DEF Spec, JustStoredIsRetrievable

-----------------------------------------------------------------------------
(* Histories.  What a request was sent with is a history that it follows; what is stored is such a
   history with the request itself at its end; and a thread is the end of what its conversation
   said. *)

Follows(u, t) ==
  \/ ref[t].previous = u
  \/ ref[t].conversation = ref[u].conversation /\ ref[u].conversation # None
Told(turns) ==
  /\ \A j \in 1..Len(turns) : turns[j] \in Answered
  /\ \A j \in 1..Len(turns) - 1 : Follows(turns[j], turns[j + 1])
ToldIn(turns, c) ==
  \A j \in 1..Len(turns) : turns[j] \in Answered /\ ref[turns[j]].conversation = c
Said(c) == {d \in DOMAIN done : ref[done[d]].conversation = c}

DoneInv == \A d \in DOMAIN done : done[d] \in Answered
ResponsesInv ==
  \A e \in Entries(store) : e.turns # <<>> /\ e.turns[Len(e.turns)] = e.key /\ Told(e.turns)
ThreadsInv == \A e \in Entries(threads) : Ends(Kept(done, Said(e.key)), e.turns)
SentWith(r) ==
  /\ pc[r] = "new" => merged[r] = <<>>
  /\ pc[r] = "calling" /\ merged[r] # <<>>
       => Told(merged[r]) /\ Follows(merged[r][Len(merged[r])], r)
Histories == DoneInv /\ ResponsesInv /\ ThreadsInv /\ \A r \in Requests : SentWith(r)

(* A thread holds turns of its conversation only. *)
LEMMA ThreadIsOfItsConversation ==
  ASSUME Types, DoneInv, NEW c, NEW turns \in Seq(Requests), Ends(Kept(done, Said(c)), turns)
  PROVE  ToldIn(turns, c)
<1>. DEFINE said == Kept(done, Said(c))
<1>1. done \in Seq(Requests) /\ Said(c) \in SUBSET DOMAIN done
  BY DEF Types, Said
<1>2. /\ said \in Seq(Requests) /\ \A i \in DOMAIN said : \E k \in Said(c) : said[i] = done[k]
  BY <1>1, KeptIsThinned
<1>. HIDE DEF said
<1>3. ASSUME NEW j \in 1..Len(turns)
      PROVE  turns[j] \in Answered /\ ref[turns[j]].conversation = c
  <2>1. Len(turns) \in Nat /\ Len(said) \in Nat /\ DOMAIN said = 1..Len(said)
    BY <1>2
  <2>2. Len(turns) <= Len(said) /\ turns[j] = said[Len(said) - Len(turns) + j]
    BY DEF Ends, said
  <2>3. Len(said) - Len(turns) + j \in DOMAIN said
    BY <2>1, <2>2
  <2>4. PICK k \in Said(c) : turns[j] = done[k]
    BY <1>2, <2>2, <2>3
  <2>. QED  BY <2>4 DEF Said, DoneInv
<1>. QED  BY <1>3 DEF ToldIn

(* A history in one conversation is one in which each turn follows the one before. *)
LEMMA ConversationIsTold ==
  ASSUME NEW c, c # None, NEW turns \in Seq(Requests), ToldIn(turns, c)
  PROVE  Told(turns)
<1>1. Len(turns) \in Nat
  OBVIOUS
<1>2. \A j \in 1..Len(turns) - 1 : j \in 1..Len(turns) /\ j + 1 \in 1..Len(turns)
  BY <1>1
<1>3. \A j \in 1..Len(turns) - 1 : Follows(turns[j], turns[j + 1])
  BY <1>2 DEF ToldIn, Follows
<1>. QED  BY <1>3 DEF Told, ToldIn

(* What is told stays told: what a request refers to is set once, before it is answered. *)
Settled ==
  /\ Answered \subseteq Answered'
  /\ \A r \in Answered : ref'[r] = ref[r]

LEMMA ToldLater ==
  ASSUME Settled, NEW turns, Len(turns) \in Nat, Told(turns)
  PROVE  Told(turns)'
<1>1. \A j \in 1..Len(turns) - 1 : j \in 1..Len(turns) /\ j + 1 \in 1..Len(turns)
  OBVIOUS
<1>2. \A j \in 1..Len(turns) : turns[j] \in Answered' /\ ref'[turns[j]] = ref[turns[j]]
  BY DEF Told, Settled
<1>3. ASSUME NEW j \in 1..Len(turns) - 1
      PROVE  \/ ref'[turns[j + 1]].previous = turns[j]
             \/ /\ ref'[turns[j + 1]].conversation = ref'[turns[j]].conversation
                /\ ref'[turns[j]].conversation # None
  BY <1>1, <1>2 DEF Told, Follows
<1>. QED  BY <1>2, <1>3 DEF Told, Follows

(* A turn at the end of a history that it follows. *)
LEMMA LongerIsTold ==
  ASSUME Settled, NEW turns \in Seq(Requests), NEW r \in Requests, r \in Answered', ref'[r] = ref[r],
         turns # <<>> => Told(turns) /\ Follows(turns[Len(turns)], r)
  PROVE  Told(Append(turns, r))'
<1>. DEFINE n == Len(turns)
            longer == Append(turns, r)
<1>1. /\ n \in Nat /\ Len(longer) = n + 1 /\ longer[n + 1] = r
      /\ \A j \in 1..n : longer[j] = turns[j]
      /\ turns # <<>> <=> n # 0
  OBVIOUS
<1>. HIDE DEF longer
<1>2. ASSUME NEW j \in 1..n
      PROVE  /\ longer[j] \in Answered' /\ ref'[turns[j]] = ref[turns[j]] /\ Told(turns)
             /\ Follows(turns[n], r)
  <2>1. Told(turns) /\ Follows(turns[n], r)
    BY <1>1
  <2>. QED  BY <1>1, <2>1 DEF Told, Settled
<1>3. \A j \in 1..Len(longer) : longer[j] \in Answered'
  BY <1>1, <1>2
<1>4. ASSUME NEW j \in 1..Len(longer) - 1
      PROVE  \/ ref'[longer[j + 1]].previous = longer[j]
             \/ /\ ref'[longer[j + 1]].conversation = ref'[longer[j]].conversation
                /\ ref'[longer[j]].conversation # None
  <2>1. j \in 1..n /\ longer[j] = turns[j] /\ ref'[turns[j]] = ref[turns[j]]
    BY <1>1, <1>2
  <2>2. CASE j = n
    <3>1. longer[j + 1] = r /\ Follows(turns[j], r)
      BY <1>1, <1>2, <2>1, <2>2
    <3>. QED  BY <2>1, <3>1 DEF Follows
  <2>3. CASE j # n
    <3>1. j + 1 \in 1..n /\ j \in 1..n - 1
      BY <1>1, <2>1, <2>3
    <3>2. Follows(turns[j], turns[j + 1]) /\ longer[j + 1] = turns[j + 1]
      BY <1>1, <1>2, <3>1 DEF Told
    <3>3. ref'[turns[j + 1]] = ref[turns[j + 1]]
      BY <1>2, <3>1
    <3>. QED  BY <2>1, <3>2, <3>3 DEF Follows
  <2>. QED  BY <2>2, <2>3
<1>5. Told(longer)'
  BY <1>3, <1>4 DEF Told, Follows, longer
<1>. QED  BY <1>5 DEF longer

LEMMA HistoriesKept ==
  ASSUME MapInv, Types, DoneInv, ResponsesInv, ThreadsInv, Settled, done' = done,
         Entries(store') \subseteq Entries(store), Entries(threads') \subseteq Entries(threads)
  PROVE  DoneInv' /\ ResponsesInv' /\ ThreadsInv'
<1>1. DoneInv'
  BY DEF DoneInv, Settled
<1>2. ASSUME NEW e \in Entries(store')
      PROVE  e.turns # <<>> /\ e.turns[Len(e.turns)] = e.key /\ Told(e.turns)'
  <2>1. e \in EntryOf(Requests) /\ e \in Entries(store)
    BY EntryTypes
  <2>2. e.turns \in Seq(Requests)
    BY <2>1 DEF EntryOf
  <2>3. Len(e.turns) \in Nat /\ Told(e.turns)
    BY <2>1, <2>2 DEF ResponsesInv
  <2>. QED  BY <2>1, <2>3, ToldLater DEF ResponsesInv
<1>3. ResponsesInv'
  BY <1>2 DEF ResponsesInv, Entries
<1>4. \A c : Said(c)' = Said(c)
  BY DEF Said, DoneInv, Settled
<1>5. ThreadsInv'
  BY <1>4 DEF ThreadsInv, Entries, Kept, Ends
<1>. QED  BY <1>1, <1>3, <1>5

LEMMA SentWithKept ==
  ASSUME Types, Settled, NEW r \in Requests, SentWith(r),
         pc'[r] = pc[r], merged'[r] = merged[r], ref'[r] = ref[r]
  PROVE  SentWith(r)'
<1>. DEFINE turns == merged[r]
<1>1. turns \in Seq(Requests) /\ Len(turns) \in Nat /\ (turns # <<>> => Len(turns) \in 1..Len(turns))
  BY DEF Types
<1>. HIDE DEF turns
<1>2. ASSUME pc[r] = "calling", turns # <<>>
      PROVE  Told(turns)' /\ Follows(turns[Len(turns)], r)'
  <2>1. Told(turns) /\ Follows(turns[Len(turns)], r)
    BY <1>2 DEF SentWith, turns
  <2>2. turns[Len(turns)] \in Answered
    BY <1>1, <1>2, <2>1 DEF Told
  <2>3. ref'[turns[Len(turns)]] = ref[turns[Len(turns)]]
    BY <2>2 DEF Settled
  <2>4. Follows(turns[Len(turns)], r)'
    BY <2>1, <2>3 DEF Follows, turns
  <2>5. Told(turns)'
    BY <1>1, <2>1, ToldLater DEF turns
  <2>. QED  BY <2>4, <2>5
<1>. QED  BY <1>2 DEF SentWith, turns

(* The entries of a completion: the history of the response, and that of its conversation. *)
LEMMA CompletionTells ==
  ASSUME MapInv, Types, Histories, NEW r \in Requests, Complete(r, TRUE)
  PROVE  DoneInv' /\ ResponsesInv' /\ ThreadsInv'
<1>. USE ConversationAssumption
<1>0. PICK c : c = ref[r].conversation
  OBVIOUS
<1>1. /\ pc' = [pc EXCEPT ![r] = "answered"] /\ pc[r] = "calling" /\ now' = now /\ ref' = ref
      /\ store' = Stored(r).s /\ threads' = Stored(r).t /\ done' = Append(done, r)
  BY DEF Complete
<1>2. /\ pc \in [Requests -> {"new", "calling", "answered", "failed"}]
      /\ c \in Conversations \cup {None} /\ merged[r] \in Seq(Requests) /\ done \in Seq(Requests)
  BY <1>0 DEF Types
<1>3. Settled /\ r \in Answered'
  BY <1>1, <1>2 DEF Settled, Answered
<1>4. /\ Len(done) \in Nat /\ Len(done') = Len(done) + 1 /\ DOMAIN done' = 1..Len(done) + 1
      /\ DOMAIN done = 1..Len(done)
      /\ \A d \in DOMAIN done : done'[d] = done[d]
      /\ done'[Len(done) + 1] = r
  BY <1>1, <1>2
<1>5. DoneInv'
  BY <1>3, <1>4 DEF DoneInv, Histories, Settled
<1>6. /\ Entries(store') \subseteq Entries(store) \cup {ResponseEntry(r)}
      /\ Entries(threads') \subseteq
           {e \in Entries(threads) : e.key # c}
             \cup IF c = None THEN {} ELSE {ThreadEntry(Saved(r).t, c, r)}
  BY <1>0, <1>1, CompletionFits
<1>7. ASSUME NEW e \in Entries(store')
      PROVE  e.turns # <<>> /\ e.turns[Len(e.turns)] = e.key /\ Told(e.turns)'
  <2>1. CASE e \in Entries(store)
    <3>1. e.turns \in Seq(Requests)
      BY <2>1, EntryTypes DEF EntryOf
    <3>2. Len(e.turns) \in Nat /\ Told(e.turns)
      BY <2>1, <3>1 DEF ResponsesInv, Histories
    <3>. QED  BY <1>3, <2>1, <3>2, ToldLater DEF ResponsesInv, Histories
  <2>2. CASE e = ResponseEntry(r)
    <3>1. e.key = r /\ e.turns = Append(merged[r], r)
      BY <2>2 DEF ResponseEntry, Following
    <3>2. merged[r] # <<>> => Told(merged[r]) /\ Follows(merged[r][Len(merged[r])], r)
      BY <1>1 DEF Histories, SentWith
    <3>3. Told(Append(merged[r], r))'
      <4>1. merged' = merged
        BY DEF Complete
      <4>. QED  BY <1>1, <1>2, <1>3, <3>2, <4>1, LongerIsTold
    <3>4. /\ Append(merged[r], r) # <<>>
          /\ Append(merged[r], r)[Len(Append(merged[r], r))] = r
      BY <1>2
    <3>5. Told(e.turns)'
      <4>1. merged' = merged
        BY DEF Complete
      <4>. QED  BY <3>1, <3>3, <4>1 DEF Told
    <3>. QED  BY <3>1, <3>4, <3>5
  <2>. QED  BY <1>6, <2>1, <2>2
<1>8. ResponsesInv'
  BY <1>7 DEF ResponsesInv, Entries
<1>9. /\ \A k : k # c => Said(k)' = Said(k)
      /\ Said(c)' = Said(c) \cup {Len(done) + 1}
  <2>1. \A d \in DOMAIN done' : d \in DOMAIN done \/ d = Len(done) + 1
    BY <1>4
  <2>2. DOMAIN done \subseteq DOMAIN done' /\ Len(done) + 1 \in DOMAIN done'
    BY <1>4
  <2>. QED  BY <1>0, <1>1, <1>4, <2>1, <2>2 DEF Said
<1>10. \A k : Said(k) \in SUBSET DOMAIN done
  BY DEF Said
<1>11. ASSUME NEW k
       PROVE  /\ k # c => Kept(done', Said(k)') = Kept(done, Said(k))
              /\ Kept(done', Said(c)') = Append(Kept(done, Said(c)), r)
              /\ Kept(done, Said(k)) \in Seq(Requests)
  <2>1. ASSUME NEW j
        PROVE  /\ Kept(Append(done, r), Said(j)) = Kept(done, Said(j))
               /\ Kept(Append(done, r), Said(j) \cup {Len(done) + 1}) = Append(Kept(done, Said(j)), r)
    <3>. DEFINE K == Said(j)
                s == done
    <3>1. s \in Seq(Requests) /\ K \in SUBSET DOMAIN s /\ r \in Requests
      BY <1>2, <1>10
    <3>. HIDE DEF K, s
    <3>2. /\ Kept(Append(s, r), K) = Kept(s, K)
          /\ Kept(Append(s, r), K \cup {Len(s) + 1}) = Append(Kept(s, K), r)
      BY ONLY <3>1, KeptOfLonger
    <3>. QED  BY <3>2 DEF K, s
  <2>2. /\ k # c => Kept(done', Said(k)') = Kept(done, Said(k))
        /\ Kept(done', Said(c)') = Append(Kept(done, Said(c)), r)
    BY <1>1, <1>9, <2>1
  <2>3. Kept(done, Said(k)) \in Seq(Requests)
    BY <1>2, <1>10, KeptIsThinned
  <2>. QED  BY <2>2, <2>3
<1>12. ASSUME NEW e \in Entries(threads')
       PROVE  Ends(Kept(done', Said(e.key)'), e.turns)
  <2>1. CASE e \in Entries(threads) /\ e.key # c
    BY <1>11, <2>1 DEF Histories, ThreadsInv
  <2>2. CASE c # None /\ e = ThreadEntry(Saved(r).t, c, r)
    <3>. DEFINE prior == Read(Saved(r).t, c)
    <3>1. e.key = c /\ e.turns = Append(prior, r)
      BY <2>2 DEF ThreadEntry
    <3>2. r \notin Keys(store)
      BY <1>1 DEF MapInv, Answered
    <3>3. Saved(r).t \in Seq(EntryOf(Conversations)) /\ Entries(Saved(r).t) \subseteq Entries(threads)
      BY <1>2, <3>2, SavedIsBalanced
    <3>4. /\ prior \in Seq(Requests)
          /\ prior = <<>> \/ \E f \in Entries(threads) : f.key = c /\ f.turns = prior
      BY <3>3, ReadIsEntry
    <3>. HIDE DEF prior
    <3>5. prior = <<>> \/ Ends(Kept(done, Said(c)), prior)
      BY <3>4 DEF Histories, ThreadsInv
    <3>6. Ends(Kept(done, Said(c)), prior)
      BY <1>11, <3>4, <3>5, LongerEnds
    <3>7. Ends(Append(Kept(done, Said(c)), r), Append(prior, r))
      BY <1>11, <3>4, <3>6, LongerEnds
    <3>. QED  BY <1>11, <3>1, <3>7
  <2>. QED  BY <1>6, <2>1, <2>2
<1>13. ThreadsInv'
  BY <1>12 DEF ThreadsInv, Entries, Kept, Ends, Said
<1>. QED  BY <1>5, <1>8, <1>13

LEMMA HistoriesStep ==
  ASSUME MapInv, Types, Histories, [Next]_vars
  PROVE  Histories'
<1>0. /\ pc \in [Requests -> {"new", "calling", "answered", "failed"}]
      /\ DoneInv /\ ResponsesInv /\ ThreadsInv /\ \A r \in Requests : SentWith(r)
  BY DEF Types, Histories
<1>1. ASSUME NEW r \in Requests, Fresh(r)
      PROVE  Histories'
  <2>1. /\ pc' = [pc EXCEPT ![r] = "calling"] /\ pc[r] = "new" /\ merged' = merged /\ ref' = ref
        /\ store' = store /\ threads' = threads /\ done' = done
    BY <1>1 DEF Fresh
  <2>2. Settled
    BY <1>0, <2>1 DEF Settled, Answered
  <2>3. \A q \in Requests \ {r} : SentWith(q)'
    BY <1>0, <2>1, <2>2, SentWithKept
  <2>4. SentWith(r)'
    BY <1>0, <2>1 DEF SentWith
  <2>. QED  BY <1>0, <2>1, <2>2, <2>3, <2>4, HistoriesKept DEF Histories
<1>2. ASSUME NEW r \in Requests, NEW p \in Known, Continue(r, p)
      PROVE  Histories'
  <2>1. /\ pc' = [pc EXCEPT ![r] = "calling"] /\ pc[r] = "new" /\ threads' = threads /\ done' = done
        /\ merged' = [merged EXCEPT ![r] = Read(store, p)]
        /\ ref' = [ref EXCEPT ![r].previous = p] /\ store' = AfterRead(store, p)
    BY <1>2 DEF Continue
  <2>2. Settled
    BY <1>0, <2>1 DEF Settled, Answered, Types
  <2>3. \A q \in Requests \ {r} : SentWith(q)'
    BY <1>0, <2>1, <2>2, SentWithKept DEF Types
  <2>4. PICK turns : turns = Read(store, p)
    OBVIOUS
  <2>5. /\ turns \in Seq(Requests)
        /\ turns = <<>> \/ \E e \in Entries(store) : e.key = p /\ e.turns = turns
    BY <2>4, ReadIsEntry DEF MapInv
  <2>6. merged'[r] = turns /\ ref'[r].previous = p /\ pc'[r] = "calling"
    BY <1>0, <2>1, <2>4 DEF Types
  <2>7. ASSUME turns # <<>>
        PROVE  Told(turns)' /\ Follows(turns[Len(turns)], r)'
    <3>1. Told(turns) /\ turns[Len(turns)] = p /\ Len(turns) \in Nat
      BY <1>0, <2>5, <2>7 DEF ResponsesInv
    <3>2. Told(turns)'
      BY <2>2, <3>1, ToldLater
    <3>. QED  BY <2>6, <3>1, <3>2 DEF Follows
  <2>8. SentWith(r)'
    BY <2>6, <2>7 DEF SentWith
  <2>9. /\ Entries(store') \subseteq Entries(store) /\ Entries(threads') \subseteq Entries(threads)
    BY <2>1, ReadFits
  <2>. QED  BY <1>0, <2>1, <2>2, <2>3, <2>8, <2>9, HistoriesKept DEF Histories
<1>3. ASSUME NEW r \in Requests, NEW c \in Conversations, Converse(r, c)
      PROVE  Histories'
  <2>. USE ConversationAssumption
  <2>1. /\ pc' = [pc EXCEPT ![r] = "calling"] /\ pc[r] = "new" /\ store' = store /\ done' = done
        /\ merged' = [merged EXCEPT ![r] = Read(threads, c)]
        /\ ref' = [ref EXCEPT ![r].conversation = c] /\ threads' = AfterRead(threads, c)
    BY <1>3 DEF Converse
  <2>2. Settled
    BY <1>0, <2>1 DEF Settled, Answered, Types
  <2>3. \A q \in Requests \ {r} : SentWith(q)'
    BY <1>0, <2>1, <2>2, SentWithKept DEF Types
  <2>4. PICK turns : turns = Read(threads, c)
    OBVIOUS
  <2>5. /\ turns \in Seq(Requests)
        /\ turns = <<>> \/ \E e \in Entries(threads) : e.key = c /\ e.turns = turns
    BY <2>4, ReadIsEntry DEF MapInv
  <2>6. merged'[r] = turns /\ ref'[r].conversation = c /\ pc'[r] = "calling" /\ c # None
    BY <1>0, <2>1, <2>4 DEF Types
  <2>7. ASSUME turns # <<>>
        PROVE  Told(turns)' /\ Follows(turns[Len(turns)], r)'
    <3>1. Ends(Kept(done, Said(c)), turns)
      BY <1>0, <2>5, <2>7 DEF ThreadsInv
    <3>2. ToldIn(turns, c)
      BY <1>0, <2>5, <3>1, ThreadIsOfItsConversation
    <3>3. Told(turns) /\ Len(turns) \in 1..Len(turns) /\ Len(turns) \in Nat
      BY <2>5, <2>6, <2>7, <3>2, ConversationIsTold
    <3>4. turns[Len(turns)] \in Answered /\ ref[turns[Len(turns)]].conversation = c
      BY <3>2, <3>3 DEF ToldIn
    <3>5. ref'[turns[Len(turns)]].conversation = c
      BY <2>2, <3>4 DEF Settled
    <3>6. Told(turns)'
      BY <2>2, <3>3, ToldLater
    <3>. QED  BY <2>6, <3>5, <3>6 DEF Follows
  <2>8. SentWith(r)'
    BY <2>6, <2>7 DEF SentWith
  <2>9. /\ Entries(store') \subseteq Entries(store) /\ Entries(threads') \subseteq Entries(threads)
    BY <2>1, ReadFits
  <2>. QED  BY <1>0, <2>1, <2>2, <2>3, <2>8, <2>9, HistoriesKept DEF Histories
<1>4. ASSUME NEW r \in Requests, NEW stored \in BOOLEAN, Complete(r, stored)
      PROVE  Histories'
  <2>1. pc' = [pc EXCEPT ![r] = "answered"] /\ pc[r] = "calling" /\ merged' = merged /\ ref' = ref
    BY <1>4 DEF Complete
  <2>2. Settled
    BY <1>0, <2>1 DEF Settled, Answered
  <2>3. \A q \in Requests \ {r} : SentWith(q)'
    BY <1>0, <2>1, <2>2, SentWithKept
  <2>4. SentWith(r)'
    BY <1>0, <2>1 DEF SentWith
  <2>5. DoneInv' /\ ResponsesInv' /\ ThreadsInv'
    <3>1. CASE stored
      BY <1>4, <3>1, CompletionTells
    <3>2. CASE ~stored
      <4>1. store' = store /\ threads' = threads /\ done' = done
        BY <1>4, <3>2 DEF Complete
      <4>. QED  BY <1>0, <2>2, <4>1, HistoriesKept
    <3>. QED  BY <3>1, <3>2
  <2>. QED  BY <2>3, <2>4, <2>5 DEF Histories
<1>5. ASSUME NEW r \in Requests, Fail(r)
      PROVE  Histories'
  <2>1. /\ pc' = [pc EXCEPT ![r] = "failed"] /\ pc[r] = "calling" /\ merged' = merged /\ ref' = ref
        /\ store' = store /\ threads' = threads /\ done' = done
    BY <1>5 DEF Fail
  <2>2. Settled
    BY <1>0, <2>1 DEF Settled, Answered
  <2>3. \A q \in Requests \ {r} : SentWith(q)'
    BY <1>0, <2>1, <2>2, SentWithKept
  <2>4. SentWith(r)'
    BY <1>0, <2>1 DEF SentWith
  <2>. QED  BY <1>0, <2>1, <2>2, <2>3, <2>4, HistoriesKept DEF Histories
<1>6. ASSUME \/ \E p \in Known : Retrieve(p)
             \/ PassTime
             \/ UNCHANGED vars
      PROVE  Histories'
  <2>1. pc' = pc /\ merged' = merged /\ ref' = ref /\ done' = done /\ threads' = threads
    BY <1>6 DEF Retrieve, PassTime, vars
  <2>2. Entries(store') \subseteq Entries(store)
    <3>1. store' = store \/ \E p : store' = AfterRead(store, p)
      BY <1>6 DEF Retrieve, PassTime, vars
    <3>. QED  BY <3>1, ReadFits
  <2>3. Settled
    BY <2>1 DEF Settled, Answered
  <2>4. \A q \in Requests : SentWith(q)'
    BY <1>0, <2>1, <2>3, SentWithKept
  <2>. QED  BY <1>0, <2>1, <2>2, <2>3, <2>4, HistoriesKept DEF Histories
<1>. QED  BY <1>1, <1>2, <1>3, <1>4, <1>5, <1>6 DEF Next

LEMMA HistoriesAtStart ==
  ASSUME Init
  PROVE  Histories
<1>1. DOMAIN store = {} /\ DOMAIN threads = {} /\ DOMAIN done = {}
  BY DEF Init
<1>2. \A r \in Requests : pc[r] = "new" /\ merged[r] = <<>>
  BY DEF Init
<1>. QED  BY <1>1, <1>2 DEF Histories, DoneInv, ResponsesInv, ThreadsInv, SentWith, Entries

(* What the store remembers is what was said: a thread is the end of its conversation's stored turns,
   in their order, and a response's history is its client's, ending with the response itself. *)
THEOREM HistoriesHold == Spec => []HistoriesAreTrue
<1>1. Spec => [](MapInv /\ Types /\ Histories)
  <2>1. Init => MapInv /\ Types /\ Histories
    BY MapsAtStart, HistoriesAtStart
  <2>2. MapInv /\ Types /\ Histories /\ [Next]_vars => (MapInv /\ Types /\ Histories)'
    BY MapsStep, HistoriesStep
  <2>. QED  BY <2>1, <2>2, PTL DEF Spec
<1>2. ASSUME MapInv, Types, Histories
      PROVE  HistoriesAreTrue
  <2>1. ASSUME NEW k \in DOMAIN threads
        PROVE  IsSuffix(threads[k].turns,
                        Kept(done, {d \in DOMAIN done : ref[done[d]].conversation = threads[k].key}))
    <3>1. threads[k] \in Entries(threads) /\ threads[k] \in EntryOf(Conversations)
      BY <1>2 DEF MapInv, Entries
    <3>. DEFINE turns == threads[k].turns
                said == Kept(done, Said(threads[k].key))
    <3>2. turns \in Seq(Requests) /\ Ends(said, turns)
      BY <1>2, <3>1 DEF EntryOf, Histories, ThreadsInv
    <3>3. said \in Seq(Requests)
      <4>1. Said(threads[k].key) \in SUBSET DOMAIN done
        BY DEF Said
      <4>. QED  BY <1>2, <4>1, KeptIsThinned DEF Types
    <3>. HIDE DEF turns, said
    <3>4. IsSuffix(turns, said)
      BY <3>2, <3>3, SuffixIsEnd
    <3>. QED  BY <3>4 DEF turns, said, Said
  <2>2. ASSUME NEW k \in DOMAIN store
        PROVE  LET turns == store[k].turns
               IN  /\ turns # <<>> /\ turns[Len(turns)] = store[k].key
                   /\ \A j \in 1..Len(turns) - 1 :
                        \/ ref[turns[j + 1]].previous = turns[j]
                        \/ /\ ref[turns[j + 1]].conversation = ref[turns[j]].conversation
                           /\ ref[turns[j]].conversation # None
    <3>1. store[k] \in Entries(store)
      BY DEF Entries
    <3>. QED  BY <1>2, <3>1 DEF Histories, ResponsesInv, Told, Follows
  <2>. QED  BY <2>1, <2>2 DEF HistoriesAreTrue, ThreadIsRecentHistory, HistoryIsOwn
<1>. QED  BY <1>1, <1>2, PTL
=============================================================================
