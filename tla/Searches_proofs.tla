---------------------------- MODULE Searches_proofs --------------------------
(***************************************************************************)
(* MemorySearch and GraphSearch for any number of requests, addresses,     *)
(* texts and edges, and any limits.                                        *)
(*                                                                         *)
(* The limiter is right because the deque of an address and its history    *)
(* lose what is stale at the same time; the answers are right because a    *)
(* request holds, across its awaits, only what belongs to its own texts,   *)
(* and the caches that requests share hold nothing but pairs of a text and *)
(* its own vector.                                                         *)
(***************************************************************************)
EXTENDS MemorySearch, FiniteSetTheorems, SequenceTheorems,
        WellFoundedInduction, TLAPS

-----------------------------------------------------------------------------
(* Lists, selections and the cache.                                        *)

(* The elements of a sequence are those at its positions.                  *)
LEMMA Elements ==
    ASSUME NEW T, NEW s \in Seq(T)
    PROVE  /\ DOMAIN s = 1..Len(s)
           /\ \A x : x \in ToSet(s) <=> \E i \in 1..Len(s) : s[i] = x
<1>1. DOMAIN s = 1..Len(s)
  OBVIOUS
<1> QED
  BY <1>1, Zenon DEF ToSet

(* The rest of a list without repetitions lacks its first element.         *)
LEMMA TailDrops ==
    ASSUME NEW T, NEW s \in Seq(T), IsInjective(s), s # <<>>
    PROVE  /\ Tail(s) \in Seq(T) /\ IsInjective(Tail(s))
           /\ ToSet(Tail(s)) = ToSet(s) \ {s[1]}
<1> DEFINE rest == Tail(s)
<1>1. /\ rest \in Seq(T) /\ Len(rest) = Len(s) - 1
      /\ \A i \in 1..Len(rest) : i + 1 \in 1..Len(s) /\ rest[i] = s[i + 1]
  OBVIOUS
<1> HIDE DEF rest
<1>2. IsInjective(rest)
  <2>1. ASSUME NEW i \in 1..Len(rest), NEW j \in 1..Len(rest), rest[i] = rest[j]
        PROVE  i = j
    <3>1. s[i + 1] = s[j + 1] /\ i + 1 \in DOMAIN s /\ j + 1 \in DOMAIN s
      BY <1>1, <2>1
    <3>2. i + 1 = j + 1
      BY <3>1 DEF IsInjective
    <3> QED
      BY <3>2
  <2>2. DOMAIN rest = 1..Len(rest)
    BY <1>1
  <2> QED
    BY <2>1, <2>2 DEF IsInjective
<1>3. ToSet(rest) = ToSet(s) \ {s[1]}
  <2>1. ASSUME NEW i \in 1..Len(rest)
        PROVE  rest[i] \in ToSet(s) /\ rest[i] # s[1]
    <3>1. rest[i] = s[i + 1] /\ i + 1 \in 1..Len(s) /\ i + 1 # 1
          /\ 1 \in 1..Len(s)
      BY <1>1
    <3>2. DOMAIN s = 1..Len(s) /\ s[i + 1] \in ToSet(s)
      BY <3>1, Elements
    <3>3. s[i + 1] # s[1]
      BY <3>1, <3>2 DEF IsInjective
    <3> QED
      BY <3>1, <3>2, <3>3
  <2>2. ASSUME NEW i \in 1..Len(s), s[i] # s[1]
        PROVE  \E j \in 1..Len(rest) : rest[j] = s[i]
    <3>1. i # 1
      BY <2>2
    <3>2. i - 1 \in 1..Len(rest) /\ (i - 1) + 1 = i
      BY <1>1, <3>1
    <3> QED
      BY <1>1, <3>2
  <2>3. \A x : /\ x \in ToSet(rest) <=> \E i \in 1..Len(rest) : rest[i] = x
               /\ x \in ToSet(s) <=> \E i \in 1..Len(s) : s[i] = x
    BY <1>1, Elements
  <2>4. ASSUME NEW x
        PROVE  x \in ToSet(rest) <=> x \in ToSet(s) /\ x # s[1]
    <3>1. ASSUME x \in ToSet(rest)
          PROVE  x \in ToSet(s) /\ x # s[1]
      <4>1. PICK i \in 1..Len(rest) : rest[i] = x
        BY <2>3, <3>1, Zenon
      <4> QED
        BY <2>1, <4>1
    <3>2. ASSUME x \in ToSet(s), x # s[1]
          PROVE  x \in ToSet(rest)
      <4>1. PICK i \in 1..Len(s) : s[i] = x
        BY <2>3, <3>2, Zenon
      <4>2. \E j \in 1..Len(rest) : rest[j] = s[i]
        BY <2>2, <3>2, <4>1
      <4> QED
        BY <2>3, <4>1, <4>2
    <3> QED
      BY <3>1, <3>2
  <2> QED
    BY <2>4, Zenon
<1> QED
  BY <1>1, <1>2, <1>3 DEF rest

(* One more that is new keeps a list without repetitions.                  *)
LEMMA AppendAdds ==
    ASSUME NEW T, NEW s \in Seq(T), IsInjective(s), NEW e \in T, e \notin ToSet(s)
    PROVE  /\ Append(s, e) \in Seq(T) /\ IsInjective(Append(s, e))
           /\ ToSet(Append(s, e)) = ToSet(s) \cup {e}
<1> DEFINE all == Append(s, e)
<1>1. /\ all \in Seq(T) /\ Len(all) = Len(s) + 1
      /\ \A i \in 1..Len(all) : all[i] = IF i <= Len(s) THEN s[i] ELSE e
  OBVIOUS
<1> HIDE DEF all
<1>2. \A i \in 1..Len(s) : s[i] # e
  BY Elements
<1>3. DOMAIN all = 1..Len(all) /\ DOMAIN s = 1..Len(s) /\ Len(s) \in Nat
  BY <1>1
<1>4. IsInjective(all)
  <2>1. ASSUME NEW i \in 1..Len(all), NEW j \in 1..Len(all), all[i] = all[j]
        PROVE  i = j
    <3>1. CASE i <= Len(s) /\ j <= Len(s)
      <4>1. i \in 1..Len(s) /\ j \in 1..Len(s) /\ s[i] = s[j]
        BY <1>1, <2>1, <3>1
      <4> QED
        BY <1>3, <4>1 DEF IsInjective
    <3>2. CASE ~(i <= Len(s) /\ j <= Len(s))
      <4>1. i = Len(all) /\ j = Len(all)
        BY <1>1, <1>2, <1>3, <2>1, <3>2
      <4> QED
        BY <4>1
    <3> QED
      BY <3>1, <3>2
  <2> QED
    BY <1>3, <2>1 DEF IsInjective
<1>5. ToSet(all) = ToSet(s) \cup {e}
  <2>1. \A i \in 1..Len(all) : all[i] = e \/ \E j \in 1..Len(s) : all[i] = s[j]
    BY <1>1, <1>3
  <2>2. (\A i \in 1..Len(s) : i \in 1..Len(all) /\ all[i] = s[i])
        /\ Len(all) \in 1..Len(all) /\ all[Len(all)] = e
    BY <1>1, <1>3
  <2>3. \A x : /\ x \in ToSet(all) <=> \E i \in 1..Len(all) : all[i] = x
               /\ x \in ToSet(s) <=> \E i \in 1..Len(s) : s[i] = x
    BY <1>1, Elements
  <2>4. ASSUME NEW x
        PROVE  x \in ToSet(all) <=> x \in ToSet(s) \/ x = e
    <3>1. ASSUME x \in ToSet(all)
          PROVE  x \in ToSet(s) \/ x = e
      <4>1. PICK i \in 1..Len(all) : all[i] = x
        BY <2>3, <3>1, Zenon
      <4> QED
        BY <2>1, <2>3, <4>1
    <3>2. ASSUME x \in ToSet(s)
          PROVE  x \in ToSet(all)
      <4>1. PICK i \in 1..Len(s) : s[i] = x
        BY <2>3, <3>2, Zenon
      <4> QED
        BY <2>2, <2>3, <4>1
    <3>3. e \in ToSet(all)
      BY <2>2, <2>3, Zenon
    <3> QED
      BY <3>1, <3>2, <3>3
  <2> QED
    BY <2>4, Zenon
<1> QED
  BY <1>1, <1>4, <1>5 DEF all

(* A set of numbers has a smallest one.                                    *)
LEMMA Smallest ==
    ASSUME NEW S \in SUBSET Nat, S # {}
    PROVE  \E s \in S : \A m \in S : s <= m
<1> DEFINE Less == OpToRel(<, Nat)
<1>1. IsWellFoundedOn(Less, Nat)
  BY NatLessThanWellFounded
<1>2. \A x, y \in Nat : y < x => <<y, x>> \in Less
  BY DEF OpToRel
<1> HIDE DEF Less
<1>3. PICK x \in S : \A y \in S : ~(<<y, x>> \in Less)
  BY <1>1, WFMin
<1>4. ASSUME NEW y \in S
      PROVE  x <= y
  <2>1. ~(y < x)
    BY <1>2, <1>3
  <2> QED
    BY <2>1
<1> QED
  BY <1>4

(* Of a set of positions, the n-th is in it and has n of them up to it.    *)
LEMMA NthIsThere ==
    ASSUME NEW N \in Nat, NEW S \in SUBSET (1..N), NEW n \in 1..Cardinality(S)
    PROVE  Nth(S, n) \in S
<1> DEFINE upto(i) == {j \in S : j <= i}
           count(i) == Cardinality(upto(i))
           enough == {i \in 0..N : n <= count(i)}
<1>1. IsFiniteSet(S)
  <2>1. IsFiniteSet(1..N)
    BY FS_Interval
  <2> QED
    BY <2>1, FS_Subset
<1>2. \A i \in 0..N : IsFiniteSet(upto(i)) /\ count(i) \in Nat
  <2>1. \A i : upto(i) \subseteq S
    OBVIOUS
  <2>2. \A i : IsFiniteSet(upto(i))
    BY <1>1, <2>1, FS_Subset
  <2> QED
    BY <2>2, FS_CardinalityType
<1>3. Cardinality(S) \in Nat /\ n \in Nat /\ 1 <= n /\ n <= Cardinality(S)
  BY <1>1, FS_CardinalityType
<1>4. count(0) = 0
  <2>1. upto(0) = {}
    <3>1. \A j \in S : ~(j <= 0)
      OBVIOUS
    <3> QED
      BY <3>1, Zenon
  <2> QED
    BY <2>1, FS_EmptySet
<1>5. N \in enough
  <2>1. \A j \in S : j <= N
    OBVIOUS
  <2>2. upto(N) = S
    BY <2>1
  <2> QED
    BY <2>2, <1>3
<1>6. PICK i \in enough : \A m \in enough : i <= m
  <2>1. enough \in SUBSET Nat /\ enough # {}
    BY <1>5
  <2> HIDE DEF enough
  <2> QED
    BY <2>1, Smallest
<1>7. i \in 1..N /\ (i - 1) \in 0..N /\ ~(n <= count(i - 1))
  <2>1. i # 0
    BY <1>3, <1>4
  <2>2. i \in 1..N /\ (i - 1) \in 0..N
    BY <2>1
  <2>3. i - 1 \notin enough
    <3> HIDE DEF enough
    <3>1. i \in Nat /\ ~(i <= i - 1)
      BY <2>2
    <3> QED
      BY <1>6, <3>1
  <2> QED
    BY <2>2, <2>3
<1>8. i \in S /\ count(i) = count(i - 1) + 1
  <2>1. CASE i \in S
    <3>1. (\A j \in S : j <= i <=> j <= i - 1 \/ j = i) /\ ~(i <= i - 1)
      BY <1>7
    <3>2. upto(i) = upto(i - 1) \cup {i} /\ i \notin upto(i - 1)
      BY <2>1, <3>1, Zenon
    <3>3. IsFiniteSet(upto(i - 1))
      BY <1>2, <1>7
    <3> HIDE DEF upto
    <3> QED
      BY <2>1, <3>2, <3>3, FS_AddElement
  <2>2. CASE i \notin S
    <3>1. \A j \in S : j \in Int /\ (j <= i <=> j <= i - 1)
      BY <2>2, <1>7
    <3>2. upto(i) = upto(i - 1)
      BY <3>1
    <3> QED
      BY <3>2, <1>7
  <2> QED
    BY <2>1, <2>2
<1>9. count(i) = n
  <2>1. count(i) \in Nat /\ count(i - 1) \in Nat
    BY <1>2, <1>7
  <2>2. n <= count(i)
    OBVIOUS
  <2> HIDE DEF count, enough
  <2> QED
    BY <2>1, <2>2, <1>3, <1>7, <1>8
<1> QED
  BY <1>8, <1>9 DEF Nth

(* A selection from a sequence is one.                                     *)
LEMMA SelectedType ==
    ASSUME NEW T, NEW s \in Seq(T), NEW S \in SUBSET (1..Len(s))
    PROVE  /\ Selected(s, S) \in Seq(T)
           /\ Len(Selected(s, S)) = Cardinality(S)
<1>1. Cardinality(S) \in Nat
  <2>1. IsFiniteSet(1..Len(s))
    BY FS_Interval
  <2>2. IsFiniteSet(S)
    BY <2>1, FS_Subset
  <2> QED
    BY <2>2, FS_CardinalityType
<1>2. ASSUME NEW n \in 1..Cardinality(S)
      PROVE  Nth(S, n) \in 1..Len(s)
  <2>1. Len(s) \in Nat
    OBVIOUS
  <2>2. Nth(S, n) \in S
    BY <2>1, NthIsThere
  <2> QED
    BY <2>2
<1> QED
  BY <1>1, <1>2 DEF Selected

(* A selection of the positions from one on is what is left of the list.   *)
LEMMA SelectedRest ==
    ASSUME NEW T, NEW s \in Seq(T), NEW o \in 0..Len(s)
    PROVE  Selected(s, (o + 1)..Len(s)) = SubSeq(s, o + 1, Len(s))
<1> DEFINE S == (o + 1)..Len(s)
<1>1. Cardinality(S) = Len(s) - o
  <2>1. o + 1 \in Int /\ Len(s) \in Int
    OBVIOUS
  <2>2. Cardinality(S) = IF o + 1 > Len(s) THEN 0 ELSE Len(s) - (o + 1) + 1
    BY <2>1, FS_Interval
  <2> QED
    BY <2>2
<1>2. ASSUME NEW n \in 1..(Len(s) - o)
      PROVE  Nth(S, n) = o + n
  <2>1. ASSUME NEW i \in S
        PROVE  Cardinality({j \in S : j <= i}) = i - o
    <3>1. {j \in S : j <= i} = (o + 1)..i
      OBVIOUS
    <3>2. Cardinality((o + 1)..i) = i - o
      BY FS_Interval
    <3> QED
      BY <3>1, <3>2
  <2>2. (o + n) \in S
    OBVIOUS
  <2>3. Cardinality({j \in S : j <= o + n}) = n
    BY <2>1, <2>2
  <2>4. \A i \in S : Cardinality({j \in S : j <= i}) = n => i = o + n
    BY <2>1
  <2> HIDE DEF S
  <2> QED
    BY <2>2, <2>3, <2>4 DEF Nth
<1>3. Selected(s, S) = [n \in 1..(Len(s) - o) |-> s[o + n]]
  BY <1>1, <1>2 DEF Selected
<1>4. SubSeq(s, o + 1, Len(s)) = [n \in 1..(Len(s) - o) |-> s[o + n]]
  OBVIOUS
<1> QED
  BY <1>3, <1>4

(* Taking an entry out of a cache adds none.                               *)
LEMMA WithoutType ==
    ASSUME NEW E, NEW ca \in Seq(E), NEW k
    PROVE  Without(ca, k) \in Seq(E)
<1>1. CASE Has(ca, k)
  <2>1. EntryOf(ca, k) \in 1..Len(ca)
    BY <1>1 DEF Has, EntryOf
  <2>2. RemoveAt(ca, EntryOf(ca, k)) \in Seq(E)
    BY <2>1 DEF RemoveAt
  <2> QED
    BY <1>1, <2>2 DEF Without
<1>2. CASE ~Has(ca, k)
  BY <1>2 DEF Without
<1> QED
  BY <1>1, <1>2

(* What a cache holds for a key is one of its entries, and a lookup only   *)
(* moves entries.                                                          *)
LEMMA CacheGetKeeps ==
    ASSUME NEW K, NEW V, NEW E \in SUBSET (K \X V), NEW ca \in Seq(E), NEW k
    PROVE  /\ CacheGet(ca, k) \in Seq(E)
           /\ Has(ca, k) => <<k, Value(ca, k)>> \in E
<1>1. Without(ca, k) \in Seq(E)
  BY WithoutType
<1>2. ASSUME Has(ca, k)
      PROVE  <<k, Value(ca, k)>> \in E
  <2>1. EntryOf(ca, k) \in 1..Len(ca) /\ ca[EntryOf(ca, k)][1] = k
    BY <1>2 DEF Has, EntryOf
  <2>2. PICK e \in E : e = ca[EntryOf(ca, k)]
    BY <2>1
  <2>3. e = <<e[1], e[2]>>
    OBVIOUS
  <2> QED
    BY <2>1, <2>2, <2>3 DEF Value
<1> QED
  BY <1>1, <1>2 DEF CacheGet

(* Setting a key adds the one entry that is set, whatever is evicted.      *)
LEMMA CacheSetKeeps ==
    ASSUME NEW E, NEW ca \in Seq(E), NEW k, NEW v, <<k, v>> \in E, NEW max
    PROVE  CacheSet(ca, k, v, max) \in Seq(E)
<1>1. Append(Without(ca, k), <<k, v>>) \in Seq(E)
  BY WithoutType
<1>2. Append(Without(ca, k), <<k, v>>) # <<>>
  <2>1. Without(ca, k) \in Seq(E)
    BY WithoutType
  <2> QED
    BY <2>1
<1> QED
  BY <1>1, <1>2 DEF CacheSet

(* A loop over n things that starts with c has its states.                 *)
Loops(D, c, n, G) ==
    \E h \in [0..n -> D] : h[0] = c /\ \A i \in 1..n : h[i] = G[i][h[i - 1]]

(* A loop over a body that maps D to D has its states: those of the first  *)
(* passes are extended by one more.                                        *)
LEMMA LoopExists ==
    ASSUME NEW D, NEW c \in D, NEW n \in Nat, NEW G \in [1..n -> [D -> D]]
    PROVE  Loops(D, c, n, G)
<1> DEFINE runs(m) == \E h \in [0..m -> D] :
                          h[0] = c /\ \A i \in 1..m : h[i] = G[i][h[i - 1]]
           stuck == {m \in 0..n : ~runs(m)}
<1>1. CASE stuck = {}
  <2>1. n \notin stuck /\ n \in 0..n
    <3> HIDE DEF stuck
    <3> QED
      BY <1>1
  <2>2. runs(n)
    <3> HIDE DEF runs
    <3> QED
      BY <2>1
  <2> QED
    BY <2>2 DEF Loops
<1>2. CASE stuck # {}
  <2>1. stuck \in SUBSET Nat
    OBVIOUS
  <2>2. PICK m \in stuck : \A k \in stuck : m <= k
    <3> HIDE DEF stuck
    <3> QED
      BY <1>2, <2>1, Smallest
  <2>3. m # 0
    <3>1. runs(0)
      <4> DEFINE h == [i \in 0..0 |-> c]
      <4>1. h \in [0..0 -> D] /\ h[0] = c
        OBVIOUS
      <4>2. \A i \in 1..0 : FALSE
        OBVIOUS
      <4> HIDE DEF h
      <4> QED
        BY <4>1, <4>2
    <3> HIDE DEF runs
    <3> QED
      BY <3>1
  <2>4. m \in 1..n /\ m - 1 \in 0..n
    BY <2>3
  <2>5. runs(m - 1)
    <3>1. ~(m <= m - 1)
      BY <2>4
    <3> HIDE DEF runs
    <3>2. m - 1 \notin stuck
      <4> HIDE DEF stuck
      <4> QED
        BY <2>2, <3>1
    <3> QED
      BY <2>4, <3>2
  <2>6. PICK h \in [0..(m - 1) -> D] :
            h[0] = c /\ \A i \in 1..(m - 1) : h[i] = G[i][h[i - 1]]
    BY <2>5
  <2> DEFINE g == [i \in 0..m |-> IF i < m THEN h[i] ELSE G[m][h[m - 1]]]
  <2>7. h[m - 1] \in D /\ m \in 1..n
    BY <2>4, <2>6
  <2>8. G[m][h[m - 1]] \in D
    BY <2>7
  <2>9. g \in [0..m -> D] /\ g[0] = c
    <3>1. \A i \in 0..m : i < m => h[i] \in D
      BY <2>4, <2>6
    <3> QED
      BY <2>4, <2>6, <2>8, <3>1
  <2>10. ASSUME NEW i \in 1..m
         PROVE  g[i] = G[i][g[i - 1]]
    <3>1. i \in 0..m /\ i - 1 \in 0..m /\ i - 1 < m
      BY <2>4
    <3>2. g[i - 1] = h[i - 1]
      BY <3>1
    <3>3. CASE i < m
      <4>1. g[i] = h[i] /\ i \in 1..(m - 1)
        BY <2>4, <3>1, <3>3
      <4> HIDE DEF g
      <4> QED
        BY <2>6, <3>2, <4>1
    <3>4. CASE ~(i < m)
      <4>1. i = m
        BY <2>4, <3>4
      <4>2. g[m] = G[m][h[m - 1]]
        BY <2>4
      <4> HIDE DEF g
      <4> QED
        BY <3>2, <4>1, <4>2
    <3> QED
      BY <3>3, <3>4
  <2>11. runs(m)
    <3> HIDE DEF g
    <3> QED
      BY <2>9, <2>10
  <2>12. ~runs(m)
    OBVIOUS
  <2> QED
    BY <2>11, <2>12
<1> QED
  BY <1>1, <1>2

(* What every pass of a loop keeps holds all along.                        *)
LEMMA LoopKeeps ==
    ASSUME NEW D, NEW n \in Nat, NEW f, f[0] \in D,
           \A i \in 1..n : f[i - 1] \in D => f[i] \in D
    PROVE  \A i \in 0..n : f[i] \in D
<1> DEFINE out == {i \in 0..n : f[i] \notin D}
<1>1. ASSUME out # {}
      PROVE  FALSE
  <2>1. out \in SUBSET Nat
    OBVIOUS
  <2>2. PICK m \in out : \A k \in out : m <= k
    <3> HIDE DEF out
    <3> QED
      BY <1>1, <2>1, Smallest
  <2>3. m \in 0..n /\ f[m] \notin D /\ m # 0
    OBVIOUS
  <2>4. m \in 1..n /\ m - 1 \in 0..n /\ ~(m <= m - 1)
    BY <2>3
  <2>5. m - 1 \notin out
    <3> HIDE DEF out
    <3> QED
      BY <2>2, <2>4
  <2>6. f[m - 1] \in D
    BY <2>4, <2>5
  <2> QED
    BY <2>3, <2>4, <2>6
<1> QED
  BY <1>1

(* What each lookup keeps a loop of lookups keeps; its states exist by     *)
(* LoopExists.                                                             *)
LEMMA CacheGetsStay ==
    ASSUME NEW D, NEW ca \in D, NEW keys, Len(keys) \in Nat,
           \A d \in D : \A k : CacheGet(d, k) \in D
    PROVE  CacheGets(ca, keys) \in D
<1> DEFINE n == Len(keys)
           G == [i \in 1..n |-> [d \in D |-> CacheGet(d, keys[i])]]
           step(h) == [i \in 0..n |-> IF i = 0 THEN ca ELSE CacheGet(h[i - 1], keys[i])]
           after == CHOOSE h : h = step(h)
<1>1. n \in Nat /\ G \in [1..n -> [D -> D]]
  OBVIOUS
<1>2. \E h : h = step(h)
  <2>1. PICK h \in [0..n -> D] : h[0] = ca /\ \A i \in 1..n : h[i] = G[i][h[i - 1]]
    <3>1. Loops(D, ca, n, G)
      <4> HIDE DEF n, G
      <4> QED
        BY <1>1, LoopExists
    <3> QED
      BY <3>1 DEF Loops
  <2>2. \A i \in 1..n : h[i - 1] \in D
    BY <1>1, <2>1
  <2>3. \A i \in 1..n : h[i] = CacheGet(h[i - 1], keys[i])
    BY <2>1, <2>2
  <2>4. h = step(h)
    BY <2>1, <2>3
  <2> QED
    BY <2>4
<1>3. after = step(after)
  BY <1>2
<1> HIDE DEF after
<1>4. after[0] = ca /\ \A i \in 1..n : after[i] = CacheGet(after[i - 1], keys[i])
  BY <1>1, <1>3
<1>5. \A i \in 1..n : after[i - 1] \in D => after[i] \in D
  BY <1>4
<1>6. after[n] \in D
  <2> HIDE DEF n
  <2>1. \A i \in 0..n : after[i] \in D
    BY <1>1, <1>4, <1>5, LoopKeeps
  <2> QED
    BY <1>1, <2>1
<1> QED
  BY <1>6 DEF CacheGets, after

(* The same of a loop that sets pairs.                                     *)
LEMMA CacheSetsStay ==
    ASSUME NEW D, NEW ca \in D, NEW pairs, NEW max, Len(pairs) \in Nat
    PROVE  (\A i \in 1..Len(pairs) : \A d \in D :
                CacheSet(d, pairs[i][1], pairs[i][2], max) \in D)
           => CacheSets(ca, pairs, max) \in D
<1> DEFINE n == Len(pairs)
           G == [i \in 1..n |-> [d \in D |-> CacheSet(d, pairs[i][1], pairs[i][2], max)]]
           step(h) == [i \in 0..n |-> IF i = 0 THEN ca
                                      ELSE CacheSet(h[i - 1], pairs[i][1], pairs[i][2], max)]
           after == CHOOSE h : h = step(h)
<1>0. SUFFICES ASSUME \A i \in 1..n : \A d \in D :
                        CacheSet(d, pairs[i][1], pairs[i][2], max) \in D
               PROVE  CacheSets(ca, pairs, max) \in D
  OBVIOUS
<1>1. n \in Nat /\ G \in [1..n -> [D -> D]]
  BY <1>0
<1>2. \E h : h = step(h)
  <2>1. PICK h \in [0..n -> D] : h[0] = ca /\ \A i \in 1..n : h[i] = G[i][h[i - 1]]
    <3>1. Loops(D, ca, n, G)
      <4> HIDE DEF n, G
      <4> QED
        BY <1>1, LoopExists
    <3> QED
      BY <3>1 DEF Loops
  <2>2. \A i \in 1..n : h[i - 1] \in D
    BY <1>1, <2>1
  <2>3. \A i \in 1..n : h[i] = CacheSet(h[i - 1], pairs[i][1], pairs[i][2], max)
    BY <2>1, <2>2
  <2>4. h = step(h)
    BY <2>1, <2>3
  <2> QED
    BY <2>4
<1>3. after = step(after)
  BY <1>2
<1> HIDE DEF after
<1>4. after[0] = ca
      /\ \A i \in 1..n : after[i] = CacheSet(after[i - 1], pairs[i][1], pairs[i][2], max)
  BY <1>1, <1>3
<1>5. \A i \in 1..n : after[i - 1] \in D => after[i] \in D
  BY <1>0, <1>4
<1>6. after[n] \in D
  <2> HIDE DEF n
  <2>1. \A i \in 0..n : after[i] \in D
    BY <1>1, <1>4, <1>5, LoopKeeps
  <2> QED
    BY <1>1, <2>1
<1> QED
  BY <1>6 DEF CacheSets, after

(* Loops over a cache leave entries in it.                                 *)
LEMMA CacheGetsKeep ==
    ASSUME NEW K, NEW V, NEW E \in SUBSET (K \X V), NEW ca \in Seq(E),
           NEW T, NEW keys \in Seq(T)
    PROVE  CacheGets(ca, keys) \in Seq(E)
<1>1. \A d \in Seq(E) : \A k : CacheGet(d, k) \in Seq(E)
  BY CacheGetKeeps
<1>2. Len(keys) \in Nat
  OBVIOUS
<1> QED
  BY <1>1, <1>2, CacheGetsStay

(* Nor does a loop that sets entries add any other.                        *)
LEMMA CacheSetsKeep ==
    ASSUME NEW K, NEW V, NEW E \in SUBSET (K \X V), NEW ca \in Seq(E),
           NEW pairs \in Seq(E), NEW max
    PROVE  CacheSets(ca, pairs, max) \in Seq(E)
<1>1. \A i \in 1..Len(pairs) : <<pairs[i][1], pairs[i][2]>> \in E
  <2>1. \A i \in 1..Len(pairs) : pairs[i] \in E
    OBVIOUS
  <2>2. \A p \in E : p = <<p[1], p[2]>>
    OBVIOUS
  <2> QED
    BY <2>1, <2>2
<1>2. \A i \in 1..Len(pairs) : \A d \in Seq(E) :
            CacheSet(d, pairs[i][1], pairs[i][2], max) \in Seq(E)
  BY <1>1, CacheSetKeeps
<1>3. Len(pairs) \in Nat
  OBVIOUS
<1> QED
  BY <1>2, <1>3, CacheSetsStay

(* An entry that is taken out leaves the others, and none with its key.    *)
LEMMA WithoutKey ==
    ASSUME NEW E, NEW ca \in Seq(E), IsKeyed(ca), NEW k
    PROVE  /\ IsKeyed(Without(ca, k)) /\ ~Has(Without(ca, k), k)
           /\ Len(Without(ca, k)) = IF Has(ca, k) THEN Len(ca) - 1 ELSE Len(ca)
<1> DEFINE e == EntryOf(ca, k)
           w == Without(ca, k)
<1>1. CASE ~Has(ca, k)
  BY <1>1 DEF Without
<1>2. CASE Has(ca, k)
  <2>1. e \in 1..Len(ca) /\ ca[e][1] = k
    BY <1>2 DEF Has, EntryOf
  <2>2. w = SubSeq(ca, 1, e - 1) \o SubSeq(ca, e + 1, Len(ca))
    BY <1>2 DEF Without, RemoveAt
  <2> HIDE DEF e, w
  <2>3. /\ Len(w) = Len(ca) - 1
        /\ \A i \in 1..Len(w) : w[i] = IF i < e THEN ca[i] ELSE ca[i + 1]
    <3> DEFINE left == SubSeq(ca, 1, e - 1)
               right == SubSeq(ca, e + 1, Len(ca))
    <3>1. /\ left \in Seq(E) /\ Len(left) = e - 1
          /\ \A i \in 1..(e - 1) : left[i] = ca[i]
      BY <2>1
    <3>2. /\ right \in Seq(E) /\ Len(right) = Len(ca) - e
          /\ \A i \in 1..(Len(ca) - e) : right[i] = ca[e + i]
      BY <2>1
    <3> HIDE DEF left, right
    <3>3. /\ w = left \o right /\ Len(w) = Len(left) + Len(right)
          /\ \A i \in 1..Len(w) :
                w[i] = IF i <= Len(left) THEN left[i] ELSE right[i - Len(left)]
      BY <2>2, <3>1, <3>2 DEF left, right
    <3>4. Len(w) = Len(ca) - 1
      BY <2>1, <3>1, <3>2, <3>3
    <3>5. ASSUME NEW i \in 1..Len(w)
          PROVE  w[i] = IF i < e THEN ca[i] ELSE ca[i + 1]
      <4>1. CASE i < e
        <5>1. i \in 1..(e - 1) /\ i <= Len(left)
          BY <2>1, <3>1, <3>4, <4>1
        <5> QED
          BY <3>1, <3>3, <4>1, <5>1
      <4>2. CASE ~(i < e)
        <5>1. /\ ~(i <= Len(left)) /\ i - Len(left) \in 1..(Len(ca) - e)
              /\ e + (i - Len(left)) = i + 1
          BY <2>1, <3>1, <3>4, <4>2
        <5> QED
          BY <3>2, <3>3, <4>2, <5>1
      <4> QED
        BY <4>1, <4>2
    <3> QED
      BY <3>4, <3>5
  <2> DEFINE from(i) == IF i < e THEN i ELSE i + 1
  <2>4. \A i \in 1..Len(w) : from(i) \in 1..Len(ca) /\ w[i] = ca[from(i)] /\ from(i) # e
    BY <2>1, <2>3
  <2>5. ASSUME NEW i \in 1..Len(w), NEW j \in 1..Len(w), w[i][1] = w[j][1]
        PROVE  i = j
    <3>1. from(i) = from(j)
      <4> HIDE DEF from
      <4> QED
        BY <2>4, <2>5 DEF IsKeyed
    <3> QED
      BY <2>1, <3>1
  <2>6. \A i \in 1..Len(w) : w[i][1] # k
    <3> HIDE DEF from
    <3> QED
      BY <2>1, <2>4 DEF IsKeyed
  <2> QED
    BY <1>2, <2>3, <2>5, <2>6 DEF IsKeyed, Has, w
<1> QED
  BY <1>1, <1>2

(* A key that is not there can be added...                                 *)
LEMMA AppendKey ==
    ASSUME NEW E, NEW ca \in Seq(E), IsKeyed(ca), NEW k, NEW v, ~Has(ca, k)
    PROVE  /\ IsKeyed(Append(ca, <<k, v>>))
           /\ Len(Append(ca, <<k, v>>)) = Len(ca) + 1
<1> DEFINE all == Append(ca, <<k, v>>)
<1>1. /\ Len(all) = Len(ca) + 1 /\ all[Len(ca) + 1] = <<k, v>>
      /\ \A i \in 1..Len(ca) : all[i] = ca[i]
  OBVIOUS
<1>2. \A i \in 1..Len(ca) : ca[i][1] # k
  BY DEF Has
<1> HIDE DEF all
<1>3. all[Len(ca) + 1][1] = k
  BY <1>1
<1>4. \A i \in 1..Len(all) : i \in 1..Len(ca) \/ i = Len(ca) + 1
  BY <1>1
<1>5. IsKeyed(all)
  BY <1>1, <1>2, <1>3, <1>4 DEF IsKeyed
<1> QED
  BY <1>1, <1>5 DEF all

(* ...and the oldest entry dropped.                                        *)
LEMMA TailKey ==
    ASSUME NEW E, NEW ca \in Seq(E), IsKeyed(ca), ca # <<>>
    PROVE  IsKeyed(Tail(ca)) /\ Len(Tail(ca)) = Len(ca) - 1
<1> DEFINE rest == Tail(ca)
<1>1. /\ Len(rest) = Len(ca) - 1
      /\ \A i \in 1..Len(rest) : i + 1 \in 1..Len(ca) /\ rest[i] = ca[i + 1]
  OBVIOUS
<1> HIDE DEF rest
<1>2. ASSUME NEW i \in 1..Len(rest), NEW j \in 1..Len(rest), rest[i][1] = rest[j][1]
      PROVE  i = j
  <2>1. i + 1 = j + 1
    BY <1>1, <1>2 DEF IsKeyed
  <2> QED
    BY <2>1
<1> QED
  BY <1>1, <1>2 DEF IsKeyed, rest

(* A cache that is set by one entry stays keyed and within its size, and a *)
(* lookup leaves it so.                                                    *)
LEMMA CacheGetIsWithin ==
    ASSUME NEW E, NEW ca \in Seq(E), NEW max \in Nat, IsWithin(ca, max), NEW k
    PROVE  IsWithin(CacheGet(ca, k), max)
<1>1. CASE ~Has(ca, k)
  BY <1>1 DEF CacheGet
<1>2. CASE Has(ca, k)
  <2>1. /\ Without(ca, k) \in Seq(E) /\ IsKeyed(Without(ca, k))
        /\ ~Has(Without(ca, k), k) /\ Len(Without(ca, k)) = Len(ca) - 1
    BY <1>2, WithoutType, WithoutKey DEF IsWithin
  <2>2. /\ IsKeyed(Append(Without(ca, k), <<k, Value(ca, k)>>))
        /\ Len(Append(Without(ca, k), <<k, Value(ca, k)>>)) = Len(ca) - 1 + 1
    BY <2>1, AppendKey
  <2>3. Len(ca) \in Nat
    OBVIOUS
  <2> QED
    BY <1>2, <2>2, <2>3 DEF CacheGet, IsWithin
<1> QED
  BY <1>1, <1>2

LEMMA CacheSetIsWithin ==
    ASSUME NEW E, NEW ca \in Seq(E), NEW max \in Nat, IsWithin(ca, max),
           NEW k, NEW v, <<k, v>> \in E
    PROVE  IsWithin(CacheSet(ca, k, v, max), max)
<1> DEFINE w == Without(ca, k)
           all == Append(w, <<k, v>>)
<1>1. w \in Seq(E) /\ IsKeyed(w) /\ ~Has(w, k) /\ Len(w) <= max
  <2>1. Len(w) = Len(ca) - 1 \/ Len(w) = Len(ca)
    BY WithoutKey DEF IsWithin
  <2>2. Len(ca) \in Nat /\ Len(ca) <= max
    BY DEF IsWithin
  <2>3. w \in Seq(E) /\ IsKeyed(w) /\ ~Has(w, k)
    BY WithoutType, WithoutKey DEF IsWithin
  <2> HIDE DEF w
  <2> QED
    BY <2>1, <2>2, <2>3
<1>2. CacheSet(ca, k, v, max) = IF Len(all) > max THEN Tail(all) ELSE all
  BY DEF CacheSet
<1> HIDE DEF w
<1>3. IsKeyed(all) /\ Len(all) = Len(w) + 1 /\ all \in Seq(E)
  BY <1>1, AppendKey
<1> HIDE DEF all
<1>4. CASE Len(all) > max
  <2>1. all # <<>>
    BY <1>4
  <2>2. IsKeyed(Tail(all)) /\ Len(Tail(all)) = Len(all) - 1
    BY <1>3, <2>1, TailKey
  <2>3. Len(w) \in Nat
    BY <1>1
  <2> QED
    BY <1>1, <1>2, <1>3, <1>4, <2>2, <2>3 DEF IsWithin
<1>5. CASE ~(Len(all) > max)
  <2>1. Len(all) \in Nat
    BY <1>3
  <2> QED
    BY <1>2, <1>3, <1>5, <2>1 DEF IsWithin
<1> QED
  BY <1>4, <1>5

(* So do loops of either.                                                  *)
LEMMA CacheGetsAreWithin ==
    ASSUME NEW K, NEW V, NEW E \in SUBSET (K \X V), NEW ca \in Seq(E),
           NEW max \in Nat, IsWithin(ca, max), NEW T, NEW keys \in Seq(T)
    PROVE  IsWithin(CacheGets(ca, keys), max)
<1> DEFINE D == {d \in Seq(E) : IsWithin(d, max)}
<1>1. \A d \in D : \A k : CacheGet(d, k) \in D
  BY CacheGetKeeps, CacheGetIsWithin
<1>2. Len(keys) \in Nat /\ ca \in D
  OBVIOUS
<1>3. CacheGets(ca, keys) \in D
  <2> HIDE DEF D
  <2> QED
    BY <1>1, <1>2, CacheGetsStay
<1> QED
  BY <1>3

LEMMA CacheSetsAreWithin ==
    ASSUME NEW K, NEW V, NEW E \in SUBSET (K \X V), NEW ca \in Seq(E),
           NEW max \in Nat, IsWithin(ca, max), NEW pairs \in Seq(E)
    PROVE  IsWithin(CacheSets(ca, pairs, max), max)
<1> DEFINE D == {d \in Seq(E) : IsWithin(d, max)}
<1>1. \A i \in 1..Len(pairs) : <<pairs[i][1], pairs[i][2]>> \in E
  <2>1. \A i \in 1..Len(pairs) : pairs[i] \in E
    OBVIOUS
  <2>2. \A p \in E : p = <<p[1], p[2]>>
    OBVIOUS
  <2> QED
    BY <2>1, <2>2
<1>2. \A i \in 1..Len(pairs) : \A d \in D :
            CacheSet(d, pairs[i][1], pairs[i][2], max) \in D
  BY <1>1, CacheSetKeeps, CacheSetIsWithin
<1>3. Len(pairs) \in Nat /\ ca \in D
  OBVIOUS
<1>4. CacheSets(ca, pairs, max) \in D
  <2> HIDE DEF D
  <2> QED
    BY <1>2, <1>3, CacheSetsStay
<1> QED
  BY <1>4

-----------------------------------------------------------------------------
(* The memory search.                                                      *)

(* The deques: in order, nothing later than now; what a history has is     *)
(* what is left of the deque.                                              *)
Ordered(s) == \A i, j \in 1..Len(s) : i <= j => s[i] <= s[j]
NotAfter(s, t) == \A i \in 1..Len(s) : s[i] <= t
Fresh(s, t) == \A i \in 1..Len(s) : s[i] + Window >= t

(* _keys_in_order has the tracked addresses, each once, and they are no    *)
(* more than _MAX_KEYS.                                                    *)
Tracked ==
    /\ now \in Nat
    /\ IsFiniteSet(DOMAIN hits) /\ Cardinality(DOMAIN hits) <= MaxKeys
    /\ order \in Seq(Address) /\ IsInjective(order)
    /\ ToSet(order) = DOMAIN hits

(* A deque is in order, and what of it is not stale is what was let in.    *)
Deques ==
    \A a \in DOMAIN hits :
        /\ hits[a] \in Seq(Nat) /\ Ordered(hits[a]) /\ NotAfter(hits[a], now)
        /\ Recent(hits[a], now) = accepted[a]

(* What was let in lies in the window, is no more than the limit, and is   *)
(* nothing for an address that was forgotten.                              *)
Histories ==
    /\ accepted \in [Address -> Seq(Nat)]
    /\ \A a \in Address :
        /\ Ordered(accepted[a]) /\ NotAfter(accepted[a], now)
        /\ Fresh(accepted[a], now) /\ Len(accepted[a]) <= MaxRequests
        /\ a \notin DOMAIN hits => accepted[a] = <<>>

(* The invariant of the limiter: the limit holds because the deque is the  *)
(* history but for what is stale.                                          *)
RateInv == Tracked /\ Deques /\ Histories

(* What the cache may hold for a text: its vector, or an empty one.        *)
Entries == {p \in Text \X (Text \cup {NoVector}) : p[2] \in {p[1], NoVector}}

(* Each row of an answer has the score of its own edge.                    *)
RowsOf(r) ==
    \A i \in 1..Len(reply[r].rows) :
        reply[r].rows[i].score = IF reply[r].rows[i].edge \in ToSet(scores[r])
                                 THEN reply[r].rows[i].edge ELSE NoScore

(* The rows are those the gate leaves, or the first ones.                  *)
GateOf(r) ==
    reply[r].code = "OK" =>
        [i \in 1..Len(reply[r].rows) |-> reply[r].rows[i].edge]
            = Cut(IF reply[r].gate THEN Near(found[r], query[r]) ELSE found[r], Limit[r])

(* From one await to the next a request has no answer yet, and the vector  *)
(* it holds is that of its query or none.                                  *)
Good(r) ==
    /\ pc[r] \in {"idle", "done"} \cup Live
    /\ pc[r] \in Live => query[r] \in Text
    /\ found[r] \in Seq(Edge) /\ scores[r] \in Seq(Edge)
    /\ pc[r] \in Live => reply[r] = NoReply
    /\ pc[r] = "searching" => vector[r] \in {query[r], NoVector}
    /\ pc[r] = "loading" => vector[r] = query[r]
    /\ Len(scores[r]) <= Len(found[r])
    /\ \A i \in 1..Len(scores[r]) : scores[r][i] = found[r][i]
    /\ RowsOf(r) /\ GateOf(r)

(* Every request has its place in every table.                             *)
Shapes ==
    /\ DOMAIN pc = Request /\ DOMAIN query = Request /\ DOMAIN vector = Request
    /\ DOMAIN found = Request /\ DOMAIN scores = Request /\ DOMAIN reply = Request

(* The invariant of the answers: nothing is cached for a text but its own  *)
(* vector or none.                                                         *)
AnswersInv ==
    /\ Shapes /\ cache \in Seq(Entries)
    /\ \A r \in Request : Good(r)

(* popleft stops at n.                                                     *)
StopsAt(s, t, n) ==
    /\ \A i \in 1..n : s[i] + Window < t
    /\ n < Len(s) => s[n + 1] + Window >= t

(* popleft stops somewhere...                                              *)
LEMMA StopExists ==
    ASSUME MemorySearchAssumption, NEW s \in Seq(Nat), NEW t \in Nat
    PROVE  \E n \in 0..Len(s) : StopsAt(s, t, n)
<1> DEFINE stops == {n \in 0..Len(s) : n = Len(s) \/ s[n + 1] + Window >= t}
<1>1. Window \in Nat /\ Len(s) \in Nat
  BY DEF MemorySearchAssumption
<1>2. stops \in SUBSET Nat /\ Len(s) \in stops
  BY <1>1
<1>3. PICK n \in stops : \A m \in stops : n <= m
  <2> HIDE DEF stops
  <2> QED
    BY <1>2, Smallest
<1>4. ASSUME NEW i \in 1..n
      PROVE  s[i] + Window < t
  <2>1. i \in Nat /\ i - 1 \in 0..Len(s) /\ i - 1 # Len(s) /\ i \in 1..Len(s)
    BY <1>1, <1>2
  <2>2. i - 1 \notin stops
    <3> HIDE DEF stops
    <3>1. n \in Nat /\ ~(n <= i - 1)
      BY <1>2
    <3> QED
      BY <1>3, <3>1
  <2>3. ~(s[(i - 1) + 1] + Window >= t)
    BY <2>1, <2>2
  <2>4. (i - 1) + 1 = i /\ s[i] \in Nat
    BY <2>1
  <2> QED
    BY <2>3, <2>4, <1>1
<1>5. n < Len(s) => s[n + 1] + Window >= t
  BY <1>1
<1> QED
  BY <1>4, <1>5 DEF StopsAt

(* ...and, ordered or not, at one place only.                  *)
LEMMA StopUnique ==
    ASSUME MemorySearchAssumption, NEW s \in Seq(Nat), NEW t \in Nat,
           NEW n \in 0..Len(s), NEW m \in 0..Len(s), StopsAt(s, t, n), StopsAt(s, t, m)
    PROVE  n = m
<1>1. ASSUME NEW x \in 0..Len(s), NEW y \in 0..Len(s),
             StopsAt(s, t, x), StopsAt(s, t, y), x < y
      PROVE  FALSE
  <2>1. x + 1 \in 1..y /\ x < Len(s) /\ x + 1 \in 1..Len(s)
    BY <1>1
  <2>2. s[x + 1] + Window < t /\ s[x + 1] + Window >= t
    BY <1>1, <2>1 DEF StopsAt
  <2>3. s[x + 1] + Window \in Nat
    BY <2>1 DEF MemorySearchAssumption
  <2> QED
    BY <2>2, <2>3
<1>2. ~(n < m) /\ ~(m < n)
  BY <1>1
<1> QED
  BY <1>2

(* What is left of a deque is what follows that place.                     *)
LEMMA RecentIs ==
    ASSUME MemorySearchAssumption, NEW s \in Seq(Nat), NEW t \in Nat,
           NEW n \in 0..Len(s), StopsAt(s, t, n)
    PROVE  Recent(s, t) = SubSeq(s, n + 1, Len(s))
<1> DEFINE old == CHOOSE k \in 0..Len(s) :
                       /\ \A i \in 1..k : s[i] + Window < t
                       /\ k < Len(s) => s[k + 1] + Window >= t
<1>1. old \in 0..Len(s) /\ StopsAt(s, t, old)
  BY DEF StopsAt
<1>2. old = n
  <2> HIDE DEF old
  <2> QED
    BY <1>1, StopUnique
<1> QED
  BY <1>2 DEF Recent

(* A list in order is left with what is within the window.                 *)
LEMMA RecentIsFresh ==
    ASSUME MemorySearchAssumption, NEW s \in Seq(Nat), Ordered(s), NEW t \in Nat
    PROVE  /\ Recent(s, t) = Selected(s, {i \in 1..Len(s) : s[i] + Window >= t})
           /\ Recent(s, t) \in Seq(Nat)
           /\ Ordered(Recent(s, t))
           /\ Fresh(Recent(s, t), t)
           /\ Len(Recent(s, t)) <= Len(s)
           /\ \A i \in 1..Len(Recent(s, t)) : \E j \in 1..Len(s) : Recent(s, t)[i] = s[j]
<1>1. PICK n \in 0..Len(s) : StopsAt(s, t, n)
  BY StopExists
<1>2. Recent(s, t) = SubSeq(s, n + 1, Len(s))
  BY <1>1, RecentIs
<1> DEFINE rest == SubSeq(s, n + 1, Len(s))
<1>3. /\ rest \in Seq(Nat) /\ Len(rest) = Len(s) - n
      /\ \A i \in 1..Len(rest) : i + n \in 1..Len(s) /\ rest[i] = s[i + n]
  OBVIOUS
<1>4. \A i \in 1..Len(s) : s[i] + Window >= t <=> i \in (n + 1)..Len(s)
  <2>1. ASSUME NEW i \in 1..Len(s), i <= n
        PROVE  ~(s[i] + Window >= t)
    <3>1. s[i] + Window < t
      BY <1>1, <2>1 DEF StopsAt
    <3>2. s[i] + Window \in Nat
      BY DEF MemorySearchAssumption
    <3> QED
      BY <3>1, <3>2
  <2>2. ASSUME NEW i \in 1..Len(s), n + 1 <= i
        PROVE  s[i] + Window >= t
    <3>1. n < Len(s) /\ n + 1 \in 1..Len(s)
      BY <2>2
    <3>2. s[n + 1] + Window >= t
      BY <1>1, <3>1 DEF StopsAt
    <3>3. s[n + 1] <= s[i]
      BY <2>2, <3>1 DEF Ordered
    <3>4. s[n + 1] \in Nat /\ s[i] \in Nat /\ Window \in Nat
      BY <3>1 DEF MemorySearchAssumption
    <3> QED
      BY <3>2, <3>3, <3>4
  <2> QED
    BY <2>1, <2>2
<1>5. {i \in 1..Len(s) : s[i] + Window >= t} = (n + 1)..Len(s)
  <2>1. \A i \in (n + 1)..Len(s) : i \in 1..Len(s)
    OBVIOUS
  <2> QED
    BY <1>4, <2>1
<1>6. rest = Selected(s, {i \in 1..Len(s) : s[i] + Window >= t})
  BY <1>5, SelectedRest
<1>7. Ordered(rest)
  <2> HIDE DEF rest
  <2>1. ASSUME NEW i \in 1..Len(rest), NEW j \in 1..Len(rest), i <= j
        PROVE  rest[i] <= rest[j]
    <3>1. i + n \in 1..Len(s) /\ j + n \in 1..Len(s)
      BY <1>3
    <3>2. i + n <= j + n
      <4>1. i \in Int /\ j \in Int /\ n \in Int
        OBVIOUS
      <4> QED
        BY <2>1, <4>1
    <3> QED
      BY <1>3, <3>1, <3>2 DEF Ordered
  <2> QED
    BY <2>1 DEF Ordered
<1>8. Fresh(rest, t)
  <2> HIDE DEF rest
  <2>1. ASSUME NEW i \in 1..Len(rest)
        PROVE  rest[i] + Window >= t
    <3>1. i + n \in 1..Len(s) /\ i + n \in (n + 1)..Len(s)
      BY <1>3
    <3> QED
      BY <1>3, <1>4, <3>1
  <2> QED
    BY <2>1 DEF Fresh
<1> HIDE DEF rest
<1> QED
  BY <1>2, <1>3, <1>6, <1>7, <1>8 DEF rest

(* What is within the window stays.                                        *)
LEMMA FreshStays ==
    ASSUME MemorySearchAssumption, NEW s \in Seq(Nat), NEW t \in Nat, Fresh(s, t)
    PROVE  Recent(s, t) = s
<1>1. StopsAt(s, t, 0)
  BY DEF StopsAt, Fresh
<1>2. Recent(s, t) = SubSeq(s, 1, Len(s))
  BY <1>1, RecentIs
<1> QED
  BY <1>2

(* Looking twice, the second time later, is looking once.                  *)
LEMMA RecentTwice ==
    ASSUME MemorySearchAssumption, NEW s \in Seq(Nat), NEW t \in Nat
    PROVE  Recent(Recent(s, t), t + 1) = Recent(s, t + 1)
<1>0. t + 1 \in Nat
  OBVIOUS
<1>1. PICK n \in 0..Len(s) : StopsAt(s, t, n)
  BY StopExists
<1>2. PICK m \in 0..Len(s) : StopsAt(s, t + 1, m)
  BY <1>0, StopExists
<1> DEFINE rest == SubSeq(s, n + 1, Len(s))
<1>3. Recent(s, t) = rest /\ Recent(s, t + 1) = SubSeq(s, m + 1, Len(s))
  BY <1>0, <1>1, <1>2, RecentIs
<1>4. /\ rest \in Seq(Nat) /\ Len(rest) = Len(s) - n
      /\ \A i \in 1..Len(rest) : i + n \in 1..Len(s) /\ rest[i] = s[i + n]
  <2>1. Len(rest) = Len(s) - n /\ rest \in Seq(Nat)
    OBVIOUS
  <2>2. rest = [i \in 1..(Len(s) - n) |-> s[i + n]]
    OBVIOUS
  <2> HIDE DEF rest
  <2> QED
    BY <2>1, <2>2
<1>5. n <= m
  <2>1. ASSUME m < n
        PROVE  FALSE
    <3>1. m < Len(s) /\ m + 1 \in 1..n /\ m + 1 \in 1..Len(s)
      BY <2>1
    <3>2. s[m + 1] + Window < t /\ s[m + 1] + Window >= t + 1
      BY <1>1, <1>2, <3>1 DEF StopsAt
    <3>3. s[m + 1] + Window \in Nat
      BY <3>1 DEF MemorySearchAssumption
    <3> QED
      BY <3>2, <3>3
  <2> QED
    BY <2>1
<1>6. m - n \in 0..Len(rest) /\ StopsAt(rest, t + 1, m - n)
  <2> HIDE DEF rest
  <2>1. m - n \in 0..Len(rest)
    BY <1>4, <1>5
  <2>2. ASSUME NEW i \in 1..(m - n)
        PROVE  rest[i] + Window < t + 1
    <3>1. i \in 1..Len(rest) /\ i + n \in 1..m
      BY <1>4, <1>5
    <3>2. s[i + n] + Window < t + 1
      BY <1>2, <3>1 DEF StopsAt
    <3>3. rest[i] = s[i + n]
      BY <1>4, <3>1
    <3> QED
      BY <3>2, <3>3, Zenon
  <2>3. ASSUME m - n < Len(rest)
        PROVE  rest[m - n + 1] + Window >= t + 1
    <3>1. m < Len(s) /\ m - n + 1 \in 1..Len(rest) /\ m - n + 1 + n = m + 1
      BY <1>4, <1>5, <2>3
    <3>2. s[m + 1] + Window >= t + 1
      BY <1>2, <3>1 DEF StopsAt
    <3>3. rest[m - n + 1] = s[m + 1]
      BY <1>4, <3>1
    <3> QED
      BY <3>2, <3>3, Zenon
  <2> QED
    BY <2>1, <2>2, <2>3 DEF StopsAt
<1>7. Recent(rest, t + 1) = SubSeq(rest, m - n + 1, Len(rest))
  <2> HIDE DEF rest
  <2> QED
    BY <1>0, <1>4, <1>6, RecentIs
<1>8. SubSeq(rest, m - n + 1, Len(rest)) = SubSeq(s, m + 1, Len(s))
  <2> DEFINE whole == SubSeq(s, m + 1, Len(s))
             part == SubSeq(rest, m - n + 1, Len(rest))
  <2>1. whole \in Seq(Nat) /\ Len(whole) = Len(s) - m
        /\ \A i \in 1..Len(whole) : whole[i] = s[i + m]
    OBVIOUS
  <2>2. part \in Seq(Nat) /\ Len(part) = Len(rest) - (m - n)
        /\ \A i \in 1..Len(part) : part[i] = rest[i + (m - n)]
    <3> HIDE DEF rest
    <3> QED
      BY <1>4, <1>6
  <2> HIDE DEF rest, whole, part
  <2>3. ASSUME NEW i \in 1..Len(part)
        PROVE  part[i] = whole[i]
    <3>1. i + (m - n) \in 1..Len(rest) /\ i + (m - n) + n = i + m /\ i \in 1..Len(whole)
      BY <1>4, <1>6, <2>1, <2>2
    <3> QED
      BY <1>4, <2>1, <2>2, <3>1
  <2>4. Len(part) = Len(whole)
    BY <1>4, <2>1, <2>2
  <2>5. part = whole
    BY <2>1, <2>2, <2>3, <2>4, SeqEqual
  <2> QED
    BY <2>5 DEF whole, part
<1> QED
  BY <1>3, <1>7, <1>8

-----------------------------------------------------------------------------
(* The limiter and its history.                                            *)

(* Now, a late entry is fresh and in order.                                *)
LEMMA Recorded ==
    ASSUME MemorySearchAssumption, NEW b \in Seq(Nat), NEW t \in Nat,
           Ordered(b), NotAfter(b, t), Fresh(b, t)
    PROVE  /\ Append(b, t) \in Seq(Nat) /\ Len(Append(b, t)) = Len(b) + 1
           /\ Ordered(Append(b, t)) /\ NotAfter(Append(b, t), t)
           /\ Fresh(Append(b, t), t)
<1> DEFINE all == Append(b, t)
<1>1. /\ all \in Seq(Nat) /\ Len(all) = Len(b) + 1
      /\ \A i \in 1..Len(all) : all[i] = IF i <= Len(b) THEN b[i] ELSE t
  OBVIOUS
<1>2. Window \in Nat
  BY DEF MemorySearchAssumption
<1> HIDE DEF all
<1>3. \A i \in 1..Len(all) : all[i] <= t /\ (~(i <= Len(b)) => all[i] = t)
  BY <1>1 DEF NotAfter
<1>4. Ordered(all)
  <2>1. ASSUME NEW i \in 1..Len(all), NEW j \in 1..Len(all), i <= j
        PROVE  all[i] <= all[j]
    <3>1. CASE j <= Len(b)
      <4>1. i \in 1..Len(b) /\ j \in 1..Len(b)
        BY <1>1, <2>1, <3>1
      <4>2. b[i] <= b[j]
        BY <2>1, <4>1 DEF Ordered
      <4>3. all[i] = b[i] /\ all[j] = b[j]
        BY <1>1, <4>1
      <4> QED
        BY <4>2, <4>3
    <3>2. CASE ~(j <= Len(b))
      BY <1>3, <3>2
    <3> QED
      BY <3>1, <3>2
  <2> QED
    BY <2>1 DEF Ordered
<1>5. Fresh(all, t)
  <2>1. ASSUME NEW i \in 1..Len(all)
        PROVE  all[i] + Window >= t
    <3>1. CASE i <= Len(b)
      <4>1. i \in 1..Len(b) /\ all[i] = b[i]
        BY <1>1, <3>1
      <4> QED
        BY <4>1 DEF Fresh
    <3>2. CASE ~(i <= Len(b))
      BY <1>2, <1>3, <3>2
    <3> QED
      BY <3>1, <3>2
  <2> QED
    BY <2>1 DEF Fresh
<1> QED
  BY <1>1, <1>3, <1>4, <1>5 DEF all, NotAfter

(* A tick makes hits stale in the deque and in the history alike.          *)
LEMMA TickRate ==
    ASSUME MemorySearchAssumption, RateInv, Tick
    PROVE  RateInv'
<1>1. /\ now \in Nat /\ now' = now + 1 /\ now' \in Nat
      /\ hits' = hits /\ order' = order
  BY DEF RateInv, Tracked, Tick
<1>2. ASSUME NEW a \in Address
      PROVE  accepted'[a] = Recent(accepted[a], now + 1)
  <2>1. accepted[a] \in Seq(Nat) /\ Ordered(accepted[a])
    BY DEF RateInv, Histories
  <2>2. accepted'[a] = Selected(accepted[a], {i \in 1..Len(accepted[a]) :
                                                accepted[a][i] + Window >= now + 1})
    BY <1>1 DEF Tick
  <2> QED
    BY <1>1, <2>1, <2>2, RecentIsFresh
<1>3. Tracked'
  BY <1>1 DEF RateInv, Tracked
<1>4. ASSUME NEW a \in DOMAIN hits
      PROVE  /\ hits[a] \in Seq(Nat) /\ Ordered(hits[a]) /\ NotAfter(hits[a], now + 1)
             /\ Recent(hits[a], now + 1) = accepted'[a]
  <2>1. a \in Address
    BY DEF RateInv, Tracked, ToSet
  <2>2. /\ hits[a] \in Seq(Nat) /\ Ordered(hits[a]) /\ NotAfter(hits[a], now)
        /\ Recent(hits[a], now) = accepted[a]
    BY DEF RateInv, Deques
  <2>3. NotAfter(hits[a], now + 1)
    BY <1>1, <2>2 DEF NotAfter
  <2>4. Recent(hits[a], now + 1) = accepted'[a]
    BY <1>1, <1>2, <2>1, <2>2, RecentTwice
  <2> QED
    BY <2>2, <2>3, <2>4
<1>5. Deques'
  <2>1. \A a \in DOMAIN hits' :
          /\ hits'[a] \in Seq(Nat) /\ Ordered(hits'[a]) /\ NotAfter(hits'[a], now')
          /\ Recent(hits'[a], now') = accepted'[a]
    BY <1>1, <1>4
  <2> QED
    BY <2>1 DEF Deques, Recent, Ordered, NotAfter
<1>6. ASSUME NEW a \in Address
      PROVE  /\ accepted'[a] \in Seq(Nat) /\ Ordered(accepted'[a])
             /\ NotAfter(accepted'[a], now + 1) /\ Fresh(accepted'[a], now + 1)
             /\ Len(accepted'[a]) <= MaxRequests
             /\ a \notin DOMAIN hits => accepted'[a] = <<>>
  <2> DEFINE old == accepted[a]
             left == Recent(accepted[a], now + 1)
  <2>1. /\ old \in Seq(Nat) /\ Ordered(old) /\ NotAfter(old, now)
        /\ Len(old) <= MaxRequests /\ (a \notin DOMAIN hits => old = <<>>)
    BY DEF RateInv, Histories
  <2>2. MaxRequests \in Nat /\ now + 1 \in Nat
    BY <1>1 DEF MemorySearchAssumption
  <2> HIDE DEF old
  <2>3. /\ left \in Seq(Nat) /\ Ordered(left) /\ Fresh(left, now + 1)
        /\ Len(left) <= Len(old)
        /\ \A i \in 1..Len(left) : \E j \in 1..Len(old) : left[i] = old[j]
    BY <2>1, <2>2, RecentIsFresh DEF old
  <2> HIDE DEF left
  <2>4. NotAfter(left, now + 1)
    <3>1. ASSUME NEW i \in 1..Len(left)
          PROVE  left[i] <= now + 1
      <4>1. PICK j \in 1..Len(old) : left[i] = old[j]
        BY <2>3
      <4>2. old[j] <= now /\ old[j] \in Nat
        BY <2>1 DEF NotAfter
      <4> QED
        BY <1>1, <4>1, <4>2
    <3> QED
      BY <3>1 DEF NotAfter
  <2>5. Len(left) <= MaxRequests /\ (a \notin DOMAIN hits => left = <<>>)
    BY <2>1, <2>2, <2>3
  <2>6. accepted'[a] = left
    BY <1>2 DEF left
  <2> QED
    BY <2>3, <2>4, <2>5, <2>6
<1>7. Histories'
  <2>1. DOMAIN accepted' = Address /\ accepted' = [a \in Address |-> accepted'[a]]
    BY DEF Tick
  <2>2. accepted' \in [Address -> Seq(Nat)]
    BY <1>6, <2>1
  <2> QED
    BY <1>1, <1>6, <2>2 DEF Histories, Ordered, NotAfter, Fresh
<1> QED
  BY <1>3, <1>5, <1>7 DEF RateInv

(* A newcomer that finds the table full takes the place of the first.      *)
LEMMA EvictedIsFirst ==
    ASSUME MemorySearchAssumption, RateInv, NEW a \in Address, Evicted(a) # {}
    PROVE  /\ a \notin DOMAIN hits /\ order # <<>>
           /\ Evicted(a) = {order[1]} /\ order[1] \in DOMAIN hits
<1>1. a \notin DOMAIN hits /\ Cardinality(DOMAIN hits) >= MaxKeys
      /\ Evicted(a) = ToSet(SubSeq(order, 1, 1))
  BY DEF Evicted
<1>2. order \in Seq(Address) /\ ToSet(order) = DOMAIN hits
  BY DEF RateInv, Tracked
<1>3. MaxKeys \in Nat /\ MaxKeys # 0
  BY DEF MemorySearchAssumption
<1>4. order # <<>>
  <2>1. ASSUME order = <<>>
        PROVE  FALSE
    <3>1. DOMAIN hits = {}
      <4>1. ~ \E i \in 1..Len(order) : TRUE
        BY <2>1
      <4> QED
        BY <1>2, <4>1, Elements
    <3>2. Cardinality(DOMAIN hits) = 0
      BY <3>1, FS_EmptySet
    <3> QED
      BY <1>1, <1>3, <3>2
  <2> QED
    BY <2>1
<1>5. Len(order) \in Nat /\ 1 \in 1..Len(order)
  BY <1>2, <1>4
<1>6. /\ SubSeq(order, 1, 1) \in Seq(Address) /\ Len(SubSeq(order, 1, 1)) = 1
      /\ SubSeq(order, 1, 1)[1] = order[1]
  BY <1>2, <1>5
<1>7. ToSet(SubSeq(order, 1, 1)) = {order[1]}
  <2>1. \A x : x \in ToSet(SubSeq(order, 1, 1))
                <=> \E i \in 1..1 : SubSeq(order, 1, 1)[i] = x
    <3> DEFINE first == SubSeq(order, 1, 1)
    <3>1. first \in Seq(Address) /\ Len(first) = 1
      BY <1>6
    <3> HIDE DEF first
    <3>2. \A x : x \in ToSet(first) <=> \E i \in 1..1 : first[i] = x
      BY <3>1, Elements
    <3> QED
      BY <3>2 DEF first
  <2>2. \A x : (\E i \in 1..1 : SubSeq(order, 1, 1)[i] = x) <=> x = order[1]
    <3>1. \A i : i \in 1..1 <=> i = 1
      OBVIOUS
    <3> QED
      BY <1>6, <3>1, Zenon
  <2> QED
    BY <2>1, <2>2, Zenon
<1> QED
  BY <1>1, <1>2, <1>4, <1>5, <1>6, <1>7 DEF ToSet

(* What Consume does to the table.                                         *)
LEMMA ConsumeTracks ==
    ASSUME MemorySearchAssumption, RateInv, NEW a \in Address, Consume(a)
    PROVE  /\ order' \in Seq(Address) /\ IsInjective(order')
           /\ ToSet(order') = DOMAIN hits'
           /\ IsFiniteSet(DOMAIN hits') /\ Cardinality(DOMAIN hits') <= MaxKeys
<1> DEFINE kept == IF Evicted(a) = {} THEN order ELSE Tail(order)
<1>1. order \in Seq(Address) /\ IsInjective(order) /\ ToSet(order) = DOMAIN hits
  BY DEF RateInv, Tracked
<1>2. DOMAIN hits' = (DOMAIN hits \ Evicted(a)) \cup {a} /\ order' = Enlist(kept, a)
  BY DEF Consume
<1>3. /\ kept \in Seq(Address) /\ IsInjective(kept)
      /\ ToSet(kept) = DOMAIN hits \ Evicted(a)
  <2>1. CASE Evicted(a) = {}
    BY <1>1, <2>1
  <2>2. CASE Evicted(a) # {}
    <3>1. order # <<>> /\ Evicted(a) = {order[1]}
      BY <2>2, EvictedIsFirst
    <3>2. /\ Tail(order) \in Seq(Address) /\ IsInjective(Tail(order))
          /\ ToSet(Tail(order)) = ToSet(order) \ {order[1]}
      BY <1>1, <3>1, TailDrops
    <3>3. kept = Tail(order)
      BY <2>2
    <3> QED
      BY <1>1, <3>1, <3>2, <3>3
  <2> QED
    BY <2>1, <2>2
<1> HIDE DEF kept
<1>4. IsFiniteSet(DOMAIN hits') /\ Cardinality(DOMAIN hits') <= MaxKeys
  <2>1. /\ IsFiniteSet(DOMAIN hits) /\ Cardinality(DOMAIN hits) \in Nat
        /\ Cardinality(DOMAIN hits) <= MaxKeys /\ MaxKeys \in Nat
    BY FS_CardinalityType DEF RateInv, Tracked, MemorySearchAssumption
  <2>2. CASE a \in DOMAIN hits
    <3>1. DOMAIN hits' = DOMAIN hits
      BY <1>2, <2>2 DEF Evicted
    <3> QED
      BY <2>1, <3>1
  <2>3. CASE a \notin DOMAIN hits /\ Cardinality(DOMAIN hits) < MaxKeys
    <3>1. DOMAIN hits' = DOMAIN hits \cup {a}
      BY <1>2, <2>1, <2>3 DEF Evicted
    <3>2. /\ IsFiniteSet(DOMAIN hits')
          /\ Cardinality(DOMAIN hits') = Cardinality(DOMAIN hits) + 1
      BY <2>1, <2>3, <3>1, FS_AddElement
    <3> QED
      BY <2>1, <2>3, <3>2
  <2>4. CASE a \notin DOMAIN hits /\ Evicted(a) # {}
    <3> DEFINE left == DOMAIN hits \ Evicted(a)
    <3>1. /\ IsFiniteSet(left) /\ Cardinality(left) = Cardinality(DOMAIN hits) - 1
          /\ a \notin left
      <4>1. left = DOMAIN hits \ {order[1]} /\ order[1] \in DOMAIN hits
        BY <2>4, EvictedIsFirst
      <4>2. /\ IsFiniteSet(DOMAIN hits \ {order[1]})
            /\ Cardinality(DOMAIN hits \ {order[1]}) = Cardinality(DOMAIN hits) - 1
        BY <2>1, <4>1, FS_RemoveElement
      <4>3. a \notin left
        BY <2>4
      <4> HIDE DEF left
      <4> QED
        BY <4>1, <4>2, <4>3
    <3>2. DOMAIN hits' = left \cup {a}
      BY <1>2
    <3> HIDE DEF left
    <3>3. IsFiniteSet(DOMAIN hits') /\ Cardinality(DOMAIN hits') = Cardinality(left) + 1
      BY <3>1, <3>2, FS_AddElement
    <3> QED
      BY <2>1, <3>1, <3>3
  <2>5. CASE a \notin DOMAIN hits /\ Evicted(a) = {} /\ ~(Cardinality(DOMAIN hits) < MaxKeys)
    <3>1. ToSet(SubSeq(order, 1, 1)) = {}
      BY <2>1, <2>5 DEF Evicted
    <3>2. order # <<>>
      <4>1. MaxKeys # 0
        BY DEF MemorySearchAssumption
      <4>2. DOMAIN hits # {}
        BY <2>1, <2>5, <4>1, FS_EmptySet
      <4>3. PICK i \in 1..Len(order) : TRUE
        BY <1>1, <4>2, Elements
      <4> QED
        BY <4>3
    <3>3. SubSeq(order, 1, 1) \in Seq(Address) /\ Len(SubSeq(order, 1, 1)) = 1
      BY <1>1, <3>2
    <3>4. SubSeq(order, 1, 1)[1] \in ToSet(SubSeq(order, 1, 1))
      <4> DEFINE first == SubSeq(order, 1, 1)
      <4>1. first \in Seq(Address) /\ 1 \in 1..Len(first)
        BY <3>3
      <4> HIDE DEF first
      <4>2. first[1] \in ToSet(first)
        BY <4>1, Elements
      <4> QED
        BY <4>2 DEF first
    <3> QED
      BY <3>1, <3>4
  <2> QED
    BY <2>2, <2>3, <2>4, <2>5
<1>5. CASE a \in ToSet(kept)
  BY <1>2, <1>3, <1>4, <1>5 DEF Enlist
<1>6. CASE a \notin ToSet(kept)
  <2>1. /\ Append(kept, a) \in Seq(Address) /\ IsInjective(Append(kept, a))
        /\ ToSet(Append(kept, a)) = ToSet(kept) \cup {a}
    BY <1>3, <1>6, AppendAdds
  <2>2. order' = Append(kept, a)
    BY <1>2, <1>6 DEF Enlist
  <2> QED
    BY <1>2, <1>3, <1>4, <2>1, <2>2
<1> QED
  BY <1>5, <1>6

(* Letting a request in, refusing it and evicting an address keep both     *)
(* alike (consume).                                                        *)
LEMMA ConsumeRate ==
    ASSUME MemorySearchAssumption, RateInv, NEW a \in Address, Consume(a), now' = now
    PROVE  RateInv'
<1>1. now \in Nat /\ MaxRequests \in Nat
  BY DEF RateInv, Tracked, MemorySearchAssumption
<1>2. Tracked'
  BY <1>1, ConsumeTracks DEF Tracked
<1>3. a \notin Evicted(a) /\ Evicted(a) \subseteq DOMAIN hits
  BY EvictedIsFirst DEF Evicted
<1>4. Bucket(a) = accepted[a]
  BY DEF RateInv, Deques, Histories, Bucket
<1> DEFINE b == accepted[a]
           new == IF Allowed(a) THEN Append(b, now) ELSE b
<1>5. /\ b \in Seq(Nat) /\ Ordered(b) /\ NotAfter(b, now) /\ Fresh(b, now)
      /\ Len(b) <= MaxRequests
  BY DEF RateInv, Histories
<1>6. Allowed(a) <=> Len(b) < MaxRequests
  BY <1>4 DEF Allowed
<1>7. Record(Bucket(a)) = new
  BY <1>4, <1>6 DEF Record
<1> HIDE DEF b
<1>8. /\ new \in Seq(Nat) /\ Ordered(new) /\ NotAfter(new, now) /\ Fresh(new, now)
      /\ Len(new) <= MaxRequests
  <2>1. CASE Allowed(a)
    <3>1. Len(b) + 1 <= MaxRequests
      BY <1>1, <1>5, <1>6, <2>1
    <3> QED
      BY <1>1, <1>5, <2>1, <3>1, Recorded
  <2>2. CASE ~Allowed(a)
    BY <1>5, <2>2
  <2> QED
    BY <2>1, <2>2
<1>9. Recent(new, now) = new
  BY <1>1, <1>8, FreshStays
<1>10. DOMAIN hits' = (DOMAIN hits \ Evicted(a)) \cup {a} /\ hits'[a] = new
       /\ \A c \in DOMAIN hits' \ {a} : hits'[c] = hits[c]
  BY <1>7 DEF Consume
<1>11. /\ DOMAIN accepted' = Address /\ accepted' = [c \in Address |-> accepted'[c]]
       /\ accepted'[a] = new
       /\ \A c \in Evicted(a) \cap Address : accepted'[c] = <<>>
       /\ \A c \in Address \ (Evicted(a) \cup {a}) : accepted'[c] = accepted[c]
  BY <1>3 DEF Consume, b
<1> HIDE DEF new
<1>12. Deques'
  <2>1. ASSUME NEW c \in DOMAIN hits'
        PROVE  /\ hits'[c] \in Seq(Nat) /\ Ordered(hits'[c]) /\ NotAfter(hits'[c], now)
               /\ Recent(hits'[c], now) = accepted'[c]
    <3>1. CASE c = a
      BY <1>8, <1>9, <1>10, <1>11, <3>1
    <3>2. CASE c # a
      <4>1. c \in DOMAIN hits /\ c \notin Evicted(a) /\ c \in Address
        BY <1>10, <3>2 DEF RateInv, Tracked, ToSet
      <4>2. hits'[c] = hits[c] /\ accepted'[c] = accepted[c]
        BY <1>10, <1>11, <3>2, <4>1
      <4> QED
        BY <4>1, <4>2 DEF RateInv, Deques
    <3> QED
      BY <3>1, <3>2
  <2> QED
    BY <2>1 DEF Deques, Recent, Ordered, NotAfter
<1>13. Histories'
  <2>1. ASSUME NEW c \in Address
        PROVE  /\ accepted'[c] \in Seq(Nat) /\ Ordered(accepted'[c])
               /\ NotAfter(accepted'[c], now) /\ Fresh(accepted'[c], now)
               /\ Len(accepted'[c]) <= MaxRequests
               /\ c \notin DOMAIN hits' => accepted'[c] = <<>>
    <3>1. CASE c = a
      BY <1>8, <1>10, <1>11, <3>1
    <3>2. CASE c \in Evicted(a)
      <4>1. accepted'[c] = <<>>
        BY <1>11, <3>2
      <4> QED
        BY <1>1, <4>1 DEF Ordered, NotAfter, Fresh
    <3>3. CASE c # a /\ c \notin Evicted(a)
      <4>1. accepted'[c] = accepted[c] /\ (c \notin DOMAIN hits' => c \notin DOMAIN hits)
        BY <1>10, <1>11, <3>3
      <4> QED
        BY <4>1 DEF RateInv, Histories
    <3> QED
      BY <3>1, <3>2, <3>3
  <2>2. accepted' \in [Address -> Seq(Nat)]
    BY <1>11, <2>1
  <2> QED
    BY <2>1, <2>2 DEF Histories, Ordered, NotAfter, Fresh
<1> QED
  BY <1>2, <1>12, <1>13 DEF RateInv

(* No other step touches the limiter.                                      *)
LEMMA RateStep ==
    ASSUME MemorySearchAssumption, RateInv, [Next]_vars
    PROVE  RateInv'
<1>1. ASSUME UNCHANGED limiter
      PROVE  RateInv'
  <2>1. now' = now /\ hits' = hits /\ order' = order /\ accepted' = accepted
    BY <1>1 DEF limiter
  <2>2. Tracked'
    BY <2>1 DEF RateInv, Tracked
  <2>3. Deques'
    BY <2>1 DEF RateInv, Deques, Recent, Ordered, NotAfter
  <2>4. Histories'
    BY <2>1 DEF RateInv, Histories, Ordered, NotAfter, Fresh
  <2> QED
    BY <2>2, <2>3, <2>4 DEF RateInv
<1>2. CASE Tick
  BY <1>2, TickRate
<1>3. ASSUME NEW r \in Request, NEW a \in Address, NEW t \in Asks[r],
             NEW valid \in BOOLEAN, Arrive(r, a, t, valid)
      PROVE  RateInv'
  BY <1>3, ConsumeRate DEF Arrive
<1>4. CASE DropGraphiti
  BY <1>1, <1>4 DEF DropGraphiti
<1>5. ASSUME NEW r \in Request,
             \/ ProbeRefuses(r) \/ ProbePasses(r)
             \/ \E v \in {query[r], NoVector} : EmbedderAnswers(r, v)
             \/ \E f \in Ranked, n \in 0..Cardinality(Edge) : SearchAnswers(r, f, n)
             \/ VectorsLoaded(r) \/ LoadFails(r)
             \/ \E clues \in SUBSET Clue : EngineFails(r, clues)
             \/ EngineTimesOut(r) \/ Cancel(r)
      PROVE  RateInv'
  BY <1>1, <1>5 DEF ProbeRefuses, ProbePasses, EmbedderAnswers, SearchAnswers,
     VectorsLoaded, LoadFails, EngineFails, EngineTimesOut, Cancel
<1>6. CASE UNCHANGED vars
  BY <1>1, <1>6 DEF vars
<1> QED
  BY <1>2, <1>3, <1>4, <1>5, <1>6 DEF Next

(* Initially nobody is tracked.                                            *)
LEMMA RateStart ==
    ASSUME MemorySearchAssumption, Init
    PROVE  RateInv
<1>1. /\ now = 0 /\ hits = <<>> /\ order = <<>> /\ accepted = [a \in Address |-> <<>>]
      /\ MaxRequests \in Nat
  BY DEF Init, MemorySearchAssumption
<1>2. DOMAIN hits = {} /\ ToSet(order) = {}
  BY <1>1 DEF ToSet
<1>3. Tracked
  BY <1>1, <1>2, FS_EmptySet DEF Tracked, IsInjective, MemorySearchAssumption
<1>4. Deques
  BY <1>2 DEF Deques
<1>5. Histories
  BY <1>1 DEF Histories, Ordered, NotAfter, Fresh
<1> QED
  BY <1>3, <1>4, <1>5 DEF RateInv

(* Within any window an address that is remembered is let in at most       *)
(* MaxRequests times, its deque is exactly what was let in, and no more    *)
(* than MaxKeys addresses are remembered (consume, _evict_oldest).         *)
THEOREM RateIsBoundedAlways == Spec => []RateIsBounded
<1>1. Init => RateInv
  BY RateStart, MemorySearchAssumption
<1>2. RateInv /\ [Next]_vars => RateInv'
  BY RateStep, MemorySearchAssumption
<1>3. RateInv => RateIsBounded
  BY DEF RateInv, Tracked, Deques, Histories, RateIsBounded, Bucket, Fresh
<1> QED
  BY <1>1, <1>2, <1>3, PTL DEF Spec

-----------------------------------------------------------------------------
(* The answers.                                                            *)

(* A list is made of its elements.                                         *)
LEMMA Itself ==
    ASSUME NEW T, NEW s \in Seq(T)
    PROVE  s = [i \in 1..Len(s) |-> s[i]]
  OBVIOUS

(* A list has the type of its elements.                                    *)
LEMMA Retyped ==
    ASSUME NEW T, NEW s \in Seq(T), NEW U, \A i \in 1..Len(s) : s[i] \in U
    PROVE  s \in Seq(U)
<1>1. Len(s) \in Nat /\ s = [i \in 1..Len(s) |-> s[i]]
  BY Itself
<1>2. [i \in 1..Len(s) |-> s[i]] \in Seq(U)
  BY <1>1
<1> QED
  BY <1>1, <1>2

(* Cutting to the limit leaves a list, and a short one alone.              *)
LEMMA CutIs ==
    ASSUME NEW T, NEW s \in Seq(T), NEW n \in Nat
    PROVE  Cut(s, n) \in Seq(T) /\ (Len(s) <= n => Cut(s, n) = s)
  BY DEF Cut

(* What passes the gate are edges, none of an empty list.                  *)
LEMMA NearIs ==
    ASSUME NEW f \in Seq(Edge), NEW t
    PROVE  Near(f, t) \in Seq(Edge) /\ (f = <<>> => Near(f, t) = <<>>)
<1> DEFINE close == {i \in 1..Len(f) : f[i] \in Scorable /\ <<t, f[i]>> \in Close}
<1>1. close \in SUBSET (1..Len(f))
  OBVIOUS
<1> HIDE DEF close
<1>2. Selected(f, close) \in Seq(Edge) /\ Len(Selected(f, close)) = Cardinality(close)
  BY <1>1, SelectedType
<1>3. ASSUME f = <<>>
      PROVE  Selected(f, close) = <<>>
  <2>1. close = {}
    BY <1>1, <1>3
  <2>2. Len(Selected(f, close)) = 0
    BY <1>2, <2>1, FS_EmptySet
  <2> QED
    BY <1>2, <2>2
<1> QED
  BY <1>2, <1>3 DEF Near, close

(* What no step of a request touches stays good.                           *)
LEMMA OthersStay ==
    ASSUME NEW r \in Request, Good(r),
           pc'[r] = pc[r], query'[r] = query[r], vector'[r] = vector[r],
           found'[r] = found[r], scores'[r] = scores[r], reply'[r] = reply[r]
    PROVE  Good(r)'
  BY DEF Good, RowsOf, GateOf

(* A refusal has no rows.                                                  *)
LEMMA RefusedIsGood ==
    ASSUME MemorySearchAssumption, AnswersInv, NEW r \in Request, NEW code, code # "OK",
           Refuse(r, code),
           found'[r] \in Seq(Edge), scores'[r] \in Seq(Edge),
           Len(scores'[r]) <= Len(found'[r]),
           \A i \in 1..Len(scores'[r]) : scores'[r][i] = found'[r][i]
    PROVE  Good(r)'
<1>1. pc'[r] = "done" /\ reply'[r] = [NoReply EXCEPT !.code = code]
      /\ vector'[r] = NoVector
  BY DEF Refuse, Finish, AnswersInv, Shapes
<1>2. reply'[r].rows = <<>> /\ reply'[r].code = code
  BY <1>1 DEF NoReply
<1>3. RowsOf(r)' /\ GateOf(r)'
  BY <1>2 DEF RowsOf, GateOf
<1> QED
  BY <1>1, <1>3 DEF Good, Live

(* Rows are edges with the score at the edge's own position.               *)
LEMMA DeliveredIsGood ==
    ASSUME MemorySearchAssumption, AnswersInv, NEW r \in Request,
           NEW edges \in Seq(Edge), NEW gate \in BOOLEAN, Deliver(r, edges, gate),
           query'[r] = query[r],
           found'[r] \in Seq(Edge), scores'[r] \in Seq(Edge),
           Len(scores'[r]) <= Len(found'[r]),
           \A i \in 1..Len(scores'[r]) : scores'[r][i] = found'[r][i],
           edges = Cut(IF gate THEN Near(found'[r], query[r]) ELSE found'[r], Limit[r])
    PROVE  Good(r)'
<1>1. /\ pc'[r] = "done" /\ vector'[r] = NoVector
      /\ reply'[r] = [code |-> "OK", rows |-> Rows(r, edges), gate |-> gate]
  BY DEF Deliver, Finish, AnswersInv, Shapes
<1>2. /\ reply'[r].rows = Rows(r, edges) /\ reply'[r].gate = gate
      /\ Len(Rows(r, edges)) = Len(edges)
      /\ \A i \in 1..Len(edges) : /\ Rows(r, edges)[i].edge = edges[i]
                                  /\ Rows(r, edges)[i].score = ScoreOf(r, edges[i])
  BY <1>1 DEF Rows
<1>3. ASSUME NEW e
      PROVE  ScoreOf(r, e) = IF e \in ToSet(scores'[r]) THEN e ELSE NoScore
  <2>1. e \in ToSet(scores'[r]) <=> \E i \in 1..Len(scores'[r]) : scores'[r][i] = e
    BY Elements
  <2>2. e \in ToSet(scores'[r]) <=> \E i \in 1..Len(scores'[r]) : found'[r][i] = e
    BY <2>1
  <2>3. CASE \E i \in 1..Len(scores'[r]) : found'[r][i] = e
    <3> DEFINE i == CHOOSE i \in 1..Len(scores'[r]) : found'[r][i] = e
    <3>1. i \in 1..Len(scores'[r]) /\ found'[r][i] = e
      BY <2>3
    <3>2. scores'[r][i] = e
      <4> HIDE DEF i
      <4> QED
        BY <3>1
    <3> QED
      BY <2>2, <2>3, <3>2 DEF ScoreOf
  <2>4. CASE ~ \E i \in 1..Len(scores'[r]) : found'[r][i] = e
    BY <2>2, <2>4 DEF ScoreOf
  <2> QED
    BY <2>3, <2>4
<1>4. RowsOf(r)'
  <2>1. \A i \in 1..Len(edges) :
            Rows(r, edges)[i].score = IF Rows(r, edges)[i].edge \in ToSet(scores'[r])
                                      THEN Rows(r, edges)[i].edge ELSE NoScore
    BY <1>2, <1>3
  <2> QED
    BY <1>2, <2>1 DEF RowsOf
<1>5. [i \in 1..Len(Rows(r, edges)) |-> Rows(r, edges)[i].edge] = edges
  <2>1. edges = [i \in 1..Len(edges) |-> edges[i]]
    BY Itself
  <2> QED
    BY <1>2, <2>1
<1>6. GateOf(r)'
  BY <1>2, <1>5 DEF GateOf, Near, Cut
<1> QED
  BY <1>1, <1>4, <1>6 DEF Good, Live, AnswersInv

(* Every step of a request keeps the answers right, whatever the others    *)
(* cache meanwhile.                                                        *)
LEMMA AnswersStep ==
    ASSUME MemorySearchAssumption, AnswersInv, [Next]_vars
    PROVE  AnswersInv'
<1> USE DEF AnswersInv
<1>0. /\ \A r \in Request : Limit[r] \in Nat \ {0} /\ Asks[r] \subseteq Text
      /\ Overfetch \in Nat \ {0} /\ Ranked \subseteq Seq(Edge) /\ NoVector \notin Text
  BY DEF MemorySearchAssumption
<1>1. ASSUME UNCHANGED <<cache, pc, query, vector, found, scores, reply>>
      PROVE  AnswersInv'
  BY <1>1, OthersStay DEF Shapes
<1>2. ASSUME NEW r \in Request, Shapes', cache' \in Seq(Entries), Good(r)',
             \A q \in Request \ {r} :
                /\ pc'[q] = pc[q] /\ query'[q] = query[q] /\ vector'[q] = vector[q]
                /\ found'[q] = found[q] /\ scores'[q] = scores[q] /\ reply'[q] = reply[q]
      PROVE  AnswersInv'
  BY <1>2, OthersStay
<1>3. ASSUME NEW r \in Request, NEW a \in Address, NEW t \in Asks[r],
             NEW valid \in BOOLEAN, Arrive(r, a, t, valid)
      PROVE  AnswersInv'
  <2>1. /\ cache' = cache /\ query'[r] = t /\ t \in Text
        /\ found'[r] = <<>> /\ scores'[r] = <<>>
    BY <1>0, <1>3 DEF Arrive, Shapes
  <2>2. Shapes' /\ \A q \in Request \ {r} :
                /\ pc'[q] = pc[q] /\ query'[q] = query[q] /\ vector'[q] = vector[q]
                /\ found'[q] = found[q] /\ scores'[q] = scores[q] /\ reply'[q] = reply[q]
    BY <1>3 DEF Arrive, Refuse, Finish, Shapes
  <2>3. ASSUME NEW code, code # "OK", Refuse(r, code)
        PROVE  Good(r)'
    <3>1. /\ found'[r] \in Seq(Edge) /\ scores'[r] \in Seq(Edge)
          /\ Len(scores'[r]) <= Len(found'[r])
          /\ \A i \in 1..Len(scores'[r]) : scores'[r][i] = found'[r][i]
      BY <2>1
    <3> QED
      BY <2>3, <3>1, RefusedIsGood
  <2>4. ASSUME pc' = [pc EXCEPT ![r] = "probing"], reply' = [reply EXCEPT ![r] = NoReply],
               vector' = vector
        PROVE  Good(r)'
    <3>1. pc'[r] = "probing" /\ reply'[r] = NoReply /\ vector'[r] = vector[r]
      BY <2>4 DEF Shapes
    <3>2. NoReply.rows = <<>> /\ NoReply.code # "OK"
      BY DEF NoReply
    <3>3. RowsOf(r)' /\ GateOf(r)'
      BY <3>1, <3>2 DEF RowsOf, GateOf
    <3> QED
      BY <2>1, <3>1, <3>3 DEF Good, Live
  <2>5. Good(r)'
    BY <1>3, <2>3, <2>4 DEF Arrive
  <2> QED
    BY <1>2, <2>1, <2>2, <2>5
<1>4. ASSUME NEW r \in Request, ProbePasses(r)
      PROVE  AnswersInv'
  <2>1. Entries \in SUBSET (Text \X (Text \cup {NoVector}))
    BY DEF Entries
  <2>2. /\ CacheGet(cache, query[r]) \in Seq(Entries)
        /\ Has(cache, query[r]) => <<query[r], Value(cache, query[r])>> \in Entries
    BY <2>1, CacheGetKeeps
  <2>3. Has(cache, query[r]) => Value(cache, query[r]) \in {query[r], NoVector}
    BY <2>2 DEF Entries
  <2>4. /\ cache' \in Seq(Entries) /\ query' = query /\ found' = found /\ scores' = scores
        /\ reply' = reply /\ pc[r] = "probing"
    BY <1>4, <2>2 DEF ProbePasses, Await
  <2>5. Shapes' /\ \A q \in Request \ {r} :
                /\ pc'[q] = pc[q] /\ query'[q] = query[q] /\ vector'[q] = vector[q]
                /\ found'[q] = found[q] /\ scores'[q] = scores[q] /\ reply'[q] = reply[q]
    BY <1>4 DEF ProbePasses, Await, Shapes
  <2>6. \/ pc'[r] = "searching" /\ vector'[r] \in {query[r], NoVector}
        \/ pc'[r] = "embedding" /\ vector'[r] = vector[r]
    BY <1>4, <2>3 DEF ProbePasses, Await, Shapes
  <2>7. Good(r)'
    BY <2>4, <2>6 DEF Good, Live, RowsOf, GateOf
  <2> QED
    BY <1>2, <2>4, <2>5, <2>7
<1>5. ASSUME NEW r \in Request, NEW v \in {query[r], NoVector}, EmbedderAnswers(r, v)
      PROVE  AnswersInv'
  <2>1. <<query[r], v>> \in Entries
    BY <1>5 DEF EmbedderAnswers, Entries, Good, Live
  <2>2. cache' \in Seq(Entries)
    BY <1>5, <2>1, CacheSetKeeps DEF EmbedderAnswers
  <2>3. Shapes' /\ \A q \in Request \ {r} :
                /\ pc'[q] = pc[q] /\ query'[q] = query[q] /\ vector'[q] = vector[q]
                /\ found'[q] = found[q] /\ scores'[q] = scores[q] /\ reply'[q] = reply[q]
    BY <1>5 DEF EmbedderAnswers, Await, Shapes
  <2>4. /\ query' = query /\ found' = found /\ scores' = scores /\ reply' = reply
        /\ pc[r] = "embedding" /\ pc'[r] = "searching" /\ vector'[r] = v
    BY <1>5 DEF EmbedderAnswers, Await, Shapes
  <2>5. Good(r)'
    BY <2>4 DEF Good, Live, RowsOf, GateOf
  <2> QED
    BY <1>2, <2>2, <2>3, <2>5
<1>6. ASSUME NEW r \in Request, NEW f \in Ranked, NEW n \in 0..Cardinality(Edge),
             SearchAnswers(r, f, n)
      PROVE  AnswersInv'
  <2>1. /\ pc[r] = "searching" /\ n <= Len(f) /\ Len(f) <= Fetch(r) /\ cache' = cache
        /\ query' = query /\ found'[r] = f /\ scores'[r] = SubSeq(f, 1, n)
        /\ f \in Seq(Edge)
    BY <1>0, <1>6 DEF SearchAnswers, Shapes
  <2>2. n \in 0..Len(f)
    <3>1. n \in Nat
      OBVIOUS
    <3> QED
      BY <2>1, <3>1
  <2>3. /\ scores'[r] \in Seq(Edge) /\ found'[r] \in Seq(Edge)
        /\ Len(scores'[r]) <= Len(found'[r])
        /\ \A i \in 1..Len(scores'[r]) : scores'[r][i] = found'[r][i]
    BY <2>1, <2>2
  <2>4. Shapes' /\ \A q \in Request \ {r} :
                /\ pc'[q] = pc[q] /\ query'[q] = query[q] /\ vector'[q] = vector[q]
                /\ found'[q] = found[q] /\ scores'[q] = scores[q] /\ reply'[q] = reply[q]
    BY <1>6 DEF SearchAnswers, Deliver, Finish, Await, Shapes
  <2>5. CASE ~gated /\ Deliver(r, f, FALSE)
    <3>1. f = Cut(f, Limit[r])
      BY <1>0, <2>1, <2>5, CutIs DEF Fetch
    <3>2. Good(r)'
      BY <2>1, <2>3, <2>5, <3>1, DeliveredIsGood
    <3> QED
      BY <1>2, <2>1, <2>4, <3>2
  <2>6. CASE gated /\ f = <<>> /\ Deliver(r, f, TRUE)
    <3>1. f = Cut(Near(f, query[r]), Limit[r])
      BY <1>0, <2>1, <2>6, CutIs, NearIs
    <3>2. Good(r)'
      BY <2>1, <2>3, <2>6, <3>1, DeliveredIsGood
    <3> QED
      BY <1>2, <2>1, <2>4, <3>2
  <2>7. CASE gated /\ f # <<>> /\ Deliver(r, Cut(f, Limit[r]), FALSE)
    <3>1. Cut(f, Limit[r]) \in Seq(Edge)
      BY <1>0, <2>1, CutIs
    <3>2. Good(r)'
      BY <2>1, <2>3, <2>7, <3>1, DeliveredIsGood
    <3> QED
      BY <1>2, <2>1, <2>4, <3>2
  <2>8. CASE vector[r] # NoVector /\ Await(r, "loading") /\ UNCHANGED vector
    <3>1. pc'[r] = "loading" /\ reply'[r] = reply[r] /\ vector'[r] = vector[r]
          /\ reply[r] = NoReply /\ vector[r] = query[r]
      BY <2>1, <2>8 DEF Await, Shapes, Good, Live
    <3>2. NoReply.rows = <<>> /\ NoReply.code # "OK"
      BY DEF NoReply
    <3>3. RowsOf(r)' /\ GateOf(r)'
      BY <3>1, <3>2 DEF RowsOf, GateOf
    <3>4. query'[r] \in Text /\ query'[r] = query[r]
      BY <2>1 DEF Good, Live
    <3>5. Good(r)'
      BY <2>3, <3>1, <3>3, <3>4 DEF Good, Live
    <3> QED
      BY <1>2, <2>1, <2>4, <3>5
  <2> QED
    BY <1>6, <2>5, <2>6, <2>7, <2>8 DEF SearchAnswers
<1>7. ASSUME NEW r \in Request, NEW edges, NEW gate \in BOOLEAN, pc[r] = "loading",
             edges = Cut(IF gate THEN Near(found[r], query[r]) ELSE found[r], Limit[r]),
             Deliver(r, edges, gate), UNCHANGED <<found, scores, cache, query>>
      PROVE  AnswersInv'
  <2>1. /\ found' = found /\ scores' = scores /\ query' = query /\ cache' = cache
        /\ found[r] \in Seq(Edge) /\ scores[r] \in Seq(Edge)
        /\ Len(scores[r]) <= Len(found[r])
        /\ \A i \in 1..Len(scores[r]) : scores[r][i] = found[r][i]
    BY <1>7 DEF Good
  <2>2. edges \in Seq(Edge)
    BY <1>0, <1>7, <2>1, NearIs, CutIs
  <2>3. Good(r)'
    BY <1>7, <2>1, <2>2, DeliveredIsGood
  <2>4. Shapes' /\ \A q \in Request \ {r} :
                /\ pc'[q] = pc[q] /\ query'[q] = query[q] /\ vector'[q] = vector[q]
                /\ found'[q] = found[q] /\ scores'[q] = scores[q] /\ reply'[q] = reply[q]
    BY <1>7, <2>1 DEF Deliver, Finish, Shapes
  <2> QED
    BY <1>2, <2>1, <2>3, <2>4
<1>8. ASSUME NEW r \in Request, VectorsLoaded(r)
      PROVE  AnswersInv'
  <2>1. pc[r] = "loading" /\ Deliver(r, Passed(r), TRUE)
        /\ UNCHANGED <<found, scores, cache, query>>
    BY <1>8 DEF VectorsLoaded
  <2>2. vector[r] = query[r]
    BY <2>1 DEF Good
  <2>3. Passed(r) = Cut(Near(found[r], query[r]), Limit[r])
    BY <2>2 DEF Passed
  <2> QED
    BY <1>7, <2>1, <2>3
<1>9. ASSUME NEW r \in Request, LoadFails(r)
      PROVE  AnswersInv'
  BY <1>7, <1>9 DEF LoadFails
<1>10. ASSUME NEW r \in Request, NEW code, code # "OK", Refuse(r, code),
              UNCHANGED <<cache, query>>,
              \/ UNCHANGED <<found, scores>>
              \/ /\ found' = [found EXCEPT ![r] = <<>>]
                 /\ scores' = [scores EXCEPT ![r] = <<>>]
       PROVE  AnswersInv'
  <2>1. /\ cache' = cache
        /\ \/ found'[r] = found[r] /\ scores'[r] = scores[r]
           \/ found'[r] = <<>> /\ scores'[r] = <<>>
    BY <1>10 DEF Shapes, Good
  <2>2. /\ found'[r] \in Seq(Edge) /\ scores'[r] \in Seq(Edge)
        /\ Len(scores'[r]) <= Len(found'[r])
        /\ \A i \in 1..Len(scores'[r]) : scores'[r][i] = found'[r][i]
    <3>1. CASE found'[r] = found[r] /\ scores'[r] = scores[r]
      BY <3>1 DEF Good
    <3>2. CASE found'[r] = <<>> /\ scores'[r] = <<>>
      BY <3>2
    <3> QED
      BY <2>1, <3>1, <3>2
  <2>3. Good(r)'
    BY <1>10, <2>1, <2>2, RefusedIsGood
  <2>4. Shapes' /\ \A q \in Request \ {r} :
                /\ pc'[q] = pc[q] /\ query'[q] = query[q] /\ vector'[q] = vector[q]
                /\ found'[q] = found[q] /\ scores'[q] = scores[q] /\ reply'[q] = reply[q]
    BY <1>10 DEF Refuse, Finish, Shapes
  <2> QED
    BY <1>2, <2>1, <2>3, <2>4
<1>11. ASSUME NEW clues
       PROVE  HandlerCode(clues) # "OK"
  BY DEF HandlerCode, EngineCode
<1>12. ASSUME NEW r \in Request,
              \/ ProbeRefuses(r) \/ \E clues \in SUBSET Clue : EngineFails(r, clues)
              \/ EngineTimesOut(r) \/ Cancel(r)
       PROVE  AnswersInv'
  BY <1>10, <1>11, <1>12 DEF ProbeRefuses, EngineFails, EngineTimesOut, Cancel
<1>13. CASE Tick \/ DropGraphiti \/ UNCHANGED vars
  BY <1>1, <1>13 DEF Tick, DropGraphiti, vars
<1> QED
  BY <1>3, <1>4, <1>5, <1>6, <1>8, <1>9, <1>12, <1>13 DEF Next

(* Initially no request has an answer.                                     *)
LEMMA AnswersStart ==
    ASSUME MemorySearchAssumption, Init
    PROVE  AnswersInv
<1>1. /\ cache = <<>> /\ pc = [r \in Request |-> "idle"]
      /\ query = [r \in Request |-> CHOOSE t \in Text : TRUE]
      /\ vector = [r \in Request |-> NoVector]
      /\ found = [r \in Request |-> <<>>] /\ scores = [r \in Request |-> <<>>]
      /\ reply = [r \in Request |-> NoReply]
  BY DEF Init
<1>2. Shapes
  BY <1>1 DEF Shapes
<1>3. NoReply.rows = <<>> /\ NoReply.code # "OK"
  BY DEF NoReply
<1>4. \A r \in Request : RowsOf(r) /\ GateOf(r)
  BY <1>1, <1>3 DEF RowsOf, GateOf
<1>5. \A r \in Request : Good(r)
  BY <1>1, <1>4 DEF Good, Live
<1> QED
  BY <1>1, <1>2, <1>5 DEF AnswersInv

(* So the answers are right in every state.                                *)
LEMMA AnswersAlways ==
    ASSUME MemorySearchAssumption
    PROVE  Spec => []AnswersInv
<1>1. Init => AnswersInv
  BY AnswersStart
<1>2. AnswersInv /\ [Next]_vars => AnswersInv'
  BY AnswersStep
<1> QED
  BY <1>1, <1>2, PTL DEF Spec

(* A row has the score of its own edge, or none if the score list ended    *)
(* before it, whatever the gate dropped (scores_by_uuid).                  *)
THEOREM RowsKeepTheirScoresAlways == Spec => []RowsKeepTheirScores
<1>1. AnswersInv => RowsKeepTheirScores
  BY DEF AnswersInv, Good, RowsOf, RowsKeepTheirScores
<1> QED
  BY <1>1, AnswersAlways, MemorySearchAssumption, PTL

(* The rows are the first ones that pass the gate for the own query of the *)
(* request, or the first ones without it, whatever is cached and however   *)
(* requests interleave (_apply_cosine_gate, EmbedCache.create).            *)
THEOREM GateIsKeptAlways == Spec => []GateIsKept
<1>1. AnswersInv => GateIsKept
  BY DEF AnswersInv, Good, GateOf, GateIsKept
<1> QED
  BY <1>1, AnswersAlways, MemorySearchAssumption, PTL

(* Rows of edges are rows.                                                 *)
Row == [edge : Edge, score : Edge \cup {NoScore}]

LEMMA RowsAre ==
    ASSUME NEW r, NEW edges \in Seq(Edge), scores'[r] \in Seq(Edge)
    PROVE  Rows(r, edges) \in Seq(Row)
<1>1. \A e : ScoreOf(r, e) \in Edge \cup {NoScore}
  <2>1. ASSUME NEW e
        PROVE  ScoreOf(r, e) \in Edge \cup {NoScore}
    <3>1. CASE \E i \in 1..Len(scores'[r]) : found'[r][i] = e
      <4> DEFINE i == CHOOSE i \in 1..Len(scores'[r]) : found'[r][i] = e
      <4>1. i \in 1..Len(scores'[r])
        BY <3>1
      <4>2. scores'[r][i] \in Edge
        <5> HIDE DEF i
        <5> QED
          BY <4>1
      <4> QED
        BY <3>1, <4>2 DEF ScoreOf
    <3>2. CASE ~ \E i \in 1..Len(scores'[r]) : found'[r][i] = e
      BY <3>2 DEF ScoreOf
    <3> QED
      BY <3>1, <3>2
  <2> QED
    BY <2>1
<1>2. /\ Len(edges) \in Nat
      /\ \A i \in 1..Len(edges) :
            [edge |-> edges[i], score |-> ScoreOf(r, edges[i])] \in Row
  BY <1>1 DEF Row
<1> QED
  BY <1>2 DEF Rows

(* The types: those of the limiter and of the answers, and these.          *)
MemoryTypes ==
    /\ RateInv /\ AnswersInv /\ now <= MaxTime /\ IsWithin(cache, CacheSize)
    /\ ready \in BOOLEAN /\ gated \in BOOLEAN
    /\ pc \in [Request -> {"idle", "done"} \cup Live]
    /\ query \in [Request -> Text] /\ vector \in [Request -> Text \cup {NoVector}]
    /\ \A r \in Request : reply[r].code \in Code /\ reply[r].rows \in Seq(Row)

(* An answer has a code of the list, and rows only of edges.               *)
LEMMA FinishIsTyped ==
    ASSUME MemoryTypes, NEW r \in Request, NEW rep, Finish(r, rep),
           rep.code \in Code, rep.rows \in Seq(Row)
    PROVE  /\ pc' \in [Request -> {"idle", "done"} \cup Live]
           /\ vector' \in [Request -> Text \cup {NoVector}]
           /\ \A q \in Request : reply'[q].code \in Code /\ reply'[q].rows \in Seq(Row)
<1>1. reply'[r] = rep /\ \A q \in Request \ {r} : reply'[q] = reply[q]
  BY DEF MemoryTypes, AnswersInv, Shapes, Finish
<1>2. pc' = [pc EXCEPT ![r] = "done"] /\ vector' = [vector EXCEPT ![r] = NoVector]
  BY DEF Finish
<1>3. \A q \in Request : reply'[q].code \in Code /\ reply'[q].rows \in Seq(Row)
  <2>1. ASSUME NEW q \in Request
        PROVE  reply'[q].code \in Code /\ reply'[q].rows \in Seq(Row)
    BY <1>1 DEF MemoryTypes
  <2> QED
    BY <2>1
<1> QED
  BY <1>2, <1>3 DEF MemoryTypes, Live

LEMMA RefuseIsTyped ==
    ASSUME MemoryTypes, NEW r \in Request, NEW code \in Code, Refuse(r, code)
    PROVE  /\ pc' \in [Request -> {"idle", "done"} \cup Live]
           /\ vector' \in [Request -> Text \cup {NoVector}]
           /\ \A q \in Request : reply'[q].code \in Code /\ reply'[q].rows \in Seq(Row)
<1> DEFINE rep == [NoReply EXCEPT !.code = code]
<1>1. rep.code = code /\ rep.rows = <<>>
  BY DEF NoReply
<1>2. Finish(r, rep) /\ <<>> \in Seq(Row)
  BY DEF Refuse
<1> HIDE DEF rep
<1>3. rep.code \in Code /\ rep.rows \in Seq(Row)
  BY <1>1, <1>2
<1> QED
  BY <1>2, <1>3, FinishIsTyped

LEMMA DeliverIsTyped ==
    ASSUME MemoryTypes, NEW r \in Request, NEW edges \in Seq(Edge), NEW gate,
           scores'[r] \in Seq(Edge), Deliver(r, edges, gate)
    PROVE  /\ pc' \in [Request -> {"idle", "done"} \cup Live]
           /\ vector' \in [Request -> Text \cup {NoVector}]
           /\ \A q \in Request : reply'[q].code \in Code /\ reply'[q].rows \in Seq(Row)
<1>1. "OK" \in Code /\ Rows(r, edges) \in Seq(Row)
  BY RowsAre DEF Code
<1> QED
  BY <1>1, FinishIsTyped DEF Deliver

(* Each step keeps the types.                                              *)
LEMMA MemoryTypesStep ==
    ASSUME MemorySearchAssumption, MemoryTypes, [Next]_vars
    PROVE  MemoryTypes'
<1> DEFINE Answered ==
             /\ pc' \in [Request -> {"idle", "done"} \cup Live]
             /\ vector' \in [Request -> Text \cup {NoVector}]
             /\ \A q \in Request : reply'[q].code \in Code /\ reply'[q].rows \in Seq(Row)
           Cached == IsWithin(cache', CacheSize)
<1>1. RateInv' /\ AnswersInv'
  BY RateStep, AnswersStep DEF MemoryTypes
<1>2. \A r \in Request : found'[r] \in Seq(Edge) /\ scores'[r] \in Seq(Edge)
  BY <1>1 DEF AnswersInv, Good
<1>3. /\ \A r \in Request : Limit[r] \in Nat \ {0} /\ Asks[r] \subseteq Text
      /\ Ranked \subseteq Seq(Edge) /\ CacheSize \in Nat /\ MaxTime \in Nat
  BY DEF MemorySearchAssumption
<1>4. /\ cache \in Seq(Entries) /\ IsWithin(cache, CacheSize)
      /\ Entries \in SUBSET (Text \X (Text \cup {NoVector}))
  BY DEF MemoryTypes, AnswersInv, Entries
<1>5. ASSUME now' = now, UNCHANGED <<gated, query>>, ready' \in BOOLEAN, Answered, Cached
      PROVE  MemoryTypes'
  BY <1>1, <1>5 DEF MemoryTypes
<1>6. cache' = cache => Cached
  BY <1>4
<1>7. ASSUME NEW r \in Request, NEW a \in Address, NEW t \in Asks[r],
             NEW valid \in BOOLEAN, Arrive(r, a, t, valid)
      PROVE  MemoryTypes'
  <2>1. /\ UNCHANGED <<now, ready, gated, cache>> /\ query' = [query EXCEPT ![r] = t]
        /\ \/ \E code \in {"RATE_LIMITED", "INVALID", "SEARCH_BACKEND_DOWN"} : Refuse(r, code)
           \/ /\ pc' = [pc EXCEPT ![r] = "probing"]
              /\ reply' = [reply EXCEPT ![r] = NoReply]
              /\ vector' = vector
    BY <1>7 DEF Arrive
  <2>2. query' \in [Request -> Text]
    BY <1>3, <2>1 DEF MemoryTypes
  <2>3. Answered
    <3>1. ASSUME NEW code \in {"RATE_LIMITED", "INVALID", "SEARCH_BACKEND_DOWN"},
                 Refuse(r, code)
          PROVE  Answered
      <4>1. code \in Code
        BY DEF Code
      <4> QED
        BY <3>1, <4>1, RefuseIsTyped
    <3>2. CASE /\ pc' = [pc EXCEPT ![r] = "probing"]
               /\ reply' = [reply EXCEPT ![r] = NoReply] /\ vector' = vector
      <4>1. NoReply.code \in Code /\ NoReply.rows \in Seq(Row)
        BY DEF NoReply, Code
      <4>2. reply'[r] = NoReply /\ \A q \in Request \ {r} : reply'[q] = reply[q]
        BY <3>2 DEF MemoryTypes, AnswersInv, Shapes
      <4>3. \A q \in Request : reply'[q].code \in Code /\ reply'[q].rows \in Seq(Row)
        <5>1. ASSUME NEW q \in Request
              PROVE  reply'[q].code \in Code /\ reply'[q].rows \in Seq(Row)
          BY <4>1, <4>2 DEF MemoryTypes
        <5> QED
          BY <5>1
      <4> QED
        BY <3>2, <4>3 DEF MemoryTypes, Live
    <3> QED
      BY <2>1, <3>1, <3>2
  <2> QED
    BY <1>1, <1>4, <2>1, <2>2, <2>3 DEF MemoryTypes
<1>8. ASSUME NEW r \in Request, ProbePasses(r)
      PROVE  MemoryTypes'
  <2>1. Has(cache, query[r]) => Value(cache, query[r]) \in Text \cup {NoVector}
    <3>1. Has(cache, query[r]) => <<query[r], Value(cache, query[r])>> \in Entries
      BY <1>4, CacheGetKeeps
    <3> QED
      BY <3>1 DEF Entries
  <2>2. Cached
    BY <1>3, <1>4, <1>8, CacheGetIsWithin DEF ProbePasses
  <2>3. Answered
    BY <1>8, <2>1 DEF ProbePasses, Await, MemoryTypes, Live
  <2> QED
    BY <1>5, <1>8, <2>2, <2>3 DEF ProbePasses, limiter, MemoryTypes
<1>9. ASSUME NEW r \in Request, NEW v \in {query[r], NoVector}, EmbedderAnswers(r, v)
      PROVE  MemoryTypes'
  <2>1. query[r] \in Text
    BY DEF MemoryTypes
  <2>2. <<query[r], v>> \in Entries
    BY <2>1 DEF Entries
  <2>3. Cached
    BY <1>3, <1>4, <1>9, <2>2, CacheSetIsWithin DEF EmbedderAnswers
  <2>4. Answered
    BY <1>9, <2>1 DEF EmbedderAnswers, Await, MemoryTypes, Live
  <2> QED
    BY <1>5, <1>9, <2>3, <2>4 DEF EmbedderAnswers, limiter, MemoryTypes
<1>10. ASSUME NEW r \in Request, NEW f \in Ranked, NEW n \in 0..Cardinality(Edge),
              SearchAnswers(r, f, n)
       PROVE  MemoryTypes'
  <2>1. f \in Seq(Edge) /\ Cut(f, Limit[r]) \in Seq(Edge)
    BY <1>3, CutIs
  <2>2. \/ \E edges \in Seq(Edge), gate \in BOOLEAN : Deliver(r, edges, gate)
        \/ Await(r, "loading") /\ vector' = vector
    BY <1>10, <2>1 DEF SearchAnswers
  <2>3. Answered
    <3>1. ASSUME NEW edges \in Seq(Edge), NEW gate \in BOOLEAN, Deliver(r, edges, gate)
          PROVE  Answered
      BY <1>2, <3>1, DeliverIsTyped
    <3>2. CASE Await(r, "loading") /\ vector' = vector
      BY <3>2 DEF Await, MemoryTypes, Live
    <3> QED
      BY <2>2, <3>1, <3>2
  <2> QED
    BY <1>4, <1>5, <1>10, <2>3 DEF SearchAnswers, limiter, MemoryTypes
<1>11. ASSUME NEW r \in Request, VectorsLoaded(r) \/ LoadFails(r)
       PROVE  MemoryTypes'
  <2>1. found[r] \in Seq(Edge)
    BY DEF MemoryTypes, AnswersInv, Good
  <2>2. Passed(r) \in Seq(Edge) /\ Cut(found[r], Limit[r]) \in Seq(Edge)
    BY <1>3, <2>1, NearIs, CutIs DEF Passed
  <2>3. Answered
    BY <1>2, <1>11, <2>2, DeliverIsTyped DEF VectorsLoaded, LoadFails
  <2> QED
    BY <1>4, <1>5, <1>11, <2>3 DEF VectorsLoaded, LoadFails, limiter, MemoryTypes
<1>12. ASSUME NEW r \in Request,
              \/ ProbeRefuses(r) \/ \E clues \in SUBSET Clue : EngineFails(r, clues)
              \/ EngineTimesOut(r) \/ Cancel(r)
       PROVE  MemoryTypes'
  <2>1. \A clues : HandlerCode(clues) \in Code
    BY DEF HandlerCode, EngineCode, Code
  <2>2. \E code \in Code : Refuse(r, code)
    BY <1>12, <2>1 DEF ProbeRefuses, EngineFails, EngineTimesOut, Cancel, Code
  <2>3. Answered
    BY <2>2, RefuseIsTyped
  <2> QED
    BY <1>4, <1>5, <1>12, <2>3
       DEF ProbeRefuses, EngineFails, EngineTimesOut, Cancel, limiter, MemoryTypes
<1>13. CASE Tick
  <2>1. now' = now + 1 /\ now < MaxTime /\ now \in Nat
        /\ UNCHANGED <<ready, gated, cache, pc, query, vector, reply>>
    BY <1>13 DEF Tick, MemoryTypes, RateInv, Tracked
  <2> QED
    BY <1>1, <1>3, <2>1 DEF MemoryTypes
<1>14. CASE DropGraphiti \/ UNCHANGED vars
  BY <1>1, <1>14 DEF DropGraphiti, vars, limiter, MemoryTypes
<1> QED
  BY <1>7, <1>8, <1>9, <1>10, <1>11, <1>12, <1>13, <1>14 DEF Next

(* Every variable has its type; the embedding cache has a text once and no *)
(* more than its size, and every answer is one of the handler's.           *)
THEOREM MemorySearchTypeOK == Spec => []TypeOK
<1>1. Init => MemoryTypes
  <2>1. ASSUME Init
        PROVE  MemoryTypes
    <3>1. RateInv /\ AnswersInv
      BY <2>1, RateStart, AnswersStart, MemorySearchAssumption
    <3>2. /\ now = 0 /\ cache = <<>> /\ ready \in BOOLEAN /\ gated \in BOOLEAN
          /\ pc = [r \in Request |-> "idle"]
          /\ query = [r \in Request |-> CHOOSE t \in Text : TRUE]
          /\ vector = [r \in Request |-> NoVector]
          /\ reply = [r \in Request |-> NoReply]
      BY <2>1 DEF Init
    <3>3. (CHOOSE t \in Text : TRUE) \in Text
      BY MemorySearchAssumption DEF MemorySearchAssumption
    <3>4. IsWithin(cache, CacheSize) /\ now <= MaxTime
      BY <3>2, MemorySearchAssumption DEF IsWithin, IsKeyed, MemorySearchAssumption
    <3>5. NoReply.code \in Code /\ NoReply.rows \in Seq(Row)
      BY DEF NoReply, Code
    <3> QED
      BY <3>1, <3>2, <3>3, <3>4, <3>5 DEF MemoryTypes, Live
  <2> QED
    BY <2>1
<1>2. MemoryTypes /\ [Next]_vars => MemoryTypes'
  BY MemoryTypesStep, MemorySearchAssumption
<1>3. ASSUME MemoryTypes
      PROVE  TypeOK
  <2>1. now \in 0..MaxTime
    BY <1>3, MemorySearchAssumption DEF MemoryTypes, RateInv, Tracked, MemorySearchAssumption
  <2>2. ASSUME NEW s \in Seq(Nat), NotAfter(s, now)
        PROVE  s \in Seq(0..MaxTime)
    <3>1. now \in Nat /\ now <= MaxTime /\ MaxTime \in Nat
      BY <2>1, MemorySearchAssumption DEF MemorySearchAssumption
    <3>2. ASSUME NEW i \in 1..Len(s)
          PROVE  s[i] \in 0..MaxTime
      <4>1. s[i] \in Nat /\ s[i] <= now
        BY <2>2 DEF NotAfter
      <4> QED
        BY <3>1, <4>1
    <3> QED
      BY <2>2, <3>2, Retyped
  <2>3. \A a \in DOMAIN hits : hits[a] \in Seq(0..MaxTime)
    BY <1>3, <2>2 DEF MemoryTypes, RateInv, Deques
  <2>4. \A a \in Address : accepted[a] \in Seq(0..MaxTime)
    BY <1>3, <2>2 DEF MemoryTypes, RateInv, Histories
  <2>5. order \in Seq(Address) /\ DOMAIN hits \subseteq Address
    <3>1. order \in Seq(Address) /\ ToSet(order) = DOMAIN hits
      BY <1>3 DEF MemoryTypes, RateInv, Tracked
    <3> QED
      BY <3>1, Elements
  <2>6. cache \in Seq(Text \X (Text \cup {NoVector}))
    <3>1. cache \in Seq(Entries) /\ Entries \subseteq Text \X (Text \cup {NoVector})
      BY <1>3 DEF MemoryTypes, AnswersInv, Entries
    <3> QED
      BY <3>1
  <2>7. \A r \in Request : found[r] \in Seq(Edge) /\ scores[r] \in Seq(Edge)
    BY <1>3 DEF MemoryTypes, AnswersInv, Good
  <2> QED
    BY <1>3, <2>1, <2>3, <2>4, <2>5, <2>6, <2>7 DEF MemoryTypes, TypeOK, Row
<1> QED
  BY <1>1, <1>2, <1>3, PTL DEF Spec

-----------------------------------------------------------------------------
(* The graph search.                                                       *)
CONSTANTS Searcher, Fact, Query, Facts, Known, Wanted, Alike, EmbedMax,
          FactCacheSize, Concurrency, MayGarble, NoFactVector, MaxFlips
VARIABLES stage, falkor, redis, session, opened, closed, slots, waiters, factCache,
          at, disturbed, vectors, answer, flips

Graph == INSTANCE GraphSearch
            WITH Request <- Searcher, Text <- Fact, Close <- Alike,
                 CacheSize <- FactCacheSize, NoVector <- NoFactVector,
                 cache <- factCache, pc <- at, reply <- answer

(* The operators on lists and caches mean there what they mean here.       *)
LEMMA SameLists ==
    /\ \A s : Graph!ToSet(s) = ToSet(s)
    /\ \A s : Graph!IsInjective(s) = IsInjective(s)
    /\ \A S : Graph!Cardinality(S) = Cardinality(S)
    /\ \A S, n : Graph!Nth(S, n) = Nth(S, n)
    /\ \A s, S : Graph!Selected(s, S) = Selected(s, S)
<1>1. \A s : Graph!ToSet(s) = ToSet(s)
  BY DEF ToSet, Graph!ToSet
<1>2. \A s : Graph!IsInjective(s) = IsInjective(s)
  BY DEF IsInjective, Graph!IsInjective
<1>3. \A S : Graph!IsFiniteSet(S) = IsFiniteSet(S)
  BY DEF IsFiniteSet, Graph!IsFiniteSet
<1>4. \A S : Graph!Cardinality(S) = Cardinality(S)
  BY <1>3 DEF Cardinality, Graph!Cardinality
<1>5. \A S, n : Graph!Nth(S, n) = Nth(S, n)
  BY <1>4 DEF Nth, Graph!Nth
<1>6. \A s, S : Graph!Selected(s, S) = Selected(s, S)
  BY <1>4, <1>5 DEF Selected, Graph!Selected
<1> QED
  BY <1>1, <1>2, <1>4, <1>5, <1>6

(* So do those on the cache, loops included.                               *)
LEMMA SameCaches ==
    /\ \A ca, k : Graph!Has(ca, k) = Has(ca, k)
    /\ \A ca, k : Graph!Value(ca, k) = Value(ca, k)
    /\ \A ca, keys : Graph!CacheGets(ca, keys) = CacheGets(ca, keys)
    /\ \A ca, pairs, max : Graph!CacheSets(ca, pairs, max) = CacheSets(ca, pairs, max)
<1>1. \A ca, k : Graph!Has(ca, k) = Has(ca, k)
  BY DEF Has, Graph!Has
<1>2. \A ca, k : Graph!Value(ca, k) = Value(ca, k)
  BY DEF Value, Graph!Value, EntryOf, Graph!EntryOf
<1>3. \A ca, k : Graph!Without(ca, k) = Without(ca, k)
  BY <1>1 DEF Without, Graph!Without, EntryOf, Graph!EntryOf, RemoveAt, Graph!RemoveAt
<1>4. \A ca, k : Graph!CacheGet(ca, k) = CacheGet(ca, k)
  BY <1>1, <1>2, <1>3 DEF CacheGet, Graph!CacheGet
<1>5. \A ca, k, v, max : Graph!CacheSet(ca, k, v, max) = CacheSet(ca, k, v, max)
  BY <1>3 DEF CacheSet, Graph!CacheSet
<1>6. \A ca, keys : Graph!CacheGets(ca, keys) = CacheGets(ca, keys)
  BY <1>4 DEF CacheGets, Graph!CacheGets
<1>7. \A ca, pairs, max : Graph!CacheSets(ca, pairs, max) = CacheSets(ca, pairs, max)
  BY <1>5 DEF CacheSets, Graph!CacheSets
<1> QED
  BY <1>1, <1>2, <1>6, <1>7

(* The entries of the cache: a text with its own vector.                   *)
Pairs == {p \in Fact \X Fact : p[1] = p[2]}

(* RepliesAreHonest, of one request.                                       *)
Honest(c) ==
    /\ answer[c].code = "SEED_NOT_FOUND" => c \notin Known
    /\ answer[c].code = "OK" =>
        IF answer[c].degraded THEN NoFactVector \in ToSet(vectors[c])
        ELSE answer[c].results = Graph!CloseTo(Graph!Scored(c), Query[c])

(* A request has a vector for every text once it is to be embedded, none   *)
(* of another text, and no answer before it is done.                       *)
Sound(c) ==
    /\ vectors[c] \in Seq(Fact \cup {NoFactVector})
    /\ \A i \in 1..Len(vectors[c]) : vectors[c][i] \in {Graph!Texts(c)[i], NoFactVector}
    /\ at[c] \in {"waiting", "posted"} => Len(vectors[c]) = Len(Graph!Texts(c))
    /\ c \in ToSet(waiters) => at[c] = "waiting"
    /\ answer[c].code # "none" => at[c] = "done"
    /\ Honest(c)

(* Every request has its place in every table.                             *)
Forms ==
    /\ DOMAIN at = Searcher /\ DOMAIN vectors = Searcher /\ DOMAIN answer = Searcher

(* The invariant: sound requests, a cache of own vectors, and waiters that *)
(* are each there once.                                                    *)
SearchInv ==
    /\ Forms /\ factCache \in Seq(Pairs) /\ waiters \in Seq(Searcher) /\ IsInjective(waiters)
    /\ \A c \in Searcher : Sound(c)

(* The texts of a request: its scored facts, then its query.               *)
LEMMA TextsAre ==
    ASSUME Graph!GraphSearchAssumption, NEW c \in Searcher
    PROVE  /\ Graph!Scored(c) \in Seq(Fact) /\ Query[c] \in Fact
           /\ Graph!Texts(c) \in Seq(Fact) /\ Len(Graph!Texts(c)) = Len(Graph!Scored(c)) + 1
           /\ Graph!Texts(c)[Len(Graph!Texts(c))] = Query[c]
           /\ \A i \in 1..Len(Graph!Scored(c)) : Graph!Texts(c)[i] = Graph!Scored(c)[i]
<1>1. Facts[c] \in Seq(Fact) /\ Query[c] \in Fact /\ EmbedMax \in Nat
  BY DEF Graph!GraphSearchAssumption
<1>2. Graph!Scored(c) \in Seq(Fact)
  BY <1>1 DEF Graph!Scored
<1> QED
  BY <1>1, <1>2 DEF Graph!Texts

(* What search() makes of the vectors of its own texts.                    *)
LEMMA OutcomeIsHonest ==
    ASSUME Graph!GraphSearchAssumption, NEW c \in Searcher,
           NEW v \in Seq(Fact \cup {NoFactVector}), Len(v) = Len(Graph!Texts(c)),
           \A i \in 1..Len(v) : v[i] \in {Graph!Texts(c)[i], NoFactVector}
    PROVE  /\ Graph!Outcome(c, v).code = "OK"
           /\ IF Graph!Outcome(c, v).degraded THEN NoFactVector \in ToSet(v)
              ELSE Graph!Outcome(c, v).results = Graph!CloseTo(Graph!Scored(c), Query[c])
<1> DEFINE missing == NoFactVector \in ToSet(v)
           near == {i \in 1..Len(Graph!Scored(c)) : ~missing /\ <<v[Len(v)], v[i]>> \in Alike}
           close == {i \in 1..Len(Graph!Scored(c)) : <<Query[c], Graph!Scored(c)[i]>> \in Alike}
<1>1. Graph!Outcome(c, v) = [code |-> "OK", results |-> Selected(Graph!Scored(c), near),
                       degraded |-> missing]
  BY SameLists DEF Graph!Outcome
<1>2. ASSUME ~missing
      PROVE  near = close
  <2>1. \A i \in 1..Len(v) : v[i] # NoFactVector
    BY <1>2, Elements
  <2>2. \A i \in 1..Len(v) : v[i] = Graph!Texts(c)[i]
    BY <2>1
  <2>3. Len(v) \in 1..Len(v) /\ \A i \in 1..Len(Graph!Scored(c)) : i \in 1..Len(v)
    BY TextsAre
  <2>4. v[Len(v)] = Query[c] /\ \A i \in 1..Len(Graph!Scored(c)) : v[i] = Graph!Scored(c)[i]
    BY <2>2, <2>3, TextsAre
  <2> HIDE DEF missing
  <2> QED
    BY <1>2, <2>4
<1>3. Selected(Graph!Scored(c), close) = Graph!CloseTo(Graph!Scored(c), Query[c])
  BY SameLists DEF Graph!CloseTo
<1> HIDE DEF near, close
<1>4. /\ Graph!Outcome(c, v).code = "OK" /\ Graph!Outcome(c, v).degraded = missing
      /\ Graph!Outcome(c, v).results = Selected(Graph!Scored(c), near)
  BY <1>1
<1> HIDE DEF missing
<1>5. ~missing => Graph!Outcome(c, v).results = Graph!CloseTo(Graph!Scored(c), Query[c])
  BY <1>2, <1>3, <1>4
<1> QED
  BY <1>4, <1>5 DEF missing

(* A request that ends with the outcome of its vectors is sound.           *)
LEMMA OutcomeIsSound ==
    ASSUME Graph!GraphSearchAssumption, SearchInv, NEW c \in Searcher,
           NEW v \in Seq(Fact \cup {NoFactVector}), Len(v) = Len(Graph!Texts(c)),
           \A i \in 1..Len(v) : v[i] \in {Graph!Texts(c)[i], NoFactVector},
           vectors'[c] = v, Graph!Finish(c, Graph!Outcome(c, v)), c \notin ToSet(waiters')
    PROVE  Sound(c)'
<1>1. at'[c] = "done" /\ answer'[c] = Graph!Outcome(c, v)
  BY DEF Graph!Finish, Graph!GoTo, SearchInv, Forms
<1>2. Honest(c)'
  <2>1. /\ answer'[c].code = "OK"
        /\ IF answer'[c].degraded THEN NoFactVector \in ToSet(vectors'[c])
           ELSE answer'[c].results = Graph!CloseTo(Graph!Scored(c), Query[c])
    <3>1. /\ Graph!Outcome(c, v).code = "OK"
          /\ IF Graph!Outcome(c, v).degraded THEN NoFactVector \in ToSet(v)
             ELSE Graph!Outcome(c, v).results = Graph!CloseTo(Graph!Scored(c), Query[c])
      BY OutcomeIsHonest
    <3> QED
      BY <1>1, <3>1
  <2> QED
    BY <2>1 DEF Honest
<1>3. \A i \in 1..Len(vectors'[c]) : vectors'[c][i] \in {Graph!Texts(c)[i], NoFactVector}
  OBVIOUS
<1> QED
  BY <1>1, <1>2, <1>3 DEF Sound, Graph!Texts, Graph!Scored

(* So is one that ends without rows.                                       *)
LEMMA RefusedIsSound ==
    ASSUME SearchInv, NEW c \in Searcher, NEW code, Graph!Refuse(c, code),
           code # "OK", code = "SEED_NOT_FOUND" => c \notin Known,
           vectors'[c] = vectors[c], c \notin ToSet(waiters')
    PROVE  Sound(c)'
<1>1. at'[c] = "done" /\ answer'[c].code = code
  BY DEF Graph!Refuse, Graph!Finish, Graph!GoTo, Graph!NoReply, SearchInv, Forms
<1>2. Honest(c)'
  BY <1>1 DEF Honest
<1>3. Sound(c)
  BY DEF SearchInv
<1> QED
  BY <1>1, <1>2, <1>3 DEF Sound, Graph!Texts, Graph!Scored

(* Of the other requests a step at most takes one off the waiters.         *)
LEMMA OthersAreSound ==
    ASSUME NEW q \in Searcher, Sound(q), vectors'[q] = vectors[q], answer'[q] = answer[q],
           at'[q] = at[q] \/ (at'[q] \notin {"waiting", "posted"} /\ at[q] # "done"),
           q \in ToSet(waiters') => q \in ToSet(waiters) /\ at'[q] = at[q]
    PROVE  Sound(q)'
  BY DEF Sound, Honest, Graph!Texts, Graph!Scored

(* What an answer of the embedder puts into the cache: pairs of a text and *)
(* its own vector.                                                         *)
LEMMA AnswerSetsPairs ==
    ASSUME Graph!GraphSearchAssumption, SearchInv, NEW c \in Searcher, NEW got,
           Graph!EmbedderAnswers(c, got)
    PROVE  \E pairs \in Seq(Pairs) : factCache' = CacheSets(factCache, pairs, FactCacheSize)
<1> DEFINE sent(p) == Graph!Texts(c)[Nth(Graph!Misses(c), p)]
           count == Cardinality(Graph!Misses(c))
           pairs == [p \in 1..count |-> <<Graph!Texts(c)[Graph!Place(c, p)], sent(p)>>]
<1>1. /\ at[c] = "posted" /\ got \subseteq 1..count
      /\ factCache' = CacheSets(factCache, Selected(pairs, got), FactCacheSize)
  BY SameLists, SameCaches DEF Graph!EmbedderAnswers
<1>2. vectors[c] \in Seq(Fact \cup {NoFactVector}) /\ Len(vectors[c]) = Len(Graph!Texts(c))
  BY <1>1 DEF SearchInv, Sound
<1>3. \A i \in 1..Len(Graph!Texts(c)) : Graph!Texts(c)[i] \in Fact
  BY TextsAre
<1>4. Len(vectors[c]) \in Nat /\ Graph!Misses(c) \in SUBSET (1..Len(vectors[c]))
  BY <1>2 DEF Graph!Misses
<1>5. count \in Nat
  <2>1. IsFiniteSet(1..Len(vectors[c]))
    BY <1>4, FS_Interval
  <2>2. IsFiniteSet(Graph!Misses(c))
    BY <1>4, <2>1, FS_Subset
  <2> QED
    BY <2>2, FS_CardinalityType
<1>6. \A p \in 1..count : Nth(Graph!Misses(c), p) \in 1..Len(Graph!Texts(c))
  <2>1. \A p \in 1..count : Nth(Graph!Misses(c), p) \in Graph!Misses(c)
    BY <1>4, NthIsThere
  <2> QED
    BY <1>2, <1>4, <2>1
<1>7. pairs \in Seq(Pairs) /\ Len(pairs) = count
  <2>1. \A p \in 1..count : <<Graph!Texts(c)[Graph!Place(c, p)], sent(p)>> \in Pairs
    BY <1>3, <1>6, SameLists DEF Graph!Place, Pairs
  <2> HIDE DEF sent, count
  <2> QED
    BY <1>5, <2>1
<1>8. Selected(pairs, got) \in Seq(Pairs)
  <2> HIDE DEF pairs, count
  <2> QED
    BY <1>1, <1>7, SelectedType
<1> QED
  BY <1>1, <1>8

(* A request awaits something else.                                        *)
Moves(c, l) == at' = [at EXCEPT ![c] = l]

(* Each step keeps it: the request that moves stays sound for what its     *)
(* step does, and of the others a step takes at most the place among the   *)
(* waiters.                                                                *)
LEMMA SearchStep ==
    ASSUME Graph!GraphSearchAssumption, SearchInv, [Graph!Next]_(Graph!vars)
    PROVE  SearchInv'
<1> USE DEF SearchInv
<1>0. \A c \in Searcher : Graph!Texts(c) \in Seq(Fact) /\ NoFactVector \notin Fact
  BY TextsAre DEF Graph!GraphSearchAssumption
<1>1. ASSUME UNCHANGED <<factCache, waiters, at, vectors, answer>>
      PROVE  SearchInv'
  BY <1>1, OthersAreSound DEF Forms
<1>2. ASSUME NEW c \in Searcher, Forms', factCache' \in Seq(Pairs),
             waiters' \in Seq(Searcher) /\ IsInjective(waiters'), Sound(c)',
             \A q \in Searcher \ {c} :
                /\ at'[q] = at[q] /\ vectors'[q] = vectors[q] /\ answer'[q] = answer[q]
                /\ q \in ToSet(waiters') => q \in ToSet(waiters)
      PROVE  SearchInv'
  BY <1>2, OthersAreSound
(* A step that sends a command or refuses.                                 *)
<1>3. ASSUME NEW c \in Searcher, NEW l, UNCHANGED <<factCache, waiters, vectors, answer>>,
             Moves(c, l), l \notin {"waiting", "posted"},
             at[c] \notin {"waiting", "done"}
      PROVE  SearchInv'
  <2>1. Forms' /\ at'[c] = l /\ \A q \in Searcher \ {c} : at'[q] = at[q]
    BY <1>3 DEF Moves, Forms
  <2>2. Sound(c) /\ c \notin ToSet(waiters)
    BY <1>3 DEF Sound
  <2>3. Sound(c)'
    BY <1>3, <2>1, <2>2, OthersAreSound
  <2> QED
    BY <1>2, <1>3, <2>1, <2>3
<1>4. ASSUME NEW c \in Searcher, NEW code, UNCHANGED <<factCache, waiters, vectors>>,
             Graph!Refuse(c, code), code # "OK", code = "SEED_NOT_FOUND" => c \notin Known,
             at[c] # "waiting"
      PROVE  SearchInv'
  <2>1. Forms' /\ \A q \in Searcher \ {c} : at'[q] = at[q] /\ answer'[q] = answer[q]
    BY <1>4 DEF Graph!Refuse, Graph!Finish, Graph!GoTo, Forms
  <2>2. c \notin ToSet(waiters)
    BY <1>4 DEF Sound
  <2>3. Sound(c)'
    BY <1>4, <2>2, RefusedIsSound
  <2> QED
    BY <1>2, <1>4, <2>1, <2>3
<1>5. ASSUME NEW c \in Searcher, Graph!Arrive(c)
      PROVE  SearchInv'
  <2>1. UNCHANGED <<factCache, waiters, vectors, answer>> /\ at[c] = "idle"
        /\ (Moves(c, "probe") \/ Moves(c, "ping"))
    BY <1>5 DEF Graph!Arrive, Graph!NoEmbedding, Graph!Command, Moves
  <2> QED
    BY <1>3, <2>1
<1>6. ASSUME NEW c \in Searcher, Graph!PingAnswers(c) \/ Graph!PingFails(c)
      PROVE  SearchInv'
  <2>1. UNCHANGED <<factCache, waiters, vectors>> /\ at[c] = "ping"
    BY <1>6 DEF Graph!PingAnswers, Graph!PingFails, Graph!NoEmbedding
  <2>2. \/ Moves(c, "probe") /\ UNCHANGED answer
        \/ Graph!Refuse(c, "FALKOR_DOWN")
    BY <1>6 DEF Graph!PingAnswers, Graph!PingFails, Graph!Command, Moves
  <2> QED
    BY <1>3, <1>4, <2>1, <2>2
<1>7. ASSUME NEW c \in Searcher, Graph!ProbeAnswers(c)
      PROVE  SearchInv'
  <2>1. UNCHANGED <<factCache, waiters, vectors>> /\ at[c] = "probe"
    BY <1>7 DEF Graph!ProbeAnswers, Graph!NoEmbedding
  <2>2. \/ Moves(c, "bfs") /\ UNCHANGED answer
        \/ c \in Known /\ Graph!Refuse(c, "FALKOR_DOWN")
        \/ c \notin Known /\ Graph!Refuse(c, "SEED_NOT_FOUND")
    BY <1>7 DEF Graph!ProbeAnswers, Graph!Command, Moves
  <2> QED
    BY <1>3, <1>4, <2>1, <2>2
<1>8. ASSUME NEW c \in Searcher, Graph!CommandFails(c) \/ Graph!TraversalTimesOut(c)
      PROVE  SearchInv'
  <2>1. UNCHANGED <<factCache, waiters, vectors>> /\ at[c] # "waiting"
        /\ \/ Graph!Refuse(c, "FALKOR_DOWN") \/ Graph!Refuse(c, "INVALID_CYPHER")
           \/ Graph!Refuse(c, "TRAVERSAL_TIMEOUT")
    BY <1>8 DEF Graph!CommandFails, Graph!TraversalTimesOut, Graph!NoEmbedding, Graph!Failure
  <2> QED
    BY <1>4, <2>1
<1>9. ASSUME NEW c \in Searcher, Graph!TraversalAnswers(c)
      PROVE  SearchInv'
  <2> DEFINE looked == [i \in 1..Len(Graph!Texts(c)) |->
                          IF Has(factCache, Graph!Texts(c)[i])
                          THEN Value(factCache, Graph!Texts(c)[i])
                          ELSE NoFactVector]
  <2>1. at[c] = "bfs" /\ c \notin ToSet(waiters)
    BY <1>9 DEF Graph!TraversalAnswers, Sound
  <2>2. CASE /\ Facts[c] = <<>>
             /\ Graph!Finish(c, [Graph!NoReply EXCEPT !.code = "OK"])
             /\ UNCHANGED <<factCache, vectors, waiters>>
    <3>1. /\ at'[c] = "done" /\ answer'[c].code = "OK" /\ answer'[c].degraded = FALSE
          /\ answer'[c].results = <<>> /\ vectors' = vectors
      BY <2>2 DEF Graph!Finish, Graph!GoTo, Graph!NoReply, Forms
    <3>2. Graph!Scored(c) = <<>>
      BY <2>2 DEF Graph!Scored, Graph!GraphSearchAssumption
    <3>3. Graph!CloseTo(<<>>, Query[c]) = <<>>
      <4> DEFINE close == {i \in 1..Len(<<>>) : <<Query[c], <<>>[i]>> \in Alike}
      <4>1. close = {}
        OBVIOUS
      <4>2. Cardinality(close) = 0
        BY <4>1, FS_EmptySet
      <4>3. Graph!CloseTo(<<>>, Query[c]) = Selected(<<>>, close)
        BY SameLists DEF Graph!CloseTo
      <4> HIDE DEF close
      <4> QED
        BY <4>2, <4>3 DEF Selected
    <3>4. Honest(c)'
      BY <3>1, <3>2, <3>3 DEF Honest
    <3>5. Sound(c)'
      BY <2>1, <2>2, <3>1, <3>4 DEF Sound, Graph!Texts, Graph!Scored
    <3>6. Forms' /\ \A q \in Searcher \ {c} : at'[q] = at[q] /\ answer'[q] = answer[q]
      BY <2>2 DEF Graph!Finish, Graph!GoTo, Forms
    <3> QED
      BY <1>2, <2>2, <3>5, <3>6
  <2>3. CASE /\ vectors' = [vectors EXCEPT ![c] = looked]
             /\ factCache' = CacheGets(factCache, Graph!Texts(c))
             /\ \/ Graph!Finish(c, Graph!Outcome(c, looked)) /\ UNCHANGED waiters
                \/ Graph!GoTo(c, "posted") /\ UNCHANGED <<answer, waiters>>
                \/ Graph!GoTo(c, "waiting") /\ waiters' = Append(waiters, c) /\ UNCHANGED answer
    <3>1. Pairs \in SUBSET (Fact \X Fact)
      BY DEF Pairs
    <3>2. factCache' \in Seq(Pairs)
      BY <1>0, <2>3, <3>1, CacheGetsKeep
    <3>3. /\ looked \in Seq(Fact \cup {NoFactVector}) /\ Len(looked) = Len(Graph!Texts(c))
          /\ \A i \in 1..Len(looked) : looked[i] \in {Graph!Texts(c)[i], NoFactVector}
      <4>1. \A i \in 1..Len(Graph!Texts(c)) : Graph!Texts(c)[i] \in Fact
        BY <1>0
      <4>2. \A k : Has(factCache, k) => <<k, Value(factCache, k)>> \in Pairs
        BY <3>1, CacheGetKeeps
      <4>3. \A i \in 1..Len(Graph!Texts(c)) :
                Has(factCache, Graph!Texts(c)[i]) =>
                    Value(factCache, Graph!Texts(c)[i]) = Graph!Texts(c)[i]
        BY <4>2 DEF Pairs
      <4>4. Len(Graph!Texts(c)) \in Nat
        BY <1>0
      <4> QED
        BY <4>1, <4>3, <4>4
    <3> HIDE DEF looked
    <3>4. vectors'[c] = looked /\ Forms'
          /\ \A q \in Searcher \ {c} :
                at'[q] = at[q] /\ vectors'[q] = vectors[q] /\ answer'[q] = answer[q]
      BY <2>3 DEF Graph!Finish, Graph!GoTo, Forms
    <3>5. /\ waiters' \in Seq(Searcher) /\ IsInjective(waiters')
          /\ \A q \in Searcher : q \in ToSet(waiters') =>
                q \in ToSet(waiters) \/ (q = c /\ at'[c] = "waiting")
      <4>1. ASSUME waiters' = Append(waiters, c)
            PROVE  waiters' \in Seq(Searcher) /\ IsInjective(waiters')
                   /\ ToSet(waiters') = ToSet(waiters) \cup {c}
        BY <2>1, <4>1, AppendAdds
      <4> QED
        BY <2>3, <4>1 DEF Graph!GoTo, Forms
    <3>6. Sound(c)'
      <4>1. CASE Graph!Finish(c, Graph!Outcome(c, looked)) /\ UNCHANGED waiters
        BY <2>1, <3>3, <3>4, <4>1, OutcomeIsSound
      <4>2. CASE (Graph!GoTo(c, "posted") \/ Graph!GoTo(c, "waiting")) /\ answer' = answer
        <5>1. answer'[c].code = "none"
          BY <2>1, <4>2 DEF Sound
        <5>2. Honest(c)'
          BY <5>1 DEF Honest
        <5>3. at'[c] \in {"posted", "waiting"}
          BY <4>2 DEF Graph!GoTo, Forms
        <5>4. \A i \in 1..Len(vectors'[c]) : vectors'[c][i] \in {Graph!Texts(c)[i], NoFactVector}
          BY <3>3, <3>4
        <5>5. /\ Len(vectors'[c]) = Len(Graph!Texts(c))
              /\ vectors'[c] \in Seq(Fact \cup {NoFactVector})
          BY <3>3, <3>4
        <5> QED
          BY <2>1, <3>5, <5>1, <5>2, <5>3, <5>4, <5>5 DEF Sound
      <4> QED
        BY <2>3, <4>1, <4>2
    <3> QED
      BY <1>2, <3>2, <3>4, <3>5, <3>6
  <2> QED
    BY <1>9, <2>2, <2>3, SameLists, SameCaches DEF Graph!TraversalAnswers
<1>10. ASSUME NEW c \in Searcher, Graph!Granted(c)
       PROVE  SearchInv'
  <2>1. /\ waiters # <<>> /\ c = waiters[1] /\ waiters' = Tail(waiters)
        /\ factCache' = factCache /\ vectors' = vectors
    BY <1>10 DEF Graph!Granted
  <2>2. /\ waiters' \in Seq(Searcher) /\ IsInjective(waiters')
        /\ ToSet(waiters') = ToSet(waiters) \ {c}
    BY <2>1, TailDrops
  <2>3. c \in ToSet(waiters) /\ at[c] = "waiting"
    <3>1. 1 \in 1..Len(waiters)
      BY <2>1
    <3>2. c \in ToSet(waiters)
      BY <2>1, <3>1, Elements
    <3> QED
      BY <3>2 DEF Sound
  <2>4. CASE Graph!GoTo(c, "posted") /\ UNCHANGED answer
    <3>1. at'[c] = "posted" /\ answer'[c] = answer[c] /\ answer[c].code = "none"
      BY <2>3, <2>4 DEF Graph!GoTo, Forms, Sound
    <3>2. Sound(c)'
      BY <2>1, <2>2, <2>3, <3>1 DEF Sound, Honest, Graph!Texts, Graph!Scored
    <3>3. Forms' /\ \A q \in Searcher \ {c} : at'[q] = at[q] /\ answer'[q] = answer[q]
      BY <2>1, <2>4 DEF Graph!GoTo, Forms
    <3> QED
      BY <1>2, <2>1, <2>2, <3>2, <3>3
  <2>5. CASE Graph!Refuse(c, "INTERNAL")
    <3>1. Sound(c)'
      BY <2>1, <2>2, <2>5, RefusedIsSound
    <3>2. Forms' /\ \A q \in Searcher \ {c} : at'[q] = at[q] /\ answer'[q] = answer[q]
      BY <2>1, <2>5 DEF Graph!Refuse, Graph!Finish, Graph!GoTo, Forms
    <3> QED
      BY <1>2, <2>1, <2>2, <3>1, <3>2
  <2> QED
    BY <1>10, <2>4, <2>5 DEF Graph!Granted
(* The vectors of a posted request stay or get those of the answer.        *)
<1>11. ASSUME NEW c \in Searcher, at[c] = "posted", NEW v \in Seq(Fact \cup {NoFactVector}),
              Len(v) = Len(Graph!Texts(c)),
              \A i \in 1..Len(v) : v[i] \in {Graph!Texts(c)[i], NoFactVector},
              Graph!Finish(c, Graph!Outcome(c, v)), waiters' = waiters, factCache' \in Seq(Pairs),
              vectors'[c] = v, DOMAIN vectors' = Searcher,
              \A q \in Searcher \ {c} : vectors'[q] = vectors[q]
       PROVE  SearchInv'
  <2>1. c \notin ToSet(waiters)
    BY <1>11 DEF Sound
  <2>2. Sound(c)'
    BY <1>11, <2>1, OutcomeIsSound
  <2>3. Forms' /\ \A q \in Searcher \ {c} : at'[q] = at[q] /\ answer'[q] = answer[q]
    BY <1>11 DEF Graph!Finish, Graph!GoTo, Forms
  <2> QED
    BY <1>2, <1>11, <2>2, <2>3
<1>12. ASSUME NEW c \in Searcher, NEW got, Graph!EmbedderAnswers(c, got)
       PROVE  SearchInv'
  <2> DEFINE sent(p) == Graph!Texts(c)[Nth(Graph!Misses(c), p)]
             filled == [i \in 1..Len(vectors[c]) |->
                          IF \E p \in got : Graph!Place(c, p) = i
                          THEN sent(CHOOSE p \in got : Graph!Place(c, p) = i)
                          ELSE vectors[c][i]]
  <2>1. /\ at[c] = "posted" /\ vectors' = [vectors EXCEPT ![c] = filled]
        /\ Graph!Finish(c, Graph!Outcome(c, filled)) /\ waiters' = waiters
    BY <1>12, SameLists DEF Graph!EmbedderAnswers
  <2>2. /\ vectors[c] \in Seq(Fact \cup {NoFactVector}) /\ Len(vectors[c]) = Len(Graph!Texts(c))
        /\ \A i \in 1..Len(vectors[c]) : vectors[c][i] \in {Graph!Texts(c)[i], NoFactVector}
    BY <2>1 DEF Sound
  <2>3. \A i \in 1..Len(Graph!Texts(c)) : Graph!Texts(c)[i] \in Fact
    BY <1>0
  <2>4. Len(vectors[c]) \in Nat
    BY <2>2
  <2>5. /\ filled \in Seq(Fact \cup {NoFactVector}) /\ Len(filled) = Len(Graph!Texts(c))
        /\ \A i \in 1..Len(filled) : filled[i] \in {Graph!Texts(c)[i], NoFactVector}
    <3>1. ASSUME NEW i \in 1..Len(vectors[c]), \E p \in got : Graph!Place(c, p) = i
          PROVE  sent(CHOOSE p \in got : Graph!Place(c, p) = i) = Graph!Texts(c)[i]
      <4> DEFINE p == CHOOSE p \in got : Graph!Place(c, p) = i
      <4>1. Graph!Place(c, p) = i
        BY <3>1
      <4> QED
        BY <4>1, SameLists DEF Graph!Place
    <3> HIDE DEF sent
    <3>2. \A i \in 1..Len(vectors[c]) :
              filled[i] = vectors[c][i] \/ filled[i] = Graph!Texts(c)[i]
      BY <3>1
    <3>3. DOMAIN filled = 1..Len(vectors[c])
      OBVIOUS
    <3>4. filled = [i \in 1..Len(vectors[c]) |-> filled[i]]
      OBVIOUS
    <3> HIDE DEF filled
    <3>5. \A i \in 1..Len(Graph!Texts(c)) : filled[i] \in {Graph!Texts(c)[i], NoFactVector}
      BY <2>2, <3>2
    <3>6. \A i \in 1..Len(Graph!Texts(c)) : filled[i] \in Fact \cup {NoFactVector}
      BY <2>3, <3>5
    <3>7. Len(Graph!Texts(c)) \in Nat /\ filled = [i \in 1..Len(Graph!Texts(c)) |-> filled[i]]
      BY <2>2, <2>4, <3>4
    <3>8. filled \in Seq(Fact \cup {NoFactVector}) /\ Len(filled) = Len(Graph!Texts(c))
      BY <3>6, <3>7
    <3> QED
      BY <3>5, <3>8
  <2>6. factCache' \in Seq(Pairs)
    <3>1. Pairs \in SUBSET (Fact \X Fact)
      BY DEF Pairs
    <3>2. PICK pairs \in Seq(Pairs) :
                factCache' = CacheSets(factCache, pairs, FactCacheSize)
      BY <1>12, AnswerSetsPairs
    <3> QED
      BY <3>1, <3>2, CacheSetsKeep
  <2> HIDE DEF filled
  <2>7. /\ vectors'[c] = filled /\ DOMAIN vectors' = Searcher
        /\ \A q \in Searcher \ {c} : vectors'[q] = vectors[q]
    BY <2>1 DEF Forms
  <2> QED
    BY <1>11, <2>1, <2>5, <2>6, <2>7
<1>13. ASSUME NEW c \in Searcher, Graph!EmbedderFails(c)
       PROVE  SearchInv'
  <2>1. /\ at[c] = "posted" /\ Graph!Finish(c, Graph!Outcome(c, vectors[c]))
        /\ waiters' = waiters /\ factCache' = factCache /\ vectors' = vectors
    BY <1>13 DEF Graph!EmbedderFails
  <2>2. /\ vectors[c] \in Seq(Fact \cup {NoFactVector}) /\ Len(vectors[c]) = Len(Graph!Texts(c))
        /\ \A i \in 1..Len(vectors[c]) : vectors[c][i] \in {Graph!Texts(c)[i], NoFactVector}
    BY <2>1 DEF Sound
  <2> QED
    BY <1>11, <2>1, <2>2 DEF Forms
<1>14. ASSUME NEW c \in Searcher, Graph!EmbedderGarbles(c)
       PROVE  SearchInv'
  BY <1>4, <1>14 DEF Graph!EmbedderGarbles
<1>15. CASE Graph!Exit
  <2>1. /\ at' = [c \in Searcher |-> IF c \in Graph!Live THEN "cancelled" ELSE at[c]]
        /\ waiters' = <<>> /\ factCache' = factCache /\ vectors' = vectors /\ answer' = answer
    BY <1>15 DEF Graph!Exit
  <2>2. Forms' /\ waiters' \in Seq(Searcher) /\ IsInjective(waiters')
    BY <2>1 DEF Forms, IsInjective
  <2>3. ToSet(waiters') = {}
    BY <2>1 DEF ToSet
  <2>4. ASSUME NEW q \in Searcher
        PROVE  Sound(q)'
    <3>1. at'[q] = at[q] \/ (at'[q] = "cancelled" /\ at[q] # "done")
      BY <2>1 DEF Graph!Live
    <3> QED
      BY <2>1, <2>3, <3>1, OthersAreSound
  <2> QED
    BY <2>1, <2>2, <2>4
<1>16. CASE \/ Graph!FalkorFlips \/ Graph!CloseEngine \/ Graph!StopEmbedding \/ Graph!ForgetSession
            \/ UNCHANGED Graph!vars
  BY <1>1, <1>16
     DEF Graph!FalkorFlips, Graph!CloseEngine, Graph!StopEmbedding,
         Graph!ForgetSession, Graph!vars, Graph!shared, Graph!own
<1> QED
  BY <1>5, <1>6, <1>7, <1>8, <1>9, <1>10, <1>12, <1>13, <1>14, <1>15, <1>16
     DEF Graph!Next, Graph!Step

(* Initially nothing is cached and nobody waits.                           *)
LEMMA SearchStart ==
    ASSUME Graph!GraphSearchAssumption, Graph!Init
    PROVE  SearchInv
<1>1. /\ factCache = <<>> /\ waiters = <<>> /\ at = [c \in Searcher |-> "idle"]
      /\ vectors = [c \in Searcher |-> <<>>] /\ answer = [c \in Searcher |-> Graph!NoReply]
  BY DEF Graph!Init
<1>2. ToSet(waiters) = {}
  BY <1>1 DEF ToSet
<1>3. \A c \in Searcher : Sound(c)
  BY <1>1, <1>2 DEF Sound, Honest, Graph!NoReply
<1> QED
  BY <1>1, <1>3 DEF SearchInv, Forms, IsInjective

(* So it holds in every state.                                             *)
LEMMA SearchAlways ==
    ASSUME Graph!GraphSearchAssumption
    PROVE  Graph!Spec => []SearchInv
<1>1. Graph!Init => SearchInv
  BY SearchStart
<1>2. SearchInv /\ [Graph!Next]_(Graph!vars) => SearchInv'
  BY SearchStep
<1> QED
  BY <1>1, <1>2, PTL DEF Graph!Spec

(* A vector is that of its own text (embed).                               *)
THEOREM VectorsFitAlways ==
    ASSUME Graph!GraphSearchAssumption
    PROVE  Graph!Spec => []Graph!VectorsFit
<1>1. ASSUME SearchInv
      PROVE  Graph!VectorsFit
  <2>1. \A i \in 1..Len(factCache) : factCache[i] \in Pairs
    BY <1>1 DEF SearchInv
  <2> QED
    BY <1>1, <2>1 DEF SearchInv, Sound, Graph!VectorsFit, Pairs
<1> QED
  BY <1>1, SearchAlways, PTL

(* A 404 speaks of the seeds, a 200 that is not degraded has exactly the   *)
(* close facts, and degraded means a vector is missing (search).           *)
THEOREM RepliesAreHonestAlways ==
    ASSUME Graph!GraphSearchAssumption
    PROVE  Graph!Spec => []Graph!RepliesAreHonest
<1>1. SearchInv => Graph!RepliesAreHonest
  BY SameLists DEF SearchInv, Sound, Honest, Graph!RepliesAreHonest
<1> QED
  BY <1>1, SearchAlways, PTL

(* Where everything is.                                                    *)
Posted == {c \in Searcher : at[c] = "posted"}

(* The clients and the stage of the daemon.                                *)
Clients ==
    /\ stage \in Graph!Stage /\ falkor \in BOOLEAN /\ redis \in BOOLEAN
    /\ opened \in Nat /\ session \in 0..opened /\ closed \in SUBSET (1..opened)

(* Every slot is free or held, so that only finitely many are held.        *)
Slots ==
    /\ slots \in Nat /\ IsFiniteSet(Posted)
    /\ slots + Cardinality(Posted) = Concurrency

(* What the place of a request says of its answer, its command and the     *)
(* queue.                                                                  *)
Placed(c) ==
    /\ answer[c].code \in Graph!Code /\ (answer[c].code = "none" <=> at[c] # "done")
    /\ disturbed[c] \in BOOLEAN
    /\ disturbed[c] => at[c] \in {"ping", "probe", "bfs"}
    /\ at[c] = "waiting" => c \in ToSet(waiters)

(* The invariant behind the types: a request is posted with a slot only,   *)
(* and it gives the slot back as it leaves.                                *)
SearchTypes ==
    /\ SearchInv /\ Clients /\ Slots /\ IsWithin(factCache, FactCacheSize)
    /\ at \in [Searcher -> Graph!Pc] /\ DOMAIN disturbed = Searcher
    /\ \A c \in Searcher : Placed(c)

(* Who holds a slot after a request has moved.                             *)
LEMMA PostedAfter ==
    ASSUME at \in [Searcher -> Graph!Pc], NEW c \in Searcher, NEW l \in Graph!Pc, Moves(c, l)
    PROVE  /\ at' \in [Searcher -> Graph!Pc] /\ at'[c] = l
           /\ \A q \in Searcher \ {c} : at'[q] = at[q]
           /\ Posted' = IF l = "posted" THEN Posted \cup {c} ELSE Posted \ {c}
<1>1. /\ at' \in [Searcher -> Graph!Pc] /\ at'[c] = l
      /\ \A q \in Searcher \ {c} : at'[q] = at[q]
  BY DEF Moves
<1> QED
  BY <1>1 DEF Posted

(* The slots that a request leaves or takes.                               *)
Takes(c, l) ==
    \/ at[c] # "posted" /\ l # "posted" /\ slots' = slots
    \/ at[c] # "posted" /\ l = "posted" /\ slots > 0 /\ slots' = slots - 1
    \/ at[c] = "posted" /\ l # "posted" /\ slots' = slots + 1

LEMMA SlotsAfter ==
    ASSUME at \in [Searcher -> Graph!Pc], Slots, NEW c \in Searcher, NEW l \in Graph!Pc,
           Moves(c, l), Takes(c, l)
    PROVE  Slots'
<1>1. Posted' = IF l = "posted" THEN Posted \cup {c} ELSE Posted \ {c}
  BY PostedAfter
<1>2. /\ slots \in Nat /\ IsFiniteSet(Posted) /\ Cardinality(Posted) \in Nat
      /\ slots + Cardinality(Posted) = Concurrency
  BY FS_CardinalityType DEF Slots
<1>3. CASE at[c] # "posted" /\ l # "posted" /\ slots' = slots
  <2>1. Posted' = Posted
    BY <1>1, <1>3 DEF Posted
  <2> QED
    BY <1>2, <1>3, <2>1 DEF Slots
<1>4. CASE at[c] # "posted" /\ l = "posted" /\ slots > 0 /\ slots' = slots - 1
  <2>1. Posted' = Posted \cup {c} /\ c \notin Posted
    BY <1>1, <1>4 DEF Posted
  <2>2. IsFiniteSet(Posted') /\ Cardinality(Posted') = Cardinality(Posted) + 1
    BY <1>2, <2>1, FS_AddElement
  <2> QED
    BY <1>2, <1>4, <2>2 DEF Slots
<1>5. CASE at[c] = "posted" /\ l # "posted" /\ slots' = slots + 1
  <2>1. Posted' = Posted \ {c} /\ c \in Posted
    BY <1>1, <1>5 DEF Posted
  <2>2. IsFiniteSet(Posted') /\ Cardinality(Posted') = Cardinality(Posted) - 1
    BY <1>2, <2>1, FS_RemoveElement
  <2> QED
    BY <1>2, <1>5, <2>2 DEF Slots
<1> QED
  BY <1>3, <1>4, <1>5 DEF Takes

(* What a step of one request must say of it for the invariant to hold     *)
(* after it.                                                               *)
LEMMA MoveKeepsTypes ==
    ASSUME SearchTypes, SearchInv', Clients', IsWithin(factCache', FactCacheSize),
           NEW c \in Searcher, NEW l \in Graph!Pc, Moves(c, l), Takes(c, l),
           DOMAIN disturbed' = Searcher, disturbed'[c] \in BOOLEAN,
           disturbed'[c] => l \in {"ping", "probe", "bfs"},
           \A q \in Searcher \ {c} :
                disturbed'[q] = disturbed[q] /\ answer'[q] = answer[q],
           \A q \in Searcher \ {c} : q \in ToSet(waiters) => q \in ToSet(waiters'),
           l = "waiting" => c \in ToSet(waiters'),
           answer'[c].code \in Graph!Code, answer'[c].code = "none" <=> l # "done"
    PROVE  SearchTypes'
<1>1. /\ at' \in [Searcher -> Graph!Pc] /\ at'[c] = l
      /\ \A q \in Searcher \ {c} : at'[q] = at[q]
  BY PostedAfter DEF SearchTypes
<1>2. Slots'
  BY SlotsAfter DEF SearchTypes
<1>3. Placed(c)'
  BY <1>1 DEF Placed
<1>4. ASSUME NEW q \in Searcher \ {c}
      PROVE  Placed(q)'
  BY <1>1, <1>4 DEF SearchTypes, Placed
<1> QED
  BY <1>1, <1>2, <1>3, <1>4 DEF SearchTypes

(* The clients stay clients, and a session is closed that was opened.      *)
LEMMA ClientsStep ==
    ASSUME Clients, [Graph!Next]_(Graph!vars)
    PROVE  Clients'
<1> USE DEF Clients
<1>1. ASSUME UNCHANGED <<stage, falkor, session, opened, closed>>, redis' \in BOOLEAN
      PROVE  Clients'
  BY <1>1
<1>2. ASSUME NEW c \in Searcher, Graph!Arrive(c)
      PROVE  Clients'
  BY <1>1, <1>2 DEF Graph!Arrive, Graph!NoEmbedding
<1>3. ASSUME NEW c \in Searcher,
             \/ Graph!PingAnswers(c) \/ Graph!PingFails(c) \/ Graph!ProbeAnswers(c)
             \/ Graph!CommandFails(c) \/ Graph!TraversalTimesOut(c)
      PROVE  Clients'
  BY <1>1, <1>3 DEF Graph!PingAnswers, Graph!PingFails, Graph!ProbeAnswers,
                    Graph!CommandFails, Graph!TraversalTimesOut, Graph!NoEmbedding
<1>4. ASSUME NEW c \in Searcher, Graph!TraversalAnswers(c)
      PROVE  Clients'
  <2>1. /\ UNCHANGED <<stage, falkor, redis, closed>>
        /\ UNCHANGED <<session, opened>> \/ Graph!StartSession
    BY <1>4 DEF Graph!TraversalAnswers
  <2> QED
    BY <2>1 DEF Graph!StartSession
<1>5. ASSUME NEW c \in Searcher,
             \/ Graph!Granted(c) \/ \E got : Graph!EmbedderAnswers(c, got)
             \/ Graph!EmbedderFails(c) \/ Graph!EmbedderGarbles(c)
      PROVE  Clients'
  BY <1>1, <1>5 DEF Graph!Granted, Graph!EmbedderAnswers, Graph!EmbedderFails,
                    Graph!EmbedderGarbles
<1>6. CASE Graph!FalkorFlips \/ Graph!CloseEngine \/ Graph!Exit
  BY <1>6 DEF Graph!FalkorFlips, Graph!CloseEngine, Graph!Exit, Graph!Stage, Graph!shared
<1>7. CASE Graph!StopEmbedding
  <2>1. /\ stage' \in Graph!Stage /\ UNCHANGED <<falkor, redis, session, opened>>
        /\ closed' = closed \cup ({session} \cap ((1..opened) \ closed))
    BY <1>7 DEF Graph!StopEmbedding, Graph!Stage, Graph!Open
  <2> QED
    BY <2>1
<1>8. CASE Graph!ForgetSession
  <2>1. /\ stage' \in Graph!Stage /\ UNCHANGED <<falkor, redis, opened, closed>>
        /\ session' = 0
    BY <1>8 DEF Graph!ForgetSession, Graph!Stage
  <2> QED
    BY <2>1
<1>9. CASE UNCHANGED Graph!vars
  BY <1>1, <1>9 DEF Graph!vars, Graph!shared
<1> QED
  BY <1>2, <1>3, <1>4, <1>5, <1>6, <1>7, <1>8, <1>9 DEF Graph!Next, Graph!Step

(* The cache never outgrows its size.                                      *)
LEMMA CacheStep ==
    ASSUME Graph!GraphSearchAssumption, SearchInv, IsWithin(factCache, FactCacheSize),
           [Graph!Next]_(Graph!vars)
    PROVE  IsWithin(factCache', FactCacheSize)
<1>1. /\ Pairs \in SUBSET (Fact \X Fact) /\ factCache \in Seq(Pairs)
      /\ FactCacheSize \in Nat
  BY DEF Pairs, SearchInv, Graph!GraphSearchAssumption
<1>2. ASSUME NEW c \in Searcher, NEW got, Graph!EmbedderAnswers(c, got)
      PROVE  IsWithin(factCache', FactCacheSize)
  <2>1. PICK pairs \in Seq(Pairs) :
            factCache' = CacheSets(factCache, pairs, FactCacheSize)
    BY <1>2, AnswerSetsPairs
  <2> QED
    BY <1>1, <2>1, CacheSetsAreWithin
<1>3. ASSUME NEW c \in Searcher, Graph!TraversalAnswers(c)
      PROVE  IsWithin(factCache', FactCacheSize)
  <2>1. factCache' = factCache \/ factCache' = CacheGets(factCache, Graph!Texts(c))
    BY <1>3, SameCaches DEF Graph!TraversalAnswers
  <2>2. Graph!Texts(c) \in Seq(Fact)
    BY TextsAre
  <2>3. IsWithin(CacheGets(factCache, Graph!Texts(c)), FactCacheSize)
    BY <1>1, <2>2, CacheGetsAreWithin
  <2> QED
    BY <2>1, <2>3
<1>4. ASSUME NEW c \in Searcher,
             \/ Graph!Arrive(c) \/ Graph!PingAnswers(c) \/ Graph!PingFails(c)
             \/ Graph!ProbeAnswers(c) \/ Graph!CommandFails(c)
             \/ Graph!TraversalTimesOut(c) \/ Graph!Granted(c)
             \/ Graph!EmbedderFails(c) \/ Graph!EmbedderGarbles(c)
      PROVE  factCache' = factCache
  BY <1>4 DEF Graph!Arrive, Graph!PingAnswers, Graph!PingFails, Graph!ProbeAnswers,
              Graph!CommandFails, Graph!TraversalTimesOut, Graph!Granted,
              Graph!EmbedderFails, Graph!EmbedderGarbles, Graph!NoEmbedding
<1>5. CASE \/ Graph!FalkorFlips \/ Graph!CloseEngine \/ Graph!StopEmbedding
           \/ Graph!ForgetSession \/ Graph!Exit \/ UNCHANGED Graph!vars
  BY <1>5 DEF Graph!FalkorFlips, Graph!CloseEngine, Graph!StopEmbedding,
              Graph!ForgetSession, Graph!Exit, Graph!vars, Graph!shared
<1> QED
  BY <1>2, <1>3, <1>4, <1>5 DEF Graph!Next, Graph!Step

(* Each step keeps the invariant: a request takes a slot as it is posted   *)
(* and gives it back however that ends, and is queued as long as it waits. *)
LEMMA TypesStep ==
    ASSUME Graph!GraphSearchAssumption, SearchTypes, [Graph!Next]_(Graph!vars)
    PROVE  SearchTypes'
<1> DEFINE Quiet == {"ping", "probe", "bfs"}
<1>1. SearchInv' /\ Clients' /\ IsWithin(factCache', FactCacheSize)
  BY SearchStep, ClientsStep, CacheStep DEF SearchTypes
<1>2. /\ Forms /\ DOMAIN disturbed = Searcher /\ falkor \in BOOLEAN
      /\ at \in [Searcher -> Graph!Pc]
      /\ \A c \in Searcher : Placed(c)
  BY DEF SearchTypes, SearchInv, Clients
<1>3. \A c \in Searcher : answer[c].code = "none" => answer[c].code \in Graph!Code
  BY DEF Graph!Code
(* A request sends a command.                                              *)
<1>4. ASSUME NEW c \in Searcher, NEW l \in Quiet, Graph!Command(c, l),
             UNCHANGED <<answer, waiters, slots>>, at[c] \in Quiet \cup {"idle"}
      PROVE  SearchTypes'
  <2>1. /\ Moves(c, l) /\ l \in Graph!Pc /\ Takes(c, l)
        /\ DOMAIN disturbed' = Searcher /\ disturbed'[c] \in BOOLEAN
        /\ \A q \in Searcher \ {c} : disturbed'[q] = disturbed[q]
    BY <1>2, <1>4 DEF Graph!Command, Graph!Pc, Takes, Moves
  <2>2. answer'[c].code = "none" /\ l # "done" /\ answer'[c].code \in Graph!Code
    BY <1>2, <1>4 DEF Placed
  <2> QED
    BY <1>1, <1>4, <2>1, <2>2, MoveKeepsTypes
(* A request goes on without one.                                          *)
<1>5. ASSUME NEW c \in Searcher, NEW l \in {"waiting", "posted"}, Graph!GoTo(c, l),
             answer' = answer, at[c] # "done", Takes(c, l),
             \A q \in Searcher \ {c} : q \in ToSet(waiters) => q \in ToSet(waiters'),
             l = "waiting" => c \in ToSet(waiters')
      PROVE  SearchTypes'
  <2>1. /\ Moves(c, l) /\ l \in Graph!Pc
        /\ DOMAIN disturbed' = Searcher /\ disturbed'[c] = FALSE
        /\ \A q \in Searcher \ {c} : disturbed'[q] = disturbed[q]
    BY <1>2, <1>5 DEF Graph!GoTo, Graph!Pc, Moves
  <2>2. answer'[c].code = "none" /\ l # "done" /\ answer'[c].code \in Graph!Code
    BY <1>2, <1>5 DEF Placed
  <2> QED
    BY <1>1, <1>5, <2>1, <2>2, MoveKeepsTypes
(* A request ends.                                                         *)
<1>6. ASSUME NEW c \in Searcher, NEW r, Graph!Finish(c, r),
             r.code \in Graph!Code \ {"none"}, Takes(c, "done"),
             \A q \in Searcher \ {c} : q \in ToSet(waiters) => q \in ToSet(waiters')
      PROVE  SearchTypes'
  <2>1. /\ Moves(c, "done") /\ "done" \in Graph!Pc
        /\ DOMAIN disturbed' = Searcher /\ disturbed'[c] = FALSE
        /\ \A q \in Searcher \ {c} : disturbed'[q] = disturbed[q] /\ answer'[q] = answer[q]
        /\ answer'[c] = r
    BY <1>2, <1>6 DEF Graph!Finish, Graph!GoTo, Graph!Pc, Moves, Forms
  <2> QED
    BY <1>1, <1>6, <2>1, MoveKeepsTypes
<1>7. ASSUME NEW c \in Searcher, NEW code \in Graph!Code \ {"none"}, Graph!Refuse(c, code),
             UNCHANGED <<slots, waiters>>, at[c] # "posted"
      PROVE  SearchTypes'
  <2>1. [Graph!NoReply EXCEPT !.code = code].code = code
    BY DEF Graph!NoReply
  <2> QED
    BY <1>6, <1>7, <2>1 DEF Graph!Refuse, Takes
<1>8. {"OK", "FALKOR_DOWN", "INVALID_CYPHER", "SEED_NOT_FOUND",
       "TRAVERSAL_TIMEOUT", "INTERNAL"}
          \subseteq Graph!Code \ {"none"}
  BY DEF Graph!Code
<1>9. ASSUME NEW c \in Searcher, Graph!Arrive(c)
      PROVE  SearchTypes'
  <2>1. UNCHANGED <<answer, waiters, slots>> /\ at[c] = "idle"
        /\ (Graph!Command(c, "probe") \/ Graph!Command(c, "ping"))
    BY <1>9 DEF Graph!Arrive, Graph!NoEmbedding
  <2> QED
    BY <1>4, <2>1
<1>10. ASSUME NEW c \in Searcher, Graph!PingAnswers(c) \/ Graph!PingFails(c)
       PROVE  SearchTypes'
  <2>1. UNCHANGED <<waiters, slots>> /\ at[c] = "ping"
        /\ ((Graph!Command(c, "probe") /\ UNCHANGED answer) \/ Graph!Refuse(c, "FALKOR_DOWN"))
    BY <1>10 DEF Graph!PingAnswers, Graph!PingFails, Graph!NoEmbedding
  <2> QED
    BY <1>4, <1>7, <1>8, <2>1
<1>11. ASSUME NEW c \in Searcher, Graph!ProbeAnswers(c)
       PROVE  SearchTypes'
  <2>1. /\ UNCHANGED <<waiters, slots>> /\ at[c] = "probe"
        /\ \/ Graph!Command(c, "bfs") /\ UNCHANGED answer
           \/ Graph!Refuse(c, "FALKOR_DOWN")
           \/ Graph!Refuse(c, "SEED_NOT_FOUND")
    BY <1>11 DEF Graph!ProbeAnswers, Graph!NoEmbedding
  <2> QED
    BY <1>4, <1>7, <1>8, <2>1
<1>12. ASSUME NEW c \in Searcher, Graph!CommandFails(c) \/ Graph!TraversalTimesOut(c)
       PROVE  SearchTypes'
  <2>1. /\ UNCHANGED <<waiters, slots>> /\ at[c] # "posted"
        /\ \/ Graph!Refuse(c, "FALKOR_DOWN") \/ Graph!Refuse(c, "INVALID_CYPHER")
           \/ Graph!Refuse(c, "TRAVERSAL_TIMEOUT")
    BY <1>12 DEF Graph!CommandFails, Graph!TraversalTimesOut, Graph!NoEmbedding,
                 Graph!Failure
  <2> QED
    BY <1>7, <1>8, <2>1
<1>13. \A c, v : Graph!Outcome(c, v).code = "OK"
  BY DEF Graph!Outcome
<1>14. ASSUME NEW c \in Searcher, Graph!TraversalAnswers(c)
       PROVE  SearchTypes'
  <2>1. at[c] = "bfs" /\ waiters \in Seq(Searcher) /\ c \notin ToSet(waiters)
        /\ IsInjective(waiters)
    BY <1>14 DEF Graph!TraversalAnswers, SearchTypes, SearchInv, Sound
  <2>2. \/ \E r : /\ Graph!Finish(c, r) /\ r.code = "OK"
                  /\ UNCHANGED <<slots, waiters>>
        \/ /\ Graph!GoTo(c, "posted") /\ slots > 0 /\ slots' = slots - 1
           /\ UNCHANGED <<answer, waiters>>
        \/ /\ Graph!GoTo(c, "waiting") /\ waiters' = Append(waiters, c)
           /\ UNCHANGED <<answer, slots>>
    <3>1. [Graph!NoReply EXCEPT !.code = "OK"].code = "OK"
      BY DEF Graph!NoReply
    <3> QED
      BY <1>13, <1>14, <3>1 DEF Graph!TraversalAnswers
  <2>3. ASSUME NEW r, Graph!Finish(c, r), r.code = "OK", UNCHANGED <<slots, waiters>>
        PROVE  SearchTypes'
    BY <1>6, <1>8, <2>1, <2>3 DEF Takes
  <2>4. CASE /\ Graph!GoTo(c, "posted") /\ slots > 0 /\ slots' = slots - 1
             /\ UNCHANGED <<answer, waiters>>
    BY <1>5, <2>1, <2>4 DEF Takes
  <2>5. CASE /\ Graph!GoTo(c, "waiting") /\ waiters' = Append(waiters, c)
             /\ UNCHANGED <<answer, slots>>
    <3>1. ToSet(waiters') = ToSet(waiters) \cup {c}
      BY <2>1, <2>5, AppendAdds
    <3> QED
      BY <1>5, <2>1, <2>5, <3>1 DEF Takes
  <2> QED
    BY <2>2, <2>3, <2>4, <2>5
<1>15. ASSUME NEW c \in Searcher, Graph!Granted(c)
       PROVE  SearchTypes'
  <2>1. /\ waiters # <<>> /\ c = waiters[1] /\ waiters' = Tail(waiters) /\ slots > 0
        /\ \/ Graph!GoTo(c, "posted") /\ slots' = slots - 1 /\ UNCHANGED answer
           \/ Graph!Refuse(c, "INTERNAL") /\ UNCHANGED slots
    BY <1>15 DEF Graph!Granted
  <2>2. waiters \in Seq(Searcher) /\ IsInjective(waiters)
    BY DEF SearchTypes, SearchInv
  <2>3. ToSet(waiters') = ToSet(waiters) \ {c} /\ c \in ToSet(waiters)
    <3>1. 1 \in 1..Len(waiters)
      BY <2>1, <2>2
    <3> QED
      BY <2>1, <2>2, <3>1, TailDrops, Elements
  <2>4. at[c] = "waiting"
    BY <2>3 DEF SearchTypes, SearchInv, Sound
  <2>5. CASE Graph!GoTo(c, "posted") /\ slots' = slots - 1 /\ UNCHANGED answer
    BY <1>5, <2>1, <2>3, <2>4, <2>5 DEF Takes
  <2>6. CASE Graph!Refuse(c, "INTERNAL") /\ UNCHANGED slots
    <3>1. [Graph!NoReply EXCEPT !.code = "INTERNAL"].code = "INTERNAL"
      BY DEF Graph!NoReply
    <3> QED
      BY <1>6, <1>8, <2>3, <2>4, <2>6, <3>1 DEF Takes, Graph!Refuse
  <2> QED
    BY <2>1, <2>5, <2>6
(* Whatever becomes of a posted request, its slot is free again.           *)
<1>16. ASSUME NEW c \in Searcher,
              \/ \E got : Graph!EmbedderAnswers(c, got)
              \/ Graph!EmbedderFails(c) \/ Graph!EmbedderGarbles(c)
       PROVE  SearchTypes'
  <2>1. /\ at[c] = "posted" /\ slots' = slots + 1 /\ waiters' = waiters
        /\ \E r : Graph!Finish(c, r) /\ r.code \in {"OK", "INTERNAL"}
    <3>1. [Graph!NoReply EXCEPT !.code = "INTERNAL"].code = "INTERNAL"
      BY DEF Graph!NoReply
    <3> QED
      BY <1>13, <1>16, <3>1
         DEF Graph!EmbedderAnswers, Graph!EmbedderFails, Graph!EmbedderGarbles, Graph!Refuse
  <2> QED
    BY <1>6, <1>8, <2>1 DEF Takes
<1>17. CASE Graph!Exit
  <2>1. /\ at' = [c \in Searcher |-> IF c \in Graph!Live THEN "cancelled" ELSE at[c]]
        /\ disturbed' = [c \in Searcher |-> FALSE]
        /\ slots' = Concurrency /\ answer' = answer
    BY <1>17 DEF Graph!Exit
  <2>2. at' \in [Searcher -> Graph!Pc]
    BY <1>2, <2>1 DEF Graph!Pc
  <2>3. \A c \in Searcher : at'[c] \in {"idle", "done", "cancelled"}
                            /\ (at'[c] = "done" <=> at[c] = "done")
    BY <2>1 DEF Graph!Live
  <2>4. Posted' = {}
    BY <2>3 DEF Posted
  <2>5. Slots'
    BY <2>1, <2>4, FS_EmptySet DEF Slots, Graph!GraphSearchAssumption
  <2>6. \A c \in Searcher : Placed(c)'
    BY <1>2, <2>1, <2>3 DEF Placed
  <2> QED
    BY <1>1, <2>1, <2>2, <2>5, <2>6 DEF SearchTypes
<1>18. ASSUME UNCHANGED <<slots, waiters, at, answer>>, DOMAIN disturbed' = Searcher,
              \A c \in Searcher : /\ disturbed'[c] \in BOOLEAN
                                  /\ disturbed'[c] => disturbed[c] \/ c \in Graph!Commanding
       PROVE  SearchTypes'
  <2>1. \A c \in Searcher : Placed(c)'
    BY <1>2, <1>18 DEF Placed, Graph!Commanding
  <2>2. Slots'
    BY <1>18 DEF SearchTypes, Slots, Posted
  <2> QED
    BY <1>1, <1>2, <1>18, <2>1, <2>2 DEF SearchTypes
<1>19. CASE Graph!FalkorFlips \/ Graph!CloseEngine
  <2>1. /\ UNCHANGED <<slots, waiters, at, answer>>
        /\ \E S \in {Graph!Commanding, {}} : Graph!Disturb(S)
    BY <1>19 DEF Graph!FalkorFlips, Graph!CloseEngine, Graph!shared
  <2>2. \A c \in Searcher : disturbed[c] \in BOOLEAN
    BY <1>2 DEF Placed
  <2>3. DOMAIN disturbed' = Searcher
        /\ \A c \in Searcher : /\ disturbed'[c] \in BOOLEAN
                               /\ disturbed'[c] => disturbed[c] \/ c \in Graph!Commanding
    BY <2>1, <2>2 DEF Graph!Disturb
  <2> QED
    BY <1>18, <2>1, <2>3
<1>20. CASE Graph!StopEmbedding \/ Graph!ForgetSession \/ UNCHANGED Graph!vars
  <2>1. UNCHANGED <<slots, waiters, at, answer, disturbed>>
    BY <1>20 DEF Graph!StopEmbedding, Graph!ForgetSession, Graph!vars, Graph!shared, Graph!own
  <2> QED
    BY <1>2, <1>18, <2>1 DEF Placed
<1> QED
  BY <1>9, <1>10, <1>11, <1>12, <1>14, <1>15, <1>16, <1>17, <1>19, <1>20
     DEF Graph!Next, Graph!Step

(* Initially every slot is free.                                           *)
LEMMA TypesStart ==
    ASSUME Graph!GraphSearchAssumption, Graph!Init
    PROVE  SearchTypes
<1>1. /\ stage = "up" /\ falkor \in BOOLEAN /\ redis = falkor
      /\ session = 1 /\ opened = 1 /\ closed = {}
      /\ slots = Concurrency /\ waiters = <<>> /\ factCache = <<>>
      /\ at = [c \in Searcher |-> "idle"] /\ disturbed = [c \in Searcher |-> FALSE]
      /\ answer = [c \in Searcher |-> Graph!NoReply]
  BY DEF Graph!Init
<1>2. Clients
  BY <1>1 DEF Clients, Graph!Stage
<1>3. Posted = {}
  BY <1>1 DEF Posted
<1>4. Slots
  BY <1>1, <1>3, FS_EmptySet DEF Slots, Graph!GraphSearchAssumption
<1>5. IsWithin(factCache, FactCacheSize)
  BY <1>1 DEF IsWithin, IsKeyed, Graph!GraphSearchAssumption
<1>6. \A c \in Searcher : Placed(c)
  BY <1>1 DEF Placed, Graph!Code, Graph!NoReply
<1>7. at \in [Searcher -> Graph!Pc] /\ DOMAIN disturbed = Searcher
  BY <1>1 DEF Graph!Pc
<1> QED
  BY <1>2, <1>4, <1>5, <1>6, <1>7, SearchStart DEF SearchTypes

(* Every variable has its type, and with it: slots and the posted requests *)
(* add up to the concurrency, the queue of the semaphore has the waiting   *)
(* requests once each, the cache has a key once and no more than its size, *)
(* and a request is done if and only if it has an answer (embed, LRUCache- *)
(* Backend).                                                               *)
THEOREM GraphSearchTypeOK ==
    ASSUME Graph!GraphSearchAssumption
    PROVE  Graph!Spec => []Graph!TypeOK
<1>1. Graph!Init => SearchTypes
  BY TypesStart
<1>2. SearchTypes /\ [Graph!Next]_(Graph!vars) => SearchTypes'
  BY TypesStep
<1>3. ASSUME SearchTypes
      PROVE  Graph!TypeOK
  <2>1. Graph!SlotsAreCounted
    <3>1. Cardinality(Posted) \in Nat
      BY <1>3, FS_CardinalityType DEF SearchTypes, Slots
    <3>2. slots \in 0..Concurrency /\ slots = Concurrency - Cardinality(Posted)
      BY <1>3, <3>1 DEF SearchTypes, Slots, Graph!GraphSearchAssumption
    <3>3. ToSet(waiters) = {c \in Searcher : at[c] = "waiting"}
      <4>1. ToSet(waiters) \subseteq Searcher
        BY <1>3, Elements DEF SearchTypes, SearchInv
      <4> QED
        BY <1>3, <4>1 DEF SearchTypes, SearchInv, Sound, Placed
    <3>4. IsInjective(waiters)
      BY <1>3 DEF SearchTypes, SearchInv
    <3> QED
      BY <3>2, <3>3, <3>4, SameLists DEF Graph!SlotsAreCounted, Posted
  <2>2. factCache \in Seq(Fact \X Fact) /\ Graph!IsWithin(factCache, FactCacheSize)
    <3>1. factCache \in Seq(Pairs) /\ Pairs \subseteq Fact \X Fact
      BY <1>3 DEF SearchTypes, SearchInv, Pairs
    <3> QED
      BY <1>3, <3>1 DEF SearchTypes, IsWithin, IsKeyed, Graph!IsWithin, Graph!IsKeyed
  <2>3. \A c \in Searcher :
            /\ vectors[c] \in Seq(Fact \cup {NoFactVector})
            /\ answer[c].code \in Graph!Code
            /\ (answer[c].code # "none") <=> (at[c] = "done")
            /\ disturbed[c] \in BOOLEAN /\ (disturbed[c] => c \in Graph!Commanding)
    BY <1>3 DEF SearchTypes, SearchInv, Sound, Placed, Graph!Commanding
  <2>4. /\ stage \in Graph!Stage /\ falkor \in BOOLEAN /\ redis \in BOOLEAN
        /\ opened \in Nat /\ session \in 0..opened /\ closed \subseteq 1..opened
        /\ at \in [Searcher -> Graph!Pc]
    BY <1>3 DEF SearchTypes, Clients
  <2> QED
    BY <2>1, <2>2, <2>3, <2>4 DEF Graph!TypeOK
<1> QED
  BY <1>1, <1>2, <1>3, PTL DEF Graph!Spec
=============================================================================
