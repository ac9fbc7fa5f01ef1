-------------------------- MODULE PackShardsProofs --------------------------
(***************************************************************************)
(* The packing loop for any files, sizes, target and number of shards.     *)
(*                                                                         *)
(* That a shard is never worth taking a file from follows from the order   *)
(* alone: what is placed is at least as large as what is still to place.   *)
(* Hence a shard less one of its files is no more than a fair share of all *)
(* that is pending.  There are enough shards for a fair share to be within *)
(* the target, and no packing whatever can do with less than one.  Graham's*)
(* bound needs one thing more: as long as all files of a shard are larger  *)
(* than a third of what the best packing needs, the loop does as well.     *)
(***************************************************************************)
EXTENDS PackShards, FiniteSetTheorems, TLAPS

PackedTypes ==
    /\ size \in [File -> 0 .. MaxSize]
    /\ todo \subseteq pending
    /\ pending \subseteq File
    /\ shards \in [Shard -> SUBSET File]
    /\ shard_sizes \in [Shard -> Nat]

\* Every placed file is at least as large as every file still to place.
LargestFirst ==
    \A i \in Shard : \A f \in shards[i], g \in todo : size[g] <= size[f]

\* Weight, of files of the given sizes.
Total(sz, S) == MapThenSumSet(LAMBDA f : sz[f], S)

\* The loop's sums are what the shards weigh.
SizesAreWeights ==
    \A i \in Shard : shard_sizes[i] = Total(size, shards[i])

\* The shards are numbered from 0, and unless their number is capped they can
\* hold all that is pending without passing the target.
EnoughShards ==
    \E n \in 0 .. MaxShards :
       /\ Shard = 0 .. n - 1
       /\ (n = 0) <=> (pending = {})
       /\ Total(size, pending) <= MaxShards * TargetBytes =>
             Total(size, pending) <= n * TargetBytes

\* Some packing into the same shards keeps each of them within m.
Suffices(m) ==
    \E packing \in [pending -> Shard] :
       \A j \in Shard : Total(size, {f \in pending : packing[f] = j}) <= m

\* Files larger than a third of what some packing needs are packed as well.
LargeFit ==
    \A m \in Nat : Suffices(m) =>
       \A i \in Shard : (\A f \in shards[i] : m < 3 * size[f]) =>
          Total(size, shards[i]) <= m

IInv ==
    /\ PackedTypes /\ EachFileOnce /\ LargestFirst /\ Balanced
    /\ SizesAreWeights /\ EnoughShards /\ LargeFit

-----------------------------------------------------------------------------
(* Sums over finite sets.  The induction is over the subsets of a finite   *)
(* set, by a smallest counterexample.                                      *)

\* The element the sum takes first.
First(S) == CHOOSE x \in S : TRUE

\* The recursion by which a sum over the subsets of S is defined.
Adds(g, sz, S) ==
    g = [s \in SUBSET S |-> IF s = {} THEN 0 ELSE sz[First(s)] + g[s \ {First(s)}]]

\* Weight is the sum of the sizes.
LEMMA WeightIsTotal ==
    \A S : Weight(S) = Total(size, S)
BY DEF Weight, Total, MapThenSumSet, MapThenFoldSet

\* Subsets of a finite set that fail have one whose strict subsets do not.
LEMMA MinimalSet ==
    ASSUME NEW S, IsFiniteSet(S), NEW B \in SUBSET (SUBSET S), B # {}
    PROVE  \E s \in B : \A t \in SUBSET s : t \in B => t = s
<1>1. IsWellFoundedOn(StrictSubsetOrdering(S), FiniteSubsetsOf(S))
    BY FS_StrictSubsetOrderingWellFounded
<1>2. FiniteSubsetsOf(S) = SUBSET S
    BY FS_FiniteSubsetsOfFinite
<1>3. \E s \in B : \A t \in B : <<t, s>> \notin StrictSubsetOrdering(S)
    BY <1>1, <1>2, WFMin
<1> QED
    BY <1>3 DEF StrictSubsetOrdering

\* The first element is one.
LEMMA FirstIn == ASSUME NEW S, S # {} PROVE First(S) \in S
BY DEF First

\* The recursion has at most one solution.
LEMMA AddsUnique ==
    ASSUME NEW sz, NEW S, IsFiniteSet(S), NEW g, NEW h, NEW U,
           Adds(g, sz, S), Adds(h, sz, U), S \subseteq U
    PROVE  \A s \in SUBSET S : g[s] = h[s]
<1> DEFINE B == {s \in SUBSET S : g[s] # h[s]}
<1> SUFFICES ASSUME B # {} PROVE FALSE
    OBVIOUS
<1>0. B \in SUBSET (SUBSET S)
    OBVIOUS
<1>1. PICK s \in B : \A t \in SUBSET s : t \in B => t = s
  <2> HIDE DEF B
  <2> QED
      BY <1>0, MinimalSet
<1>2. s # {}
    BY DEF Adds
<1>3. First(s) \in s
    BY <1>2, FirstIn
<1>4. g[s \ {First(s)}] = h[s \ {First(s)}]
    BY <1>1, <1>3
<1>5. /\ g[s] = sz[First(s)] + g[s \ {First(s)}]
      /\ h[s] = sz[First(s)] + h[s \ {First(s)}]
    BY <1>2 DEF Adds
<1> QED
    BY <1>4, <1>5

\* It is by this recursion that Total is defined.
LEMMA TotalSolves ==
    ASSUME NEW sz, NEW S, NEW g, IsFiniteSet(S), Adds(g, sz, S)
    PROVE  g[S] = Total(sz, S)
<1> DEFINE it == CHOOSE h : Adds(h, sz, S)
<1>1. Adds(it, sz, S)
    OBVIOUS
<1>2. Total(sz, S) = it[S]
    BY DEF Total, MapThenSumSet, MapThenFoldSet, Adds, First
<1> QED
    BY <1>1, <1>2, AddsUnique

\* The recursion has a solution on every finite set.
LEMMA AddsExists ==
    ASSUME NEW sz, NEW S, IsFiniteSet(S)
    PROVE  \E g : Adds(g, sz, S)
<1> DEFINE B == {s \in SUBSET S : ~ \E g : Adds(g, sz, s)}
<1> SUFFICES ASSUME B # {} PROVE FALSE
    OBVIOUS
<1>0. B \in SUBSET (SUBSET S)
    OBVIOUS
<1>1. PICK u \in B : \A t \in SUBSET u : t \in B => t = u
  <2> HIDE DEF B
  <2> QED
      BY <1>0, MinimalSet
<1> DEFINE h == [s \in SUBSET u |->
                   IF s = {} THEN 0 ELSE sz[First(s)] + Total(sz, s \ {First(s)})]
<1>2. \A s \in SUBSET u : IsFiniteSet(s)
    BY FS_Subset
<1>3. ASSUME NEW s \in SUBSET u, s # u
      PROVE  h[s] = Total(sz, s)
  <2>1. PICK g : Adds(g, sz, s)
      BY <1>1, <1>3
  <2>2. g[s] = Total(sz, s)
      BY <1>2, <2>1, TotalSolves
  <2>3. CASE s = {}
      BY <2>1, <2>2, <2>3 DEF Adds
  <2>4. CASE s # {}
    <3>1. First(s) \in s
        BY <2>4, FirstIn
    <3> DEFINE t == s \ {First(s)}
    <3>2. t \in SUBSET u /\ t \in SUBSET s /\ t # u
        BY <1>3, <3>1
    <3>3. PICK k : Adds(k, sz, t)
        BY <1>1, <3>2
    <3>4. k[t] = Total(sz, t)
        BY <1>2, <3>2, <3>3, TotalSolves
    <3>5. g[t] = k[t]
      <4>1. IsFiniteSet(t) /\ t \in SUBSET t
          BY <1>2, <3>2
      <4> HIDE DEF t
      <4> QED
          BY <2>1, <3>2, <3>3, <4>1, AddsUnique
    <3>6. g[s] = sz[First(s)] + g[t]
        BY <2>1, <2>4 DEF Adds
    <3> QED
        BY <2>2, <2>4, <3>4, <3>5, <3>6
  <2> QED
      BY <2>3, <2>4
<1>4. ASSUME NEW s \in SUBSET u, s # {}
      PROVE  h[s \ {First(s)}] = Total(sz, s \ {First(s)})
  <2>1. First(s) \in s
      BY <1>4, FirstIn
  <2> QED
      BY <1>3, <2>1
<1>5. h = [s \in SUBSET u |-> IF s = {} THEN 0 ELSE sz[First(s)] + h[s \ {First(s)}]]
  <2>1. \A s \in SUBSET u : h[s] = IF s = {} THEN 0 ELSE sz[First(s)] + h[s \ {First(s)}]
      BY <1>4
  <2> QED
      BY <2>1
<1>6. Adds(h, sz, u)
    BY <1>5 DEF Adds
<1> QED
    BY <1>6

\* The sum over a finite set: the element taken first, and the rest.
LEMMA TotalTakes ==
    ASSUME NEW sz, NEW S, IsFiniteSet(S)
    PROVE  /\ S = {} => Total(sz, S) = 0
           /\ S # {} => Total(sz, S) = sz[First(S)] + Total(sz, S \ {First(S)})
<1>1. PICK g : Adds(g, sz, S)
    BY AddsExists
<1>2. g[S] = Total(sz, S)
    BY <1>1, TotalSolves
<1>3. S \in SUBSET S
    OBVIOUS
<1>4. CASE S = {}
    BY <1>1, <1>2, <1>3, <1>4 DEF Adds
<1>5. CASE S # {}
  <2>0. PICK T : T = S \ {First(S)}
      OBVIOUS
  <2>1. T \subseteq S /\ IsFiniteSet(T)
      BY <2>0, FS_Subset
  <2>2. g[S] = sz[First(S)] + g[T]
      BY <1>1, <1>3, <1>5, <2>0 DEF Adds
  <2>3. PICK h : Adds(h, sz, T)
      BY <2>1, AddsExists
  <2>4. h[T] = Total(sz, T)
      BY <2>1, <2>3, TotalSolves
  <2>5. h[T] = g[T]
    <3>1. Adds(g, sz, S) /\ Adds(h, sz, T) /\ IsFiniteSet(T) /\ T \subseteq S
        BY <1>1, <2>1, <2>3
    <3>2. T \in SUBSET T
        OBVIOUS
    <3> QED
        BY <3>1, <3>2, AddsUnique
  <2>6. Total(sz, S) = sz[First(S)] + Total(sz, T)
      BY <1>2, <2>2, <2>4, <2>5
  <2> QED
      BY <1>5, <2>0, <2>6
<1> QED
    BY <1>4, <1>5

\* Sizes add up to a size.
LEMMA TotalNat ==
    ASSUME NEW sz, NEW S, IsFiniteSet(S), \A f \in S : sz[f] \in Nat
    PROVE  Total(sz, S) \in Nat
<1> DEFINE B == {s \in SUBSET S : Total(sz, s) \notin Nat}
<1> SUFFICES ASSUME B # {} PROVE FALSE
    OBVIOUS
<1>0. B \in SUBSET (SUBSET S)
    OBVIOUS
<1>1. PICK s \in B : \A t \in SUBSET s : t \in B => t = s
  <2> HIDE DEF B
  <2> QED
      BY <1>0, MinimalSet
<1>2. IsFiniteSet(s)
    BY FS_Subset
<1>3. s # {}
  <2> SUFFICES ASSUME s = {} PROVE FALSE
      OBVIOUS
  <2>1. Total(sz, s) = 0
      BY <1>2, TotalTakes
  <2> QED
      BY <1>1, <2>1
<1>4. First(s) \in s
    BY <1>3, FirstIn
<1>5. Total(sz, s \ {First(s)}) \in Nat
    BY <1>1, <1>4
<1>6. Total(sz, s) = sz[First(s)] + Total(sz, s \ {First(s)})
    BY <1>2, <1>3, TotalTakes
<1> QED
    BY <1>4, <1>5, <1>6

\* Any element may be taken first.
LEMMA TotalRemoves ==
    ASSUME NEW sz, NEW S, IsFiniteSet(S), \A f \in S : sz[f] \in Nat,
           NEW e \in S
    PROVE  Total(sz, S) = sz[e] + Total(sz, S \ {e})
<1> DEFINE Any(s) == \A f \in s : Total(sz, s) = sz[f] + Total(sz, s \ {f})
           B == {s \in SUBSET S : ~Any(s)}
<1> SUFFICES ASSUME B # {} PROVE FALSE
    OBVIOUS
<1>0. B \in SUBSET (SUBSET S)
    OBVIOUS
<1>1. PICK s \in B : \A t \in SUBSET s : t \in B => t = s
  <2> HIDE DEF B
  <2> QED
      BY <1>0, MinimalSet
<1>2. \A t \in SUBSET s : IsFiniteSet(t) /\ Total(sz, t) \in Nat
  <2>1. \A t \in SUBSET s : IsFiniteSet(t)
      BY FS_Subset
  <2> QED
      BY <2>1, TotalNat
<1>3. PICK f \in s : Total(sz, s) # sz[f] + Total(sz, s \ {f})
    OBVIOUS
<1> DEFINE x == First(s)
<1>4. x \in s
    BY <1>3, FirstIn
<1>5. Total(sz, s) = sz[x] + Total(sz, s \ {x})
    BY <1>2, <1>3, TotalTakes
<1>6. x # f
    BY <1>3, <1>5
<1> HIDE DEF x
<1>7. Any(s \ {x}) /\ Any(s \ {f})
    BY <1>1, <1>3, <1>4
<1> DEFINE r == (s \ {x}) \ {f}
<1>8. r = (s \ {f}) \ {x}
    OBVIOUS
<1>9. Total(sz, s \ {x}) = sz[f] + Total(sz, r)
    BY <1>3, <1>6, <1>7
<1>10. Total(sz, s \ {f}) = sz[x] + Total(sz, r)
    BY <1>4, <1>6, <1>7, <1>8
<1>11. Total(sz, r) \in Nat /\ sz[f] \in Nat /\ sz[x] \in Nat
    BY <1>2, <1>4
<1> HIDE DEF r, B
<1> QED
    BY <1>3, <1>5, <1>9, <1>10, <1>11

\* Disjoint sets add up.
LEMMA TotalUnion ==
    ASSUME NEW sz, NEW S, NEW T, IsFiniteSet(S), IsFiniteSet(T),
           \A f \in S \cup T : sz[f] \in Nat, S \cap T = {}
    PROVE  Total(sz, S \cup T) = Total(sz, S) + Total(sz, T)
<1> DEFINE B == {t \in SUBSET T : Total(sz, S \cup t) # Total(sz, S) + Total(sz, t)}
<1> SUFFICES ASSUME B # {} PROVE FALSE
    OBVIOUS
<1>0. B \in SUBSET (SUBSET T)
    OBVIOUS
<1>1. PICK t \in B : \A u \in SUBSET t : u \in B => u = t
  <2> HIDE DEF B
  <2> QED
      BY <1>0, MinimalSet
<1>2. \A u \in SUBSET T : /\ IsFiniteSet(u) /\ IsFiniteSet(S \cup u)
                          /\ Total(sz, u) \in Nat /\ Total(sz, S \cup u) \in Nat
  <2>1. \A u \in SUBSET T : IsFiniteSet(u) /\ IsFiniteSet(S \cup u)
      BY FS_Subset, FS_Union
  <2>2. \A u \in SUBSET T : Total(sz, u) \in Nat
      BY <2>1, TotalNat
  <2>3. \A u \in SUBSET T : Total(sz, S \cup u) \in Nat
    <3> TAKE u \in SUBSET T
    <3>1. \A f \in S \cup u : sz[f] \in Nat
        OBVIOUS
    <3> QED
        BY <2>1, <3>1, TotalNat
  <2> QED
      BY <2>1, <2>2, <2>3
<1>3. Total(sz, S) \in Nat
    BY TotalNat
<1>4. t # {}
  <2> SUFFICES ASSUME t = {} PROVE FALSE
      OBVIOUS
  <2>1. S \cup t = S /\ Total(sz, t) = 0
      BY FS_EmptySet, TotalTakes
  <2> QED
      BY <1>1, <1>3, <2>1
<1>5. PICK e : e \in t
    BY <1>4
<1> DEFINE u == t \ {e}
<1>6. Total(sz, S \cup u) = Total(sz, S) + Total(sz, u)
    BY <1>1, <1>5
<1>7. Total(sz, t) = sz[e] + Total(sz, u)
    BY <1>2, <1>5, TotalRemoves
<1>8. (S \cup t) \ {e} = S \cup u
    BY <1>1, <1>5
<1>9. Total(sz, S \cup t) = sz[e] + Total(sz, S \cup u)
  <2>1. e \in S \cup t /\ \A f \in S \cup t : sz[f] \in Nat
      BY <1>1, <1>5
  <2>2. Total(sz, S \cup t) = sz[e] + Total(sz, (S \cup t) \ {e})
      BY <1>1, <1>2, <2>1, TotalRemoves
  <2> QED
      BY <1>8, <2>2
<1>10. sz[e] \in Nat /\ Total(sz, u) \in Nat
    BY <1>1, <1>2, <1>5
<1>11. Total(sz, S \cup t) # Total(sz, S) + Total(sz, t)
    BY <1>1
<1> HIDE DEF u, B
<1> QED
    BY <1>3, <1>6, <1>7, <1>9, <1>10, <1>11

\* What a part weighs, the whole weighs at least.
LEMMA TotalGrows ==
    ASSUME NEW sz, NEW S, IsFiniteSet(S), \A f \in S : sz[f] \in Nat,
           NEW T \in SUBSET S
    PROVE  Total(sz, T) <= Total(sz, S)
<1>1. IsFiniteSet(T) /\ IsFiniteSet(S \ T)
    BY FS_Subset
<1>2. Total(sz, T) \in Nat /\ Total(sz, S \ T) \in Nat
    BY <1>1, TotalNat
<1>3. Total(sz, T \cup (S \ T)) = Total(sz, T) + Total(sz, S \ T)
    BY <1>1, TotalUnion
<1>4. T \cup (S \ T) = S
    OBVIOUS
<1>5. Total(sz, S) = Total(sz, T) + Total(sz, S \ T)
    BY <1>3, <1>4
<1> QED
    BY <1>2, <1>5

\* Disjoint sets that weigh at least (at most) w each weigh at least (at most)
\* their number times w.
LEMMA EachWeighs ==
    ASSUME NEW sz, NEW I, IsFiniteSet(I), NEW w \in Nat, NEW sets,
           IsFiniteSet(UNION {sets[i] : i \in I}),
           \A i \in I : \A f \in sets[i] : sz[f] \in Nat,
           \A i, j \in I : i # j => sets[i] \cap sets[j] = {}
    PROVE  LET all == UNION {sets[i] : i \in I}
           IN  /\ (\A i \in I : w <= Total(sz, sets[i])) =>
                     Cardinality(I) * w <= Total(sz, all)
               /\ (\A i \in I : Total(sz, sets[i]) <= w) =>
                     Total(sz, all) <= Cardinality(I) * w
<1> DEFINE All(J) == UNION {sets[i] : i \in J}
           low == \A i \in I : w <= Total(sz, sets[i])
           high == \A i \in I : Total(sz, sets[i]) <= w
           Holds(J) == /\ low => Cardinality(J) * w <= Total(sz, All(J))
                       /\ high => Total(sz, All(J)) <= Cardinality(J) * w
           B == {J \in SUBSET I : ~Holds(J)}
<1> SUFFICES ASSUME B # {} PROVE FALSE
    OBVIOUS
<1>0. B \in SUBSET (SUBSET I)
    OBVIOUS
<1>1. PICK J \in B : \A u \in SUBSET J : u \in B => u = J
  <2> HIDE DEF B
  <2> QED
      BY <1>0, MinimalSet
<1>2. \A u \in SUBSET I : /\ IsFiniteSet(u) /\ Cardinality(u) \in Nat
                          /\ IsFiniteSet(All(u)) /\ \A f \in All(u) : sz[f] \in Nat
  <2> TAKE u \in SUBSET I
  <2>1. IsFiniteSet(u) /\ Cardinality(u) \in Nat
      BY FS_Subset, FS_CardinalityType
  <2>2. All(u) \in SUBSET All(I)
      OBVIOUS
  <2>3. IsFiniteSet(All(u))
      BY <2>2, FS_Subset
  <2> QED
      BY <2>1, <2>3
<1>3. J \in SUBSET I /\ ~Holds(J)
    BY <1>1
<1>4. J # {}
  <2> SUFFICES ASSUME J = {} PROVE FALSE
      OBVIOUS
  <2>1. All(J) = {}
      OBVIOUS
  <2>2. Total(sz, All(J)) = 0
      BY <2>1, FS_EmptySet, TotalTakes
  <2>3. Cardinality(J) = 0
      BY FS_EmptySet
  <2> QED
      BY <1>3, <2>2, <2>3
<1>5. PICK i \in J : TRUE
    BY <1>4
<1>6. Holds(J \ {i})
    BY <1>1, <1>5
<1>7. Cardinality(J) = Cardinality(J \ {i}) + 1 /\ Cardinality(J \ {i}) \in Nat
  <2>1. IsFiniteSet(J) /\ Cardinality(J) \in Nat
      BY <1>2, <1>3
  <2>2. Cardinality(J \ {i}) = Cardinality(J) - 1
      BY <1>5, <2>1, FS_RemoveElement
  <2>3. J \ {i} \in SUBSET I
      BY <1>3
  <2>4. Cardinality(J \ {i}) \in Nat
      BY <1>2, <2>3
  <2> QED
      BY <2>1, <2>2, <2>4
<1>8. Total(sz, All(J)) = Total(sz, All(J \ {i})) + Total(sz, sets[i])
  <2> DEFINE P == All(J \ {i})
             Q == sets[i]
  <2>1. All(J) = P \cup Q
      BY <1>5
  <2>2. P \cap Q = {}
      BY <1>3, <1>5
  <2>3. IsFiniteSet(P) /\ \A f \in P : sz[f] \in Nat
      BY <1>2, <1>3
  <2>4. Q \in SUBSET All(J) /\ IsFiniteSet(All(J))
      BY <1>2, <1>3, <1>5
  <2>5. IsFiniteSet(Q) /\ \A f \in Q : sz[f] \in Nat
      BY <1>3, <2>4, FS_Subset
  <2> HIDE DEF P, Q, All
  <2>6. Total(sz, P \cup Q) = Total(sz, P) + Total(sz, Q)
      BY <2>2, <2>3, <2>5, TotalUnion
  <2>7. Total(sz, All(J)) = Total(sz, P) + Total(sz, Q)
      BY <2>1, <2>6
  <2> QED
      BY <2>7 DEF P, Q
<1>9. Total(sz, All(J \ {i})) \in Nat /\ Total(sz, sets[i]) \in Nat
  <2>1. IsFiniteSet(All(J \ {i})) /\ \A f \in All(J \ {i}) : sz[f] \in Nat
      BY <1>2, <1>3
  <2>2. sets[i] \in SUBSET All(J) /\ IsFiniteSet(All(J))
      BY <1>2, <1>3, <1>5
  <2>3. IsFiniteSet(sets[i]) /\ \A f \in sets[i] : sz[f] \in Nat
      BY <1>3, <2>2, FS_Subset
  <2> QED
      BY <2>1, <2>3, TotalNat
<1>10. (low => w <= Total(sz, sets[i])) /\ (high => Total(sz, sets[i]) <= w)
    BY <1>3, <1>5
<1> DEFINE c == Cardinality(J \ {i})
           a == Total(sz, All(J \ {i}))
           b == Total(sz, sets[i])
<1>11. a \in Nat /\ b \in Nat /\ c \in Nat
    BY <1>7, <1>9
<1> HIDE DEF low, high
<1>14. /\ low => c * w <= a /\ w <= b
       /\ high => a <= c * w /\ b <= w
       /\ \/ low /\ ~((c + 1) * w <= a + b)
          \/ high /\ ~(a + b <= (c + 1) * w)
    BY <1>3, <1>6, <1>7, <1>8, <1>10
<1> HIDE DEF a, b, c
<1>12. (c + 1) * w = c * w + w
    BY <1>11
<1>13. c * w \in Nat
    BY <1>11
<1> QED
    BY <1>11, <1>12, <1>13, <1>14

-----------------------------------------------------------------------------
(* A few large files                                                       *)

\* A set of one or two files, and two or three files of a larger one.
LEMMA TotalOfFew ==
    ASSUME NEW sz, NEW S, IsFiniteSet(S), \A f \in S : sz[f] \in Nat
    PROVE  /\ \A a : S = {a} => Total(sz, S) = sz[a]
           /\ \A a, b : a # b /\ S = {a, b} => Total(sz, S) = sz[a] + sz[b]
           /\ \A a \in S : sz[a] <= Total(sz, S)
           /\ \A a, b \in S : a # b => sz[a] + sz[b] <= Total(sz, S)
           /\ \A a, b, c \in S : a # b /\ a # c /\ b # c =>
                 sz[a] + sz[b] + sz[c] <= Total(sz, S)
<1>1. \A T \in SUBSET S : /\ IsFiniteSet(T) /\ Total(sz, T) \in Nat
                          /\ \A f \in T : Total(sz, T) = sz[f] + Total(sz, T \ {f})
  <2> TAKE T \in SUBSET S
  <2>1. IsFiniteSet(T) /\ \A f \in T : sz[f] \in Nat
      BY FS_Subset
  <2> QED
      BY <2>1, TotalNat, TotalRemoves
<1>2. Total(sz, {}) = 0
    BY FS_EmptySet, TotalTakes
<1>3. ASSUME NEW a \in S
      PROVE  Total(sz, S) = sz[a] + Total(sz, S \ {a}) /\ Total(sz, S \ {a}) \in Nat
    BY <1>1
<1>4. ASSUME NEW a \in S, NEW b \in S, a # b
      PROVE  /\ Total(sz, S) = sz[a] + (sz[b] + Total(sz, (S \ {a}) \ {b}))
             /\ Total(sz, (S \ {a}) \ {b}) \in Nat
  <2>1. S \ {a} \in SUBSET S /\ (S \ {a}) \ {b} \in SUBSET S /\ b \in S \ {a}
      BY <1>4
  <2>2. Total(sz, S \ {a}) = sz[b] + Total(sz, (S \ {a}) \ {b})
      BY <1>1, <2>1
  <2> QED
      BY <1>1, <1>3, <2>1, <2>2
<1>5. ASSUME NEW a \in S, NEW b \in S, NEW c \in S, a # b, a # c, b # c
      PROVE  sz[a] + sz[b] + sz[c] <= Total(sz, S)
  <2> DEFINE T == (S \ {a}) \ {b}
  <2>1. T \in SUBSET S /\ T \ {c} \in SUBSET S /\ c \in T
      BY <1>5
  <2>2. Total(sz, T) = sz[c] + Total(sz, T \ {c}) /\ Total(sz, T \ {c}) \in Nat
      BY <1>1, <2>1
  <2>3. Total(sz, S) = sz[a] + (sz[b] + Total(sz, T))
      BY <1>4, <1>5
  <2> HIDE DEF T
  <2> QED
      BY <2>2, <2>3
<1>6. ASSUME NEW a, S = {a} PROVE Total(sz, S) = sz[a]
  <2>1. a \in S /\ S \ {a} = {}
      BY <1>6
  <2> QED
      BY <1>2, <1>3, <2>1
<1>7. ASSUME NEW a, NEW b, a # b, S = {a, b} PROVE Total(sz, S) = sz[a] + sz[b]
  <2>1. a \in S /\ b \in S /\ (S \ {a}) \ {b} = {}
      BY <1>7
  <2> QED
      BY <1>2, <1>4, <1>7, <2>1
<1>8. /\ \A a \in S : sz[a] <= Total(sz, S)
      /\ \A a, b \in S : a # b => sz[a] + sz[b] <= Total(sz, S)
  <2>1. ASSUME NEW a \in S
        PROVE  sz[a] <= Total(sz, S)
    <3> DEFINE rest == Total(sz, S \ {a})
    <3>1. Total(sz, S) = sz[a] + rest /\ rest \in Nat /\ sz[a] \in Nat
        BY <1>3
    <3> HIDE DEF rest
    <3> QED
        BY <3>1
  <2>2. ASSUME NEW a \in S, NEW b \in S, a # b
        PROVE  sz[a] + sz[b] <= Total(sz, S)
    <3> DEFINE rest == Total(sz, (S \ {a}) \ {b})
    <3>1. /\ Total(sz, S) = sz[a] + (sz[b] + rest)
          /\ rest \in Nat /\ sz[a] \in Nat /\ sz[b] \in Nat
        BY <1>4, <2>2
    <3> HIDE DEF rest
    <3> QED
        BY <3>1
  <2> QED
      BY <2>1, <2>2
<1> QED
    BY <1>5, <1>6, <1>7, <1>8

\* A set without three different elements.
LEMMA AtMostTwo ==
    ASSUME NEW S, \A a, b, c \in S : a = b \/ a = c \/ b = c
    PROVE  \/ S = {}
           \/ \E a \in S : S = {a}
           \/ \E a, b \in S : a # b /\ S = {a, b}
<1> SUFFICES ASSUME S # {}, ~ \E a \in S : S = {a}
             PROVE  \E a, b \in S : a # b /\ S = {a, b}
    OBVIOUS
<1>1. PICK a : a \in S
    OBVIOUS
<1>2. PICK b : b \in S /\ b # a
    BY <1>1
<1> QED
    BY <1>1, <1>2

\* Files larger than a third of m that fit into bins of m one way are never in
\* the way of the loop.  Give a file that is alone in its shard the weight 2,
\* the others 1.  If the next file did not fit into the least loaded shard, every
\* shard of the loop would weigh 2, so that all files together weigh more than 2
\* for each shard; but a bin holds at most two files, and one that is alone in
\* its shard leaves no room for another.
LEMMA LargeFilesFit ==
    ASSUME NEW sz, NEW m \in Nat, NEW I, IsFiniteSet(I), NEW sets, NEW i \in I,
           NEW P, IsFiniteSet(P), P = UNION {sets[j] : j \in I},
           \A j, k \in I : j # k => sets[j] \cap sets[k] = {},
           NEW g, g \notin P, sz[g] \in Nat, m < 3 * sz[g],
           \A f \in P : sz[f] \in Nat /\ sz[g] <= sz[f],
           \A j \in I : Total(sz, sets[i]) <= Total(sz, sets[j]) /\ Total(sz, sets[j]) <= m,
           NEW packing,
           \A f \in P \cup {g} : packing[f] \in I,
           \A k \in I : Total(sz, {f \in P \cup {g} : packing[f] = k}) <= m
    PROVE  Total(sz, sets[i]) + sz[g] <= m
<1> DEFINE L == P \cup {g}
           bin(k) == {f \in L : packing[f] = k}
           Alone(f) == \E j \in I : sets[j] = {f}
           sc == [f \in L |-> IF Alone(f) THEN 2 ELSE 1]
           w == Total(sz, sets[i])
<1>1. IsFiniteSet(L) /\ IsFiniteSet(P) /\ g \in L /\ g \notin P
    BY FS_AddElement
<1>2. \A f \in L : sz[f] \in Nat /\ sz[g] <= sz[f] /\ m < 3 * sz[f]
    OBVIOUS
<1>3. \A j \in I : sets[j] \in SUBSET P
    OBVIOUS
<1>4. \A k \in I : bin(k) \in SUBSET L
    OBVIOUS
<1>5. \A f \in L : packing[f] \in I /\ f \in bin(packing[f])
    OBVIOUS
<1>6. \A k \in I : Total(sz, bin(k)) <= m
    OBVIOUS
<1>7. \A j \in I : w <= Total(sz, sets[j]) /\ Total(sz, sets[j]) <= m
    OBVIOUS
<1>8. \A j, k \in I : j # k => sets[j] \cap sets[k] = {}
    OBVIOUS
<1>9. \A f \in L : sc[f] \in 1 .. 2 /\ (sc[f] = 2 <=> Alone(f))
    OBVIOUS
<1>10. L = UNION {bin(k) : k \in I}
    BY <1>5
<1> SUFFICES ASSUME ~(w + sz[g] <= m) PROVE FALSE
    OBVIOUS
<1> HIDE DEF sc, w, L, bin
\* Small sets of files, by either weight.
<1>11. \A S \in SUBSET L : /\ IsFiniteSet(S) /\ Total(sz, S) \in Nat /\ Total(sc, S) \in Nat
                           /\ \A f \in S : sz[f] \in Nat /\ sc[f] \in Nat
  <2> TAKE S \in SUBSET L
  <2>1. IsFiniteSet(S) /\ \A f \in S : sz[f] \in Nat /\ sc[f] \in Nat
      BY <1>1, <1>2, <1>9, FS_Subset
  <2> QED
      BY <2>1, TotalNat
<1>12. \A S \in SUBSET L : Total(sz, S) <= m =>
          \/ S = {}
          \/ \E a \in S : S = {a}
          \/ \E a, b \in S : a # b /\ S = {a, b}
  <2> TAKE S \in SUBSET L
  <2> SUFFICES ASSUME Total(sz, S) <= m, NEW a \in S, NEW b \in S, NEW c \in S,
                      a # b, a # c, b # c
               PROVE  FALSE
      BY AtMostTwo
  <2>1. sz[a] + sz[b] + sz[c] <= Total(sz, S)
      BY <1>11, TotalOfFew
  <2> QED
      BY <1>2, <1>11, <2>1
<1>13. w \in Nat
    BY <1>3, <1>11 DEF w, L
<1>14. sz[g] <= m
  <2>1. sz[g] <= Total(sz, bin(packing[g]))
      BY <1>1, <1>4, <1>5, <1>11, TotalOfFew
  <2> QED
      BY <1>1, <1>2, <1>4, <1>5, <1>6, <1>11, <2>1
\* Every shard of the loop weighs 2.
<1>15. \A j \in I : 2 <= Total(sc, sets[j])
  <2> TAKE j \in I
  <2>1. sets[j] \in SUBSET L
      BY <1>3 DEF L
  <2>2. sets[j] # {}
    <3>1. sets[j] = {} => Total(sz, sets[j]) = 0
        BY FS_EmptySet, TotalTakes
    <3> QED
        BY <1>1, <1>2, <1>7, <1>13, <1>14, <3>1
  <2>3. CASE \E a \in sets[j] : sets[j] = {a}
    <3>1. PICK a \in sets[j] : sets[j] = {a}
        BY <2>3
    <3>2. sc[a] = 2
        BY <1>9, <2>1, <3>1
    <3>3. Total(sc, sets[j]) = sc[a]
        BY <1>11, <2>1, <3>1, TotalOfFew
    <3> QED
        BY <3>2, <3>3
  <2>4. CASE \E a, b \in sets[j] : a # b /\ sets[j] = {a, b}
    <3>1. PICK a, b \in sets[j] : a # b /\ sets[j] = {a, b}
        BY <2>4
    <3>2. sc[a] \in 1 .. 2 /\ sc[b] \in 1 .. 2
        BY <1>9, <2>1, <3>1
    <3>3. Total(sc, sets[j]) = sc[a] + sc[b]
      <4>1. IsFiniteSet(sets[j]) /\ \A f \in sets[j] : sc[f] \in Nat
          BY <1>11, <2>1
      <4>2. \A x, y : x # y /\ sets[j] = {x, y} => Total(sc, sets[j]) = sc[x] + sc[y]
          BY <4>1, TotalOfFew
      <4> QED
          BY <3>1, <4>2
    <3> QED
        BY <3>2, <3>3
  <2> QED
      BY <1>7, <1>12, <2>1, <2>2, <2>3, <2>4
<1>16. Cardinality(I) * 2 <= Total(sc, P)
  <2>1. \A j \in I : \A f \in sets[j] : sc[f] \in Nat
      BY <1>3, <1>9 DEF L
  <2> QED
      BY <1>1, <1>8, <1>15, <2>1, EachWeighs
<1>17. Total(sc, L) = sc[g] + Total(sc, P)
  <2>1. L \ {g} = P
      BY <1>1 DEF L
  <2>2. \A f \in L : sc[f] \in Nat
      BY <1>9
  <2>3. Total(sc, L) = sc[g] + Total(sc, L \ {g})
      BY <1>1, <2>2, TotalRemoves
  <2> QED
      BY <2>1, <2>3
\* No bin weighs more than 2.
<1>18. \A k \in I : Total(sc, bin(k)) <= 2
  <2> TAKE k \in I
  <2>1. bin(k) \in SUBSET L /\ Total(sz, bin(k)) <= m
      BY <1>4, <1>6
  <2>2. CASE bin(k) = {}
    <3>1. Total(sc, bin(k)) = 0
        BY <2>2, FS_EmptySet, TotalTakes
    <3> QED
        BY <3>1
  <2>3. CASE \E a \in bin(k) : bin(k) = {a}
    <3>1. PICK a \in bin(k) : bin(k) = {a}
        BY <2>3
    <3>2. Total(sc, bin(k)) = sc[a]
        BY <1>11, <2>1, <3>1, TotalOfFew
    <3> QED
        BY <1>9, <2>1, <3>1, <3>2
  <2>4. CASE \E a, b \in bin(k) : a # b /\ bin(k) = {a, b}
    <3>1. PICK a, b \in bin(k) : a # b /\ bin(k) = {a, b}
        BY <2>4
    <3>2. /\ a \in L /\ b \in L
          /\ Total(sz, bin(k)) = sz[a] + sz[b]
          /\ Total(sc, bin(k)) = sc[a] + sc[b]
        BY <1>11, <2>1, <3>1, TotalOfFew
    <3>3. ASSUME NEW x \in L, NEW y \in L, sz[x] + sz[y] <= m PROVE ~Alone(x)
      <4> SUFFICES ASSUME NEW j \in I, sets[j] = {x} PROVE FALSE
          OBVIOUS
      <4>1. Total(sz, sets[j]) = sz[x]
        <5>1. sets[j] \in SUBSET L
            BY <1>3 DEF L
        <5> QED
            BY <1>11, <5>1, TotalOfFew
      <4>2. w <= sz[x]
          BY <1>7, <4>1
      <4>3. sz[g] <= sz[y] /\ sz[x] \in Nat /\ sz[y] \in Nat /\ sz[g] \in Nat
          BY <1>1, <1>2
      <4>4. sz[x] + sz[y] <= m
          BY <3>3
      <4> QED
          BY <1>13, <4>2, <4>3, <4>4
    <3>4. sz[a] + sz[b] <= m /\ sz[b] + sz[a] <= m
        BY <1>2, <2>1, <3>2
    <3>5. ~Alone(a) /\ ~Alone(b)
        BY <3>2, <3>3, <3>4
    <3>6. sc[a] = 1 /\ sc[b] = 1
        BY <1>9, <3>2, <3>5
    <3> QED
        BY <3>2, <3>6
  <2> QED
      BY <1>12, <2>1, <2>2, <2>3, <2>4
<1>19. Total(sc, L) <= Cardinality(I) * 2
  <2> DEFINE bins == [k \in I |-> bin(k)]
  <2>1. UNION {bins[k] : k \in I} = L
      BY <1>10
  <2>2. /\ \A k \in I : Total(sc, bins[k]) <= 2
        /\ \A k \in I : \A f \in bins[k] : sc[f] \in Nat
        /\ \A j, k \in I : j # k => bins[j] \cap bins[k] = {}
    <3>1. \A k \in I : \A f \in bins[k] : sc[f] \in Nat
        BY <1>4, <1>11
    <3> QED
        BY <1>18, <3>1 DEF bin
  <2> HIDE DEF bins
  <2>3. IsFiniteSet(UNION {bins[k] : k \in I})
      BY <1>1, <2>1
  <2>4. Total(sc, UNION {bins[k] : k \in I}) <= Cardinality(I) * 2
      BY <2>2, <2>3, EachWeighs
  <2> QED
      BY <2>1, <2>4
<1>20. /\ Total(sc, L) \in Nat /\ Total(sc, P) \in Nat
       /\ sc[g] \in 1 .. 2
       /\ Cardinality(I) * 2 \in Nat
  <2>1. P \in SUBSET L /\ L \in SUBSET L
      BY DEF L
  <2>2. Cardinality(I) \in Nat
      BY FS_CardinalityType
  <2> QED
      BY <1>1, <1>9, <1>11, <2>1, <2>2
<1> QED
    BY <1>16, <1>17, <1>19, <1>20

-----------------------------------------------------------------------------
(* Greatest and least elements                                             *)

\* Of finitely many values one is the greatest.
LEMMA MaxOfMany ==
    ASSUME NEW I, IsFiniteSet(I), I # {}, NEW v, \A i \in I : v[i] \in Nat
    PROVE  LET most == Max({v[i] : i \in I})
           IN  most \in Nat /\ \A i \in I : v[i] <= most
<1> DEFINE Tops(J) == {i \in J : \A j \in J : v[j] <= v[i]}
           B == {J \in SUBSET I : J # {} /\ Tops(J) = {}}
<1>1. B = {}
  <2> SUFFICES ASSUME B # {} PROVE FALSE
      OBVIOUS
  <2>1. B \in SUBSET (SUBSET I)
      OBVIOUS
  <2>2. PICK J \in B : \A u \in SUBSET J : u \in B => u = J
    <3> HIDE DEF B
    <3> QED
        BY <2>1, MinimalSet
  <2>3. PICK i : i \in J
      BY <2>2
  <2>4. J \in SUBSET I /\ Tops(J) = {}
      BY <2>2
  <2>5. CASE J \ {i} = {}
    <3>1. i \in Tops(J)
        BY <2>3, <2>4, <2>5
    <3> QED
        BY <2>4, <3>1
  <2>6. CASE J \ {i} # {}
    <3>0. J \ {i} \in SUBSET J /\ J \ {i} # J /\ J \ {i} \in SUBSET I
        BY <2>3, <2>4
    <3>1. PICK k : k \in Tops(J \ {i})
      <4>1. J \ {i} \notin B
          BY <2>2, <3>0
      <4>2. Tops(J \ {i}) # {}
          BY <2>6, <3>0, <4>1
      <4> QED
          BY <4>2
    <3>2. v[k] \in Nat /\ v[i] \in Nat /\ \A j \in J : v[j] \in Nat
        BY <2>3, <2>4, <3>1
    <3>3. v[k] <= v[i] => i \in Tops(J)
        BY <2>3, <3>1, <3>2
    <3>4. ~(v[k] <= v[i]) => k \in Tops(J)
        BY <2>3, <3>1, <3>2
    <3> QED
        BY <2>4, <3>3, <3>4
  <2> QED
      BY <2>5, <2>6
<1>2. PICK i \in I : \A j \in I : v[j] <= v[i]
    BY <1>1
<1> DEFINE T == {v[j] : j \in I}
<1>3. \E x \in T : \A y \in T : x >= y
    BY <1>2
<1>4. Max(T) \in T /\ \A y \in T : Max(T) >= y
    BY <1>3 DEF Max
<1> QED
    BY <1>4

\* Of any natural numbers one is the least.
LEMMA MinOfNats ==
    ASSUME NEW T \in SUBSET Nat, T # {}
    PROVE  Min(T) \in T /\ \A y \in T : Min(T) <= y
<1> DEFINE R == OpToRel(<, Nat)
<1>1. \A x, y \in Nat : y < x => <<y, x>> \in R
    BY DEF OpToRel
<1>2. IsWellFoundedOn(R, Nat)
    BY NatLessThanWellFounded
<1> HIDE DEF R
<1>3. PICK x \in T : \A y \in T : ~(<<y, x>> \in R)
    BY <1>2, WFMin
<1>4. \A y \in T : ~(y < x)
    BY <1>1, <1>3
<1>5. x \in T /\ \A y \in T : x <= y
    BY <1>4
<1> QED
    BY <1>5 DEF Min

\* The larger and the smaller of two numbers.
LEMMA MaxMinOfTwo ==
    ASSUME NEW a \in Int, NEW b \in Int
    PROVE  /\ Max({a, b}) = IF a >= b THEN a ELSE b
           /\ Min({a, b}) = IF a <= b THEN a ELSE b
BY DEF Max, Min

\* Rounding up covers what is divided.
LEMMA CeilDivCovers ==
    ASSUME NEW a \in Nat, NEW b \in Nat \ {0}
    PROVE  CeilDiv(a, b) \in Nat /\ a <= CeilDiv(a, b) * b
<1> DEFINE q == (a + b - 1) \div b
           r == (a + b - 1) % b
<1>1. q \in Int /\ r \in 0 .. b - 1
    OBVIOUS
<1>2. a + b - 1 = b * q + r
    OBVIOUS
<1>3. q >= 0
    OBVIOUS
<1> HIDE DEF q, r
<1>4. b * q = q * b /\ b * q \in Int
    BY <1>1
<1> QED
    BY <1>1, <1>2, <1>3, <1>4 DEF CeilDiv, q

\* A common factor cancels.
LEMMA CancelFactor ==
    ASSUME NEW n \in Nat \ {0}, NEW w \in Nat, NEW t \in Nat, n * w <= n * t
    PROVE  w <= t
OBVIOUS

-----------------------------------------------------------------------------
(* The loop                                                                *)

\* There is a shard as soon as there is a file, never more than MaxShards, and
\* enough of them unless their number is capped.
LEMMA ShardCountFits ==
    ASSUME NEW S, IsFiniteSet(S), \A f \in S : size[f] \in Nat
    PROVE  /\ ShardCount(S) \in 0 .. MaxShards
           /\ (ShardCount(S) = 0) <=> (S = {})
           /\ Total(size, S) <= MaxShards * TargetBytes =>
                 Total(size, S) <= ShardCount(S) * TargetBytes
<1> DEFINE w == Total(size, S)
           c == CeilDiv(w, TargetBytes)
<1>1. w \in Nat
    BY TotalNat
<1>2. ShardCount(S) = IF S = {} THEN 0 ELSE Max({1, Min({MaxShards, c})})
    BY WeightIsTotal DEF ShardCount
<1>3. c \in Nat /\ w <= c * TargetBytes
    BY <1>1, CeilDivCovers, PackAssumption
<1>4. S = {} => w = 0
    BY TotalTakes
<1> HIDE DEF w, c
<1>5. Min({MaxShards, c}) = IF MaxShards <= c THEN MaxShards ELSE c
    BY <1>3, MaxMinOfTwo, PackAssumption
<1> DEFINE m == Min({MaxShards, c})
<1>6. m \in 0 .. MaxShards
    BY <1>3, <1>5, PackAssumption
<1>7. w <= MaxShards * TargetBytes => w <= m * TargetBytes
    BY <1>3, <1>5
<1> HIDE DEF m
<1>8. Max({1, m}) = IF 1 >= m THEN 1 ELSE m
    BY <1>6, MaxMinOfTwo
<1>9. CASE S = {}
  <2>1. ShardCount(S) = 0 /\ w = 0
      BY <1>2, <1>4, <1>9
  <2> QED
      BY <1>9, <2>1, PackAssumption DEF w
<1>10. CASE S # {}
  <2>1. ShardCount(S) = IF 1 >= m THEN 1 ELSE m
      BY <1>2, <1>8, <1>10 DEF m
  <2>2. ShardCount(S) \in 1 .. MaxShards
      BY <1>6, <2>1, PackAssumption
  <2>3. w <= m * TargetBytes => w <= ShardCount(S) * TargetBytes
    <3>1. CASE m = 0
        BY <1>1, <2>1, <3>1, PackAssumption
    <3>2. CASE m # 0
        BY <1>6, <2>1, <3>2
    <3> QED
        BY <3>1, <3>2
  <2> QED
      BY <1>7, <1>10, <2>2, <2>3 DEF w
<1> QED
    BY <1>9, <1>10

\* The loop starts in the invariant: no shard has a file.
LEMMA InitEstablishes == Init => IInv
<1> SUFFICES ASSUME Init PROVE IInv
    OBVIOUS
<1> USE PackAssumption DEF Init
<1>1. Shard = 0 .. ShardCount(pending) - 1
    BY DEF Shard
<1>2. /\ \A i \in Shard : shards[i] = {}
      /\ shards \in [Shard -> SUBSET File]
      /\ shard_sizes \in [Shard -> Nat]
    BY <1>1
<1>3. PackedTypes
    BY <1>2 DEF PackedTypes
<1>4. EachFileOnce
    BY <1>2 DEF EachFileOnce
<1>5. LargestFirst /\ Balanced
    BY <1>2 DEF LargestFirst, Balanced
<1>6. \A S \in SUBSET File : IsFiniteSet(S) /\ \A f \in S : size[f] \in Nat
  <2>1. \A S \in SUBSET File : IsFiniteSet(S)
      BY FS_Subset
  <2> QED
      BY <2>1
<1>7. SizesAreWeights
  <2>1. Total(size, {}) = 0
      BY FS_EmptySet, TotalTakes
  <2>2. \A i \in Shard : shard_sizes[i] = 0 /\ shards[i] = {}
      BY <1>1
  <2> QED
      BY <2>1, <2>2 DEF SizesAreWeights
<1>8. EnoughShards
    BY <1>1, <1>6, ShardCountFits DEF EnoughShards
<1>9. LargeFit
  <2>1. Total(size, {}) = 0
      BY FS_EmptySet, TotalTakes
  <2>2. \A i \in Shard : Total(size, shards[i]) = 0
      BY <1>2, <2>1
  <2>3. \A m \in Nat : \A i \in Shard : Total(size, shards[i]) <= m
    <3> SUFFICES ASSUME NEW m \in Nat, NEW i \in Shard
                 PROVE  Total(size, shards[i]) <= m
        OBVIOUS
    <3>1. Total(size, shards[i]) = 0
        BY <2>2
    <3> QED
        BY <3>1
  <2> QED
      BY <2>3, Zenon DEF LargeFit
<1> QED
    BY <1>3, <1>4, <1>5, <1>7, <1>8, <1>9 DEF IInv

\* The shards are finite in number, and so are the files pending.
LEMMA PackedFacts ==
    ASSUME IInv
    PROVE  /\ IsFiniteSet(Shard) /\ Cardinality(Shard) \in Nat
           /\ \A S \in SUBSET File : IsFiniteSet(S) /\ Total(size, S) \in Nat
           /\ \A f \in File : size[f] \in Nat
<1>1. PICK n \in 0 .. MaxShards : Shard = 0 .. n - 1
    BY DEF IInv, EnoughShards
<1>2. IsFiniteSet(Shard) /\ Cardinality(Shard) \in Nat
    BY <1>1, FS_Interval, FS_CardinalityType
<1>3. \A f \in File : size[f] \in Nat
    BY PackAssumption DEF IInv, PackedTypes
<1>4. \A S \in SUBSET File : IsFiniteSet(S)
    BY PackAssumption, FS_Subset
<1>5. \A S \in SUBSET File : Total(size, S) \in Nat
    BY <1>3, <1>4, TotalNat
<1> QED
    BY <1>2, <1>3, <1>4, <1>5

\* A file larger than a third of what some packing needs fits into the least
\* loaded shard.
LEMMA NextLargeFits ==
    ASSUME IInv, NEW m \in Nat, Suffices(m),
           NEW f \in todo, NEW i \in Shard, LeastLoaded(i), m < 3 * size[f]
    PROVE  Total(size, shards[i]) + size[f] <= m
<1>0. PICK placed : placed = UNION {shards[j] : j \in Shard}
    OBVIOUS
<1>1. /\ pending \in SUBSET File /\ f \in pending
      /\ placed = pending \ todo
      /\ \A j \in Shard : shards[j] \in SUBSET File
      /\ \A j, k \in Shard : j # k => shards[j] \cap shards[k] = {}
    BY <1>0 DEF IInv, PackedTypes, EachFileOnce
<1>2. /\ IsFiniteSet(Shard) /\ IsFiniteSet(placed) /\ f \notin placed
      /\ placed \cup {f} \in SUBSET pending
    BY <1>1, PackedFacts
<1>3. \A h \in pending : size[h] \in Nat
    BY <1>1, PackedFacts
<1>4. \A h \in placed : size[f] <= size[h]
    BY <1>0 DEF IInv, LargestFirst
<1>5. \A j \in Shard : Total(size, shards[j]) <= m
  <2> TAKE j \in Shard
  <2>1. \A h \in shards[j] : m < 3 * size[h]
      BY <1>0, <1>1, <1>2, <1>3, <1>4
  <2> QED
      BY <2>1 DEF IInv, LargeFit
<1>6. \A j \in Shard : Total(size, shards[i]) <= Total(size, shards[j])
    BY DEF LeastLoaded, IInv, SizesAreWeights, PackedTypes
<1>7. PICK packing \in [pending -> Shard] :
         \A j \in Shard : Total(size, {h \in pending : packing[h] = j}) <= m
    BY DEF Suffices
<1>8. \A k \in Shard : Total(size, {h \in placed \cup {f} : packing[h] = k}) <= m
  <2> TAKE k \in Shard
  <2> DEFINE S == {h \in pending : packing[h] = k}
             T == {h \in placed \cup {f} : packing[h] = k}
  <2>1. T \in SUBSET S /\ S \in SUBSET File /\ T \in SUBSET File
      BY <1>1, <1>2
  <2>2. Total(size, S) <= m
      BY <1>7
  <2> HIDE DEF S, T
  <2>3. /\ IsFiniteSet(S) /\ \A h \in S : size[h] \in Nat
        /\ Total(size, S) \in Nat /\ Total(size, T) \in Nat
      BY <2>1, PackedFacts
  <2>4. Total(size, T) <= Total(size, S)
      BY <2>1, <2>3, TotalGrows
  <2>5. Total(size, T) <= m
      BY <2>2, <2>3, <2>4
  <2> QED
      BY <2>5 DEF T
<1>9. \A h \in placed \cup {f} : packing[h] \in Shard
    BY <1>2, <1>7
<1>10. size[f] \in Nat /\ \A h \in placed : size[h] \in Nat /\ size[f] <= size[h]
    BY <1>1, <1>2, <1>3, <1>4
<1>11. f \notin placed /\ size[f] \in Nat /\ IsFiniteSet(Shard) /\ IsFiniteSet(placed)
    BY <1>2, <1>10
<1>12. \A j, k \in Shard : j # k => shards[j] \cap shards[k] = {}
    BY <1>1
<1>13. \A j \in Shard : /\ Total(size, shards[i]) <= Total(size, shards[j])
                        /\ Total(size, shards[j]) <= m
    BY <1>5, <1>6
<1>14. \A h \in placed : size[h] \in Nat /\ size[f] <= size[h]
    BY <1>10
<1> QED
    BY <1>0, <1>8, <1>9, <1>11, <1>12, <1>13, <1>14, LargeFilesFit

\* Placing the next file in the least loaded shard keeps the invariant.
LEMMA PlaceKeeps ==
    ASSUME IInv,
           NEW f \in todo, NEW i \in Shard,
           \A g \in todo \ {f} : Before(f, g),
           LeastLoaded(i),
           Place(f, i)
    PROVE  IInv'
<1> USE DEF IInv, PackedTypes
<1>1. f \in File /\ size' = size /\ pending' = pending /\ todo' = todo \ {f}
    BY DEF Place
<1>2. /\ Shard' = Shard
      /\ shards' = [shards EXCEPT ![i] = @ \cup {f}]
      /\ shard_sizes' = [shard_sizes EXCEPT ![i] = @ + size[f]]
    BY DEF Place, Shard
<1>3. /\ shards'[i] = shards[i] \cup {f}
      /\ \A j \in Shard \ {i} : shards'[j] = shards[j]
      /\ shard_sizes'[i] = shard_sizes[i] + size[f]
      /\ \A j \in Shard \ {i} : shard_sizes'[j] = shard_sizes[j]
    BY <1>2
<1>4. PackedTypes'
    BY <1>1, <1>2 DEF PackedTypes
<1>5. EachFileOnce'
  <2>1. UNION {shards'[j] : j \in Shard}
           = (UNION {shards[j] : j \in Shard}) \cup {f}
      BY <1>3
  <2>2. \A j \in Shard : f \notin shards[j]
      BY DEF EachFileOnce
  <2> QED
      BY <1>1, <1>2, <1>3, <2>1, <2>2 DEF EachFileOnce
<1>6. LargestFirst'
  <2>1. \A g \in todo \ {f} : size[g] <= size[f]
      BY <1>1 DEF Before
  <2> QED
      BY <1>1, <1>2, <1>3, <2>1 DEF LargestFirst
<1>7. Balanced'
  <2> SUFFICES ASSUME NEW j \in Shard, NEW k \in Shard, NEW g \in shards'[j]
               PROVE  shard_sizes'[j] - size[g] <= shard_sizes'[k]
      BY <1>1, <1>2 DEF Balanced
  <2>1. shard_sizes[k] <= shard_sizes'[k]
      BY <1>1, <1>3
  <2>2. CASE j # i
      BY <1>1, <1>3, <2>1, <2>2 DEF Balanced
  <2>3. CASE j = i
    <3>1. shard_sizes[i] <= shard_sizes[k]
        BY DEF LeastLoaded
    <3>2. size[f] <= size[g]
        BY <1>1, <1>3, <2>3 DEF LargestFirst
    <3> QED
        BY <1>1, <1>3, <1>4, <2>1, <2>3, <3>1, <3>2
  <2> QED
      BY <2>2, <2>3
<1>8. Total(size, shards[i] \cup {f}) = Total(size, shards[i]) + size[f]
  <2> DEFINE T == shards[i] \cup {f}
  <2>1. T \in SUBSET File /\ IsFiniteSet(T)
      BY <1>1, PackAssumption, FS_Subset
  <2>2. \A g \in T : size[g] \in Nat
      BY <2>1, PackAssumption
  <2>3. T \ {f} = shards[i]
      BY <1>1 DEF EachFileOnce
  <2>4. f \in T
      OBVIOUS
  <2>5. Total(size, T) = size[f] + Total(size, T \ {f})
      BY <2>1, <2>2, <2>4, TotalRemoves
  <2>6. Total(size, shards[i]) \in Nat
      BY DEF SizesAreWeights
  <2>7. size[f] \in Nat
      BY <2>2, <2>4
  <2>8. Total(size, T) = size[f] + Total(size, shards[i])
      BY <2>3, <2>5
  <2> HIDE DEF T
  <2>9. Total(size, T) = Total(size, shards[i]) + size[f]
      BY <2>6, <2>7, <2>8
  <2> QED
      BY <2>9 DEF T
<1>9. SizesAreWeights'
    BY <1>1, <1>2, <1>3, <1>8 DEF SizesAreWeights
<1>10. EnoughShards'
    BY <1>1, <1>2 DEF EnoughShards
<1>11. LargeFit'
  <2> SUFFICES ASSUME NEW m \in Nat, Suffices(m), NEW j \in Shard,
                      \A g \in shards'[j] : m < 3 * size[g]
               PROVE  Total(size, shards'[j]) <= m
    <3>1. \A m \in Nat : Suffices(m)' => Suffices(m)
        BY <1>1, <1>2 DEF Suffices
    <3> QED
        BY <1>1, <1>2, <3>1 DEF LargeFit
  <2>1. CASE j # i
      BY <1>3, <2>1 DEF LargeFit
  <2>2. CASE j = i
    <3>1. m < 3 * size[f]
        BY <1>3, <2>2
    <3>2. Total(size, shards[i]) + size[f] <= m
        BY <3>1, NextLargeFits
    <3> QED
        BY <1>3, <1>8, <2>2, <3>2
  <2> QED
      BY <2>1, <2>2
<1> QED
    BY <1>4, <1>5, <1>6, <1>7, <1>9, <1>10, <1>11

\* The inductive invariant of the packing loop.
THEOREM PackInvariance == Spec => []IInv
<1>1. IInv /\ [Next]_vars => IInv'
  <2> SUFFICES ASSUME IInv, [Next]_vars PROVE IInv'
      OBVIOUS
  <2>1. CASE Next
      BY <2>1, PlaceKeeps DEF Next
  <2>2. CASE UNCHANGED vars
    <3>1. \A m \in Nat : Suffices(m)' => Suffices(m)
        BY <2>2 DEF vars, Suffices, Shard
    <3>2. LargeFit'
        BY <2>2, <3>1 DEF vars, IInv, LargeFit, Shard
    <3> QED
        BY <2>2, <3>2 DEF vars, IInv, PackedTypes, EachFileOnce, LargestFirst, Balanced,
                          Shard, SizesAreWeights, EnoughShards
  <2> QED
      BY <2>1, <2>2
<1> QED
    BY <1>1, InitEstablishes, PTL DEF Spec

\* At every turn the manifests split the files placed so far.
THEOREM FilesPackedOnce == Spec => []EachFileOnce
<1>1. IInv => EachFileOnce
    BY DEF IInv
<1> QED
    BY <1>1, PackInvariance, PTL

\* No shard is ever worth taking a file from.
THEOREM ShardsBalanced == Spec => []Balanced
<1>1. IInv => Balanced
    BY DEF IInv
<1> QED
    BY <1>1, PackInvariance, PTL

\* The variables keep their shape, and there are as many shards as there should.
THEOREM PackTypeCorrect == Spec => []TypeOK
<1>1. IInv => TypeOK
  <2> SUFFICES ASSUME IInv PROVE TypeOK
      OBVIOUS
  <2> USE DEF IInv, PackedTypes
  <2>1. PICK n \in 0 .. MaxShards : Shard = 0 .. n - 1 /\ ((n = 0) <=> (pending = {}))
      BY DEF EnoughShards
  <2> QED
      BY <2>1 DEF TypeOK
<1> QED
    BY <1>1, PackInvariance, PTL

-----------------------------------------------------------------------------
(* What follows from the balance                                           *)

\* A shard without one of its files is no more than a fair share of the other
\* files.
LEMMA FairShare ==
    ASSUME IInv, NEW i \in Shard, NEW g \in shards[i]
    PROVE  LET rest == Total(size, shards[i]) - size[g]
           IN  /\ rest \in Nat
               /\ Cardinality(Shard) * rest <= Total(size, pending) - size[g]
<1> DEFINE rest == Total(size, shards[i]) - size[g]
           sets == [shards EXCEPT ![i] = @ \ {g}]
           all == UNION {sets[j] : j \in Shard}
<1>1. /\ shards \in [Shard -> SUBSET File]
      /\ pending \in SUBSET File
      /\ \A j, k \in Shard : j # k => shards[j] \cap shards[k] = {}
      /\ UNION {shards[j] : j \in Shard} \subseteq pending
    BY DEF IInv, PackedTypes, EachFileOnce
<1>2. g \in File /\ g \in pending /\ size[g] \in Nat
    BY <1>1, PackedFacts
<1>3. /\ sets[i] = shards[i] \ {g}
      /\ \A j \in Shard \ {i} : sets[j] = shards[j]
    BY <1>1
<1> HIDE DEF sets
<1>4. \A S \in SUBSET File : g \in S =>
         Total(size, S \ {g}) \in Nat /\ Total(size, S \ {g}) = Total(size, S) - size[g]
  <2> TAKE S \in SUBSET File
  <2> SUFFICES ASSUME g \in S
               PROVE  /\ Total(size, S \ {g}) \in Nat
                      /\ Total(size, S \ {g}) = Total(size, S) - size[g]
      OBVIOUS
  <2>1. Total(size, S \ {g}) \in Nat
      BY PackedFacts
  <2>2. IsFiniteSet(S) /\ \A f \in S : size[f] \in Nat
      BY PackedFacts
  <2>3. Total(size, S) = size[g] + Total(size, S \ {g})
      BY <2>2, TotalRemoves
  <2> QED
      BY <1>2, <2>1, <2>3
<1>5. rest \in Nat /\ Total(size, sets[i]) = rest
    BY <1>1, <1>3, <1>4
<1>6. \A j \in Shard : rest <= Total(size, sets[j])
  <2> TAKE j \in Shard
  <2>1. CASE j = i
      BY <1>5, <2>1
  <2>2. CASE j # i
    <3>1. shard_sizes[i] - size[g] <= shard_sizes[j]
        BY DEF IInv, Balanced
    <3> QED
        BY <1>3, <2>2, <3>1 DEF IInv, SizesAreWeights
  <2> QED
      BY <2>1, <2>2
<1> HIDE DEF rest
<1>7. /\ \A j \in Shard : sets[j] \subseteq shards[j]
      /\ all \in SUBSET (pending \ {g})
  <2>1. \A j \in Shard : sets[j] \subseteq shards[j] /\ g \notin sets[j]
      BY <1>1, <1>3
  <2> QED
      BY <1>1, <2>1
<1>8. Cardinality(Shard) * rest <= Total(size, all)
  <2>1. IsFiniteSet(Shard) /\ IsFiniteSet(all)
      BY <1>1, <1>7, PackedFacts
  <2>2. \A j \in Shard : \A f \in sets[j] : size[f] \in Nat
      BY <1>1, <1>7, PackedFacts
  <2>3. \A j, k \in Shard : j # k => sets[j] \cap sets[k] = {}
      BY <1>1, <1>7
  <2> QED
      BY <1>5, <1>6, <2>1, <2>2, <2>3, EachWeighs
<1>9. Total(size, all) <= Total(size, pending \ {g})
  <2>1. IsFiniteSet(pending \ {g}) /\ \A f \in pending \ {g} : size[f] \in Nat
      BY <1>1, PackedFacts
  <2> HIDE DEF all
  <2> QED
      BY <1>7, <2>1, TotalGrows
<1>10. /\ Total(size, pending \ {g}) = Total(size, pending) - size[g]
       /\ Total(size, pending \ {g}) \in Nat
       /\ Total(size, all) \in Nat
  <2>1. all \in SUBSET File
      BY <1>1, <1>7
  <2> HIDE DEF all
  <2> QED
      BY <1>1, <1>2, <1>4, <2>1, PackedFacts
<1>11. Cardinality(Shard) * rest \in Nat
    BY <1>5, PackedFacts
<1> HIDE DEF all
<1>12. Cardinality(Shard) * rest <= Total(size, pending) - size[g]
    BY <1>8, <1>9, <1>10, <1>11
<1> QED
    BY <1>5, <1>12 DEF rest

\* Unless the count is capped, a shard exceeds the target by less than any one
\* of its files.
THEOREM ShardsNearTarget == Spec => []NearTarget
<1>1. ASSUME IInv, Weight(pending) <= MaxShards * TargetBytes,
             NEW i \in Shard, NEW f \in shards[i]
      PROVE  Weight(shards[i]) - size[f] <= TargetBytes
  <2> DEFINE rest == Total(size, shards[i]) - size[f]
             total == Total(size, pending)
  <2>1. PICK n \in 0 .. MaxShards : Shard = 0 .. n - 1 /\ total <= n * TargetBytes
      BY <1>1, WeightIsTotal DEF IInv, EnoughShards
  <2>2. Cardinality(Shard) = n /\ n # 0
    <3>1. n \in Nat /\ n - 1 \in Int
        BY <2>1, PackAssumption
    <3>2. Cardinality(0 .. n - 1) = IF 0 > n - 1 THEN 0 ELSE (n - 1) - 0 + 1
        BY <3>1, FS_Interval
    <3>3. i \in 0 .. n - 1
        BY <1>1, <2>1
    <3> QED
        BY <2>1, <3>1, <3>2, <3>3
  <2>3. f \in File /\ pending \in SUBSET File
      BY <1>1 DEF IInv, PackedTypes
  <2>4. size[f] \in Nat /\ total \in Nat
      BY <1>1, <2>3, PackedFacts
  <2>5. rest \in Nat /\ n * rest <= total - size[f]
      BY <1>1, <2>2, FairShare
  <2> HIDE DEF rest, total
  <2>6. n * rest \in Nat /\ n * TargetBytes \in Nat
      BY <2>1, <2>5, PackAssumption
  <2>7. n * rest <= n * TargetBytes
      BY <2>1, <2>4, <2>5, <2>6
  <2>8. rest <= TargetBytes
      BY <2>1, <2>2, <2>5, <2>7, CancelFactor, PackAssumption
  <2> QED
      BY <2>8, WeightIsTotal DEF rest
<1>2. IInv => NearTarget
    BY <1>1 DEF NearTarget
<1> QED
    BY <1>2, PackInvariance, PTL

\* The shards of any packing hold all that is pending.
LEMMA PackingHoldsAll ==
    ASSUME IInv, NEW m \in Nat, Suffices(m)
    PROVE  Total(size, pending) <= Cardinality(Shard) * m
<1>1. PICK packing \in [pending -> Shard] :
         \A j \in Shard : Total(size, {f \in pending : packing[f] = j}) <= m
    BY DEF Suffices
<1> DEFINE sets == [j \in Shard |-> {f \in pending : packing[f] = j}]
<1>2. UNION {sets[j] : j \in Shard} = pending
    BY <1>1
<1>3. pending \in SUBSET File
    BY DEF IInv, PackedTypes
<1>4. IsFiniteSet(Shard) /\ IsFiniteSet(pending) /\ \A f \in pending : size[f] \in Nat
    BY <1>3, PackedFacts
<1>5. /\ \A j \in Shard : \A f \in sets[j] : size[f] \in Nat
      /\ \A j \in Shard : Total(size, sets[j]) <= m
      /\ \A j, k \in Shard : j # k => sets[j] \cap sets[k] = {}
    BY <1>1, <1>4
<1> HIDE DEF sets
<1>6. Total(size, UNION {sets[j] : j \in Shard}) <= Cardinality(Shard) * m
  <2>1. IsFiniteSet(UNION {sets[j] : j \in Shard})
      BY <1>2, <1>4
  <2> QED
      BY <1>4, <1>5, <2>1, EachWeighs
<1> QED
    BY <1>2, <1>6

\* A shard is within all but 1/n of any one of its files of what any packing
\* into n shards needs.
LEMMA WithinAFile ==
    ASSUME IInv, NEW m \in Nat, Suffices(m), NEW i \in Shard, NEW g \in shards[i]
    PROVE  LET n == Cardinality(Shard)
           IN  n * Total(size, shards[i]) <= n * m + (n - 1) * size[g]
<1> DEFINE n == Cardinality(Shard)
           rest == Total(size, shards[i]) - size[g]
           total == Total(size, pending)
           s == size[g]
<1>1. g \in File /\ pending \in SUBSET File /\ shards[i] \in SUBSET File
    BY DEF IInv, PackedTypes
<1>2. n \in Nat /\ s \in Nat /\ total \in Nat /\ Total(size, shards[i]) \in Nat
    BY <1>1, PackedFacts
<1>3. rest \in Nat /\ n * rest <= total - s
    BY FairShare
<1>4. total <= n * m
    BY PackingHoldsAll
<1>5. Total(size, shards[i]) = rest + s
    BY <1>2
<1> HIDE DEF n, rest, total, s
<1>6. n * (rest + s) = n * rest + n * s /\ (n - 1) * s = n * s - s
    BY <1>2, <1>3
<1>7. n * rest \in Nat /\ n * s \in Nat /\ n * m \in Nat
    BY <1>2, <1>3
<1>8. n * (rest + s) <= n * m + (n - 1) * s
    BY <1>2, <1>3, <1>4, <1>6, <1>7
<1> QED
    BY <1>5, <1>8 DEF n, s

\* Graham's bound against any packing: a shard with a file of at most m/3 is
\* within that file of m, any other within m itself.
LEMMA WithinGraham ==
    ASSUME IInv, NEW m \in Nat, Suffices(m), NEW i \in Shard
    PROVE  LET n == Cardinality(Shard)
           IN  3 * n * Total(size, shards[i]) <= (4 * n - 1) * m
<1> DEFINE n == Cardinality(Shard)
           t == Total(size, shards[i])
<1>1. n \in Nat /\ n # 0
    BY PackedFacts, FS_EmptySet
<1>2. shards[i] \in SUBSET File /\ t \in Nat
    BY PackedFacts DEF IInv, PackedTypes
<1>3. CASE \A f \in shards[i] : m < 3 * size[f]
  <2>1. t <= m
      BY <1>3 DEF IInv, LargeFit
  <2> HIDE DEF n, t
  <2>2. 3 * n * t <= 3 * n * m
      BY <1>1, <1>2, <2>1
  <2>3. 3 * n * m <= (4 * n - 1) * m
      BY <1>1
  <2>4. 3 * n * t \in Int /\ 3 * n * m \in Int /\ (4 * n - 1) * m \in Int
      BY <1>1, <1>2
  <2>5. 3 * n * t <= (4 * n - 1) * m
      BY <2>2, <2>3, <2>4
  <2> QED
      BY <2>5 DEF n, t
<1>4. CASE ~ \A f \in shards[i] : m < 3 * size[f]
  <2>1. PICK g \in shards[i] : ~(m < 3 * size[g])
      BY <1>4
  <2> DEFINE s == size[g]
  <2>2. s \in Nat /\ 3 * s <= m
      BY <1>2, <2>1, PackedFacts
  <2>3. n * t <= n * m + (n - 1) * s
      BY WithinAFile
  <2> HIDE DEF n, t, s
  <2>4. (n - 1) * (3 * s) <= (n - 1) * m
      BY <1>1, <2>2
  <2>5. /\ 3 * n * t = 3 * (n * t)
        /\ (n - 1) * (3 * s) = 3 * ((n - 1) * s)
        /\ (4 * n - 1) * m = 3 * (n * m) + (n - 1) * m
      BY <1>1, <1>2, <2>2
  <2>6. n * t \in Int /\ n * m \in Int /\ (n - 1) * s \in Int /\ (n - 1) * m \in Int
      BY <1>1, <1>2, <2>2
  <2>7. 3 * n * t <= (4 * n - 1) * m
      BY <2>3, <2>4, <2>5, <2>6
  <2> QED
      BY <2>7 DEF n, t
<1> QED
    BY <1>3, <1>4

\* No shard of a packing outweighs its heaviest.
LEMMA HeaviestIsMost ==
    ASSUME IInv, Shard # {}, NEW packing \in [pending -> Shard]
    PROVE  /\ Heaviest(packing) \in Nat
           /\ \A j \in Shard :
                 Total(size, {f \in pending : packing[f] = j}) <= Heaviest(packing)
<1> DEFINE v == [j \in Shard |-> Total(size, {f \in pending : packing[f] = j})]
<1>1. \A j \in Shard : v[j] \in Nat
  <2>1. \A j \in Shard : {f \in pending : packing[f] = j} \in SUBSET File
      BY DEF IInv, PackedTypes
  <2> QED
      BY <2>1, PackedFacts
<1>2. Heaviest(packing) = Max({v[j] : j \in Shard})
  <2>1. {Weight({f \in pending : packing[f] = j}) : j \in Shard} = {v[j] : j \in Shard}
      BY WeightIsTotal
  <2> QED
      BY <2>1 DEF Heaviest
<1> HIDE DEF v
<1>3. Heaviest(packing) \in Nat /\ \A j \in Shard : v[j] <= Heaviest(packing)
    BY <1>1, <1>2, PackedFacts, MaxOfMany
<1> QED
    BY <1>3 DEF v

\* The heaviest shard stays within 4/3 - 1/(3n) of the best of all packings.
THEOREM ShardsNearOptimal == Spec => []NearOptimal
<1>1. ASSUME IInv, pending # {}, NEW i \in Shard
      PROVE  LET n == Cardinality(Shard)
                 best == Min({Heaviest(packing) : packing \in [pending -> Shard]})
             IN  3 * n * Weight(shards[i]) <= (4 * n - 1) * best
  <2> DEFINE T == {Heaviest(packing) : packing \in [pending -> Shard]}
  <2>1. T \in SUBSET Nat
      BY <1>1, HeaviestIsMost
  <2>2. T # {}
    <3>1. [f \in pending |-> i] \in [pending -> Shard]
        OBVIOUS
    <3> QED
        BY <3>1
  <2>3. Min(T) \in T
    <3> HIDE DEF T
    <3> QED
        BY <2>1, <2>2, MinOfNats
  <2>4. PICK packing \in [pending -> Shard] : Min(T) = Heaviest(packing)
      BY <2>3
  <2>5. Min(T) \in Nat /\ Suffices(Min(T))
      BY <1>1, <2>4, HeaviestIsMost DEF Suffices
  <2> HIDE DEF T
  <2>6. 3 * Cardinality(Shard) * Total(size, shards[i]) <= (4 * Cardinality(Shard) - 1) * Min(T)
      BY <1>1, <2>5, WithinGraham
  <2> QED
      BY <2>6, WeightIsTotal DEF T
<1>2. IInv => NearOptimal
    BY <1>1 DEF NearOptimal
<1> QED
    BY <1>2, PackInvariance, PTL
=============================================================================
