------------------------------ MODULE PackShards ------------------------------
(***************************************************************************)
(* How the pending files of a grab run are packed into shards              *)
(* (pack_shards in plan_shards.py), one file a turn.  A path is a number,  *)
(* in the order in which the code compares names.                          *)
(***************************************************************************)
EXTENDS Integers, FiniteSetsExt

CONSTANTS File, MaxSize,  \* bound: bytes of a file
          TargetBytes, MaxShards

ASSUME PackAssumption ==
    /\ File \subseteq Nat /\ IsFiniteSet(File)
    /\ MaxSize \in Nat
    /\ TargetBytes \in Nat \ {0}
    /\ MaxShards \in Nat \ {0}

VARIABLES size,         \* the size of each file of the job
          pending,      \* the files to upload
          todo,         \* those the loop has not placed
          shards,       \* the files of each shard
          shard_sizes

vars == <<size, pending, todo, shards, shard_sizes>>

Weight(S) == MapThenSumSet(LAMBDA f : size[f], S)

CeilDiv(a, b) == (a + b - 1) \div b

\* Mutant: files without content make no shard.
ShardCountUnclamped(S) ==
    IF S = {} THEN 0
    ELSE Min({MaxShards, CeilDiv(Weight(S), TargetBytes)})

\* Mutant: the count is rounded down.
ShardCountFloor(S) ==
    IF S = {} THEN 0 ELSE Max({1, Min({MaxShards, Weight(S) \div TargetBytes})})

ShardCount(S) ==
    IF S = {} THEN 0
    ELSE Max({1, Min({MaxShards, CeilDiv(Weight(S), TargetBytes)})})

Shard == DOMAIN shards

Init ==
    /\ size \in [File -> 0 .. MaxSize]
    /\ pending \in SUBSET File
    /\ todo = pending
    /\ shards = [i \in 0 .. ShardCount(pending) - 1 |-> {}]
    /\ shard_sizes = [i \in 0 .. ShardCount(pending) - 1 |-> 0]

\* Mutant: the sign of the sort key is lost.
BeforeAscending(f, g) == size[f] < size[g] \/ (size[f] = size[g] /\ f < g)

\* The sort key (-size, path).
Before(f, g) == size[f] > size[g] \/ (size[f] = size[g] /\ f < g)

\* Mutant: the shard with the fewest files is taken for the emptiest.
LeastLoadedByFiles(i) ==
    \A j \in Shard \ {i} : \/ Cardinality(shards[i]) < Cardinality(shards[j])
                           \/ Cardinality(shards[i]) = Cardinality(shards[j]) /\ i < j

\* The candidate with the smallest key (shard_sizes[i], i).
LeastLoaded(i) ==
    \A j \in Shard \ {i} : \/ shard_sizes[i] < shard_sizes[j]
                           \/ shard_sizes[i] = shard_sizes[j] /\ i < j

\* Mutant: an empty file is left out of the manifests.
PlaceNonEmpty(f, i) ==
    /\ todo' = todo \ {f}
    /\ shards' = [shards EXCEPT ![i] = IF size[f] = 0 THEN @ ELSE @ \cup {f}]
    /\ shard_sizes' = [shard_sizes EXCEPT ![i] = @ + size[f]]
    /\ UNCHANGED <<size, pending>>

Place(f, i) ==
    /\ todo' = todo \ {f}
    /\ shards' = [shards EXCEPT ![i] = @ \cup {f}]
    /\ shard_sizes' = [shard_sizes EXCEPT ![i] = @ + size[f]]
    /\ UNCHANGED <<size, pending>>

Next == \E f \in todo, i \in Shard :
           /\ \A g \in todo \ {f} : Before(f, g)
           /\ LeastLoaded(i)
           /\ Place(f, i)

Spec == Init /\ [][Next]_vars

-----------------------------------------------------------------------------
(* Properties                                                              *)

\* The loop's variables keep their shape; there is a shard as soon as there is
\* a file, though its files be empty, and never more than MaxShards.
TypeOK ==
    /\ size \in [File -> 0 .. MaxSize]
    /\ todo \subseteq pending /\ pending \subseteq File
    /\ \E n \in 0 .. MaxShards :
          /\ (n = 0) <=> (pending = {})
          /\ shards \in [0 .. n - 1 -> SUBSET File]
          /\ shard_sizes \in [0 .. n - 1 -> Nat]

\* The manifests split the pending files: none is left out (the collector would
\* never charge it, and every run would leave it pending), none is given to two
\* shards (the collector would raise on the second result).
EachFileOnce ==
    /\ UNION {shards[i] : i \in Shard} = pending \ todo
    /\ \A i, j \in Shard : i # j => shards[i] \cap shards[j] = {}

\* No shard is worth taking a file from: without any one of its files it would
\* weigh no more than every other shard does.
Balanced ==
    \A i, j \in Shard : \A f \in shards[i] :
       shard_sizes[i] - size[f] <= shard_sizes[j]

\* What the margin below the time limit of a shard's job rests on: unless the
\* count is capped, a shard exceeds the target by less than any one of its
\* files.
NearTarget ==
    Weight(pending) <= MaxShards * TargetBytes =>
       \A i \in Shard : \A f \in shards[i] : Weight(shards[i]) - size[f] <= TargetBytes

Heaviest(packing) ==
    Max({Weight({f \in pending : packing[f] = i}) : i \in Shard})

\* Largest-first pays: the heaviest shard stays within 4/3 - 1/(3n) of the best
\* of all packings into the same n shards (Graham's bound).
NearOptimal ==
    todo = {} /\ pending # {} =>
       LET n == Cardinality(Shard)
           best == Min({Heaviest(packing) : packing \in [pending -> Shard]})
       IN  \A i \in Shard : 3 * n * Weight(shards[i]) <= (4 * n - 1) * best
=============================================================================
