------------------------------ MODULE Vectors ------------------------------
(***************************************************************************)
(* What the code does to its vectors with iterators: filter, retain and    *)
(* the sort by a key.                                                      *)
(***************************************************************************)
EXTENDS Integers, Sequences, FiniteSets

(* filter, retain: the elements at some places of a vector, in their order. *)
Keeping(s, places) ==
    LET kept[n \in 0..Len(s)] == IF n = 0 THEN <<>>
                                 ELSE IF n \in places THEN Append(kept[n - 1], s[n])
                                 ELSE kept[n - 1]
    IN kept[Len(s)]

(* sort_by_key is stable: smaller keys first, and the order of the vector among
   equals.  Each element takes the place behind those that go before it. *)
GoesBefore(keys, i, j) == keys[i] < keys[j] \/ (keys[i] = keys[j] /\ i < j)
Place(keys, i) == Cardinality({j \in DOMAIN keys : GoesBefore(keys, j, i)}) + 1
SortedBy(s, keys) == [k \in DOMAIN s |-> s[CHOOSE i \in DOMAIN s : Place(keys, i) = k]]
=============================================================================
