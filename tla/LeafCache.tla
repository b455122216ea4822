----------------------------- MODULE LeafCache -----------------------------
(***************************************************************************)
(* The bounded cache of per-host leaf certificates (LeafCache in ca.rs):   *)
(* `acceptors` maps a host to its acceptor, `order` lists the hosts oldest *)
(* first.  A cache is the record of the two.                               *)
(***************************************************************************)
EXTENDS Naturals, Sequences, FiniteSets, FiniteSetsExt, SequencesExt, Functions

CONSTANT MaxCached  \* MAX_CACHED_HOSTS

ASSUME MaxCachedAssumption == MaxCached \in Nat \ {0}

Default == [acceptors |-> <<>>, order |-> <<>>]

Hosts(cache) == DOMAIN cache.acceptors

(* Dropping the k oldest hosts. *)
DropOldest(cache, k) ==
    LET gone == {cache.order[i] : i \in 1..k} IN
    [acceptors |-> Restrict(cache.acceptors, Hosts(cache) \ gone),
     order     |-> SubSeq(cache.order, k + 1, Len(cache.order))]

(* The loop pops hosts while the map is full and there is one to pop. *)
Evict(cache) ==
    LET Enough(k) == \/ k = Len(cache.order)
                     \/ Cardinality(Hosts(DropOldest(cache, k))) < MaxCached
    IN  DropOldest(cache, Min({k \in 0..Len(cache.order) : Enough(k)}))

With(cache, host, leaf) ==
    [acceptors |-> [h \in Hosts(cache) \cup {host} |->
                      IF h = host THEN leaf ELSE cache.acceptors[h]],
     order     |-> Append(cache.order, host)]

Insert(cache, host, leaf) ==
    IF host \in Hosts(cache) THEN cache ELSE With(Evict(cache), host, leaf)

(* Map and list hold the same hosts, each once. *)
Agrees(cache) == Range(cache.order) = Hosts(cache) /\ IsInjective(cache.order)
=============================================================================
