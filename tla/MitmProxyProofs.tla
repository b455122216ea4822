-------------------------- MODULE MitmProxyProofs --------------------------
(***************************************************************************)
(* The proxy, for any connections and hosts: the leaf cache stays          *)
(* consistent and within its bound, and its two action properties.         *)
(*                                                                         *)
(* What its tunnels observe, for any streams and sizes of read, and any    *)
(* cap that leaves room for a record header: the capture hands over the    *)
(* first record, once; the parser reads from it the hello that was         *)
(* encoded, whatever hello that is; and the fingerprints of two hellos are *)
(* the same exactly when they make the same offer.                         *)
(***************************************************************************)
EXTENDS MitmProxy, HelloTap,
        WellFoundedInduction, FiniteSetTheorems, SequenceTheorems, TLAPS

(* What the cache is like between two critical sections. *)
Sound(k) ==
    /\ k.order \in Seq(Valid)
    /\ Agrees(k)
    /\ IsFiniteSet(Hosts(k))
    /\ Cardinality(Hosts(k)) <= MaxCached

(* The least element is the least element. *)
LEMMA MinIs ==
    ASSUME NEW S \in SUBSET Nat, NEW m \in S, \A y \in S : m <= y
    PROVE  Min(S) = m
<1>1. \A x \in S : (\A y \in S : x <= y) => x = m
  OBVIOUS
<1>2. \E x \in S : \A y \in S : x <= y
  OBVIOUS
<1> QED BY <1>1, <1>2 DEF Min

(* Dropping no host changes nothing that is looked at. *)
LEMMA DropNone ==
    ASSUME NEW k, k.order \in Seq(Valid)
    PROVE  /\ Hosts(DropOldest(k, 0)) = Hosts(k)
           /\ DropOldest(k, 0).order = k.order
           /\ \A h \in Hosts(k) : DropOldest(k, 0).acceptors[h] = k.acceptors[h]
<1> DEFINE gone == {k.order[i] : i \in 1..0}
<1>1. gone = {}
  OBVIOUS
<1>2. DropOldest(k, 0).acceptors = [h \in Hosts(k) \ gone |-> k.acceptors[h]]
  BY DEF DropOldest, Restrict
<1>3. DropOldest(k, 0).order = SubSeq(k.order, 1, Len(k.order))
  BY DEF DropOldest
<1>4. SubSeq(k.order, 1, Len(k.order)) = k.order
  OBVIOUS
<1> QED BY <1>1, <1>2, <1>3, <1>4 DEF Hosts

(* The sequence without its first element; in one without duplicates that  *)
(* element is gone.                                                        *)
LEMMA Rest ==
    ASSUME NEW V, NEW s \in Seq(V), Len(s) >= 1, IsInjective(s),
           NEW r, r = SubSeq(s, 2, Len(s))
    PROVE  r \in Seq(V) /\ IsInjective(r) /\ Range(r) = Range(s) \ {s[1]}
<1>1. /\ Len(s) \in Nat
      /\ r \in Seq(V)
      /\ Len(r) = Len(s) - 1
      /\ DOMAIN r = 1..Len(s) - 1 /\ DOMAIN s = 1..Len(s)
  <2>1. Len(s) \in Nat /\ DOMAIN s = 1..Len(s)
    OBVIOUS
  <2>2. \A i \in 2..Len(s) : s[i] \in V
    BY <2>1
  <2>3. r \in Seq(V) /\ Len(r) = (IF 2 <= Len(s) THEN Len(s) - 2 + 1 ELSE 0)
    BY <2>1, <2>2, SubSeqProperties
  <2>4. Len(r) = Len(s) - 1
    BY <2>1, <2>3
  <2>5. DOMAIN r = 1..Len(r)
    BY <2>3
  <2> QED BY <2>1, <2>3, <2>4, <2>5
<1>2. \A i \in 1..Len(s) - 1 : r[i] = s[i + 1]
  OBVIOUS
<1>3. \A i \in 1..Len(s) - 1 : i + 1 \in 1..Len(s) /\ i + 1 # 1
  BY <1>1
<1>4. ASSUME NEW a \in DOMAIN r, NEW b \in DOMAIN r, r[a] = r[b] PROVE a = b
  <2>1. s[a + 1] = s[b + 1]
    BY <1>1, <1>2, <1>4
  <2>2. a + 1 = b + 1
    BY <1>1, <1>3, <2>1 DEF IsInjective
  <2> QED BY <1>1, <2>2
<1>5. ASSUME NEW h \in Range(r) PROVE h \in Range(s) \ {s[1]}
  <2>1. PICK i \in 1..Len(s) - 1 : h = s[i + 1]
    BY <1>1, <1>2 DEF Range
  <2>2. i + 1 \in DOMAIN s /\ 1 \in DOMAIN s
    BY <1>1, <1>3
  <2>3. s[i + 1] # s[1]
    BY <1>3, <2>2 DEF IsInjective
  <2> QED BY <2>1, <2>2, <2>3 DEF Range
<1>6. ASSUME NEW h \in Range(s) \ {s[1]} PROVE h \in Range(r)
  <2>1. PICK j \in 1..Len(s) : h = s[j]
    BY <1>1 DEF Range
  <2>2. j # 1
    BY <1>6, <2>1
  <2>3. j - 1 \in 1..Len(s) - 1 /\ j = (j - 1) + 1
    BY <1>1, <2>2
  <2>4. r[j - 1] = h
    BY <1>2, <2>1, <2>3
  <2> QED BY <1>1, <2>3, <2>4 DEF Range
<1>7. IsInjective(r)
  BY <1>4 DEF IsInjective
<1> QED BY <1>1, <1>5, <1>6, <1>7

(* Dropping the oldest host of a sound cache takes it out of both parts. *)
LEMMA DropOne ==
    ASSUME NEW k, Sound(k), Len(k.order) >= 1
    PROVE  LET d == DropOldest(k, 1) IN
           /\ d.order \in Seq(Valid)
           /\ Agrees(d)
           /\ Hosts(d) = Hosts(k) \ {k.order[1]}
           /\ \A h \in Hosts(d) : d.acceptors[h] = k.acceptors[h]
<1> DEFINE d == DropOldest(k, 1)
           gone == {k.order[i] : i \in 1..1}
           s == k.order
<1>0. s \in Seq(Valid) /\ Range(s) = Hosts(k) /\ IsInjective(s) /\ Len(s) \in Nat
  BY DEF Sound, Agrees
<1>1. gone = {s[1]}
  OBVIOUS
<1>2. d.acceptors = [h \in Hosts(k) \ gone |-> k.acceptors[h]]
  BY DEF DropOldest, Restrict
<1>3. d.order = SubSeq(s, 2, Len(s))
  BY DEF DropOldest
<1>4. d.order \in Seq(Valid) /\ IsInjective(d.order) /\ Range(d.order) = Range(s) \ {s[1]}
  BY <1>0, <1>3, Rest
<1>5. Hosts(d) = Hosts(k) \ {s[1]}
  BY <1>1, <1>2 DEF Hosts
<1>6. \A h \in Hosts(d) : d.acceptors[h] = k.acceptors[h]
  BY <1>1, <1>2, <1>5
<1> QED BY <1>0, <1>4, <1>5, <1>6 DEF Agrees

(* Removing a member makes a finite set one smaller. *)
LEMMA OneLess ==
    ASSUME NEW T, IsFiniteSet(T), NEW x \in T
    PROVE  IsFiniteSet(T \ {x}) /\ Cardinality(T \ {x}) = Cardinality(T) - 1
<1>1. IsFiniteSet(T \ {x})
  BY FS_RemoveElement
<1>2. Cardinality(T \ {x}) = IF x \in T THEN Cardinality(T) - 1 ELSE Cardinality(T)
  BY FS_RemoveElement, Zenon
<1> QED BY <1>1, <1>2

(* Making room leaves a consistent cache with room in it. *)
LEMMA EvictSound ==
    ASSUME NEW k, Sound(k)
    PROVE  LET e == Evict(k) IN
           /\ e.order \in Seq(Valid)
           /\ Agrees(e)
           /\ IsFiniteSet(Hosts(e)) /\ Cardinality(Hosts(e)) < MaxCached
           /\ Hosts(e) \subseteq Hosts(k)
           /\ \A h \in Hosts(e) : e.acceptors[h] = k.acceptors[h]
<1> DEFINE Enough(n) == n = Len(k.order) \/ Cardinality(Hosts(DropOldest(k, n))) < MaxCached
           S == {n \in 0..Len(k.order) : Enough(n)}
<1>1. /\ k.order \in Seq(Valid) /\ Range(k.order) = Hosts(k) /\ Len(k.order) \in Nat
      /\ IsFiniteSet(Hosts(k)) /\ Cardinality(Hosts(k)) \in Nat
      /\ Cardinality(Hosts(k)) <= MaxCached /\ MaxCached \in Nat \ {0}
  BY FS_CardinalityType, MaxCachedAssumption DEF Sound, Agrees
<1>2. Evict(k) = DropOldest(k, Min(S))
  BY DEF Evict
<1>3. S \in SUBSET Nat
  BY <1>1
<1>4. CASE Cardinality(Hosts(k)) < MaxCached
  <2>1. Enough(0)
    BY <1>1, <1>4, DropNone
  <2>2. 0 \in S /\ \A n \in S : 0 <= n
    BY <1>1, <2>1
  <2>3. Min(S) = 0
    BY <1>3, <2>2, MinIs
  <2>a. Evict(k) = DropOldest(k, 0)
    BY <1>2, <2>3
  <2>4. Hosts(Evict(k)) = Hosts(k) /\ Evict(k).order = k.order
        /\ \A h \in Hosts(k) : Evict(k).acceptors[h] = k.acceptors[h]
    BY <1>1, <2>a, DropNone
  <2> QED BY <1>1, <1>4, <2>4 DEF Sound, Agrees
<1>5. CASE ~(Cardinality(Hosts(k)) < MaxCached)
  <2>1. Cardinality(Hosts(k)) = MaxCached
    BY <1>1, <1>5
  <2>2. Hosts(k) # {}
    BY <1>1, <2>1, FS_EmptySet
  <2>3. Len(k.order) >= 1
    <3>1. PICK i \in DOMAIN k.order : TRUE
      BY <1>1, <2>2 DEF Range
    <3> QED BY <1>1, <3>1
  <2>4. k.order[1] \in Hosts(k)
    <3>1. 1 \in DOMAIN k.order
      BY <1>1, <2>3
    <3> QED BY <1>1, <3>1 DEF Range
  <2>5. LET d == DropOldest(k, 1) IN
        /\ d.order \in Seq(Valid) /\ Agrees(d)
        /\ Hosts(d) = Hosts(k) \ {k.order[1]}
        /\ \A h \in Hosts(d) : d.acceptors[h] = k.acceptors[h]
    BY <2>3, DropOne
  <2>6. /\ IsFiniteSet(Hosts(DropOldest(k, 1)))
        /\ Cardinality(Hosts(DropOldest(k, 1))) = MaxCached - 1
    <3>1. /\ IsFiniteSet(Hosts(k) \ {k.order[1]})
          /\ Cardinality(Hosts(k) \ {k.order[1]}) = Cardinality(Hosts(k)) - 1
      BY <1>1, <2>4, OneLess
    <3> QED BY <2>1, <2>5, <3>1
  <2>7. Enough(1) /\ ~Enough(0)
    <3>1. MaxCached - 1 < MaxCached
      BY <1>1
    <3>2. Hosts(DropOldest(k, 0)) = Hosts(k)
      BY <1>1, DropNone
    <3> QED BY <1>1, <1>5, <2>3, <2>6, <3>1, <3>2
  <2>8. 1 \in S /\ \A n \in S : 1 <= n
    BY <1>1, <2>3, <2>7
  <2>9. Min(S) = 1
    BY <1>3, <2>8, MinIs
  <2>10. Evict(k) = DropOldest(k, 1)
    BY <1>2, <2>9
  <2>11. MaxCached - 1 < MaxCached
    BY <1>1
  <2> QED BY <2>5, <2>6, <2>10, <2>11
<1> QED BY <1>4, <1>5

(* A new host is appended to both parts of a cache with room. *)
LEMMA WithSound ==
    ASSUME NEW e, NEW h \in Valid, NEW l,
           e.order \in Seq(Valid), Agrees(e), h \notin Hosts(e),
           IsFiniteSet(Hosts(e)), Cardinality(Hosts(e)) < MaxCached
    PROVE  LET w == With(e, h, l) IN
           /\ Sound(w)
           /\ Hosts(w) = Hosts(e) \cup {h}
           /\ w.acceptors[h] = l
           /\ \A g \in Hosts(e) : w.acceptors[g] = e.acceptors[g]
<1> DEFINE w == With(e, h, l)
           s == e.order
           n == Len(s)
<1>1. /\ w.acceptors = [g \in Hosts(e) \cup {h} |-> IF g = h THEN l ELSE e.acceptors[g]]
      /\ w.order = Append(s, h)
  BY DEF With
<1>2. /\ Hosts(w) = Hosts(e) \cup {h}
      /\ w.acceptors[h] = l
      /\ \A g \in Hosts(e) : w.acceptors[g] = e.acceptors[g]
  BY <1>1 DEF Hosts
<1>3. n \in Nat /\ DOMAIN s = 1..n /\ Range(s) = Hosts(e) /\ IsInjective(s)
  BY DEF Agrees
<1>4. /\ w.order \in Seq(Valid) /\ DOMAIN w.order = 1..n + 1
      /\ w.order[n + 1] = h /\ \A i \in 1..n : w.order[i] = s[i]
  BY <1>1, <1>3
<1>5. \A i \in 1..n : s[i] \in Hosts(e)
  BY <1>3 DEF Range
<1>6. Range(w.order) = Hosts(w)
  <2>1. ASSUME NEW i \in DOMAIN w.order PROVE w.order[i] \in Hosts(w)
    <3>1. i \in 1..n \/ i = n + 1
      BY <1>3, <1>4
    <3> QED BY <1>2, <1>4, <1>5, <3>1
  <2>2. ASSUME NEW g \in Hosts(e) PROVE \E i \in DOMAIN w.order : w.order[i] = g
    <3>1. PICK i \in 1..n : s[i] = g
      BY <1>3 DEF Range
    <3>2. i \in 1..n + 1
      BY <1>3
    <3> QED BY <1>4, <3>1, <3>2
  <2>3. n + 1 \in DOMAIN w.order
    BY <1>3, <1>4
  <2> QED BY <1>2, <1>4, <2>1, <2>2, <2>3 DEF Range
<1>7. IsInjective(w.order)
  <2> SUFFICES ASSUME NEW a \in 1..n + 1, NEW b \in 1..n + 1, w.order[a] = w.order[b]
               PROVE  a = b
    BY <1>4 DEF IsInjective
  <2>1. (a \in 1..n \/ a = n + 1) /\ (b \in 1..n \/ b = n + 1)
    BY <1>3
  <2>2. CASE a \in 1..n /\ b \in 1..n
    BY <1>3, <1>4, <2>2 DEF IsInjective
  <2>3. CASE a = n + 1 /\ b \in 1..n
    BY <1>4, <1>5, <2>3
  <2>4. CASE a \in 1..n /\ b = n + 1
    BY <1>4, <1>5, <2>4
  <2> QED BY <2>1, <2>2, <2>3, <2>4
<1>8. IsFiniteSet(Hosts(w)) /\ Cardinality(Hosts(w)) <= MaxCached
  <2>1. IsFiniteSet(Hosts(w)) /\ Cardinality(Hosts(w)) = Cardinality(Hosts(e)) + 1
    BY <1>2, FS_AddElement
  <2>2. Cardinality(Hosts(e)) \in Nat /\ MaxCached \in Nat
    BY FS_CardinalityType, MaxCachedAssumption
  <2> QED BY <2>1, <2>2
<1> QED BY <1>2, <1>4, <1>6, <1>7, <1>8 DEF Sound, Agrees

(* insert keeps a sound cache sound, keeps the leaves it holds, and the    *)
(* host is in it afterwards: with the new leaf only if it was not before.  *)
LEMMA InsertSound ==
    ASSUME NEW k, Sound(k), NEW h \in Valid, NEW l
    PROVE  LET i == Insert(k, h, l) IN
           /\ Sound(i)
           /\ h \in Hosts(i) /\ Hosts(i) \subseteq Hosts(k) \cup {h}
           /\ i.acceptors[h] = IF h \in Hosts(k) THEN k.acceptors[h] ELSE l
           /\ \A g \in Hosts(i) \cap Hosts(k) : i.acceptors[g] = k.acceptors[g]
<1>1. CASE h \in Hosts(k)
  BY <1>1 DEF Insert
<1>2. CASE h \notin Hosts(k)
  <2> DEFINE e == Evict(k)
  <2>1. /\ e.order \in Seq(Valid) /\ Agrees(e)
        /\ IsFiniteSet(Hosts(e)) /\ Cardinality(Hosts(e)) < MaxCached
        /\ Hosts(e) \subseteq Hosts(k)
        /\ \A g \in Hosts(e) : e.acceptors[g] = k.acceptors[g]
    BY EvictSound
  <2>2. Insert(k, h, l) = With(e, h, l)
    BY <1>2 DEF Insert
  <2>3. h \notin Hosts(e)
    BY <1>2, <2>1
  <2> HIDE DEF e
  <2>4. /\ Sound(With(e, h, l))
        /\ Hosts(With(e, h, l)) = Hosts(e) \cup {h}
        /\ With(e, h, l).acceptors[h] = l
        /\ \A g \in Hosts(e) : With(e, h, l).acceptors[g] = e.acceptors[g]
    BY <2>1, <2>3, WithSound
  <2> QED BY <1>2, <2>1, <2>2, <2>4
<1> QED BY <1>1, <1>2

-----------------------------------------------------------------------------
(* The inductive invariant: the cache is sound whenever its lock is free,  *)
(* and a tunnel mints for a valid host only.                               *)
IInv ==
    /\ TypeOK
    /\ Sound(cache)
    /\ \A c \in Conns : pc[c] = "mint" => host[c] \in Valid

(* In the first state the cache is empty. *)
LEMMA InitIInv == Init => IInv
<1> SUFFICES ASSUME Init PROVE IInv
  OBVIOUS
<1>1. cache.order = <<>> /\ Hosts(cache) = {}
  BY DEF Init, Default, Hosts
<1>2. Range(<<>>) = {} /\ IsInjective(<<>>)
  BY DEF Range, IsInjective
<1>3. IsFiniteSet({}) /\ Cardinality({}) = 0
  BY FS_EmptySet
<1>4. Sound(cache)
  <2>1. <<>> \in Seq(Valid)
    OBVIOUS
  <2>2. 0 <= MaxCached
    BY MaxCachedAssumption
  <2> QED BY <1>1, <1>2, <1>3, <2>1, <2>2 DEF Sound, Agrees
<1>5. TypeOK
  <2>1. /\ Hosts(cache) \subseteq Valid
        /\ \A h \in Hosts(cache) : cache.acceptors[h] \in Leaves /\ cache.acceptors[h].host = h
        /\ cache.order \in Seq(Valid) /\ Cardinality(Hosts(cache)) <= MaxCached
    BY <1>1, <1>4 DEF Sound
  <2>2. serial \in Nat /\ slot \in 0..MaxSwaps
    BY MaxSwapsAssumption DEF Init
  <2>3. cancelled \in BOOLEAN /\ listening \in BOOLEAN
    BY DEF Init
  <2> HIDE DEF Hosts, Leaves
  <2> QED BY <2>1, <2>2, <2>3 DEF Init, TypeOK
<1> QED BY <1>4, <1>5 DEF IInv, Init

(* Every step preserves the invariant. *)
LEMMA NextIInv == IInv /\ [Next]_vars => IInv'
<1> SUFFICES ASSUME IInv, [Next]_vars PROVE IInv'
  OBVIOUS
<1> USE DEF IInv
<1>1. ASSUME NEW c \in Conns, Accept(c) PROVE IInv'
  BY <1>1 DEF Accept, TypeOK, proxy
<1>2. ASSUME NEW c \in Conns, NoTunnel(c) PROVE IInv'
  BY <1>2 DEF NoTunnel, Closes, TypeOK, proxy
<1>3. ASSUME NEW c \in Conns, Hit(c) PROVE IInv'
  BY <1>3 DEF Hit, Cached, TypeOK, proxy
<1>4. ASSUME NEW c \in Conns, Miss(c) PROVE IInv'
  BY <1>4 DEF Miss, IsValidHost, TypeOK, proxy
<1>5. ASSUME NEW c \in Conns, Mint(c) PROVE IInv'
  <2> DEFINE l == NewLeaf(c)
  <2>1. host[c] \in Valid /\ l \in Leaves /\ l.host = host[c] /\ serial' \in Nat
    BY <1>5, NamesAssumption DEF Mint, NewLeaf, Leaves, TypeOK
  <2>2. /\ Sound(cache')
        /\ host[c] \in Hosts(cache') /\ Hosts(cache') \subseteq Hosts(cache) \cup {host[c]}
        /\ cache'.acceptors[host[c]] = IF host[c] \in Hosts(cache) THEN cache.acceptors[host[c]] ELSE l
        /\ \A g \in Hosts(cache') \cap Hosts(cache) : cache'.acceptors[g] = cache.acceptors[g]
    BY <1>5, <2>1, InsertSound DEF Mint
  <2>3. \A h \in Hosts(cache') : cache'.acceptors[h] \in Leaves /\ cache'.acceptors[h].host = h
    BY <2>1, <2>2 DEF TypeOK
  <2>4. leaf' \in [Conns -> Leaves \cup {None}]
    BY <1>5, <2>2, <2>3 DEF Mint, TypeOK
  <2>5. pc' \in [Conns -> {"none", "upgrade", "mint", "handshake", "serve", "forward", "closed"}]
    BY <1>5 DEF Mint, TypeOK
  <2>6. Hosts(cache') \subseteq Valid
    BY <2>1, <2>2 DEF TypeOK
  <2>7. TypeOK'
    BY <1>5, <2>1, <2>2, <2>3, <2>4, <2>5, <2>6 DEF Mint, TypeOK, Sound, proxy
  <2>8. \A d \in Conns : pc'[d] = "mint" => host'[d] \in Valid
    BY <1>5 DEF Mint, TypeOK
  <2> QED BY <2>2, <2>7, <2>8
<1>6. ASSUME NEW c \in Conns, Handshake(c) PROVE IInv'
  BY <1>6 DEF Handshake, Closes, TypeOK, proxy
<1>7. ASSUME NEW c \in Conns, NEW h \in Names, Connect(c, h) PROVE IInv'
  BY <1>7 DEF Connect, TypeOK, proxy
<1>8. ASSUME NEW c \in Conns, Serve(c) PROVE IInv'
  BY <1>8, <1>7 DEF Serve, Request, Snapshot, Respond, HangUp, Closes, TypeOK, proxy
<1>9. ASSUME NEW c \in Conns, Shutdown(c) PROVE IInv'
  BY <1>9 DEF Shutdown, Closes, TypeOK, proxy
<1>10. CASE ListenerStops \/ DropProxy
  BY <1>10 DEF ListenerStops, DropProxy, TypeOK, conns
<1>11. CASE SetUpstreamClient
  BY <1>11, MaxSwapsAssumption DEF SetUpstreamClient, TypeOK, conns
<1>12. CASE UNCHANGED vars
  BY <1>12 DEF vars, conns, proxy, TypeOK
<1> QED BY <1>1, <1>2, <1>3, <1>4, <1>5, <1>6, <1>8, <1>9, <1>10, <1>11, <1>12
        DEF Next, Acceptor, Terminated

(* The invariant holds in every state of the proxy, whatever tunnels mint, *)
(* evict and close at the same time.                                       *)
THEOREM Invariance == Spec => []IInv
BY InitIInv, NextIInv, PTL DEF Spec

(* The types are right: in particular no more hosts are cached than the    *)
(* bound allows and each leaf is filed under the host it names             *)
(* (LeafCache::insert).                                                    *)
THEOREM TypeCorrect == Spec => []TypeOK
<1>1. IInv => TypeOK
  BY DEF IInv
<1> QED BY <1>1, Invariance, PTL

(* Map and eviction list of the leaf cache always hold the same hosts      *)
(* (LeafCache::insert under concurrent CertAuthority::acceptor calls).     *)
THEOREM CacheIsConsistent == Spec => []CacheAgrees
<1>1. IInv => CacheAgrees
  BY DEF IInv, Sound, CacheAgrees
<1> QED BY <1>1, Invariance, PTL

(* Tunnels that race to mint for one host are all given the first leaf     *)
(* that landed (CertAuthority::acceptor).                                  *)
THEOREM OneLeafPerHost == Spec => FirstLeafServesAll
<1> DEFINE A == /\ \A c \in Conns : leaf'[c] \notin {leaf[c], None} =>
                     Cached(c)' /\ leaf'[c] = cache'.acceptors[host[c]]
                /\ \A h \in Hosts(cache) \cap Hosts(cache') :
                     cache'.acceptors[h] = cache.acceptors[h]
<1>1. ASSUME IInv, [Next]_vars PROVE [A]_vars
  <2>1. CASE leaf' = leaf /\ cache' = cache
    BY <2>1
  <2>2. ASSUME NEW c \in Conns, Hit(c) PROVE A
    BY <1>1, <2>2 DEF Hit, Cached, IInv, TypeOK
  <2>3. ASSUME NEW c \in Conns, Mint(c) PROVE A
    <3>1. host[c] \in Valid
      BY <1>1, <2>3 DEF Mint, IInv
    <3>2. /\ host[c] \in Hosts(cache')
          /\ \A g \in Hosts(cache') \cap Hosts(cache) : cache'.acceptors[g] = cache.acceptors[g]
      BY <1>1, <2>3, <3>1, InsertSound DEF Mint, IInv
    <3>3. /\ leaf' = [leaf EXCEPT ![c] = cache'.acceptors[host[c]]] /\ host' = host
      BY <2>3 DEF Mint
    <3> QED BY <1>1, <3>2, <3>3 DEF Cached, IInv, TypeOK
  <2>4. ASSUME NEW c \in Conns, Closes(c) PROVE A
    BY <1>1, <2>4 DEF Closes, IInv, TypeOK
  <2>5. ASSUME NEW c \in Conns, Accept(c) \/ Miss(c) \/ Request(c) \/ Respond(c) \/ (\E h \in Names : Connect(c, h))
        PROVE  leaf' = leaf /\ cache' = cache
    BY <2>5 DEF Accept, Connect, Miss, Request, Respond
  <2>6. ASSUME NEW c \in Conns, Handshake(c) PROVE A
    <3>1. CASE Closes(c)
      BY <2>4, <3>1
    <3>2. CASE UNCHANGED <<host, leaf, used, cache, serial, proxy>>
      BY <3>2
    <3> QED BY <2>6, <3>1, <3>2 DEF Handshake
  <2>7. ASSUME ListenerStops \/ SetUpstreamClient \/ DropProxy \/ UNCHANGED vars
        PROVE  leaf' = leaf /\ cache' = cache
    BY <2>7 DEF ListenerStops, SetUpstreamClient, DropProxy, vars, conns
  <2> HIDE DEF A
  <2> QED BY <1>1, <2>1, <2>2, <2>3, <2>4, <2>5, <2>6, <2>7
          DEF Next, Acceptor, NoTunnel, Serve, HangUp, Shutdown, Terminated
<1> QED BY <1>1, Invariance, PTL DEF Spec, FirstLeafServesAll

(* A client that set_upstream_client replaced gets no further request.     *)
THEOREM SwappedOutClientDrains == Spec => SwappedOutDrains
<1> DEFINE A == \A v \in 0..MaxSwaps : v # slot => Through(v)' \subseteq Through(v)
<1>1. ASSUME IInv, [Next]_vars PROVE [A]_vars
  <2>0. used \in [Conns -> 0..MaxSwaps \cup {None}] /\ \A v \in 0..MaxSwaps : v # None
    BY <1>1, NamesAssumption, MaxSwapsAssumption DEF IInv, TypeOK
  <2>1. ASSUME used' = used PROVE A
    BY <2>1 DEF Through
  <2>2. ASSUME NEW c \in Conns, used' = [used EXCEPT ![c] = None] PROVE A
    BY <2>0, <2>2 DEF Through
  <2>3. ASSUME NEW c \in Conns, used' = [used EXCEPT ![c] = slot] PROVE A
    BY <2>0, <2>3 DEF Through
  <2>4. ASSUME NEW c \in Conns, Accept(c) \/ (\E h \in Names : Connect(c, h)) \/ Hit(c) \/ Miss(c) \/ Mint(c)
        PROVE  used' = used
    BY <2>4 DEF Accept, Connect, Hit, Miss, Mint
  <2>5. ASSUME NEW c \in Conns, NoTunnel(c) \/ Respond(c) \/ HangUp(c) \/ Shutdown(c)
        PROVE  used' = [used EXCEPT ![c] = None]
    BY <2>5 DEF NoTunnel, Respond, HangUp, Shutdown, Closes
  <2>6. ASSUME NEW c \in Conns, Handshake(c)
        PROVE  used' = used \/ used' = [used EXCEPT ![c] = None]
    BY <2>6 DEF Handshake, Closes
  <2>7. ASSUME NEW c \in Conns, Request(c) PROVE used' = [used EXCEPT ![c] = slot]
    BY <2>7 DEF Request, Snapshot
  <2>8. ASSUME ListenerStops \/ SetUpstreamClient \/ DropProxy \/ UNCHANGED vars
        PROVE  used' = used
    BY <2>8 DEF ListenerStops, SetUpstreamClient, DropProxy, vars, conns
  <2> HIDE DEF A
  <2> QED BY <1>1, <2>1, <2>2, <2>3, <2>4, <2>5, <2>6, <2>7, <2>8
          DEF Next, Acceptor, Serve, Terminated
<1> QED BY <1>1, Invariance, PTL DEF Spec, SwappedOutDrains

(* CertAuthority::acceptor for any bound and hosts: the cache stays whole and  *)
(* racing tunnels get one leaf.                                               *)
THEOREM LeavesStayInAgreement == Spec => LeavesAgree
BY CacheIsConsistent, OneLeafPerHost, PTL DEF LeavesAgree

-----------------------------------------------------------------------------
(* The capture under the tunnels. *)

Byte == 0..255

(* Until it is done a capture holds all that was read of its tunnel, and that
   is not a record yet. *)
Waiting(t) ==
    /\ buf[t] = First(t, pos[t])
    /\ \/ pos[t] < RecordHeaderLen
       \/ pos[t] < Total(wire[t]) /\ pos[t] < MaxCapture

WaitingHoldsAll ==
    \A t \in Tunnels : /\ pos[t] <= Len(wire[t])
                       /\ Teed(t) => Waiting(t)

(* A capture is done exactly when its hello has been handed over. *)
DoneIsCaptured ==
    \A t \in Tunnels : done[t] <=> \E i \in 1..Len(captured) : captured[i].host = t

OncePerTunnel ==
    \A i, j \in 1..Len(captured) : captured[i].host = captured[j].host => i = j

Unobserved == observer \/ (captured = <<>> /\ \A t \in Tunnels : buf[t] = <<>>)

(* No hello is handed over without the header of its record. *)
Headed == \A i \in 1..Len(captured) : Len(captured[i].hello) >= RecordHeaderLen

CaptureInv ==
    /\ CaptureTypeOK /\ WaitingHoldsAll /\ DoneIsCaptured /\ OncePerTunnel /\ Unobserved
    /\ CapturedIsFirstRecord /\ Headed /\ BufferIsBounded

-----------------------------------------------------------------------------
(* Prefixes of a stream. *)

LEMMA PrefixIs ==
    ASSUME NEW w \in Seq(Byte), NEW n \in 0..Len(w)
    PROVE  /\ SubSeq(w, 1, n) \in Seq(Byte)
           /\ Len(SubSeq(w, 1, n)) = n
           /\ \A i \in 1..n : SubSeq(w, 1, n)[i] = w[i]
<1>1. \A i \in 1..n : w[i] \in Byte
  BY LenProperties
<1>2. 1 \in Int /\ n \in Int /\ n \in Nat
  BY LenProperties
<1>3. /\ SubSeq(w, 1, n) \in Seq(Byte)
      /\ Len(SubSeq(w, 1, n)) = IF 1 <= n THEN n - 1 + 1 ELSE 0
      /\ \A i \in 1..n-1+1 : SubSeq(w, 1, n)[i] = w[1 + i - 1]
  BY <1>1, <1>2, SubSeqProperties
<1> QED
  BY <1>2, <1>3

LEMMA PrefixOfPrefix ==
    ASSUME NEW w \in Seq(Byte), NEW n \in 0..Len(w), NEW m \in 0..n
    PROVE  SubSeq(SubSeq(w, 1, n), 1, m) = SubSeq(w, 1, m)
<1> DEFINE p == SubSeq(w, 1, n)
<1>1. p \in Seq(Byte) /\ Len(p) = n /\ \A i \in 1..n : p[i] = w[i]
  BY PrefixIs
<1> HIDE DEF p
<1>2. /\ SubSeq(p, 1, m) \in Seq(Byte) /\ Len(SubSeq(p, 1, m)) = m
      /\ \A i \in 1..m : SubSeq(p, 1, m)[i] = p[i]
  BY <1>1, PrefixIs
<1>3. /\ SubSeq(w, 1, m) \in Seq(Byte) /\ Len(SubSeq(w, 1, m)) = m
      /\ \A i \in 1..m : SubSeq(w, 1, m)[i] = w[i]
  BY PrefixIs
<1>4. \A i \in 1..m : SubSeq(p, 1, m)[i] = SubSeq(w, 1, m)[i]
  BY <1>1, <1>2, <1>3
<1> QED
  BY <1>2, <1>3, <1>4, SeqEqual DEF p

LEMMA PrefixGrows ==
    ASSUME NEW w \in Seq(Byte), NEW p \in 0..Len(w), NEW e \in p..Len(w)
    PROVE  /\ SubSeq(w, 1, p) \o SubSeq(w, p + 1, e) = SubSeq(w, 1, e)
           /\ SubSeq(w, p + 1, e) \in Seq(Byte)
<1>1. 1 \in 1..Len(w)+1 /\ p \in 1-1..Len(w)
  BY LenProperties
<1>2. SubSeq(w, 1, p) \o SubSeq(w, p + 1, e) = SubSeq(w, 1, e)
  BY <1>1, ConcatAdjacentSubSeq
<1>3. \A i \in p+1..e : w[i] \in Byte
  BY LenProperties
<1>4. p + 1 \in Int /\ e \in Int
  BY LenProperties
<1>5. SubSeq(w, p + 1, e) \in Seq(Byte)
  BY <1>3, <1>4, SubSeqProperties
<1> QED
  BY <1>2, <1>5

LEMMA TotalOfPrefix ==
    ASSUME NEW w \in Seq(Byte), NEW n \in RecordHeaderLen..Len(w)
    PROVE  /\ Total(SubSeq(w, 1, n)) = Total(w)
           /\ Total(w) \in Nat /\ Total(w) >= RecordHeaderLen
<1>1. n \in 0..Len(w) /\ 4 \in 1..n /\ 5 \in 1..n /\ n \in Nat /\ Len(w) \in Nat
  BY LenProperties DEF RecordHeaderLen
<1>2. SubSeq(w, 1, n)[4] = w[4] /\ SubSeq(w, 1, n)[5] = w[5]
  BY <1>1, PrefixIs
<1>3. w[4] \in Byte /\ w[5] \in Byte
  BY <1>1, LenProperties
<1>4. Total(SubSeq(w, 1, n)) = Total(w)
  BY <1>2, Zenon DEF Total
<1>5. \A x, y \in 0..255 : 256 * x + y + 5 \in Nat /\ 256 * x + y + 5 >= 5
  OBVIOUS
<1>6. 256 * w[4] + w[5] + 5 \in Nat /\ 256 * w[4] + w[5] + 5 >= 5
  BY <1>3, <1>5, Zenon DEF Byte
<1> QED
  BY <1>4, <1>6, Zenon DEF Total, RecordHeaderLen

(* What Capture::push finds in the first n bytes of a stream. *)
Complete(w, n) == n >= RecordHeaderLen /\ (n >= Total(w) \/ n >= MaxCapture)

LEMMA HelloOfPrefix ==
    ASSUME NEW w \in Seq(Byte), NEW n \in 0..Len(w)
    PROVE  /\ Complete(w, n) => /\ Hello(SubSeq(w, 1, n)) # NoHello
                                /\ \E m \in 0..n : /\ Hello(SubSeq(w, 1, n)) = SubSeq(w, 1, m)
                                                   /\ m <= Total(w) /\ m >= RecordHeaderLen
                                                   /\ m < Total(w) => m >= MaxCapture
           /\ ~Complete(w, n) => Hello(SubSeq(w, 1, n)) = NoHello
<1> DEFINE b == SubSeq(w, 1, n)
<1>1. b \in Seq(Byte) /\ Len(b) = n /\ n \in Nat /\ Len(w) \in Nat
  BY PrefixIs, LenProperties
<1>2. CASE n < RecordHeaderLen
  <2>1. Hello(b) = NoHello
    BY <1>1, <1>2 DEF Hello, RecordHeaderLen
  <2> QED
    BY <1>1, <1>2, <2>1 DEF RecordHeaderLen, Complete
<1>3. CASE n >= RecordHeaderLen
  <2>1. Total(b) = Total(w) /\ Total(w) \in Nat /\ Total(w) >= RecordHeaderLen
    BY <1>1, <1>3, TotalOfPrefix DEF RecordHeaderLen
  <2> DEFINE m == Smaller(Total(w), n)
             full == n >= Total(w) \/ n >= MaxCapture
  <2>2. /\ m \in 0..n /\ m <= Total(w) /\ m >= RecordHeaderLen
        /\ full /\ m < Total(w) => m >= MaxCapture
    BY <1>1, <1>3, <2>1, CaptureAssumption DEF Smaller, RecordHeaderLen
  <2>3. SubSeq(b, 1, m) = SubSeq(w, 1, m) /\ SubSeq(w, 1, m) \in Seq(Byte)
    <3>1. m \in 0..Len(w)
      BY <1>1, <2>2
    <3> QED
      BY <3>1, <2>2, PrefixOfPrefix, PrefixIs
  <2> HIDE DEF m, b
  <2>4. Hello(b) = IF full THEN SubSeq(b, 1, m) ELSE NoHello
    BY <1>1, <1>3, <2>1 DEF Hello, m, b
  <2>5. SubSeq(w, 1, m) # NoHello
    BY <2>3, CaptureAssumption DEF Byte
  <2> QED
    BY <1>3, <2>2, <2>3, <2>4, <2>5 DEF b, Complete
<1> QED
  BY <1>1, <1>2, <1>3 DEF RecordHeaderLen

-----------------------------------------------------------------------------
LEMMA WireType ==
    ASSUME CaptureTypeOK, NEW t \in Tunnels
    PROVE  wire[t] \in Seq(Byte) /\ Len(wire[t]) \in Nat
<1>1. wire[t] \in Seq(Byte)
  BY CaptureAssumption DEF CaptureTypeOK, Byte
<1> QED
  BY <1>1, LenProperties

LEMMA CapturedType ==
    ASSUME CaptureTypeOK, NEW i \in 1..Len(captured)
    PROVE  /\ captured[i].host \in Tunnels /\ captured[i].hello \in Seq(Byte)
           /\ Len(captured[i].hello) \in Nat
<1> DEFINE Pairs == [host : Tunnels, hello : Seq(Byte)]
<1>1. captured \in Seq(Pairs)
  BY DEF CaptureTypeOK, Byte
<1> HIDE DEF Pairs
<1>2. captured[i] \in Pairs
  BY <1>1, LenProperties
<1>3. captured[i].host \in Tunnels /\ captured[i].hello \in Seq(Byte)
  BY <1>2 DEF Pairs
<1> QED
  BY <1>3, LenProperties

LEMMA CaptureInitInv ==
    ASSUME CaptureInit
    PROVE  CaptureInv
<1>1. CaptureTypeOK
  BY DEF CaptureInit, CaptureTypeOK
<1>2. ASSUME NEW t \in Tunnels PROVE pos[t] <= Len(wire[t]) /\ Waiting(t)
  <2>1. pos[t] = 0 /\ buf[t] = <<>>
    BY DEF CaptureInit
  <2>2. First(t, 0) = <<>>
    BY SubSeqEmpty DEF First
  <2> QED
    BY <1>1, <2>1, <2>2, WireType DEF Waiting, RecordHeaderLen
<1>3. captured = <<>> /\ Len(captured) = 0
  BY DEF CaptureInit
<1>4. DoneIsCaptured /\ OncePerTunnel /\ Unobserved /\ CapturedIsFirstRecord /\ Headed
  BY <1>3 DEF CaptureInit, DoneIsCaptured, OncePerTunnel, Unobserved, CapturedIsFirstRecord, Headed
<1>5. BufferIsBounded
  <2>1. \A t \in Tunnels : Len(buf[t]) = 0
    BY DEF CaptureInit
  <2>2. 0 < MaxCapture
    BY CaptureAssumption DEF RecordHeaderLen
  <2> QED
    BY <2>1, <2>2 DEF BufferIsBounded
<1> QED
  BY <1>1, <1>2, <1>4, <1>5 DEF CaptureInv, WaitingHoldsAll

(* What was captured stays a first record while the stream is read further. *)
LEMMA CapturedStays ==
    ASSUME CaptureTypeOK, CapturedIsFirstRecord, UNCHANGED <<captured, wire, observer>>,
           \A u \in Tunnels : pos[u] <= pos'[u] /\ pos[u] \in Nat /\ pos'[u] \in Nat
    PROVE  CapturedIsFirstRecord'
<1> SUFFICES ASSUME NEW i \in 1..Len(captured)
             PROVE  LET u == captured[i].host
                        k == Len(captured[i].hello)
                    IN /\ observer /\ k <= pos'[u]
                       /\ captured[i].hello = First(u, k)
                       /\ k <= Total(wire[u])
                       /\ k < Total(wire[u]) => k >= MaxCapture
  BY DEF CapturedIsFirstRecord, First
<1>1. captured[i].host \in Tunnels /\ Len(captured[i].hello) \in Nat
  BY CapturedType
<1>2. Len(captured[i].hello) <= pos'[captured[i].host]
  BY <1>1 DEF CapturedIsFirstRecord
<1> QED
  BY <1>2 DEF CapturedIsFirstRecord

(* A read that the capture does not see. *)
LEMMA UnseenRead ==
    ASSUME CaptureInv, NEW t \in Tunnels, NEW n \in ReadSizes, ~Teed(t),
           pos[t] < Len(wire[t]),
           pos' = [pos EXCEPT ![t] = Smaller(pos[t] + n, Len(wire[t]))],
           UNCHANGED <<buf, done, captured, wire, observer>>
    PROVE  CaptureInv'
<1>1. /\ pos'[t] \in Nat /\ pos[t] <= pos'[t] /\ pos'[t] <= Len(wire[t])
      /\ \A u \in Tunnels : u # t => pos'[u] = pos[u]
  BY WireType, CaptureAssumption DEF CaptureInv, CaptureTypeOK, Smaller
<1>2. CaptureTypeOK'
  BY <1>1 DEF CaptureInv, CaptureTypeOK
<1>3. WaitingHoldsAll'
  BY <1>1 DEF CaptureInv, WaitingHoldsAll, Waiting, Teed, First
<1>4. CapturedIsFirstRecord'
  BY <1>1, <1>2, CapturedStays DEF CaptureInv, CaptureTypeOK
<1>5. DoneIsCaptured' /\ OncePerTunnel' /\ Unobserved' /\ Headed' /\ BufferIsBounded'
  BY DEF CaptureInv, DoneIsCaptured, OncePerTunnel, Unobserved, Headed, BufferIsBounded
<1> QED
  BY <1>2, <1>3, <1>4, <1>5 DEF CaptureInv

(* A read that is teed: the buffer grows with it, and either a hello is
   handed over or the capture goes on waiting. *)
LEMMA TeedRead ==
    ASSUME CaptureInv, NEW t \in Tunnels, NEW n \in ReadSizes, Teed(t),
           NEW e, e = Smaller(pos[t] + n, Len(wire[t])),
           pos[t] < Len(wire[t]), pos' = [pos EXCEPT ![t] = e],
           Push(t, SubSeq(wire[t], pos[t] + 1, e)),
           UNCHANGED <<wire, observer>>
    PROVE  CaptureInv'
<1> DEFINE w == wire[t]
           b == SubSeq(w, 1, e)
           full == Complete(w, e)
<1>1. /\ w \in Seq(Byte) /\ Len(w) \in Nat /\ e \in Nat /\ n \in Nat
      /\ pos[t] \in 0..Len(w) /\ e \in pos[t]..Len(w) /\ e \in 0..Len(w)
      /\ pos[t] < e /\ e <= pos[t] + n
  <2>1. w \in Seq(Byte) /\ Len(w) \in Nat
    BY WireType DEF CaptureInv
  <2>2. pos[t] \in Nat /\ n \in Nat /\ n > 0
    BY CaptureAssumption DEF CaptureInv, CaptureTypeOK
  <2> HIDE DEF w
  <2>3. e = IF pos[t] + n < Len(w) THEN pos[t] + n ELSE Len(w)
    BY DEF Smaller, w
  <2>4. pos[t] < Len(w)
    BY DEF w
  <2> QED
    BY <2>1, <2>2, <2>3, <2>4
<1>2. Waiting(t) /\ CaptureTypeOK
  BY DEF CaptureInv, WaitingHoldsAll
<1>3. Buffered(t, SubSeq(wire[t], pos[t] + 1, e)) = b
  BY <1>1, <1>2, PrefixGrows DEF Waiting, Buffered, First
<1>4. b \in Seq(Byte) /\ Len(b) = e
  BY <1>1, PrefixIs
<1>5. /\ buf' = [buf EXCEPT ![t] = b]
      /\ done' = [done EXCEPT ![t] = Hello(b) # NoHello]
      /\ captured' = IF Hello(b) = NoHello THEN captured
                     ELSE Append(captured, [host |-> t, hello |-> Hello(b)])
  BY <1>3, Zenon DEF Push
<1>6. /\ full => /\ Hello(b) # NoHello
                 /\ \E m \in 0..e : /\ Hello(b) = SubSeq(w, 1, m)
                                    /\ m <= Total(w) /\ m >= RecordHeaderLen
                                    /\ m < Total(w) => m >= MaxCapture
      /\ ~full => Hello(b) = NoHello
  BY <1>1, HelloOfPrefix, Zenon
<1>7. /\ buf'[t] = b /\ pos'[t] = e /\ (done'[t] <=> full)
      /\ \A u \in Tunnels : u # t => /\ buf'[u] = buf[u] /\ pos'[u] = pos[u]
                                     /\ done'[u] = done[u]
      /\ \A u \in Tunnels : pos[u] <= pos'[u] /\ pos[u] \in Nat /\ pos'[u] \in Nat
  <2>1. buf'[t] = b /\ pos'[t] = e /\ done'[t] = (Hello(b) # NoHello)
    BY <1>2, <1>5, Zenon DEF CaptureTypeOK
  <2>2. done'[t] <=> full
    BY <2>1, <1>6, Zenon
  <2>3. \A u \in Tunnels : u # t => /\ buf'[u] = buf[u] /\ pos'[u] = pos[u]
                                     /\ done'[u] = done[u]
    BY <1>2, <1>5, Zenon DEF CaptureTypeOK
  <2>4. \A u \in Tunnels : pos[u] \in Nat
    BY <1>2 DEF CaptureTypeOK
  <2>5. \A u \in Tunnels : pos[u] <= pos'[u] /\ pos'[u] \in Nat
    BY <2>1, <2>3, <2>4, <1>1
  <2> QED
    BY <2>1, <2>2, <2>3, <2>4, <2>5, Zenon
<1> HIDE DEF b
<1>8. WaitingHoldsAll'
  <2> SUFFICES ASSUME NEW u \in Tunnels
               PROVE  pos'[u] <= Len(wire[u]) /\ (Teed(u)' => Waiting(u)')
    BY DEF WaitingHoldsAll
  <2>1. CASE u = t
    <3>1. ASSUME ~full PROVE Waiting(t)'
      BY <3>1, <1>1, <1>7, TotalOfPrefix, CaptureAssumption
         DEF Waiting, First, b, RecordHeaderLen, Complete
    <3> QED
      BY <2>1, <3>1, <1>1, <1>7 DEF Teed
  <2>2. CASE u # t
    BY <2>2, <1>7 DEF CaptureInv, WaitingHoldsAll, Teed, Waiting, First
  <2> QED
    BY <2>1, <2>2
<1>9. BufferIsBounded'
  <2>1. pos[t] < MaxCapture
    BY <1>1, <1>2, CaptureAssumption DEF Waiting, RecordHeaderLen
  <2>2. Len(buf'[t]) < MaxCapture + n
    BY <2>1, <1>1, <1>4, <1>7, CaptureAssumption
  <2> QED
    BY <2>2, <1>7 DEF CaptureInv, BufferIsBounded
<1>10. buf' \in [Tunnels -> Seq(0..255)] /\ done' \in [Tunnels -> BOOLEAN]
       /\ pos' \in [Tunnels -> Nat]
  BY <1>1, <1>2, <1>4, <1>5 DEF CaptureTypeOK, Byte
<1>11. CASE ~full
  <2>1. captured' = captured
    BY <1>11, <1>5, <1>6
  <2>2. CaptureTypeOK'
    BY <2>1, <1>2, <1>10 DEF CaptureTypeOK
  <2>3. done' = done
    BY <1>11, <1>5, <1>6, <1>2 DEF CaptureTypeOK, Teed
  <2>4. CapturedIsFirstRecord'
    BY <2>1, <1>7, CapturedStays DEF CaptureInv
  <2>5. DoneIsCaptured' /\ OncePerTunnel' /\ Unobserved' /\ Headed'
    BY <2>1, <2>3 DEF CaptureInv, DoneIsCaptured, OncePerTunnel, Unobserved, Headed, Teed
  <2> QED
    BY <2>2, <2>4, <2>5, <1>8, <1>9 DEF CaptureInv
<1>12. CASE full
  <2> DEFINE r == [host |-> t, hello |-> Hello(b)]
             last == Len(captured) + 1
  <2>1. PICK m \in 0..e : /\ Hello(b) = SubSeq(w, 1, m)
                          /\ m <= Total(w) /\ m >= RecordHeaderLen
                          /\ m < Total(w) => m >= MaxCapture
    BY <1>12, <1>6
  <2>2. Hello(b) \in Seq(Byte) /\ Len(Hello(b)) = m
    BY <2>1, <1>1, PrefixIs
  <2>3. captured' = Append(captured, r)
    BY <1>12, <1>5, <1>6
  <2>4. CaptureTypeOK'
    <3>1. r \in [host : Tunnels, hello : Seq(0..255)]
      BY <2>2 DEF Byte
    <3> QED
      BY <2>3, <3>1, <1>2, <1>10 DEF CaptureTypeOK
  <2>5. /\ Len(captured) \in Nat /\ Len(captured') = last
        /\ captured'[last] = r
        /\ \A i \in 1..Len(captured) : captured'[i] = captured[i]
    BY <2>3, <1>2 DEF CaptureTypeOK
  <2> HIDE DEF r
  <2>6. \A i \in 1..Len(captured) : captured[i].host # t
    BY DEF CaptureInv, DoneIsCaptured, Teed
  <2>7. r.host = t /\ r.hello = SubSeq(w, 1, m) /\ Len(r.hello) = m
    BY <2>1, <2>2 DEF r
  <2>8. DoneIsCaptured'
    <3> SUFFICES ASSUME NEW u \in Tunnels
                 PROVE  done'[u] <=> \E i \in 1..Len(captured') : captured'[i].host = u
      BY DEF DoneIsCaptured
    <3>1. CASE u = t
      BY <3>1, <2>5, <2>7, <1>7, <1>12
    <3>2. CASE u # t
      <4>1. done[u] <=> \E i \in 1..Len(captured) : captured[i].host = u
        BY DEF CaptureInv, DoneIsCaptured
      <4>2. (\E i \in 1..Len(captured) : captured[i].host = u)
               <=> (\E i \in 1..Len(captured') : captured'[i].host = u)
        <5>1. ASSUME NEW i \in 1..Len(captured), captured[i].host = u
              PROVE  \E j \in 1..Len(captured') : captured'[j].host = u
          BY <5>1, <2>5
        <5>2. ASSUME NEW i \in 1..Len(captured'), captured'[i].host = u
              PROVE  \E j \in 1..Len(captured) : captured[j].host = u
          BY <5>2, <3>2, <2>5, <2>7
        <5> QED
          BY <5>1, <5>2
      <4> QED
        BY <4>1, <4>2, <3>2, <1>7
    <3> QED
      BY <3>1, <3>2
  <2>9. OncePerTunnel'
    <3> SUFFICES ASSUME NEW i \in 1..Len(captured'), NEW j \in 1..Len(captured'),
                        captured'[i].host = captured'[j].host
                 PROVE  i = j
      BY DEF OncePerTunnel
    <3>1. \A k \in 1..Len(captured') : k = last \/ k \in 1..Len(captured)
      BY <2>5
    <3>2. CASE i \in 1..Len(captured) /\ j \in 1..Len(captured)
      BY <3>2, <2>5 DEF CaptureInv, OncePerTunnel
    <3>3. \A k \in 1..Len(captured) : captured'[k].host # captured'[last].host
      BY <2>5, <2>6, <2>7
    <3> QED
      BY <3>1, <3>2, <3>3
  <2>10. CapturedIsFirstRecord'
    <3> SUFFICES ASSUME NEW i \in 1..Len(captured')
                 PROVE  LET u == captured'[i].host
                            k == Len(captured'[i].hello)
                        IN /\ observer /\ k <= pos'[u]
                           /\ captured'[i].hello = First(u, k)
                           /\ k <= Total(wire[u])
                           /\ k < Total(wire[u]) => k >= MaxCapture
      BY DEF CapturedIsFirstRecord, First
    <3>1. CASE i = last
      BY <3>1, <2>1, <2>5, <2>7, <1>1, <1>7 DEF First, Teed
    <3>2. CASE i # last
      <4>1. i \in 1..Len(captured) /\ captured'[i] = captured[i]
        BY <3>2, <2>5
      <4>2. /\ captured[i].host \in Tunnels /\ Len(captured[i].hello) \in Nat
            /\ pos[captured[i].host] <= pos'[captured[i].host]
        BY <4>1, <1>2, <1>7, CapturedType
      <4>3. Len(captured[i].hello) <= pos'[captured[i].host]
        BY <4>1, <4>2, <1>7 DEF CaptureInv, CapturedIsFirstRecord
      <4> QED
        BY <4>1, <4>3 DEF CaptureInv, CapturedIsFirstRecord
    <3> QED
      BY <3>1, <3>2
  <2>11. Unobserved'
    BY DEF Unobserved, Teed
  <2>12. Headed'
    <3>1. m >= RecordHeaderLen
      BY <2>1
    <3>2. Headed
      BY DEF CaptureInv
    <3> QED
      BY <2>5, <2>7, <3>1, <3>2 DEF Headed
  <2> QED
    BY <2>4, <2>8, <2>9, <2>10, <2>11, <2>12, <1>8, <1>9 DEF CaptureInv
<1> QED
  BY <1>11, <1>12

THEOREM CaptureInvariance == CaptureSpec => []CaptureInv
<1>1. ASSUME CaptureInv, [CaptureNext]_captureVars PROVE CaptureInv'
  <2>1. CASE CaptureNext
    <3>1. PICK t \in Tunnels : PollRead(t)
      BY <2>1 DEF CaptureNext
    <3> DEFINE end(n) == Smaller(pos[t] + n, Len(wire[t]))
    <3>2. PICK n \in ReadSizes :
             /\ pos[t] < Len(wire[t]) /\ pos' = [pos EXCEPT ![t] = end(n)]
             /\ IF Teed(t) THEN Push(t, SubSeq(wire[t], pos[t] + 1, end(n)))
                           ELSE UNCHANGED <<buf, done, captured>>
             /\ UNCHANGED <<wire, observer>>
      BY <3>1, Zenon DEF PollRead
    <3>3. CASE Teed(t)
      BY <1>1, <3>2, <3>3, TeedRead, Zenon
    <3>4. CASE ~Teed(t)
      <4>1. UNCHANGED <<buf, done, captured, wire, observer>>
        BY <3>2, <3>4
      <4> QED
        BY <1>1, <3>2, <3>4, <4>1, UnseenRead, Zenon
    <3> QED
      BY <3>3, <3>4
  <2>2. CASE UNCHANGED captureVars
    <3> USE <2>2 DEF captureVars
    <3>1. CaptureTypeOK' /\ BufferIsBounded'
      BY <1>1 DEF CaptureInv, CaptureTypeOK, BufferIsBounded
    <3>2. WaitingHoldsAll'
      BY <1>1 DEF CaptureInv, WaitingHoldsAll, Waiting, First, Teed
    <3>3. DoneIsCaptured' /\ OncePerTunnel' /\ Unobserved' /\ Headed'
      BY <1>1 DEF CaptureInv, DoneIsCaptured, OncePerTunnel, Unobserved, Headed
    <3>4. CapturedIsFirstRecord'
      BY <1>1 DEF CaptureInv, CapturedIsFirstRecord, First
    <3> QED
      BY <3>1, <3>2, <3>3, <3>4 DEF CaptureInv
  <2> QED
    BY <1>1, <2>1, <2>2
<1> QED
  BY CaptureInitInv, <1>1, PTL DEF CaptureSpec

(* The types of streams, captures and of what was recorded. *)
THEOREM CaptureTypeCorrect == CaptureSpec => []CaptureTypeOK
<1>1. CaptureInv => CaptureTypeOK
  BY DEF CaptureInv
<1> QED
  BY CaptureInvariance, <1>1, PTL

(* However a peer's bytes are cut into reads, Capture::push hands the observer
   the tunnel's first record, once, as soon as all of it was read, or as much
   of it as was read when the cap was passed. *)
THEOREM FirstRecordIsObserved == CaptureSpec => []ObservedIsFirstRecord
<1>1. ASSUME CaptureInv PROVE ObservedIsFirstRecord
  <2> SUFFICES ASSUME NEW t \in Tunnels,
                      observer, pos[t] >= RecordHeaderLen, pos[t] >= Total(wire[t])
               PROVE  done[t]
    BY <1>1 DEF CaptureInv, ObservedIsFirstRecord, ObservedOnce, OncePerTunnel, DoneIsCaptured
  <2>1. pos[t] \in RecordHeaderLen..Len(wire[t]) /\ pos[t] \in Nat
    BY <1>1, WireType DEF CaptureInv, CaptureTypeOK, WaitingHoldsAll, RecordHeaderLen
  <2>2. Total(wire[t]) \in Nat
    BY <1>1, <2>1, WireType, TotalOfPrefix DEF CaptureInv
  <2>3. ~Waiting(t)
    BY <2>1, <2>2 DEF Waiting, RecordHeaderLen
  <2> QED
    BY <1>1, <2>3 DEF CaptureInv, WaitingHoldsAll, Teed
<1> QED
  BY CaptureInvariance, <1>1, PTL

(* The buffer of Capture never outgrows the cap by more than one read. *)
THEOREM BufferStaysBounded == CaptureSpec => []BufferIsBounded
<1>1. CaptureInv => BufferIsBounded
  BY DEF CaptureInv
<1> QED
  BY CaptureInvariance, <1>1, PTL

-----------------------------------------------------------------------------
(* Sequences and recursive functions. *)

LEMMA LeastNumber ==
    ASSUME NEW T \in SUBSET Nat, T # {}
    PROVE  \E x \in T : \A y \in T : x <= y
<1>1. IsWellFoundedOn(OpToRel(<, Nat), Nat)
  BY NatLessThanWellFounded
<1>2. PICK x \in T : \A y \in T : ~ (<<y, x>> \in OpToRel(<, Nat))
  BY <1>1, WFMin
<1>3. ASSUME NEW y \in T PROVE x <= y
  <2>1. x \in Nat /\ y \in Nat
    OBVIOUS
  <2>2. ~(y < x)
    BY <1>2, <2>1 DEF OpToRel
  <2> QED
    BY <2>1, <2>2
<1> QED
  BY <1>3

(* Induction up to n, over a set of numbers. *)
LEMMA UpTo ==
    ASSUME NEW n \in Nat, NEW G, 0 \in G, \A k \in 1..n : k - 1 \in G => k \in G
    PROVE  \A k \in 0..n : k \in G
<1> DEFINE Bad == {k \in 0..n : k \notin G}
<1> SUFFICES ASSUME Bad # {} PROVE FALSE
  OBVIOUS
<1>0. Bad \in SUBSET Nat
  OBVIOUS
<1>1. PICK k \in Bad : \A y \in Bad : k <= y
  <2> HIDE DEF Bad
  <2> QED BY <1>0, LeastNumber
<1>2. k \in 0..n /\ k \notin G /\ k # 0
  BY <1>1
<1>3. k \in 1..n /\ k - 1 \in 0..n /\ ~(k <= k - 1)
  BY <1>2
<1>4. k - 1 \notin Bad
  BY <1>1, <1>3
<1> QED
  BY <1>2, <1>3, <1>4

(* A function that is given at 0, and at every other place by the one before. *)
Follows(f, N, x, F) == f[0] = x /\ \A n \in 1..N : f[n] = F[n][f[n - 1]]
LEMMA Recursion ==
    ASSUME NEW D, NEW x \in D, NEW N \in Nat, NEW F \in [1..N -> [D -> D]]
    PROVE  \E f \in [0..N -> D] : Follows(f, N, x, F)
<1> DEFINE Solves(f, m) == f[0] = x /\ \A n \in 1..m : f[n] = F[n][f[n - 1]]
           G == {m \in 0..N : \E f \in [0..m -> D] : Solves(f, m)}
<1>1. 0 \in G
  <2> DEFINE f == [k \in 0..0 |-> x]
  <2>1. f \in [0..0 -> D] /\ Solves(f, 0)
    OBVIOUS
  <2>2. 0 \in 0..N
    OBVIOUS
  <2> HIDE DEF f, Solves
  <2> QED
    BY <2>1, <2>2
<1>2. ASSUME NEW k \in 1..N, k - 1 \in G PROVE k \in G
  <2>1. PICK g \in [0..(k - 1) -> D] : Solves(g, k - 1)
    BY <1>2
  <2> DEFINE f == [m \in 0..k |-> IF m < k THEN g[m] ELSE F[k][g[k - 1]]]
  <2>2. g[k - 1] \in D /\ F[k] \in [D -> D] /\ F[k][g[k - 1]] \in D
    OBVIOUS
  <2>3. ASSUME NEW m \in 0..k PROVE f[m] \in D
    <3>1. m < k => m \in 0..(k - 1)
      OBVIOUS
    <3> QED
      BY <2>2, <3>1
  <2>4. f \in [0..k -> D]
    BY <2>3
  <2>5. f[0] = x
    BY <2>1
  <2>6. ASSUME NEW n \in 1..k PROVE f[n] = F[n][f[n - 1]]
    <3>1. n - 1 \in 0..k /\ n - 1 < k /\ n \in 0..k /\ (n < k => n \in 1..(k - 1)) /\ (~(n < k) => n = k)
      OBVIOUS
    <3>2. f[n - 1] = g[n - 1]
      BY <3>1
    <3>3. n < k => g[n] = F[n][g[n - 1]]
      BY <2>1, <3>1
    <3> QED
      BY <3>1, <3>2, <3>3
  <2> HIDE DEF f
  <2> QED
    BY <2>4, <2>5, <2>6
<1> HIDE DEF G
<1>3. \A k \in 0..N : k \in G
  BY <1>1, <1>2, UpTo
<1>4. N \in G
  BY <1>3
<1>5. PICK f \in [0..N -> D] : Solves(f, N)
  BY <1>4 DEF G
<1> QED
  BY <1>5 DEF Follows

-----------------------------------------------------------------------------
(* Bytes. *)

LEMMA IsSeq ==
    ASSUME NEW S, NEW n \in Nat, NEW f \in [1..n -> S]
    PROVE  f \in Seq(S) /\ Len(f) = n
<1>1. f \in Seq(S)
  BY SeqDef
<1>2. Len(f) \in Nat /\ DOMAIN f = 1..Len(f) /\ DOMAIN f = 1..n
  BY <1>1, LenProperties
<1> QED
  BY <1>1, <1>2

LEMMA Concat ==
    ASSUME NEW S, NEW a \in Seq(S), NEW b \in Seq(S)
    PROVE  /\ a \o b \in Seq(S) /\ Len(a \o b) = Len(a) + Len(b)
           /\ \A i \in 1..Len(a) : (a \o b)[i] = a[i]
           /\ \A i \in 1..Len(b) : (a \o b)[Len(a) + i] = b[i]
<1>1. Len(a) \in Nat /\ Len(b) \in Nat
  OBVIOUS
<1>2. /\ a \o b \in Seq(S) /\ Len(a \o b) = Len(a) + Len(b)
      /\ \A i \in 1..(Len(a) + Len(b)) : (a \o b)[i] = IF i <= Len(a) THEN a[i] ELSE b[i - Len(a)]
  BY ConcatProperties
<1>3. ASSUME NEW i \in 1..Len(b) PROVE (a \o b)[Len(a) + i] = b[i]
  <2>1. Len(a) + i \in 1..(Len(a) + Len(b)) /\ ~(Len(a) + i <= Len(a)) /\ (Len(a) + i) - Len(a) = i
    BY <1>1
  <2> QED
    BY <1>2, <2>1
<1>4. ASSUME NEW i \in 1..Len(a) PROVE (a \o b)[i] = a[i]
  <2>1. i \in 1..(Len(a) + Len(b)) /\ i <= Len(a)
    BY <1>1
  <2> QED
    BY <1>2, <2>1
<1> QED
  BY <1>2, <1>3, <1>4

LEMMA Parts ==
    ASSUME NEW S, NEW a \in Seq(S), NEW b \in Seq(S)
    PROVE  /\ SubSeq(a \o b, 1, Len(a)) = a
           /\ SubSeq(a \o b, Len(a) + 1, Len(a \o b)) = b
<1> DEFINE c == a \o b
           d == SubSeq(c, 1, Len(a))
           e == SubSeq(c, Len(a) + 1, Len(c))
<1>1. /\ c \in Seq(S) /\ Len(c) = Len(a) + Len(b) /\ Len(a) \in Nat /\ Len(b) \in Nat
      /\ \A i \in 1..Len(a) : c[i] = a[i]
      /\ \A i \in 1..Len(b) : c[Len(a) + i] = b[i]
  BY Concat
<1> HIDE DEF c
<1>2. d \in Seq(S) /\ Len(d) = Len(a) /\ \A i \in 1..Len(a) : d[i] = c[i]
  BY <1>1
<1>3. e \in Seq(S) /\ Len(e) = Len(b) /\ \A i \in 1..Len(b) : e[i] = c[Len(a) + i]
  BY <1>1
<1> HIDE DEF d, e
<1>4. d = a
  <2>1. \A i \in 1..Len(d) : d[i] = a[i]
    BY <1>1, <1>2
  <2> QED
    BY <1>2, <2>1, SeqEqual
<1>5. e = b
  <2>1. \A i \in 1..Len(e) : e[i] = b[i]
    BY <1>1, <1>3
  <2> QED
    BY <1>3, <2>1, SeqEqual
<1> QED
  BY <1>4, <1>5 DEF c, d, e

Got(data, rest) == [err |-> NoError, data |-> data, rest |-> rest]

(* A reader takes what is ahead and leaves what is behind. *)
LEMMA TakeAhead ==
    ASSUME NEW a \in Seq(Byte), NEW b \in Seq(Byte), NEW n, n = Len(a)
    PROVE  Take(a \o b, n) = Got(a, b)
<1> DEFINE c == a \o b
<1>1. Len(c) = Len(a) + Len(b) /\ Len(a) \in Nat /\ Len(b) \in Nat
  BY Concat
<1>2. SubSeq(c, 1, n) = a /\ SubSeq(c, n + 1, Len(c)) = b
  BY Parts
<1> HIDE DEF c
<1>3. ~(n > Len(c))
  BY <1>1
<1>4. Take(c, n) = [err |-> NoError, data |-> SubSeq(c, 1, n), rest |-> SubSeq(c, n + 1, Len(c))]
  BY <1>3 DEF Take
<1> QED
  BY <1>2, <1>4 DEF c, Got

LEMMA LengthBytes ==
    ASSUME NEW n \in Nat, NEW w \in {1, 2, 3}, n < Limit(w)
    PROVE  Length(n, w) \in Seq(Byte) /\ Len(Length(n, w)) = w /\ BigEndian(Length(n, w)) = n
<1>1. CASE w = 1
  <2> DEFINE t == <<n>>
  <2>1. Length(n, w) = t /\ n \in Byte
    BY <1>1 DEF Length, Byte, Limit
  <2>2. t \in Seq(Byte) /\ Len(t) = 1 /\ t[1] = n
    BY <2>1
  <2> HIDE DEF t
  <2>3. BigEndian(t) = n
    BY <2>2 DEF BigEndian
  <2> QED
    BY <1>1, <2>1, <2>2, <2>3
<1>2. CASE w = 2
  <2> DEFINE x == n \div 256
             y == n % 256
             t == <<x, y>>
  <2>1. x \in Byte /\ y \in Byte /\ 256 * x + y = n
    BY <1>2 DEF Byte, Limit
  <2>2. Length(n, w) = t
    BY <1>2 DEF Length, U16
  <2> HIDE DEF x, y
  <2>3. t \in Seq(Byte) /\ Len(t) = 2 /\ t[1] = x /\ t[2] = y
    BY <2>1
  <2> HIDE DEF t
  <2>4. BigEndian(t) = 256 * x + y
    BY <2>3, <2>1 DEF BigEndian
  <2> QED
    BY <1>2, <2>1, <2>2, <2>3, <2>4
<1>3. CASE w = 3
  <2> DEFINE x == n \div 65536
             y == (n \div 256) % 256
             z == n % 256
             t == <<x, y, z>>
  <2>1. x \in Byte /\ y \in Byte /\ z \in Byte /\ 65536 * x + 256 * y + z = n
    BY <1>3 DEF Byte, Limit
  <2>2. Length(n, w) = t
    BY <1>3 DEF Length
  <2> HIDE DEF x, y, z
  <2>3. t \in Seq(Byte) /\ Len(t) = 3 /\ t[1] = x /\ t[2] = y /\ t[3] = z
    BY <2>1
  <2> HIDE DEF t
  <2>4. BigEndian(t) = 65536 * x + 256 * y + z
    BY <2>3, <2>1 DEF BigEndian
  <2> QED
    BY <1>3, <2>1, <2>2, <2>3, <2>4
<1> QED
  BY <1>1, <1>2, <1>3

LEMMA VecBytes ==
    ASSUME NEW s \in Seq(Byte), NEW w \in {1, 2, 3}, Fits(s, w)
    PROVE  Vec(s, w) \in Seq(Byte) /\ Len(Vec(s, w)) = w + Len(s)
<1>1. Len(s) \in Nat
  OBVIOUS
<1>0. Len(s) < Limit(w)
  BY DEF Fits
<1>2. Length(Len(s), w) \in Seq(Byte) /\ Len(Length(Len(s), w)) = w
  BY <1>0, <1>1, LengthBytes
<1> HIDE DEF Byte
<1> QED
  BY <1>2, Concat DEF Vec

(* A block is read back as the vector it was sent as. *)
LEMMA BlockOfVec ==
    ASSUME NEW s \in Seq(Byte), NEW w \in {1, 2, 3}, Fits(s, w), NEW b \in Seq(Byte)
    PROVE  Block(Vec(s, w) \o b, w) = Got(s, b)
<1> DEFINE l == Length(Len(s), w)
<1>1. Len(s) \in Nat
  OBVIOUS
<1>0. Len(s) < Limit(w)
  BY DEF Fits
<1>2. l \in Seq(Byte) /\ Len(l) = w /\ BigEndian(l) = Len(s)
  BY <1>0, <1>1, LengthBytes
<1> HIDE DEF l
<1>3. s \o b \in Seq(Byte)
  BY Concat
<1>4. Vec(s, w) \o b = l \o (s \o b)
  BY <1>2, ConcatAssociative DEF Vec, l
<1>5. Take(l \o (s \o b), w) = Got(l, s \o b)
  BY <1>2, <1>3, TakeAhead
<1>6. Take(s \o b, Len(s)) = Got(s, b)
  BY TakeAhead
<1>7. Behind(Got(l, s \o b)) = Got(s, b)
  BY <1>2, <1>6 DEF Behind, Got
<1> QED
  BY <1>4, <1>5, <1>7 DEF Block

(* And so is one with nothing behind it. *)
LEMMA BlockOfVecAlone ==
    ASSUME NEW s \in Seq(Byte), NEW w \in {1, 2, 3}, Fits(s, w)
    PROVE  Block(Vec(s, w), w) = Got(s, <<>>)
<1>1. Vec(s, w) \in Seq(Byte)
  BY VecBytes
<1>2. Vec(s, w) \o <<>> = Vec(s, w)
  BY <1>1, ConcatEmptySeq
<1>3. <<>> \in Seq(Byte)
  OBVIOUS
<1> QED
  BY <1>2, <1>3, BlockOfVec

(* Lists of u16. *)
LEMMA Halves ==
    ASSUME NEW v \in Word
    PROVE  \E q, r \in Byte : q = v \div 256 /\ r = v % 256 /\ v = 256 * q + r
<1>1. v \in Nat /\ v < 65536
  BY DEF Word
<1>2. PICK q \in Int, r \in Int : q = v \div 256 /\ r = v % 256
  BY <1>1
<1>3. r \in 0..255 /\ v = 256 * q + r
  BY <1>1, <1>2
<1>4. q \in 0..255
  BY <1>1, <1>3
<1> QED
  BY <1>2, <1>3, <1>4 DEF Byte

LEMMA U16sBytes ==
    ASSUME NEW list \in Seq(Word)
    PROVE  /\ U16s(list) \in Seq(Byte) /\ Len(U16s(list)) = 2 * Len(list)
           /\ \A i \in 1..Len(list) : 256 * U16s(list)[2 * i - 1] + U16s(list)[2 * i] = list[i]
<1> DEFINE n == Len(list)
           s == U16s(list)
<1>1. n \in Nat /\ \A i \in 1..n : list[i] \in Word
  OBVIOUS
<1>2. s = [i \in 1..(2 * n) |-> IF i % 2 = 1 THEN list[(i + 1) \div 2] \div 256
                                ELSE list[i \div 2] % 256]
  BY DEF U16s
<1> HIDE DEF n, s
<1>3. \A v \in Word : v \div 256 \in Byte /\ v % 256 \in Byte
  BY Halves
<1>4. ASSUME NEW i \in 1..(2 * n) PROVE s[i] \in Byte
  <2>1. CASE i % 2 = 1
    <3>1. (i + 1) \div 2 \in 1..n
      BY <1>1, <2>1
    <3> QED
      BY <1>1, <1>2, <1>3, <2>1, <3>1
  <2>2. CASE i % 2 # 1
    <3>1. i \div 2 \in 1..n
      BY <1>1, <2>2
    <3> QED
      BY <1>1, <1>2, <1>3, <2>2, <3>1
  <2> QED
    BY <2>1, <2>2
<1>5. s \in Seq(Byte) /\ Len(s) = 2 * n
  <2>1. 2 * n \in Nat
    BY <1>1
  <2>2. s \in [1..(2 * n) -> Byte]
    BY <1>2, <1>4
  <2> QED
    BY <2>1, <2>2, LenProperties, SeqDef
<1>6. ASSUME NEW i \in 1..n PROVE 256 * s[2 * i - 1] + s[2 * i] = list[i]
  <2>1. /\ 2 * i - 1 \in 1..(2 * n) /\ (2 * i - 1) % 2 = 1 /\ ((2 * i - 1) + 1) \div 2 = i
        /\ 2 * i \in 1..(2 * n) /\ (2 * i) % 2 # 1 /\ (2 * i) \div 2 = i
    BY <1>1
  <2>2. s[2 * i - 1] = list[i] \div 256
    BY <1>2, <2>1
  <2>3. s[2 * i] = list[i] % 256
    BY <1>2, <2>1
  <2>4. PICK q \in Byte, r \in Byte : q = list[i] \div 256 /\ r = list[i] % 256 /\ list[i] = 256 * q + r
    BY <1>1, Halves
  <2>5. s[2 * i - 1] = q /\ s[2 * i] = r
    BY <2>2, <2>3, <2>4
  <2>6. list[i] = 256 * q + r
    BY <2>4
  <2> QED
    BY <2>5, <2>6
<1> QED
  BY <1>5, <1>6 DEF n, s

LEMMA U16ListBack ==
    ASSUME NEW list \in Seq(Word), NEW r
    PROVE  U16List(Got(U16s(list), r)) = Got(list, r)
<1> DEFINE n == Len(list)
           s == U16s(list)
           b == Got(s, r)
           f == [i \in 1..(Len(s) \div 2) |-> 256 * s[2 * i - 1] + s[2 * i]]
<1>1. /\ n \in Nat /\ Len(s) = 2 * n
      /\ \A i \in 1..n : 256 * s[2 * i - 1] + s[2 * i] = list[i]
  BY U16sBytes
<1>2. list = [i \in 1..n |-> list[i]]
  OBVIOUS
<1> HIDE DEF n, s
<1>3. Len(s) \div 2 = n /\ ~(Len(s) % 2 = 1)
  BY <1>1
<1>4. f = list
  BY <1>1, <1>2, <1>3
<1> HIDE DEF f
<1>5. b.err = NoError /\ b.data = s /\ [b EXCEPT !.data = list] = Got(list, r)
  BY DEF Got
<1>6. U16List(b) = [b EXCEPT !.data = f]
  <2> HIDE DEF b
  <2> QED BY <1>3, <1>5 DEF U16List, f
<1> QED
  BY <1>4, <1>5, <1>6 DEF s

(* Half a u16 is none. *)
LEMMA HalfIsMalformed ==
    ASSUME NEW list \in Seq(Word), NEW stray \in Seq(Byte), Len(stray) = 1, NEW r
    PROVE  U16List(Got(U16s(list) \o stray, r)) = Ends("Malformed")
<1> DEFINE s == U16s(list) \o stray
           b == Got(s, r)
<1>0. U16s(list) \in Seq(Byte) /\ Len(U16s(list)) = 2 * Len(list) /\ Len(list) \in Nat
  BY U16sBytes
<1>1. Len(s) = 2 * Len(list) + 1
  <2>1. Len(s) = Len(U16s(list)) + Len(stray)
    BY <1>0, Concat
  <2> QED
    BY <1>0, <2>1
<1> HIDE DEF s
<1>2. Len(s) % 2 = 1
  BY <1>0, <1>1
<1>3. b.err = NoError /\ b.data = s
  BY DEF Got
<1> HIDE DEF b
<1>4. U16List(b) = Ends("Malformed")
  BY <1>2, <1>3 DEF U16List
<1> QED
  BY <1>4 DEF b, s

-----------------------------------------------------------------------------
(* Lists of vectors. *)

Items == [type : Seq(Byte), data : Seq(Byte)]

(* Items that a list with types of t bytes and lengths of w can hold. *)
Sendable(items, t, w) ==
    /\ items \in Seq(Items)
    /\ \A i \in 1..Len(items) : Len(items[i].type) = t /\ Fits(items[i].data, w)

LEMMA EntryIsBytes ==
    ASSUME NEW item \in Items, NEW w \in {1, 2}, Fits(item.data, w)
    PROVE  /\ EntryBytes(item, w) \in Seq(Byte)
           /\ Len(EntryBytes(item, w)) >= 1
<1>1. item.type \in Seq(Byte) /\ item.data \in Seq(Byte)
  BY DEF Items
<1>2. Vec(item.data, w) \in Seq(Byte) /\ Len(Vec(item.data, w)) = w + Len(item.data)
  BY <1>1, VecBytes
<1>3. Len(item.type) \in Nat /\ Len(item.data) \in Nat
  BY <1>1
<1> DEFINE v == Vec(item.data, w)
           k == item.type
<1> HIDE DEF v, k
<1>0. k \in Seq(Byte) /\ v \in Seq(Byte)
  BY <1>1, <1>2 DEF v, k
<1>4. k \o v \in Seq(Byte) /\ Len(k \o v) = Len(k) + Len(v)
  BY <1>0, Concat
<1>5. EntryBytes(item, w) = k \o v
  BY DEF EntryBytes, v, k
<1>6. Len(k) \in Nat /\ Len(v) \in Nat /\ Len(v) >= 1
  BY <1>0, <1>2, <1>3 DEF v
<1>7. Len(k) + Len(v) >= 1
  BY <1>6
<1> QED
  BY <1>4, <1>5, <1>7

(* The list, from the back. *)
LEMMA EncodeSteps ==
    ASSUME NEW w \in {1, 2}, NEW items \in Seq(Items),
           \A i \in 1..Len(items) : Fits(items[i].data, w)
    PROVE  \E left \in [0..Len(items) -> Seq(Byte)] :
              /\ left[0] = <<>>
              /\ \A n \in 1..Len(items) :
                    left[n] = EntryBytes(items[(Len(items) - n) + 1], w) \o left[n - 1]
              /\ EncodeEntries(items, w) = left[Len(items)]
<1> DEFINE N == Len(items)
           e(n) == EntryBytes(items[(N - n) + 1], w)
           F == [n \in 1..N |-> [v \in Seq(Byte) |-> e(n) \o v]]
<1>1. N \in Nat
  OBVIOUS
<1>2. ASSUME NEW n \in 1..N PROVE e(n) \in Seq(Byte)
  <2>1. (N - n) + 1 \in 1..N
    BY <1>1
  <2>2. items[(N - n) + 1] \in Items /\ Fits(items[(N - n) + 1].data, w)
    BY <2>1
  <2> QED
    BY <2>2, EntryIsBytes
<1> HIDE DEF e
<1>3. F \in [1..N -> [Seq(Byte) -> Seq(Byte)]]
  <2>1. ASSUME NEW n \in 1..N, NEW v \in Seq(Byte) PROVE e(n) \o v \in Seq(Byte)
    BY <1>2, Concat
  <2> QED
    BY <2>1
<1>4. <<>> \in Seq(Byte)
  OBVIOUS
<1>5. PICK f \in [0..N -> Seq(Byte)] : f[0] = <<>> /\ \A n \in 1..N : f[n] = F[n][f[n - 1]]
  <2> DEFINE S == Seq(Byte)
             x == <<>>
  <2>1. F \in [1..N -> [S -> S]] /\ x \in S
    BY <1>3, <1>4
  <2> HIDE DEF F, N, S, x
  <2>2. PICK f \in [0..N -> S] : Follows(f, N, x, F)
    BY <1>1, <2>1, Recursion
  <2> QED
    BY <2>2 DEF S, x, Follows
<1>6. ASSUME NEW n \in 1..N PROVE f[n] = e(n) \o f[n - 1]
  <2>1. n - 1 \in 0..N /\ f[n - 1] \in Seq(Byte)
    BY <1>1, <1>5
  <2>2. F[n][f[n - 1]] = e(n) \o f[n - 1]
    BY <2>1
  <2> HIDE DEF F
  <2> QED
    BY <1>5, <2>2
<1> DEFINE Solves(g) == g = [n \in 0..N |-> IF n = 0 THEN <<>>
                                ELSE EntryBytes(items[(N - n) + 1], w) \o g[n - 1]]
           left == CHOOSE g : Solves(g)
<1>7. Solves(f)
  <2>1. f = [n \in 0..N |-> f[n]]
    BY <1>5
  <2>2. ASSUME NEW n \in 0..N PROVE f[n] = IF n = 0 THEN <<>> ELSE EntryBytes(items[(N - n) + 1], w) \o f[n - 1]
    <3>1. n # 0 => n \in 1..N
      BY <1>1
    <3> HIDE DEF N
    <3> QED
      BY <1>5, <1>6, <3>1 DEF e
  <2> HIDE DEF N
  <2> QED
    BY <2>1, <2>2
<1>8. Solves(left)
  <2> HIDE DEF Solves
  <2> QED BY <1>7
<1>9. EncodeEntries(items, w) = left[N]
  BY DEF EncodeEntries
<1> HIDE DEF left
<1> DEFINE G == {n \in 0..N : left[n] = f[n]}
<1>10. \A n \in 0..N : n \in G
  <2>1. 0 \in G
    BY <1>1, <1>5, <1>8
  <2>2. ASSUME NEW n \in 1..N, n - 1 \in G PROVE n \in G
    <3>1. n \in 0..N /\ n # 0 /\ left[n - 1] = f[n - 1]
      BY <1>1, <2>2
    <3> HIDE DEF N
    <3>2. left[n] = EntryBytes(items[(N - n) + 1], w) \o left[n - 1]
      BY <1>8, <3>1
    <3>3. left[n] = f[n]
      BY <1>6, <3>1, <3>2 DEF e
    <3> QED
      BY <3>1, <3>3
  <2> HIDE DEF G, N
  <2> QED
    BY <1>1, <2>1, <2>2, UpTo
<1>11. EncodeEntries(items, w) = f[N]
  <2>1. N \in 0..N
    BY <1>1
  <2> HIDE DEF N
  <2> QED
    BY <1>9, <1>10, <2>1
<1> HIDE DEF N
<1>12. \A n \in 1..N : f[n] = EntryBytes(items[(N - n) + 1], w) \o f[n - 1]
  BY <1>6 DEF e
<1> QED
  BY <1>5, <1>11, <1>12 DEF N

Read(rest, items) == [err |-> NoError, rest |-> rest, items |-> items]

(* The loop over a list takes the entry ahead, as it was sent. *)
LEMMA NextEntryBack ==
    ASSUME NEW item \in Items, NEW t \in Nat, NEW w \in {1, 2}, Len(item.type) = t, Fits(item.data, w),
           NEW b \in Seq(Byte), NEW done0
    PROVE  NextEntry(Read(EntryBytes(item, w) \o b, done0), t, w) = Read(b, Append(done0, item))
<1> DEFINE k == item.type
           d == item.data
           v == Vec(d, w)
           all == EntryBytes(item, w) \o b
           s == Read(all, done0)
<1>1. k \in Seq(Byte) /\ d \in Seq(Byte) /\ item = [type |-> k, data |-> d] /\ Len(k) = t /\ Fits(d, w)
  BY DEF Items
<1>2. EntryBytes(item, w) \in Seq(Byte) /\ Len(EntryBytes(item, w)) >= 1
  BY EntryIsBytes
<1>3. EntryBytes(item, w) = k \o v
  BY DEF EntryBytes
<1> HIDE DEF k, d
<1>4. v \in Seq(Byte)
  BY <1>1, VecBytes
<1>5. Block(v \o b, w) = Got(d, b)
  BY <1>1, BlockOfVec
<1> HIDE DEF v
<1>6. v \o b \in Seq(Byte) /\ all = k \o (v \o b)
  <2>1. v \o b \in Seq(Byte)
    BY <1>4, Concat
  <2>2. (k \o v) \o b = k \o (v \o b)
    BY <1>1, <1>4, ConcatAssociative
  <2> QED
    BY <1>3, <2>1, <2>2
<1>7. Take(all, t) = Got(k, v \o b)
  BY <1>1, <1>6, TakeAhead
<1>8. all # <<>>
  <2>1. Len(all) = Len(EntryBytes(item, w)) + Len(b) /\ Len(b) \in Nat /\ Len(EntryBytes(item, w)) \in Nat
    BY <1>2, Concat
  <2>2. Len(all) >= 1
    BY <1>2, <2>1
  <2> HIDE DEF all
  <2> QED
    BY <2>2
<1> HIDE DEF all
<1>9. s.err = NoError /\ s.rest = all /\ s.items = done0
  BY DEF Read
<1> HIDE DEF s
<1>10. Got(k, v \o b).err = NoError /\ Got(k, v \o b).rest = v \o b /\ Got(k, v \o b).data = k
  BY DEF Got
<1>11. Got(d, b).err = NoError /\ Got(d, b).rest = b /\ Got(d, b).data = d
  BY DEF Got
<1> DEFINE g == Got(k, v \o b)
           h == Got(d, b)
<1> HIDE DEF g, h
<1>12. /\ Take(s.rest, t) = g /\ Block(g.rest, w) = h
       /\ g.err = NoError /\ g.data = k /\ h.err = NoError /\ h.data = d /\ h.rest = b
  BY <1>5, <1>7, <1>9, <1>10, <1>11 DEF g, h
<1>13. NextEntry(s, t, w) = [err |-> NoError, rest |-> h.rest,
                             items |-> Append(s.items, [type |-> g.data, data |-> h.data])]
  BY <1>8, <1>9, <1>12 DEF NextEntry
<1> QED
  BY <1>1, <1>9, <1>12, <1>13 DEF Read, s, all

(* At the end of the list the loop is over. *)
LEMMA NoNextEntry ==
    ASSUME NEW t, NEW w, NEW items
    PROVE  NextEntry(Read(<<>>, items), t, w) = Read(<<>>, items)
<1> DEFINE s == Read(<<>>, items)
<1>1. s.rest = <<>>
  BY DEF Read
<1> HIDE DEF s
<1> QED
  BY <1>1 DEF NextEntry, s

(* A list reads as the items it was made of. *)
LEMMA EntriesBack ==
    ASSUME NEW t \in Nat, NEW w \in {1, 2}, NEW items, Sendable(items, t, w)
    PROVE  /\ EncodeEntries(items, w) \in Seq(Byte)
           /\ Entries(EncodeEntries(items, w), t, w) = Read(<<>>, items)
<1> DEFINE N == Len(items)
           list == EncodeEntries(items, w)
           M == Len(list)
<1>1. /\ items \in Seq(Items) /\ N \in Nat
      /\ \A i \in 1..N : items[i] \in Items /\ Len(items[i].type) = t /\ Fits(items[i].data, w)
  BY DEF Sendable
<1>2. PICK left \in [0..N -> Seq(Byte)] :
         /\ left[0] = <<>>
         /\ \A n \in 1..N : left[n] = EntryBytes(items[(N - n) + 1], w) \o left[n - 1]
         /\ list = left[N]
  BY <1>1, EncodeSteps
<1> HIDE DEF list, M, N
<1>3. list \in Seq(Byte) /\ M \in Nat
  <2>1. left[N] \in Seq(Byte)
    BY <1>1, <1>2
  <2> QED
    BY <1>2, <2>1 DEF M
<1>4. M >= N
  <2> DEFINE G == {n \in 0..N : Len(left[n]) >= n}
  <2>1. 0 \in G
    BY <1>1, <1>2
  <2>2. ASSUME NEW n \in 1..N, n - 1 \in G PROVE n \in G
    <3>1. n - 1 \in 0..N /\ n \in 0..N /\ (N - n) + 1 \in 1..N /\ Len(left[n - 1]) >= n - 1
      BY <1>1, <2>2
    <3> DEFINE e == EntryBytes(items[(N - n) + 1], w)
               l == left[n - 1]
    <3>2. e \in Seq(Byte) /\ Len(e) >= 1
      BY <1>1, <3>1, EntryIsBytes
    <3>3. l \in Seq(Byte) /\ left[n] = e \o l
      BY <1>2, <3>1
    <3> HIDE DEF e
    <3>4. Len(left[n]) = Len(e) + Len(l) /\ Len(e) \in Nat /\ Len(l) \in Nat
      <4> HIDE DEF l
      <4> QED BY <3>2, <3>3, Concat
    <3>5. Len(left[n]) >= n
      BY <3>1, <3>2, <3>4
    <3> QED
      BY <3>1, <3>5
  <2> HIDE DEF G
  <2>3. \A n \in 0..N : n \in G
    BY <1>1, <2>1, <2>2, UpTo
  <2>4. N \in G
    BY <1>1, <2>3
  <2> QED
    BY <1>2, <2>4 DEF G, M
<1> DEFINE at(n) == IF n <= N THEN n ELSE N
           g == [n \in 0..M |-> Read(left[N - at(n)], SubSeq(items, 1, at(n)))]
           Solves(f) == f = [n \in 0..M |-> IF n = 0 THEN Read(list, <<>>) ELSE NextEntry(f[n - 1], t, w)]
           turn == CHOOSE f : Solves(f)
<1>5. g[0] = Read(list, <<>>)
  <2>1. 0 \in 0..M /\ at(0) = 0 /\ N - 0 = N
    BY <1>1, <1>3
  <2>2. SubSeq(items, 1, 0) = <<>>
    BY <1>1
  <2> HIDE DEF at
  <2> QED
    BY <1>2, <2>1, <2>2
<1>6. ASSUME NEW n \in 1..M PROVE g[n] = NextEntry(g[n - 1], t, w)
  <2>1. n \in 0..M /\ n - 1 \in 0..M
    BY <1>3
  <2>2. CASE n <= N
    <3>1. /\ n \in 1..N /\ at(n) = n /\ at(n - 1) = n - 1 /\ N - (n - 1) \in 1..N
          /\ (N - (N - (n - 1))) + 1 = n /\ (N - (n - 1)) - 1 = N - n /\ N - n \in 0..N
      BY <1>1, <1>3, <2>2
    <3> DEFINE b == left[N - n]
               item == items[n]
               sofar == SubSeq(items, 1, n - 1)
    <3>2. left[N - (n - 1)] = EntryBytes(item, w) \o b /\ b \in Seq(Byte)
      BY <1>2, <3>1
    <3>3. item \in Items /\ Len(item.type) = t /\ Fits(item.data, w)
      BY <1>1, <3>1
    <3>4. Append(sofar, item) = SubSeq(items, 1, n)
      BY <1>1, <3>1
    <3>5. g[n - 1] = Read(left[N - (n - 1)], sofar) /\ g[n] = Read(b, SubSeq(items, 1, n))
      <4> HIDE DEF at
      <4> QED BY <2>1, <3>1
    <3> HIDE DEF g, at, b, item, sofar
    <3>6. NextEntry(Read(EntryBytes(item, w) \o b, sofar), t, w) = Read(b, Append(sofar, item))
      BY <3>2, <3>3, NextEntryBack
    <3> QED
      BY <3>2, <3>4, <3>5, <3>6
  <2>3. CASE ~(n <= N)
    <3>1. at(n) = N /\ at(n - 1) = N /\ N - N = 0
      BY <1>1, <1>3, <2>3
    <3>2. g[n - 1] = Read(<<>>, SubSeq(items, 1, N)) /\ g[n] = Read(<<>>, SubSeq(items, 1, N))
      <4> HIDE DEF at
      <4> QED BY <2>1, <3>1, <1>2
    <3> HIDE DEF g, at
    <3> QED
      BY <3>2, NoNextEntry
  <2> QED
    BY <2>2, <2>3
<1>7. g[M] = Read(<<>>, items)
  <2>1. at(M) = N /\ M \in 0..M /\ N - N = 0
    BY <1>1, <1>3, <1>4
  <2>2. SubSeq(items, 1, N) = items
    BY <1>1 DEF N
  <2> HIDE DEF at
  <2> QED
    BY <1>2, <2>1, <2>2
<1>8. DOMAIN g = 0..M /\ g = [n \in 0..M |-> g[n]]
  OBVIOUS
<1> HIDE DEF g, at
<1>9. Solves(g)
  <2>1. ASSUME NEW n \in 0..M
        PROVE  g[n] = IF n = 0 THEN Read(list, <<>>) ELSE NextEntry(g[n - 1], t, w)
    <3>1. n # 0 => n \in 1..M
      BY <1>3
    <3> QED
      BY <1>5, <1>6, <3>1
  <2> QED
    BY <1>8, <2>1
<1>10. Solves(turn)
  <2> HIDE DEF Solves
  <2> QED BY <1>9
<1>11. Entries(list, t, w) = turn[M]
  BY DEF Entries, Read, M
<1> HIDE DEF turn
<1> DEFINE G == {n \in 0..M : turn[n] = g[n]}
<1>12. 0 \in G
  BY <1>3, <1>5, <1>10
<1>13. ASSUME NEW n \in 1..M, n - 1 \in G PROVE n \in G
  <2>1. n \in 0..M /\ n # 0 /\ turn[n - 1] = g[n - 1]
    BY <1>3, <1>13
  <2>2. turn[n] = NextEntry(turn[n - 1], t, w)
    BY <1>10, <2>1
  <2>3. turn[n] = g[n]
    BY <1>6, <2>1, <2>2
  <2> QED
    BY <2>1, <2>3
<1> HIDE DEF G
<1>14. \A n \in 0..M : n \in G
  BY <1>3, <1>12, <1>13, UpTo
<1>15. M \in G
  BY <1>3, <1>14
<1>16. turn[M] = g[M]
  BY <1>15 DEF G
<1> QED
  BY <1>3, <1>7, <1>11, <1>16 DEF list

(* A hello, field by field. *)
HelloOf(v, c, e, vs, sigs, gs, ps, sni) ==
    [legacy_version |-> v, cipher_suites |-> c, extensions |-> e, supported_versions |-> vs,
     signature_algorithms |-> sigs, supported_groups |-> gs, alpn |-> ps, server_name |-> sni]

LEMMA HelloWith ==
    ASSUME NEW v, NEW c, NEW e, NEW vs, NEW sigs, NEW gs, NEW ps, NEW sni, NEW x,
           NEW h, h = HelloOf(v, c, e, vs, sigs, gs, ps, sni)
    PROVE  /\ h.extensions = e /\ h.alpn = ps
           /\ [h EXCEPT !.extensions = x] = HelloOf(v, c, x, vs, sigs, gs, ps, sni)
           /\ [h EXCEPT !.supported_versions = x] = HelloOf(v, c, e, x, sigs, gs, ps, sni)
           /\ [h EXCEPT !.signature_algorithms = x] = HelloOf(v, c, e, vs, x, gs, ps, sni)
           /\ [h EXCEPT !.supported_groups = x] = HelloOf(v, c, e, vs, sigs, x, ps, sni)
           /\ [h EXCEPT !.alpn = x] = HelloOf(v, c, e, vs, sigs, gs, x, sni)
           /\ [h EXCEPT !.server_name = x] = HelloOf(v, c, e, vs, sigs, gs, ps, x)
BY DEF HelloOf

LEMMA HelloFields ==
    ASSUME NEW h \in Hellos
    PROVE  /\ h = HelloOf(h.legacy_version, h.cipher_suites, h.extensions, h.supported_versions,
                          h.signature_algorithms, h.supported_groups, h.alpn, h.server_name)
           /\ h.legacy_version \in Word /\ h.cipher_suites \in Seq(Word) /\ h.extensions \in Seq(Word)
           /\ h.supported_versions \in Seq(Word) /\ h.signature_algorithms \in Seq(Word)
           /\ h.supported_groups \in Seq(Word) /\ h.alpn \in Seq(Seq(0..127))
           /\ h.server_name \in Seq(0..127) \cup {NoHost}
BY DEF Hellos, HelloOf

LEMMA AsideFields ==
    ASSUME NEW h, NEW a \in Asides(h)
    PROVE  /\ a.random \in Seq(Byte) /\ a.session \in Seq(Byte) /\ a.methods \in Seq(Byte)
           /\ a.names \in Seq(Items) /\ a.bodies \in [Range(h.extensions) -> Seq(Byte)]
           /\ a.stray \in Seq(Byte)
BY DEF Asides, Items, Byte

LEMMA SeqMonotone ==
    ASSUME NEW S, NEW T, S \subseteq T, NEW s \in Seq(S)
    PROVE  s \in Seq(T)
<1>1. Len(s) \in Nat /\ s \in [1..Len(s) -> S]
  BY LenProperties
<1>2. s \in [1..Len(s) -> T]
  BY <1>1
<1> QED
  BY <1>1, <1>2, SeqDef

LEMMA AsciiIsBytes == \A s \in Seq(0..127) : s \in Seq(Byte)
<1>1. 0..127 \subseteq Byte
  BY DEF Byte
<1> HIDE DEF Byte
<1> QED
  BY <1>1, SeqMonotone

(* What the first k extensions of a hello say. *)
Seen(h, k, e) == \E i \in 1..k : h.extensions[i] = e
Said(h, k, e, what, none) == IF Seen(h, k, e) THEN what ELSE none
Absorbed(h, k) ==
    HelloOf(h.legacy_version, h.cipher_suites, SubSeq(h.extensions, 1, k),
            Said(h, k, SupportedVersions, h.supported_versions, <<>>),
            Said(h, k, SignatureAlgorithms, h.signature_algorithms, <<>>),
            Said(h, k, SupportedGroups, h.supported_groups, <<>>),
            Said(h, k, Alpn, h.alpn, <<>>),
            Said(h, k, ServerName, h.server_name, NoHost))

LEMMA SeenMore ==
    ASSUME NEW h \in Hellos, IsInjective(h.extensions), NEW k \in 1..Len(h.extensions), NEW x
    PROVE  /\ Seen(h, k, x) <=> Seen(h, k - 1, x) \/ x = h.extensions[k]
           /\ ~Seen(h, k - 1, h.extensions[k])
<1>1. h.extensions \in Seq(Word)
  BY HelloFields
<1>2. Len(h.extensions) \in Nat /\ DOMAIN h.extensions = 1..Len(h.extensions)
  BY <1>1
<1>3. \A i \in 1..k : i = k \/ i \in 1..(k - 1)
  BY <1>2
<1>4. \A i \in 1..(k - 1) : i \in 1..k /\ i # k /\ i \in DOMAIN h.extensions
  BY <1>2
<1>5. k \in 1..k /\ k \in DOMAIN h.extensions
  BY <1>2
<1>6. \A i \in 1..(k - 1) : h.extensions[i] # h.extensions[k]
  BY <1>4, <1>5 DEF IsInjective
<1> QED
  BY <1>3, <1>4, <1>5, <1>6 DEF Seen

(* With the next extension listed, and not looked into yet. *)
LEMMA ListedNext ==
    ASSUME NEW h \in Hellos, NEW k \in 1..Len(h.extensions)
    PROVE  Listed(Absorbed(h, k - 1), h.extensions[k])
              = HelloOf(h.legacy_version, h.cipher_suites, SubSeq(h.extensions, 1, k),
                        Said(h, k - 1, SupportedVersions, h.supported_versions, <<>>),
                        Said(h, k - 1, SignatureAlgorithms, h.signature_algorithms, <<>>),
                        Said(h, k - 1, SupportedGroups, h.supported_groups, <<>>),
                        Said(h, k - 1, Alpn, h.alpn, <<>>),
                        Said(h, k - 1, ServerName, h.server_name, NoHost))
<1> DEFINE a == Absorbed(h, k - 1)
           es == h.extensions
           v == h.legacy_version
           c == h.cipher_suites
           some == SubSeq(es, 1, k - 1)
           vs == Said(h, k - 1, SupportedVersions, h.supported_versions, <<>>)
           sigs == Said(h, k - 1, SignatureAlgorithms, h.signature_algorithms, <<>>)
           gs == Said(h, k - 1, SupportedGroups, h.supported_groups, <<>>)
           ps == Said(h, k - 1, Alpn, h.alpn, <<>>)
           sni == Said(h, k - 1, ServerName, h.server_name, NoHost)
<1>1. es \in Seq(Word)
  BY HelloFields
<1>2. Append(some, es[k]) = SubSeq(es, 1, k)
  <2> HIDE DEF es
  <2> QED BY <1>1 DEF es
<1>3. a = HelloOf(v, c, some, vs, sigs, gs, ps, sni)
  BY DEF Absorbed
<1> HIDE DEF a, v, c, some, vs, sigs, gs, ps, sni
<1>4. Listed(a, es[k]) = [a EXCEPT !.extensions = Append(a.extensions, es[k])]
  BY DEF Listed
<1> DEFINE more == SubSeq(es, 1, k)
<1> HIDE DEF es, more
<1>5. a.extensions = some
  BY <1>3, HelloWith
<1>6. [a EXCEPT !.extensions = more] = HelloOf(v, c, more, vs, sigs, gs, ps, sni)
  BY <1>3, HelloWith
<1>7. Listed(a, es[k]) = HelloOf(v, c, more, vs, sigs, gs, ps, sni)
  BY <1>2, <1>4, <1>5, <1>6 DEF more
<1> QED
  BY <1>7 DEF a, v, c, vs, sigs, gs, ps, sni, more, es

LEMMA ParsedIs ==
    ASSUME NEW h
    PROVE  Parsed(h).err = NoError /\ Parsed(h).hello = h /\ Unless(NoError, h) = Parsed(h)
BY DEF Parsed, Unless

LEMMA GotIs ==
    ASSUME NEW d, NEW r
    PROVE  Got(d, r).err = NoError /\ Got(d, r).data = d /\ Got(d, r).rest = r
BY DEF Got

LEMMA ReadIs ==
    ASSUME NEW r, NEW items
    PROVE  Read(r, items).err = NoError /\ Read(r, items).rest = r /\ Read(r, items).items = items
BY DEF Read

LEMMA VecIsNotEmpty ==
    ASSUME NEW s \in Seq(Byte), NEW w \in {1, 2, 3}, Fits(s, w)
    PROVE  Vec(s, w) # <<>>
<1>1. Vec(s, w) \in Seq(Byte) /\ Len(Vec(s, w)) = w + Len(s) /\ Len(s) \in Nat
  BY VecBytes
<1>2. Len(Vec(s, w)) > 0
  BY <1>1
<1> QED
  BY <1>2

(* The list behind an extension, read back. *)
LEMMA ListBack ==
    ASSUME NEW list \in Seq(Word), NEW w \in {1, 2}, Fits(U16s(list), w),
           NEW l, l = U16List(Block(Vec(U16s(list), w), w))
    PROVE  l.err = NoError /\ l.data = list
<1>1. U16s(list) \in Seq(Byte)
  BY U16sBytes
<1>2. Block(Vec(U16s(list), w), w) = Got(U16s(list), <<>>)
  BY <1>1, BlockOfVecAlone
<1>3. l = Got(list, <<>>)
  BY <1>2, U16ListBack
<1> QED
  BY <1>3, GotIs

(* The protocols, as items of their list, and read back. *)
LEMMA ProtocolsAreSendable ==
    ASSUME NEW h \in Hellos, \A i \in DOMAIN h.alpn : Fits(h.alpn[i], 1)
    PROVE  /\ Sendable(ProtocolItems(h), 0, 1)
           /\ [i \in DOMAIN ProtocolItems(h) |-> ProtocolItems(h)[i].data] = h.alpn
<1> DEFINE items == ProtocolItems(h)
           ps == h.alpn
<1>1. ps \in Seq(Seq(0..127)) /\ Len(ps) \in Nat /\ DOMAIN ps = 1..Len(ps)
      /\ ps \in [1..Len(ps) -> Seq(0..127)]
  <2>1. ps \in Seq(Seq(0..127))
    BY HelloFields
  <2> DEFINE T == Seq(0..127)
  <2>2. ps \in Seq(T)
    BY <2>1
  <2> HIDE DEF T, ps
  <2>3. Len(ps) \in Nat /\ DOMAIN ps = 1..Len(ps) /\ ps \in [1..Len(ps) -> T]
    BY <2>2, LenProperties
  <2> QED
    BY <2>1, <2>3 DEF T
<1>2. items = [i \in 1..Len(ps) |-> [type |-> <<>>, data |-> ps[i]]]
  BY <1>1 DEF ProtocolItems
<1> HIDE DEF ps, items
<1>3. \A i \in 1..Len(ps) : ps[i] \in Seq(Byte)
  BY <1>1, AsciiIsBytes
<1>4. items \in [1..Len(ps) -> Items]
  <2>1. <<>> \in Seq(Byte)
    OBVIOUS
  <2>2. \A i \in 1..Len(ps) : [type |-> <<>>, data |-> ps[i]] \in Items
    BY <1>3, <2>1 DEF Items
  <2> QED
    BY <1>2, <2>2
<1>5. items \in Seq(Items) /\ Len(items) = Len(ps)
  BY <1>1, <1>4, IsSeq
<1>6. Sendable(items, 0, 1)
  <2>1. ASSUME NEW i \in 1..Len(items) PROVE Len(items[i].type) = 0 /\ Fits(items[i].data, 1)
    <3>1. i \in 1..Len(ps) /\ items[i] = [type |-> <<>>, data |-> ps[i]]
      BY <1>2, <1>5
    <3>2. Fits(ps[i], 1)
      BY <1>1, <3>1 DEF ps
    <3> QED
      BY <3>1, <3>2
  <2> QED
    BY <1>5, <2>1 DEF Sendable
<1>7. [i \in DOMAIN items |-> items[i].data] = ps
  <2>1. DOMAIN items = 1..Len(ps)
    BY <1>2
  <2>2. \A i \in 1..Len(ps) : items[i].data = ps[i]
    BY <1>2
  <2> QED
    BY <1>1, <2>1, <2>2
<1> QED
  BY <1>6, <1>7 DEF items, ps

LEMMA ProtocolsBack ==
    ASSUME NEW h \in Hellos, \A i \in DOMAIN h.alpn : Fits(h.alpn[i], 1),
           Fits(EncodeEntries(ProtocolItems(h), 1), 2),
           NEW p, p.alpn = <<>>
    PROVE  AbsorbProtocols(p, Vec(EncodeEntries(ProtocolItems(h), 1), 2))
              = Parsed([p EXCEPT !.alpn = h.alpn])
<1> DEFINE items == ProtocolItems(h)
           bytes == EncodeEntries(items, 1)
           data == Vec(bytes, 2)
           ps == h.alpn
<1>1. Sendable(items, 0, 1) /\ [i \in DOMAIN items |-> items[i].data] = ps
  BY ProtocolsAreSendable
<1>2. ps \in Seq(Seq(0..127))
  BY HelloFields
<1> HIDE DEF ps, items
<1>7. bytes \in Seq(Byte) /\ Entries(bytes, 0, 1) = Read(<<>>, items)
  BY <1>1, EntriesBack
<1>8. Fits(bytes, 2)
  BY DEF items
<1> HIDE DEF bytes
<1>9. Block(data, 2) = Got(bytes, <<>>)
  BY <1>7, <1>8, BlockOfVecAlone
<1> HIDE DEF data
<1> DEFINE list == Block(data, 2)
           protos == Entries(list.data, 0, 1)
           names == [i \in DOMAIN protos.items |-> protos.items[i].data]
<1>11. list.err = NoError /\ list.data = bytes
  BY <1>9, GotIs
<1>12. protos.err = NoError /\ protos.items = items
  BY <1>7, <1>11, ReadIs
<1>13. names = ps
  BY <1>1, <1>12
<1>14. AbsorbProtocols(p, data) = IF list.err # NoError THEN Refused(list.err)
                                  ELSE Unless(protos.err, [p EXCEPT !.alpn = p.alpn \o names])
  BY DEF AbsorbProtocols
<1> HIDE DEF list, protos, names
<1>15. p.alpn \o names = ps
  BY <1>2, <1>13, ConcatEmptySeq
<1>16. AbsorbProtocols(p, data) = Unless(NoError, [p EXCEPT !.alpn = ps])
  BY <1>11, <1>12, <1>14, <1>15
<1> QED
  BY <1>16, ParsedIs DEF data, bytes, items, ps

(* The server names, as items of their list: the host is the last, and the
   only one of its type. *)
LEMMA NamesAreSendable ==
    ASSUME NEW h, NEW aside, WellFormed(h, aside)
    PROVE  LET items == NameItems(h, aside)
               n     == Len(items)
           IN /\ Sendable(items, 1, 2) /\ n \in Nat /\ DOMAIN items = 1..n
              /\ h.server_name = NoHost => \A i \in 1..n : items[i].type # <<0>>
              /\ h.server_name # NoHost =>
                    /\ n > 0 /\ items[n].type = <<0>> /\ items[n].data = h.server_name
                    /\ \A i \in 1..(n - 1) : items[i].type # <<0>>
<1> DEFINE names == aside.names
           n == Len(names)
           sni == h.server_name
           items == NameItems(h, aside)
<1>1. /\ names \in Seq(Items) /\ n \in Nat /\ sni \in Seq(0..127) \cup {NoHost}
      /\ \A i \in 1..n : Len(names[i].type) = 1 /\ names[i].type # <<0>>
  <2>1. names \in Seq(Items) /\ sni \in Seq(0..127) \cup {NoHost}
    BY HelloFields, AsideFields DEF WellFormed
  <2>2. DOMAIN names = 1..n /\ n \in Nat
    BY <2>1
  <2> QED
    BY <2>1, <2>2 DEF WellFormed
<1>2. \A i \in DOMAIN items : Fits(items[i].data, 2)
  BY DEF WellFormed, AllFits
<1> DEFINE tail == IF sni = NoHost THEN <<>> ELSE <<[type |-> <<0>>, data |-> sni]>>
<1>4. items = names \o tail
  BY DEF NameItems
<1> HIDE DEF items, names, sni
<1> DEFINE item == [type |-> <<0>>, data |-> sni]
<1>5. sni # NoHost => item \in Items /\ Len(item.type) = 1
  <2>1. sni # NoHost => sni \in Seq(Byte)
    BY <1>1, AsciiIsBytes
  <2>2. <<0>> \in Seq(Byte) /\ Len(<<0>>) = 1
    BY DEF Byte
  <2> QED
    BY <2>1, <2>2 DEF Items
<1>6. tail \in Seq(Items) /\ Len(tail) = IF sni = NoHost THEN 0 ELSE 1
  BY <1>5
<1>7. /\ items \in Seq(Items) /\ Len(items) = n + Len(tail)
      /\ \A i \in 1..n : items[i] = names[i]
      /\ \A i \in 1..Len(tail) : items[n + i] = tail[i]
  <2>1. names \in Seq(Items)
    BY <1>1
  <2>2. tail \in Seq(Items)
    BY <1>6
  <2> HIDE DEF tail
  <2>3. /\ names \o tail \in Seq(Items) /\ Len(names \o tail) = Len(names) + Len(tail)
        /\ \A i \in 1..Len(names) : (names \o tail)[i] = names[i]
        /\ \A i \in 1..Len(tail) : (names \o tail)[Len(names) + i] = tail[i]
    BY <2>1, <2>2, Concat
  <2> QED
    BY <1>4, <2>3, Zenon
<1>8. DOMAIN items = 1..Len(items) /\ Len(items) \in Nat
  BY <1>7
<1>9. CASE sni = NoHost
  <2>1. Len(items) = n /\ \A i \in 1..Len(items) : Len(items[i].type) = 1 /\ items[i].type # <<0>>
    BY <1>1, <1>6, <1>7, <1>9
  <2>2. Sendable(items, 1, 2)
    BY <1>2, <1>7, <1>8, <2>1 DEF Sendable
  <2> QED
    BY <1>8, <1>9, <2>1, <2>2 DEF items, sni
<1>10. CASE sni # NoHost
  <2>1. Len(items) = n + 1 /\ items[n + 1] = item
    <3>1. Len(tail) = 1 /\ tail[1] = item
      BY <1>6, <1>10
    <3> HIDE DEF tail, item
    <3> QED
      BY <1>7, <3>1
  <2>2. \A i \in 1..Len(items) : i \in 1..n \/ i = n + 1
    BY <1>1, <2>1
  <2>3. \A i \in 1..Len(items) : Len(items[i].type) = 1
    BY <1>1, <1>5, <1>7, <1>10, <2>1, <2>2
  <2>4. Sendable(items, 1, 2)
    BY <1>2, <1>7, <1>8, <2>3 DEF Sendable
  <2>5. \A i \in 1..n : items[i].type # <<0>>
    BY <1>1, <1>7
  <2>6. Len(items) - 1 = n /\ Len(items) > 0
    BY <1>1, <2>1
  <2>7. items[Len(items)].type = <<0>> /\ items[Len(items)].data = sni
    BY <2>1
  <2> QED
    BY <1>8, <1>10, <2>4, <2>5, <2>6, <2>7 DEF items, sni
<1> QED
  BY <1>9, <1>10

(* The host, read back: the names that are none are skipped. *)
LEMMA HostBack ==
    ASSUME NEW h, NEW aside, WellFormed(h, aside), NEW p
    PROVE  AbsorbHostName(p, ExtensionData(h, aside, ServerName))
              = IF h.server_name = NoHost THEN Parsed(p)
                ELSE Parsed([p EXCEPT !.server_name = h.server_name])
<1> DEFINE sni == h.server_name
           items == NameItems(h, aside)
           n == Len(items)
           bytes == EncodeEntries(items, 2)
           data == ExtensionData(h, aside, ServerName)
           hosts == HostNames(Read(<<>>, items))
<1>1. /\ Sendable(items, 1, 2) /\ n \in Nat /\ DOMAIN items = 1..n
      /\ sni = NoHost => \A i \in 1..n : items[i].type # <<0>>
      /\ sni # NoHost =>
            /\ n > 0 /\ items[n].type = <<0>> /\ items[n].data = sni
            /\ \A i \in 1..(n - 1) : items[i].type # <<0>>
  BY NamesAreSendable
<1>2. Fits(bytes, 2)
  BY DEF WellFormed, AllFits
<1>3. data = IF items = <<>> THEN <<>> ELSE Vec(bytes, 2)
  BY DEF ExtensionData, ServerName, Alpn, SignatureAlgorithms, SupportedGroups, SupportedVersions
<1>4. hosts = {i \in 1..n : items[i].type = <<0>>}
  BY <1>1, ReadIs DEF HostNames
<1> HIDE DEF items, sni, n, hosts
<1>5. bytes \in Seq(Byte) /\ Entries(bytes, 1, 2) = Read(<<>>, items)
  BY <1>1, EntriesBack
<1> HIDE DEF bytes
<1>6. CASE items = <<>>
  <2>1. data = <<>> /\ n = 0
    BY <1>3, <1>6 DEF n
  <2> HIDE DEF data
  <2>2. AbsorbHostName(p, data) = Parsed(p)
    BY <2>1 DEF AbsorbHostName
  <2> QED
    BY <1>1, <2>1, <2>2 DEF sni, data
<1>7. CASE items # <<>>
  <2>1. data = Vec(bytes, 2) /\ data # <<>> /\ Block(data, 2) = Got(bytes, <<>>)
    BY <1>2, <1>3, <1>5, <1>7, BlockOfVecAlone, VecIsNotEmpty
  <2> HIDE DEF data
  <2>2. Entries(Block(data, 2).data, 1, 2) = Read(<<>>, items) /\ Block(data, 2).err = NoError
    BY <1>5, <2>1, GotIs
  <2>3. Read(<<>>, items).items = items /\ Read(<<>>, items).err = NoError
    BY ReadIs
  <2>4. CASE sni = NoHost
    <3>1. hosts = {}
      BY <1>1, <1>4, <2>4
    <3>2. AbsorbHostName(p, data) = Unless(NoError, p)
      BY <2>1, <2>2, <2>3, <3>1 DEF AbsorbHostName, hosts
    <3> QED
      BY <2>4, <3>2, ParsedIs DEF sni, data
  <2>5. CASE sni # NoHost
    <3>1. hosts = {n}
      <4>1. n \in 1..n /\ \A i \in 1..n : i \in 1..(n - 1) \/ i = n
        BY <1>1, <2>5
      <4> QED
        BY <1>1, <1>4, <2>5, <4>1
    <3>2. (CHOOSE i \in hosts : \A j \in hosts : i <= j) = n
      BY <1>1, <3>1
    <3>3. hosts # {}
      BY <3>1
    <3>4. AbsorbHostName(p, data)
           = Parsed([p EXCEPT !.server_name = items[CHOOSE i \in hosts : \A j \in hosts : i <= j].data])
      BY <2>1, <2>2, <2>3, <3>3 DEF AbsorbHostName, hosts
    <3> QED
      BY <1>1, <2>5, <3>2, <3>4 DEF sni, data
  <2> QED
    BY <2>4, <2>5
<1> QED
  BY <1>6, <1>7

(* What an extension carries is bytes. *)
LEMMA DataIsBytes ==
    ASSUME NEW h, NEW aside, WellFormed(h, aside), NEW e \in Range(h.extensions)
    PROVE  ExtensionData(h, aside, e) \in Seq(Byte)
<1> USE DEF ServerName, Alpn, SignatureAlgorithms, SupportedGroups, SupportedVersions
<1> DEFINE data == ExtensionData(h, aside, e)
<1>1. h \in Hellos /\ aside \in Asides(h) /\ AllFits(h, aside)
  BY DEF WellFormed
<1>2. /\ h.supported_versions \in Seq(Word) /\ h.signature_algorithms \in Seq(Word)
      /\ h.supported_groups \in Seq(Word)
  BY <1>1, HelloFields
<1>3. \A list \in Seq(Word), w \in {1, 2} : Fits(U16s(list), w) => Vec(U16s(list), w) \in Seq(Byte)
  BY U16sBytes, VecBytes
<1>4. CASE e = ServerName
  <2> DEFINE items == NameItems(h, aside)
  <2>1. data = IF items = <<>> THEN <<>> ELSE Vec(EncodeEntries(items, 2), 2)
    BY <1>4 DEF ExtensionData
  <2>2. EncodeEntries(items, 2) \in Seq(Byte) /\ Fits(EncodeEntries(items, 2), 2)
    BY NamesAreSendable, EntriesBack, <1>1 DEF AllFits
  <2>3. Vec(EncodeEntries(items, 2), 2) \in Seq(Byte)
    BY <2>2, VecBytes
  <2>4. <<>> \in Seq(Byte)
    OBVIOUS
  <2> HIDE DEF items
  <2> QED
    BY <2>1, <2>3, <2>4
<1>5. CASE e = Alpn
  <2> DEFINE items == ProtocolItems(h)
  <2>1. data = Vec(EncodeEntries(items, 1), 2)
    BY <1>5 DEF ExtensionData
  <2>2. EncodeEntries(items, 1) \in Seq(Byte) /\ Fits(EncodeEntries(items, 1), 2)
    BY ProtocolsAreSendable, EntriesBack, <1>1 DEF AllFits
  <2> HIDE DEF items
  <2> QED
    BY <2>1, <2>2, VecBytes
<1>6. CASE e = SignatureAlgorithms
  <2>1. data = Vec(U16s(h.signature_algorithms), 2)
    BY <1>6 DEF ExtensionData
  <2> QED
    BY <2>1, <1>1, <1>2, <1>3 DEF AllFits
<1>7. CASE e = SupportedGroups
  <2>1. data = Vec(U16s(h.supported_groups), 2)
    BY <1>7 DEF ExtensionData
  <2> QED
    BY <2>1, <1>1, <1>2, <1>3 DEF AllFits
<1>8. CASE e = SupportedVersions
  <2>1. data = Vec(U16s(h.supported_versions), 1)
    BY <1>8 DEF ExtensionData
  <2> QED
    BY <2>1, <1>1, <1>2, <1>3 DEF AllFits
<1>9. CASE e \notin {ServerName, Alpn, SignatureAlgorithms, SupportedGroups, SupportedVersions}
  <2>1. data = aside.bodies[e]
    BY <1>9 DEF ExtensionData
  <2> QED
    BY <2>1, <1>1, AsideFields
<1> QED
  BY <1>4, <1>5, <1>6, <1>7, <1>8, <1>9

LEMMA TypeOfExtension ==
    ASSUME NEW e \in Word
    PROVE  U16(e) \in Seq(Byte) /\ Len(U16(e)) = 2 /\ BigEndian(U16(e)) = e
<1>1. e \in Nat /\ e < 65536
  BY DEF Word
<1>2. e < Limit(2)
  BY <1>1 DEF Limit
<1>3. Length(e, 2) = U16(e)
  BY DEF Length
<1> QED
  BY <1>1, <1>2, <1>3, LengthBytes

LEMMA ExtensionsAreSendable ==
    ASSUME NEW h, NEW aside, WellFormed(h, aside)
    PROVE  /\ Sendable(ExtensionItems(h, aside), 2, 2)
           /\ Len(ExtensionItems(h, aside)) = Len(h.extensions)
           /\ \A k \in 1..Len(h.extensions) :
                ExtensionItems(h, aside)[k]
                  = [type |-> U16(h.extensions[k]), data |-> ExtensionData(h, aside, h.extensions[k])]
<1> DEFINE es == h.extensions
           n == Len(es)
           items == ExtensionItems(h, aside)
           data(k) == ExtensionData(h, aside, es[k])
           item(k) == [type |-> U16(es[k]), data |-> data(k)]
<1>1. es \in Seq(Word)
  BY HelloFields DEF WellFormed
<1>2. n \in Nat /\ DOMAIN es = 1..n /\ \A k \in 1..n : es[k] \in Word /\ es[k] \in Range(es)
  BY <1>1 DEF Range
<1>3. items = [k \in 1..n |-> item(k)]
  BY <1>2 DEF ExtensionItems
<1>4. \A k \in 1..n : Fits(items[k].data, 2)
  BY <1>2 DEF WellFormed, AllFits
<1>5. ASSUME NEW k \in 1..n
      PROVE  U16(es[k]) \in Seq(Byte) /\ Len(U16(es[k])) = 2 /\ data(k) \in Seq(Byte)
  BY <1>2, DataIsBytes, TypeOfExtension
<1> HIDE DEF items, n, data
<1>6. ASSUME NEW k \in 1..n
      PROVE  item(k) \in Items /\ items[k] = item(k) /\ item(k).type = U16(es[k])
  BY <1>3, <1>5 DEF Items
<1> HIDE DEF item
<1>7. items \in [1..n -> Items]
  BY <1>3, <1>6
<1>8. items \in Seq(Items) /\ Len(items) = n
  BY <1>2, <1>7, IsSeq
<1>9. Sendable(items, 2, 2)
  BY <1>4, <1>5, <1>6, <1>8 DEF Sendable
<1> QED
  BY <1>6, <1>8, <1>9 DEF items, n, item, data

-----------------------------------------------------------------------------
(* One extension more. *)
LEMMA AbsorbStep ==
    ASSUME NEW h, NEW aside, WellFormed(h, aside), NEW k \in 1..Len(h.extensions),
           NEW e, e = h.extensions[k]
    PROVE  AbsorbExtension(Listed(Absorbed(h, k - 1), e), e, ExtensionData(h, aside, e))
              = Parsed(Absorbed(h, k))
<1> DEFINE p == Listed(Absorbed(h, k - 1), e)
           data == ExtensionData(h, aside, e)
           v == h.legacy_version
           c == h.cipher_suites
           es == SubSeq(h.extensions, 1, k)
           vs == Said(h, k - 1, SupportedVersions, h.supported_versions, <<>>)
           sigs == Said(h, k - 1, SignatureAlgorithms, h.signature_algorithms, <<>>)
           gs == Said(h, k - 1, SupportedGroups, h.supported_groups, <<>>)
           ps == Said(h, k - 1, Alpn, h.alpn, <<>>)
           sni == Said(h, k - 1, ServerName, h.server_name, NoHost)
           New(x, what, old) == IF x = e THEN what ELSE old
           q == HelloOf(v, c, es, New(SupportedVersions, h.supported_versions, vs),
                        New(SignatureAlgorithms, h.signature_algorithms, sigs),
                        New(SupportedGroups, h.supported_groups, gs),
                        New(Alpn, h.alpn, ps), New(ServerName, h.server_name, sni))
<1>1. h \in Hellos /\ IsInjective(h.extensions) /\ AllFits(h, aside)
  BY DEF WellFormed
<1>2. p = HelloOf(v, c, es, vs, sigs, gs, ps, sni)
  BY <1>1, ListedNext
<1>3. Absorbed(h, k) = q
  <2>1. \A x, what, none : Said(h, k, x, what, none) = New(x, what, Said(h, k - 1, x, what, none))
    BY <1>1, SeenMore DEF Said
  <2> QED
    BY <2>1 DEF Absorbed
<1>4. \A what, none : Said(h, k - 1, e, what, none) = none
  BY <1>1, SeenMore DEF Said
<1>5. /\ h.supported_versions \in Seq(Word) /\ h.signature_algorithms \in Seq(Word)
      /\ h.supported_groups \in Seq(Word)
  BY <1>1, HelloFields
<1> HIDE DEF p, v, c, es, vs, sigs, gs, ps, sni, data
<1>12. ASSUME NEW x
       PROVE  /\ [p EXCEPT !.server_name = x] = HelloOf(v, c, es, vs, sigs, gs, ps, x)
              /\ [p EXCEPT !.alpn = x] = HelloOf(v, c, es, vs, sigs, gs, x, sni)
              /\ [p EXCEPT !.supported_groups = x] = HelloOf(v, c, es, vs, sigs, x, ps, sni)
              /\ [p EXCEPT !.signature_algorithms = x] = HelloOf(v, c, es, vs, x, gs, ps, sni)
              /\ [p EXCEPT !.supported_versions = x] = HelloOf(v, c, es, x, sigs, gs, ps, sni)
  BY <1>2 DEF HelloOf
<1> USE DEF ServerName, Alpn, SignatureAlgorithms, SupportedGroups, SupportedVersions
<1>6. CASE e = ServerName
  <2>1. q = HelloOf(v, c, es, vs, sigs, gs, ps, h.server_name)
    BY <1>6
  <2>2. AbsorbExtension(p, e, data) = AbsorbHostName(p, data)
    BY <1>6 DEF AbsorbExtension
  <2>3. AbsorbHostName(p, data)
              = IF h.server_name = NoHost THEN Parsed(p)
                ELSE Parsed([p EXCEPT !.server_name = h.server_name])
    BY <1>6, HostBack DEF data
  <2>4. sni = NoHost
    BY <1>4, <1>6 DEF sni
  <2>5. [p EXCEPT !.server_name = h.server_name] = HelloOf(v, c, es, vs, sigs, gs, ps, h.server_name)
    BY <1>12
  <2> HIDE DEF q
  <2> QED
    BY <1>2, <1>3, <2>1, <2>2, <2>3, <2>4, <2>5 DEF p, data
<1>7. CASE e = Alpn
  <2>1. q = HelloOf(v, c, es, vs, sigs, gs, h.alpn, sni)
    BY <1>7
  <2>2. AbsorbExtension(p, e, data) = AbsorbProtocols(p, data)
    BY <1>7 DEF AbsorbExtension
  <2>3. data = Vec(EncodeEntries(ProtocolItems(h), 1), 2)
    BY <1>7 DEF data, ExtensionData
  <2>4. p.alpn = <<>>
    <3>1. ps = <<>>
      BY <1>4, <1>7 DEF ps
    <3> QED
      BY <1>2, <3>1, HelloWith
  <2>5. AbsorbProtocols(p, data) = Parsed([p EXCEPT !.alpn = h.alpn])
    <3>1. (\A i \in DOMAIN h.alpn : Fits(h.alpn[i], 1)) /\ Fits(EncodeEntries(ProtocolItems(h), 1), 2)
      BY <1>1 DEF AllFits
    <3> QED
      BY <1>1, <2>3, <2>4, <3>1, ProtocolsBack
  <2>6. [p EXCEPT !.alpn = h.alpn] = HelloOf(v, c, es, vs, sigs, gs, h.alpn, sni)
    BY <1>12
  <2> HIDE DEF q
  <2> QED
    BY <1>3, <2>1, <2>2, <2>5, <2>6 DEF p, data
<1>8. CASE e = SignatureAlgorithms
  <2> DEFINE l == U16List(Block(data, 2))
  <2>1. q = HelloOf(v, c, es, vs, h.signature_algorithms, gs, ps, sni)
    BY <1>8
  <2>2. AbsorbExtension(p, e, data) = Unless(l.err, [p EXCEPT !.signature_algorithms = l.data])
    BY <1>8 DEF AbsorbExtension
  <2>3. data = Vec(U16s(h.signature_algorithms), 2) /\ Fits(U16s(h.signature_algorithms), 2)
    BY <1>1, <1>8 DEF data, ExtensionData, AllFits
  <2>4. l.err = NoError /\ l.data = h.signature_algorithms
    BY <1>5, <2>3, ListBack
  <2>5. [p EXCEPT !.signature_algorithms = h.signature_algorithms]
           = HelloOf(v, c, es, vs, h.signature_algorithms, gs, ps, sni)
    BY <1>12
  <2> HIDE DEF q, l
  <2>6. Unless(l.err, [p EXCEPT !.signature_algorithms = l.data]) = Parsed(q)
    BY <2>1, <2>4, <2>5, ParsedIs
  <2> QED
    BY <1>3, <2>2, <2>6 DEF p, data
<1>9. CASE e = SupportedGroups
  <2> DEFINE l == U16List(Block(data, 2))
  <2>1. q = HelloOf(v, c, es, vs, sigs, h.supported_groups, ps, sni)
    BY <1>9
  <2>2. AbsorbExtension(p, e, data) = Unless(l.err, [p EXCEPT !.supported_groups = l.data])
    BY <1>9 DEF AbsorbExtension
  <2>3. data = Vec(U16s(h.supported_groups), 2) /\ Fits(U16s(h.supported_groups), 2)
    BY <1>1, <1>9 DEF data, ExtensionData, AllFits
  <2>4. l.err = NoError /\ l.data = h.supported_groups
    BY <1>5, <2>3, ListBack
  <2>5. [p EXCEPT !.supported_groups = h.supported_groups]
           = HelloOf(v, c, es, vs, sigs, h.supported_groups, ps, sni)
    BY <1>12
  <2> HIDE DEF q, l
  <2>6. Unless(l.err, [p EXCEPT !.supported_groups = l.data]) = Parsed(q)
    BY <2>1, <2>4, <2>5, ParsedIs
  <2> QED
    BY <1>3, <2>2, <2>6 DEF p, data
<1>10. CASE e = SupportedVersions
  <2> DEFINE l == U16List(Block(data, 1))
  <2>1. q = HelloOf(v, c, es, h.supported_versions, sigs, gs, ps, sni)
    BY <1>10
  <2>2. AbsorbExtension(p, e, data) = Unless(l.err, [p EXCEPT !.supported_versions = l.data])
    BY <1>10 DEF AbsorbExtension
  <2>3. data = Vec(U16s(h.supported_versions), 1) /\ Fits(U16s(h.supported_versions), 1)
    BY <1>1, <1>10 DEF data, ExtensionData, AllFits
  <2>4. l.err = NoError /\ l.data = h.supported_versions
    BY <1>5, <2>3, ListBack
  <2>5. [p EXCEPT !.supported_versions = h.supported_versions]
           = HelloOf(v, c, es, h.supported_versions, sigs, gs, ps, sni)
    BY <1>12
  <2> HIDE DEF q, l
  <2>6. Unless(l.err, [p EXCEPT !.supported_versions = l.data]) = Parsed(q)
    BY <2>1, <2>4, <2>5, ParsedIs
  <2> QED
    BY <1>3, <2>2, <2>6 DEF p, data
<1>11. CASE e \notin {ServerName, Alpn, SignatureAlgorithms, SupportedGroups, SupportedVersions}
  <2>1. q = HelloOf(v, c, es, vs, sigs, gs, ps, sni)
    BY <1>11
  <2>2. AbsorbExtension(p, e, data) = Parsed(p)
    BY <1>11 DEF AbsorbExtension
  <2> HIDE DEF q
  <2> QED
    BY <1>2, <1>3, <2>1, <2>2 DEF p, data
<1> QED
  BY <1>6, <1>7, <1>8, <1>9, <1>10, <1>11

(* Before the first extension, and behind the last. *)
LEMMA AbsorbedNone ==
    ASSUME NEW h \in Hellos
    PROVE  Absorbed(h, 0) = NewHello(h.legacy_version, h.cipher_suites)
<1>1. SubSeq(h.extensions, 1, 0) = <<>>
  BY HelloFields
<1>2. \A e : ~Seen(h, 0, e)
  BY DEF Seen
<1>3. \A e, what, none : Said(h, 0, e, what, none) = none
  BY <1>2 DEF Said
<1> QED
  BY <1>1, <1>3 DEF Absorbed, NewHello, HelloOf

LEMMA AbsorbedAll ==
    ASSUME NEW h \in Hellos, SaysWhatItLists(h)
    PROVE  Absorbed(h, Len(h.extensions)) = h
<1> DEFINE es == h.extensions
           n == Len(es)
<1>1. es \in Seq(Word)
  BY HelloFields
<1>2. SubSeq(es, 1, n) = es /\ DOMAIN es = 1..n
  <2> HIDE DEF es
  <2> QED BY <1>1
<1>3. \A e : Seen(h, n, e) <=> e \in Range(es)
  BY <1>2 DEF Seen, Range
<1>4. \A e, what, none : Said(h, n, e, what, none) = IF e \in Range(es) THEN what ELSE none
  BY <1>3 DEF Said
<1>5. /\ Said(h, n, SupportedVersions, h.supported_versions, <<>>) = h.supported_versions
      /\ Said(h, n, SignatureAlgorithms, h.signature_algorithms, <<>>) = h.signature_algorithms
      /\ Said(h, n, SupportedGroups, h.supported_groups, <<>>) = h.supported_groups
      /\ Said(h, n, Alpn, h.alpn, <<>>) = h.alpn
      /\ Said(h, n, ServerName, h.server_name, NoHost) = h.server_name
  <2> HIDE DEF n
  <2> QED BY <1>4 DEF SaysWhatItLists
<1>6. h = HelloOf(h.legacy_version, h.cipher_suites, h.extensions, h.supported_versions,
                  h.signature_algorithms, h.supported_groups, h.alpn, h.server_name)
  BY HelloFields
<1> QED
  BY <1>2, <1>5, <1>6, Zenon DEF Absorbed

(* The extensions one behind the other. *)
LEMMA ExtensionsBack ==
    ASSUME NEW h, NEW aside, WellFormed(h, aside)
    PROVE  AbsorbExtensions(NewHello(h.legacy_version, h.cipher_suites), Read(<<>>, ExtensionItems(h, aside)))
              = Parsed(h)
<1> DEFINE items == ExtensionItems(h, aside)
           exts == Read(<<>>, items)
           N == Len(h.extensions)
           start == NewHello(h.legacy_version, h.cipher_suites)
           g == [n \in 0..N |-> Parsed(Absorbed(h, n))]
           Solves(f) == f = [n \in 0..N |-> IF n = 0 THEN Parsed(start) ELSE AbsorbNext(f[n - 1], items[n])]
           absorbed == CHOOSE f : Solves(f)
<1>1. h \in Hellos /\ SaysWhatItLists(h)
  BY DEF WellFormed
<1>2. h.extensions \in Seq(Word)
  BY <1>1, HelloFields
<1>3. N \in Nat /\ \A n \in 1..N : h.extensions[n] \in Word
  BY <1>2
<1>4. /\ Len(items) = N
      /\ \A n \in 1..N : items[n] = [type |-> U16(h.extensions[n]),
                                     data |-> ExtensionData(h, aside, h.extensions[n])]
  BY ExtensionsAreSendable
<1>5. exts.items = items /\ exts.err = NoError
  BY ReadIs
<1>6. Absorbed(h, 0) = start /\ Absorbed(h, N) = h
  BY <1>1, AbsorbedNone, AbsorbedAll
<1> HIDE DEF items, start, exts
<1>7. ASSUME NEW n \in 1..N
      PROVE  AbsorbNext(Parsed(Absorbed(h, n - 1)), items[n]) = Parsed(Absorbed(h, n))
  <2> DEFINE e == h.extensions[n]
             p == Parsed(Absorbed(h, n - 1))
             item == items[n]
  <2> DEFINE x == U16(e)
             d == ExtensionData(h, aside, e)
  <2>0. item = [type |-> x, data |-> d]
    BY <1>4
  <2> HIDE DEF x, d, item
  <2>1. item.type = U16(e) /\ item.data = ExtensionData(h, aside, e)
    BY <2>0 DEF x, d
  <2>2. BigEndian(U16(e)) = e
    BY <1>3, TypeOfExtension
  <2>3. p.err = NoError /\ p.hello = Absorbed(h, n - 1)
    BY ParsedIs
  <2>4. AbsorbExtension(Listed(Absorbed(h, n - 1), e), e, ExtensionData(h, aside, e)) = Parsed(Absorbed(h, n))
    BY AbsorbStep
  <2> HIDE DEF e, p, item
  <2>5. AbsorbNext(p, item) = AbsorbExtension(Listed(p.hello, BigEndian(item.type)), BigEndian(item.type), item.data)
    BY <2>3 DEF AbsorbNext
  <2> QED
    BY <2>1, <2>2, <2>3, <2>4, <2>5 DEF p, item
<1> HIDE DEF N
<1>8. Solves(g)
  <2>1. ASSUME NEW n \in 0..N
        PROVE  g[n] = IF n = 0 THEN Parsed(start) ELSE AbsorbNext(g[n - 1], items[n])
    <3>1. n # 0 => n \in 1..N /\ n - 1 \in 0..N
      BY <1>3
    <3>2. g[n] = Parsed(Absorbed(h, n)) /\ (n # 0 => g[n - 1] = Parsed(Absorbed(h, n - 1)))
      BY <3>1
    <3> HIDE DEF g
    <3> QED
      BY <1>6, <1>7, <3>1, <3>2
  <2>2. g = [n \in 0..N |-> g[n]]
    OBVIOUS
  <2> HIDE DEF g
  <2> QED
    BY <2>1, <2>2
<1>9. Solves(absorbed)
  <2> HIDE DEF Solves, g
  <2> QED BY <1>8
<1> HIDE DEF absorbed
<1> DEFINE G == {n \in 0..N : absorbed[n] = Parsed(Absorbed(h, n))}
<1>10. 0 \in G
  BY <1>3, <1>6, <1>9
<1>11. ASSUME NEW n \in 1..N, n - 1 \in G PROVE n \in G
  <2>1. n \in 0..N /\ n # 0 /\ absorbed[n - 1] = Parsed(Absorbed(h, n - 1))
    BY <1>3, <1>11
  <2>2. absorbed[n] = AbsorbNext(absorbed[n - 1], items[n])
    BY <1>9, <2>1
  <2>3. absorbed[n] = Parsed(Absorbed(h, n))
    BY <1>7, <2>1, <2>2
  <2> QED
    BY <2>1, <2>3
<1> HIDE DEF G
<1>12. \A n \in 0..N : n \in G
  BY <1>3, <1>10, <1>11, UpTo
<1>13. N \in G
  BY <1>3, <1>12
<1>14. absorbed[N] = Parsed(h)
  BY <1>6, <1>13 DEF G
<1> DEFINE taken == CHOOSE f : f = [n \in 0..Len(exts.items) |->
                        IF n = 0 THEN Parsed(start) ELSE AbsorbNext(f[n - 1], exts.items[n])]
           all == taken[Len(exts.items)]
<1>15. AbsorbExtensions(start, exts) = IF all.err = NoError /\ exts.err # NoError THEN Refused(exts.err) ELSE all
  BY DEF AbsorbExtensions
<1>16. all = absorbed[N]
  BY <1>4, <1>5 DEF absorbed
<1> HIDE DEF all
<1> QED
  BY <1>5, <1>14, <1>15, <1>16 DEF start, exts, items

(* The fields of a body, one read from what the other left. *)
InOrder(m, version, random, session, cs, methods, ext) ==
    \E a, b, c, d : /\ Take(m, 2) = Got(version, a) /\ Take(a, RandomLen) = Got(random, b)
                    /\ Block(b, 1) = Got(session, c) /\ Block(c, 2) = Got(cs, d)
                    /\ Block(d, 1) = Got(methods, ext)

(* The fields ahead of the extensions, in their order. *)
LEMMA FieldsBack ==
    ASSUME NEW v \in Word, NEW random \in Seq(Byte), Len(random) = RandomLen,
           NEW session \in Seq(Byte), Fits(session, 1), NEW methods \in Seq(Byte), Fits(methods, 1),
           NEW cs \in Seq(Byte), Fits(cs, 2), NEW ext \in Seq(Byte),
           NEW m, m = U16(v) \o (random \o (Vec(session, 1) \o (Vec(cs, 2) \o (Vec(methods, 1) \o ext))))
    PROVE  /\ m \in Seq(Byte)
           /\ InOrder(m, U16(v), random, session, cs, methods, ext)
<1> DEFINE d == Vec(methods, 1) \o ext
           c == Vec(cs, 2) \o d
           b == Vec(session, 1) \o c
           a == random \o b
<1>1. Vec(methods, 1) \in Seq(Byte) /\ Vec(cs, 2) \in Seq(Byte) /\ Vec(session, 1) \in Seq(Byte)
  BY VecBytes
<1>2. d \in Seq(Byte)
  BY <1>1, Concat
<1>3. Block(d, 1) = Got(methods, ext)
  BY BlockOfVec
<1> HIDE DEF d
<1>4. c \in Seq(Byte)
  BY <1>1, <1>2, Concat
<1>5. Block(c, 2) = Got(cs, d)
  BY <1>2, BlockOfVec
<1> HIDE DEF c
<1>6. b \in Seq(Byte)
  BY <1>1, <1>4, Concat
<1>7. Block(b, 1) = Got(session, c)
  BY <1>4, BlockOfVec
<1> HIDE DEF b
<1>8. a \in Seq(Byte)
  BY <1>6, Concat
<1>9. Take(a, RandomLen) = Got(random, b)
  BY <1>6, TakeAhead
<1> HIDE DEF a
<1>10. U16(v) \in Seq(Byte) /\ Len(U16(v)) = 2
  BY TypeOfExtension
<1>11. m = U16(v) \o a
  BY DEF a, b, c, d
<1>12. m \in Seq(Byte)
  BY <1>8, <1>10, <1>11, Concat
<1>13. Take(m, 2) = Got(U16(v), a)
  BY <1>8, <1>10, <1>11, TakeAhead
<1>14. InOrder(m, U16(v), random, session, cs, methods, ext)
  BY <1>3, <1>5, <1>7, <1>9, <1>13, Zenon DEF InOrder
<1> QED
  BY <1>12, <1>14

(* The body of a hello, read back; one with half a cipher suite is refused. *)
LEMMA BodyBack ==
    ASSUME NEW h, NEW aside, WellFormed(h, aside)
    PROVE  /\ Body(h, aside) \in Seq(Byte)
           /\ aside.stray = <<>> => ParseBody(Body(h, aside)) = Parsed(h)
           /\ Len(aside.stray) = 1 => ParseBody(Body(h, aside)) = Refused("Malformed")
<1> DEFINE items == ExtensionItems(h, aside)
           bytes == EncodeEntries(items, 2)
           ext == IF h.extensions = <<>> THEN <<>> ELSE Vec(bytes, 2)
           cs == CipherBytes(h, aside)
           v == h.legacy_version
           methods == aside.methods
           m == Body(h, aside)
           version == Take(m, 2)
           random == Take(version.rest, RandomLen)
           session == Block(random.rest, 1)
           list == Block(session.rest, 2)
           ciphers == U16List(list)
           meth == Block(ciphers.rest, 1)
           hello == NewHello(BigEndian(version.data), ciphers.data)
<1>1. h \in Hellos /\ aside \in Asides(h) /\ AllFits(h, aside) /\ Len(aside.random) = RandomLen
  BY DEF WellFormed
<1>2. v \in Word /\ h.cipher_suites \in Seq(Word) /\ h.extensions \in Seq(Word)
  BY <1>1, HelloFields
<1>3. aside.random \in Seq(Byte) /\ aside.session \in Seq(Byte) /\ methods \in Seq(Byte) /\ aside.stray \in Seq(Byte)
  BY <1>1, AsideFields
<1>4. Fits(aside.session, 1) /\ Fits(methods, 1) /\ Fits(cs, 2) /\ Fits(bytes, 2)
  BY <1>1 DEF AllFits
<1>5. bytes \in Seq(Byte) /\ Entries(bytes, 2, 2) = Read(<<>>, items)
  BY ExtensionsAreSendable, EntriesBack
<1>6. cs = U16s(h.cipher_suites) \o aside.stray
  BY DEF CipherBytes
<1>7. U16s(h.cipher_suites) \in Seq(Byte)
  BY <1>2, U16sBytes
<1>8. cs \in Seq(Byte)
  BY <1>3, <1>6, <1>7, Concat
<1> HIDE DEF bytes, items, cs
<1>9. ext \in Seq(Byte)
  BY <1>4, <1>5, VecBytes
<1>10. m = U16(v) \o (aside.random \o (Vec(aside.session, 1) \o (Vec(cs, 2) \o (Vec(methods, 1) \o ext))))
  BY DEF Body, cs, bytes, items
<1> HIDE DEF ext
<1>11. /\ m \in Seq(Byte) /\ version.err = NoError /\ version.data = U16(v)
       /\ random.err = NoError /\ session.err = NoError
       /\ \E d : list = Got(cs, d) /\ Block(d, 1) = Got(methods, ext)
  <2> DEFINE ra == aside.random
             se == aside.session
  <2>1. ra \in Seq(Byte) /\ Len(ra) = RandomLen /\ se \in Seq(Byte) /\ Fits(se, 1)
    BY <1>1, <1>3, <1>4
  <2>2. m = U16(v) \o (ra \o (Vec(se, 1) \o (Vec(cs, 2) \o (Vec(methods, 1) \o ext))))
    BY <1>10
  <2>3. v \in Word /\ methods \in Seq(Byte) /\ Fits(methods, 1) /\ Fits(cs, 2)
    BY <1>2, <1>3, <1>4
  <2> HIDE DEF m, ra, se, methods, v
  <2>4. m \in Seq(Byte) /\ InOrder(m, U16(v), ra, se, cs, methods, ext)
    BY <2>1, <2>2, <2>3, <1>8, <1>9, FieldsBack
  <2>5. PICK a, b, c, d : /\ Take(m, 2) = Got(U16(v), a) /\ Take(a, RandomLen) = Got(ra, b)
                          /\ Block(b, 1) = Got(se, c) /\ Block(c, 2) = Got(cs, d)
                          /\ Block(d, 1) = Got(methods, ext)
    BY <2>4 DEF InOrder
  <2>6. version.err = NoError /\ version.data = U16(v) /\ version.rest = a
    BY <2>5, GotIs
  <2>7. random.err = NoError /\ random.rest = b
    BY <2>5, <2>6, GotIs
  <2>8. session.err = NoError /\ session.rest = c
    BY <2>5, <2>7, GotIs
  <2>9. list = Got(cs, d)
    BY <2>5, <2>8
  <2> HIDE DEF version, random, session, list
  <2> QED
    BY <2>4, <2>5, <2>6, <2>7, <2>8, <2>9
<1>12. PICK d : list = Got(cs, d) /\ Block(d, 1) = Got(methods, ext)
  BY <1>11
<1>13. ParseBody(m) =
          IF version.err # NoError THEN Refused(version.err)
          ELSE IF random.err # NoError THEN Refused(random.err)
          ELSE IF session.err # NoError THEN Refused(session.err)
          ELSE IF ciphers.err # NoError THEN Refused(ciphers.err)
          ELSE IF meth.err # NoError THEN Refused(meth.err)
          ELSE IF meth.rest = <<>> THEN Parsed(hello)
          ELSE ParseExtensions(hello, Block(meth.rest, 2))
  BY DEF ParseBody
<1> HIDE DEF m, version, random, session, list
<1>14. ASSUME aside.stray = <<>> PROVE ParseBody(m) = Parsed(h)
  <2>1. cs = U16s(h.cipher_suites)
    BY <1>6, <1>7, <1>14, ConcatEmptySeq
  <2>2. ciphers = Got(h.cipher_suites, d)
    BY <1>2, <1>12, <2>1, U16ListBack
  <2>3. ciphers.err = NoError /\ ciphers.data = h.cipher_suites /\ ciphers.rest = d
    BY <2>2, GotIs
  <2>4. meth = Got(methods, ext)
    <3> HIDE DEF ciphers
    <3> QED BY <1>12, <2>3
  <2>5. meth.err = NoError /\ meth.rest = ext
    BY <2>4, GotIs
  <2>6. hello = NewHello(v, h.cipher_suites)
    <3>1. BigEndian(version.data) = v
      BY <1>2, <1>11, TypeOfExtension
    <3> HIDE DEF ciphers, v
    <3> QED
      BY <2>3, <3>1
  <2> HIDE DEF ciphers, meth, hello
  <2>7. ParseBody(m) = IF ext = <<>> THEN Parsed(hello) ELSE ParseExtensions(hello, Block(ext, 2))
    BY <1>11, <1>13, <2>3, <2>5
  <2>8. CASE h.extensions = <<>>
    <3>1. ext = <<>>
      BY <2>8 DEF ext
    <3>2. Len(h.extensions) = 0
      BY <2>8
    <3>3. Absorbed(h, 0) = hello /\ Absorbed(h, Len(h.extensions)) = h
      BY <1>1, <2>6, AbsorbedNone, AbsorbedAll DEF WellFormed
    <3> QED
      BY <2>7, <3>1, <3>2, <3>3
  <2>9. CASE h.extensions # <<>>
    <3>1. ext = Vec(bytes, 2)
      BY <2>9 DEF ext
    <3>2. ext # <<>> /\ Block(ext, 2) = Got(bytes, <<>>)
      BY <1>4, <1>5, <3>1, BlockOfVecAlone, VecIsNotEmpty
    <3>3. Block(ext, 2).err = NoError /\ Block(ext, 2).data = bytes
      BY <3>2, GotIs
    <3>4. ParseExtensions(hello, Block(ext, 2)) = AbsorbExtensions(hello, Read(<<>>, items))
      BY <1>5, <3>3 DEF ParseExtensions
    <3>5. AbsorbExtensions(hello, Read(<<>>, items)) = Parsed(h)
      BY <2>6, ExtensionsBack DEF items
    <3> QED
      BY <2>7, <3>2, <3>4, <3>5
  <2> QED
    BY <2>8, <2>9
<1>15. ASSUME Len(aside.stray) = 1 PROVE ParseBody(m) = Refused("Malformed")
  <2>1. ciphers = Ends("Malformed")
    BY <1>2, <1>3, <1>6, <1>12, <1>15, HalfIsMalformed
  <2>2. ciphers.err = "Malformed" /\ "Malformed" # NoError
    BY <2>1, ParserAssumption DEF Ends
  <2> HIDE DEF ciphers, meth, hello
  <2> QED
    BY <1>11, <1>13, <2>2
<1> QED
  BY <1>11, <1>14, <1>15 DEF m

-----------------------------------------------------------------------------
(* Records and handshakes. *)

(* A stretch of a stream. *)
LEMMA SliceIs ==
    ASSUME NEW b \in Seq(Byte), NEW m \in 1..(Len(b) + 1), NEW n \in (m - 1)..Len(b)
    PROVE  /\ SubSeq(b, m, n) \in Seq(Byte)
           /\ Len(SubSeq(b, m, n)) = (n - m) + 1
           /\ \A i \in 1..((n - m) + 1) : SubSeq(b, m, n)[i] = b[(m + i) - 1]
<1>1. Len(b) \in Nat /\ m \in Int /\ n \in Int /\ m >= 1 /\ n <= Len(b) /\ m - 1 <= n
  BY LenProperties
<1>2. \A i \in m..n : b[i] \in Byte
  BY <1>1, LenProperties
<1>3. /\ SubSeq(b, m, n) \in Seq(Byte)
      /\ Len(SubSeq(b, m, n)) = IF m <= n THEN n - m + 1 ELSE 0
      /\ \A i \in 1..n-m+1 : SubSeq(b, m, n)[i] = b[m + i - 1]
  BY <1>1, <1>2, SubSeqProperties
<1> QED
  BY <1>1, <1>3

(* A reader that has enough is split in two. *)
LEMMA TakeSplits ==
    ASSUME NEW b \in Seq(Byte), NEW k \in 0..Len(b), NEW m, m = k + 1
    PROVE  Take(b, k) = Got(SubSeq(b, 1, k), SubSeq(b, m, Len(b)))
<1>1. Len(b) \in Nat /\ ~(k > Len(b))
  BY LenProperties
<1> QED
  BY <1>1 DEF Take, Got

LEMMA TakeFails ==
    ASSUME NEW b \in Seq(Byte), NEW k \in Nat, k > Len(b)
    PROVE  Take(b, k) = Ends("Truncated")
BY DEF Take

LEMMA TwoBytes == \A x, y \in Byte : 256 * x + y \in Nat
BY DEF Byte

LEMMA EndsIs ==
    ASSUME NEW e
    PROVE  Ends(e).err = e /\ Ends(e).rest = <<>>
BY DEF Ends

LEMMA RefusedIs ==
    ASSUME NEW e
    PROVE  Refused(e).err = e
BY DEF Refused

(* A block behind two bytes of length: too short, or to the end. *)
LEMMA BlockAtTheEnd ==
    ASSUME NEW r \in Seq(Byte), Len(r) >= 2, NEW k, k = 256 * r[1] + r[2]
    PROVE  /\ k > Len(r) - 2 => Block(r, 2) = Ends("Truncated")
           /\ k = Len(r) - 2 => Block(r, 2).err = NoError /\ Block(r, 2).data = SubSeq(r, 3, Len(r))
<1> DEFINE l == SubSeq(r, 1, 2)
           rest == SubSeq(r, 3, Len(r))
<1>0. Len(r) \in Nat /\ 1 \in 1..(Len(r) + 1) /\ 2 \in (1 - 1)..Len(r) /\ 2 \in 0..Len(r)
      /\ 3 \in 1..(Len(r) + 1) /\ Len(r) \in (3 - 1)..Len(r)
  BY LenProperties
<1>1. l \in Seq(Byte) /\ Len(l) = 2 /\ l[1] = r[1] /\ l[2] = r[2]
  <2>1. l \in Seq(Byte) /\ Len(l) = (2 - 1) + 1 /\ \A i \in 1..((2 - 1) + 1) : l[i] = r[(1 + i) - 1]
    BY <1>0, SliceIs
  <2> HIDE DEF l
  <2> QED
    BY <2>1
<1>2. rest \in Seq(Byte) /\ Len(rest) = Len(r) - 2
  <2>1. rest \in Seq(Byte) /\ Len(rest) = (Len(r) - 3) + 1
    BY <1>0, SliceIs
  <2> HIDE DEF rest
  <2> QED
    BY <1>0, <2>1
<1>3. Take(r, 2) = Got(l, rest)
  <2>1. 3 = 2 + 1
    OBVIOUS
  <2> QED
    BY <1>0, <2>1, TakeSplits
<1>4. k \in Nat
  <2>1. r[1] \in Byte /\ r[2] \in Byte
    BY <1>0, LenProperties
  <2> QED
    BY <2>1, TwoBytes, Zenon
<1> HIDE DEF l, rest
<1>5. BigEndian(l) = k
  BY <1>1 DEF BigEndian
<1>6. Block(r, 2) = Take(rest, k)
  <2>1. Behind(Got(l, rest)) = Take(rest, k)
    BY <1>5, GotIs DEF Behind
  <2> QED
    BY <1>3, <2>1 DEF Block
<1>7. ASSUME k > Len(r) - 2 PROVE Block(r, 2) = Ends("Truncated")
  BY <1>2, <1>4, <1>6, <1>7, TakeFails
<1>8. ASSUME k = Len(r) - 2 PROVE Block(r, 2).err = NoError /\ Block(r, 2).data = rest
  <2>1. k \in 0..Len(rest) /\ k = Len(rest)
    BY <1>0, <1>2, <1>8
  <2> DEFINE x == SubSeq(rest, k + 1, Len(rest))
  <2>2. Take(rest, k) = Got(SubSeq(rest, 1, k), x)
    BY <1>2, <2>1, TakeSplits
  <2> HIDE DEF x
  <2>3. SubSeq(rest, 1, k) = rest
    BY <1>2, <2>1, SubSeqFull
  <2>4. Block(r, 2) = Got(rest, x)
    BY <1>6, <2>2, <2>3
  <2> QED
    BY <2>4, GotIs
<1> QED
  BY <1>7, <1>8 DEF rest

(* A record of the handshake: cut short, or there to its end. *)
LEMMA RecordReads ==
    ASSUME NEW b \in Seq(Byte), Len(b) >= RecordHeaderLen, b[1] = ContentTypeHandshake
    PROVE  /\ Len(b) < Total(b) => Parse(b) = Refused("Truncated")
           /\ Len(b) = Total(b) => Parse(b) = ParseHandshake(SubSeq(b, RecordHeaderLen + 1, Len(b)))
<1> DEFINE n == Len(b)
           r == SubSeq(b, 4, n)
           body == SubSeq(b, 6, n)
           header == Take(b, 3)
           record == Block(header.rest, 2)
<1>0. n \in Nat /\ n >= 5 /\ b # <<>>
  BY LenProperties DEF RecordHeaderLen
<1>1. r \in Seq(Byte) /\ Len(r) = n - 3 /\ \A i \in 1..(n - 3) : r[i] = b[i + 3]
  <2>1. 4 \in 1..(n + 1) /\ n \in (4 - 1)..n
    BY <1>0
  <2>2. r \in Seq(Byte) /\ Len(r) = (n - 4) + 1 /\ \A i \in 1..((n - 4) + 1) : r[i] = b[(4 + i) - 1]
    BY <2>1, SliceIs
  <2> HIDE DEF r, n
  <2> QED
    BY <1>0, <2>2
<1>2. body \in Seq(Byte) /\ Len(body) = n - 5 /\ \A i \in 1..(n - 5) : body[i] = b[i + 5]
  <2>1. 6 \in 1..(n + 1) /\ n \in (6 - 1)..n
    BY <1>0
  <2>2. body \in Seq(Byte) /\ Len(body) = (n - 6) + 1 /\ \A i \in 1..((n - 6) + 1) : body[i] = b[(6 + i) - 1]
    BY <2>1, SliceIs
  <2> HIDE DEF body, n
  <2> QED
    BY <1>0, <2>2
<1>3. header.err = NoError /\ header.rest = r
  <2>1. 3 \in 0..Len(b)
    BY <1>0
  <2>2. 4 = 3 + 1
    OBVIOUS
  <2> DEFINE x == SubSeq(b, 1, 3)
  <2>3. Take(b, 3) = Got(x, r)
    BY <2>1, <2>2, TakeSplits
  <2> HIDE DEF x, r
  <2> QED
    BY <2>3, GotIs
<1>4. SubSeq(r, 3, Len(r)) = body
  <2> DEFINE x == SubSeq(r, 3, Len(r))
  <2>0. 3 \in 1..(Len(r) + 1) /\ Len(r) \in (3 - 1)..Len(r)
    BY <1>0, <1>1
  <2>1. x \in Seq(Byte) /\ Len(x) = (Len(r) - 3) + 1 /\ \A i \in 1..((Len(r) - 3) + 1) : x[i] = r[(3 + i) - 1]
    BY <1>1, <2>0, SliceIs
  <2> HIDE DEF x, r, body, n
  <2>2. Len(x) = Len(body) /\ \A i \in 1..Len(x) : x[i] = body[i]
    BY <1>0, <1>1, <1>2, <2>1
  <2>3. x = body
    BY <1>2, <2>1, <2>2, SeqEqual
  <2> QED
    BY <2>3 DEF x
<1>5. Total(b) = (256 * r[1] + r[2]) + 5 /\ b[4] \in Byte /\ b[5] \in Byte
  <2>1. r[1] = b[4] /\ r[2] = b[5]
    BY <1>0, <1>1
  <2>2. b[4] \in Byte /\ b[5] \in Byte
    BY <1>0, LenProperties
  <2> QED
    BY <2>1, <2>2 DEF Total, RecordHeaderLen, Byte
<1>6. r[1] \in Byte /\ r[2] \in Byte /\ Len(r) >= 2
  BY <1>0, <1>1, LenProperties
<1>7. Parse(b) = IF record.err # NoError THEN Refused(record.err) ELSE ParseHandshake(record.data)
  <2>1. Parse(b) = IF b = <<>> THEN Refused("Truncated")
                   ELSE IF b[1] = ContentTypeHandshake
                        THEN IF header.err # NoError THEN Refused(header.err)
                             ELSE IF record.err # NoError THEN Refused(record.err)
                             ELSE ParseHandshake(record.data)
                   ELSE IF b[1] = HandshakeTypeClientHello THEN ParseHandshake(b)
                   ELSE Refused("NotClientHello")
    BY DEF Parse
  <2> HIDE DEF header, record
  <2> QED
    BY <1>0, <1>3, <2>1
<1> HIDE DEF header, r, body
<1>8. record = Block(r, 2)
  BY <1>3
<1> DEFINE k == 256 * r[1] + r[2]
<1>9. /\ k > Len(r) - 2 => Block(r, 2) = Ends("Truncated")
      /\ k = Len(r) - 2 => Block(r, 2).err = NoError /\ Block(r, 2).data = SubSeq(r, 3, Len(r))
  BY <1>1, <1>6, BlockAtTheEnd
<1>10. k \in Nat /\ Total(b) = k + 5
  BY <1>5, <1>6, TwoBytes, Zenon
<1> HIDE DEF k, record
<1>11. ASSUME n < Total(b) PROVE Parse(b) = Refused("Truncated")
  <2>1. k > Len(r) - 2
    BY <1>0, <1>1, <1>10, <1>11
  <2>2. record.err = "Truncated"
    BY <1>8, <1>9, <2>1, EndsIs
  <2> QED
    BY <1>7, <2>2, ParserAssumption
<1>12. ASSUME n = Total(b) PROVE Parse(b) = ParseHandshake(body)
  <2>1. k = Len(r) - 2
    BY <1>0, <1>1, <1>10, <1>12
  <2>2. record.err = NoError /\ record.data = body
    BY <1>4, <1>8, <1>9, <2>1
  <2> QED
    BY <1>7, <2>2
<1> QED
  BY <1>11, <1>12 DEF body, RecordHeaderLen

(* A hello on the wire: its type ahead of its body. *)
LEMMA EncodeIs ==
    ASSUME NEW h, NEW aside, WellFormed(h, aside)
    PROVE  /\ Fits(Body(h, aside), 3) /\ Vec(Body(h, aside), 3) \in Seq(Byte)
           /\ Encode(h, aside) = <<1>> \o Vec(Body(h, aside), 3)
           /\ Encode(h, aside) \in Seq(Byte) /\ Fits(Encode(h, aside), 2)
           /\ Len(Encode(h, aside)) = Len(Body(h, aside)) + 4
<1> DEFINE body == Body(h, aside)
           n == Len(body)
           l == <<n \div 65536, (n \div 256) % 256, n % 256>>
           v == Vec(body, 3)
           e == Encode(h, aside)
           one == <<1>>
<1>1. body \in Seq(Byte) /\ n \in Nat
  BY BodyBack, LenProperties
<1>2. e = one \o v /\ v = l \o body
  BY DEF Encode, Vec, Length, HandshakeTypeClientHello
<1>3. Fits(e, 2)
  BY DEF WellFormed
<1> HIDE DEF body, e, v
<1>4. l \in Seq(Nat) /\ Len(l) = 3
  <2>1. n \div 65536 \in Nat /\ (n \div 256) % 256 \in Nat /\ n % 256 \in Nat
    BY <1>1
  <2> HIDE DEF n
  <2> QED
    BY <2>1
<1> HIDE DEF l, n
<1>5. body \in Seq(Nat)
  <2>1. Byte \subseteq Nat
    BY DEF Byte
  <2> QED
    BY <1>1, <2>1, SeqMonotone
<1>6. v \in Seq(Nat) /\ Len(v) = 3 + n
  <2>1. l \o body \in Seq(Nat) /\ Len(l \o body) = Len(l) + Len(body)
    BY <1>4, <1>5, Concat
  <2> QED
    BY <1>2, <1>4, <2>1 DEF n
<1>7. one \in Seq(Nat) /\ Len(one) = 1
  OBVIOUS
<1> HIDE DEF one
<1>8. Len(e) = n + 4
  <2>1. Len(one \o v) = Len(one) + Len(v)
    BY <1>6, <1>7, Concat
  <2> QED
    BY <1>1, <1>2, <1>6, <1>7, <2>1
<1>9. Fits(body, 3)
  BY <1>1, <1>3, <1>8 DEF Fits, Limit, n
<1>10. v \in Seq(Byte)
  BY <1>1, <1>9, VecBytes DEF v
<1>11. one \in Seq(Byte)
  <2>1. 1 \in Byte
    BY DEF Byte
  <2> QED
    BY <2>1 DEF one
<1>12. e \in Seq(Byte)
  BY <1>2, <1>10, <1>11, Concat
<1> QED
  BY <1>2, <1>3, <1>8, <1>9, <1>10, <1>12 DEF body, n, v, e, one

(* A handshake whose type is that of a hello. *)
LEMMA HandshakeReads ==
    ASSUME NEW q \in Seq(Byte), NEW b, b = << 1 >> \o q
    PROVE  ParseHandshake(b) = IF Block(q, 3).err # NoError THEN Refused(Block(q, 3).err)
                               ELSE ParseBody(Block(q, 3).data)
<1> DEFINE one == <<1>>
           type == Take(b, 1)
           message == Block(type.rest, 3)
<1>1. one \in Seq(Byte) /\ Len(one) = 1
  <2>1. 1 \in Byte
    BY DEF Byte
  <2> QED
    BY <2>1
<1> HIDE DEF one
<1>2. type = Got(one, q)
  BY <1>1, TakeAhead DEF one
<1> HIDE DEF type
<1>3. type.err = NoError /\ type.data = one /\ type.rest = q
  BY <1>2, GotIs
<1>4. ParseHandshake(b) = IF type.err # NoError THEN Refused(type.err)
                          ELSE IF type.data # one THEN Refused("NotClientHello")
                          ELSE IF message.err # NoError THEN Refused(message.err)
                          ELSE ParseBody(message.data)
  BY DEF ParseHandshake, type, one, HandshakeTypeClientHello
<1> QED
  BY <1>3, <1>4

(* A whole hello, read back, and one with half a cipher suite. *)
LEMMA HandshakeBack ==
    ASSUME NEW h, NEW aside, WellFormed(h, aside)
    PROVE  /\ aside.stray = <<>> => ParseHandshake(Encode(h, aside)) = Parsed(h)
           /\ Len(aside.stray) = 1 => ParseHandshake(Encode(h, aside)) = Refused("Malformed")
<1> DEFINE body == Body(h, aside)
           v == Vec(body, 3)
<1>1. /\ Fits(body, 3) /\ v \in Seq(Byte) /\ Encode(h, aside) = <<1>> \o v
  BY EncodeIs
<1>2. body \in Seq(Byte)
  BY BodyBack
<1>3. Block(v, 3) = Got(body, <<>>)
  BY <1>1, <1>2, BlockOfVecAlone
<1> HIDE DEF v, body
<1>4. ParseHandshake(Encode(h, aside)) = ParseBody(body)
  <2>1. Block(v, 3).err = NoError /\ Block(v, 3).data = body
    BY <1>3, GotIs
  <2> QED
    BY <1>1, <2>1, HandshakeReads
<1> QED
  BY <1>4, BodyBack DEF body

(* A vector that is not there to its end. *)
LEMMA CutVec ==
    ASSUME NEW s \in Seq(Byte), Fits(s, 3), NEW k \in 0..(Len(s) + 2)
    PROVE  Block(SubSeq(Vec(s, 3), 1, k), 3) = Ends("Truncated")
<1> DEFINE n == Len(s)
           l == Length(n, 3)
           v == Vec(s, 3)
           q == SubSeq(v, 1, k)
<1>1. n \in Nat /\ n < Limit(3)
  BY LenProperties DEF Fits
<1>2. l \in Seq(Byte) /\ Len(l) = 3 /\ BigEndian(l) = n
  BY <1>1, LengthBytes
<1>3. v \in Seq(Byte) /\ Len(v) = 3 + n /\ v = l \o s
  BY VecBytes DEF Vec
<1> HIDE DEF l, v, n
<1>4. q \in Seq(Byte) /\ Len(q) = k /\ k \in Nat /\ \A i \in 1..k : q[i] = v[i]
  <2>1. k \in 0..Len(v) /\ k \in Nat
    BY <1>1, <1>3 DEF n
  <2> QED
    BY <1>3, <2>1, PrefixIs
<1> HIDE DEF q
<1>5. CASE k < 3
  <2>1. Take(q, 3) = Ends("Truncated")
    BY <1>4, <1>5, TakeFails
  <2>2. Behind(Ends("Truncated")) = Ends("Truncated")
    BY EndsIs, ParserAssumption DEF Behind
  <2> QED
    BY <2>1, <2>2 DEF Block, q, v
<1>6. CASE k >= 3
  <2> DEFINE x == SubSeq(q, 1, 3)
             rest == SubSeq(q, 4, k)
  <2>1. Take(q, 3) = Got(x, rest)
    <3>1. 4 = 3 + 1 /\ 3 \in 0..Len(q)
      BY <1>4, <1>6
    <3> QED
      BY <1>4, <3>1, TakeSplits
  <2>2. x = l
    <3>1. 3 \in 0..Len(q)
      BY <1>4, <1>6
    <3>2. x \in Seq(Byte) /\ Len(x) = 3 /\ \A i \in 1..3 : x[i] = q[i]
      BY <1>4, <3>1, PrefixIs
    <3> HIDE DEF x
    <3>3. \A i \in 1..3 : v[i] = l[i]
      <4>1. \A i \in 1..Len(l) : (l \o s)[i] = l[i]
        BY <1>2, Concat
      <4> QED
        BY <1>2, <1>3, <4>1
    <3>4. \A i \in 1..Len(x) : x[i] = l[i]
      BY <1>4, <1>6, <3>2, <3>3
    <3> QED
      BY <1>2, <3>2, <3>4, SeqEqual
  <2>3. rest \in Seq(Byte) /\ Len(rest) = k - 3
    <3>1. 4 \in 1..(Len(q) + 1) /\ k \in (4 - 1)..Len(q)
      BY <1>4, <1>6
    <3>2. rest \in Seq(Byte) /\ Len(rest) = (k - 4) + 1
      BY <1>4, <3>1, SliceIs
    <3> HIDE DEF rest
    <3> QED
      BY <1>4, <3>2
  <2> HIDE DEF x, rest
  <2>4. Take(rest, n) = Ends("Truncated")
    <3>1. n > Len(rest)
      BY <1>1, <1>4, <2>3 DEF n
    <3> QED
      BY <1>1, <2>3, <3>1, TakeFails
  <2>5. Behind(Got(l, rest)) = Ends("Truncated")
    BY <1>2, <2>4, GotIs DEF Behind
  <2> QED
    BY <2>1, <2>2, <2>5 DEF Block, q, v
<1> QED
  BY <1>4, <1>5, <1>6

(* One byte ahead of others. *)
LEMMA OneAhead ==
    ASSUME NEW v \in Seq(Byte)
    PROVE  /\ <<1>> \o v \in Seq(Byte) /\ Len(<<1>> \o v) = Len(v) + 1
           /\ (<<1>> \o v)[1] = 1
           /\ \A i \in 1..Len(v) : (<<1>> \o v)[1 + i] = v[i]
<1> DEFINE one == <<1>>
<1>1. one \in Seq(Byte) /\ Len(one) = 1 /\ one[1] = 1
  <2>1. 1 \in Byte
    BY DEF Byte
  <2> QED
    BY <2>1
<1> HIDE DEF one
<1>2. /\ one \o v \in Seq(Byte) /\ Len(one \o v) = Len(one) + Len(v)
      /\ \A i \in 1..Len(one) : (one \o v)[i] = one[i]
      /\ \A i \in 1..Len(v) : (one \o v)[Len(one) + i] = v[i]
  BY <1>1, Concat
<1>3. (one \o v)[1] = 1
  BY <1>1, <1>2
<1>4. \A i \in 1..Len(v) : (one \o v)[1 + i] = v[i]
  BY <1>1, <1>2
<1>5. Len(one \o v) = Len(v) + 1
  BY <1>1, <1>2, LenProperties
<1> QED
  BY <1>2, <1>3, <1>4, <1>5 DEF one

(* What a record boundary leaves of a hello. *)
LEMMA CutHandshake ==
    ASSUME NEW h, NEW aside, WellFormed(h, aside), NEW k \in 0..(Len(Encode(h, aside)) - 1)
    PROVE  ParseHandshake(SubSeq(Encode(h, aside), 1, k)) = Refused("Truncated")
<1> DEFINE body == Body(h, aside)
           v == Vec(body, 3)
           e == Encode(h, aside)
           p == SubSeq(e, 1, k)
<1>1. /\ Fits(body, 3) /\ v \in Seq(Byte) /\ e = <<1>> \o v
      /\ e \in Seq(Byte) /\ Len(e) = Len(body) + 4
  BY EncodeIs
<1>2. body \in Seq(Byte) /\ Len(body) \in Nat
  BY BodyBack, LenProperties
<1>3. Len(v) = 3 + Len(body)
  BY <1>1, <1>2, VecBytes
<1> HIDE DEF body, v, e
<1>4. k \in Nat /\ k <= Len(body) + 3 /\ k \in 0..Len(e)
  BY <1>1, <1>2 DEF e
<1>5. p \in Seq(Byte) /\ Len(p) = k /\ \A i \in 1..k : p[i] = e[i]
  BY <1>1, <1>4, PrefixIs
<1> HIDE DEF p
<1>6. CASE k = 0
  <2>1. 1 > Len(p)
    BY <1>5, <1>6
  <2>2. Take(p, 1) = Ends("Truncated")
    BY <1>5, <2>1, TakeFails
  <2>3. Take(p, 1).err = "Truncated" /\ "Truncated" # NoError
    BY <2>2, EndsIs, ParserAssumption
  <2>4. ParseHandshake(p) = Refused("Truncated")
    BY <2>3 DEF ParseHandshake
  <2> QED
    BY <2>4 DEF p, e
<1>7. CASE k > 0
  <2> DEFINE q == SubSeq(v, 1, k - 1)
             one == <<1>>
  <2>1. q \in Seq(Byte) /\ Len(q) = k - 1 /\ \A i \in 1..(k - 1) : q[i] = v[i]
    <3>1. k - 1 \in 0..Len(v)
      BY <1>2, <1>3, <1>4, <1>7
    <3> QED
      BY <1>1, <3>1, PrefixIs
  <2>2. Block(q, 3) = Ends("Truncated")
    <3>1. k - 1 \in 0..(Len(body) + 2)
      BY <1>2, <1>4, <1>7
    <3> QED
      BY <1>1, <1>2, <3>1, CutVec DEF v
  <2> HIDE DEF q
  <2>5. /\ one \o q \in Seq(Byte) /\ Len(one \o q) = Len(q) + 1
        /\ (one \o q)[1] = 1 /\ \A i \in 1..Len(q) : (one \o q)[1 + i] = q[i]
    BY <2>1, OneAhead
  <2>6. e[1] = 1 /\ \A i \in 1..Len(v) : e[1 + i] = v[i]
    BY <1>1, OneAhead
  <2> HIDE DEF one
  <2>7. ASSUME NEW i \in 1..k PROVE p[i] = (one \o q)[i]
    <3>1. CASE i = 1
      BY <3>1, <1>5, <1>7, <2>5, <2>6
    <3>2. CASE i > 1
      <4>1. i - 1 \in 1..(k - 1) /\ i - 1 \in 1..Len(v) /\ i = 1 + (i - 1)
        BY <3>2, <1>2, <1>3, <1>4
      <4>2. e[i] = v[i - 1] /\ (one \o q)[i] = q[i - 1] /\ q[i - 1] = v[i - 1]
        <5> DEFINE j == i - 1
        <5>1. j \in 1..(k - 1) /\ j \in 1..Len(v) /\ i = 1 + j
          BY <4>1
        <5> HIDE DEF j
        <5>2. e[i] = v[j] /\ (one \o q)[i] = q[j] /\ q[j] = v[j]
          BY <5>1, <2>1, <2>5, <2>6
        <5> QED
          BY <5>2 DEF j
      <4> QED
        BY <4>2, <1>5
    <3>3. i = 1 \/ i > 1
      <4>1. k \in Nat
        BY <1>4
      <4> QED
        BY <4>1
    <3> QED
      BY <3>1, <3>2, <3>3
  <2>8. p = one \o q
    <3>1. Len(p) = Len(one \o q)
      BY <1>4, <1>5, <2>1, <2>5
    <3> QED
      BY <1>5, <2>5, <2>7, <3>1, SeqEqual
  <2>9. p = <<1>> \o q
    BY <2>8 DEF one
  <2>10. Block(q, 3).err = "Truncated" /\ "Truncated" # NoError
    BY <2>2, EndsIs, ParserAssumption
  <2>11. ParseHandshake(p) = Refused("Truncated")
    BY <2>1, <2>9, <2>10, HandshakeReads
  <2> QED
    BY <2>11 DEF p, e
<1> QED
  BY <1>4, <1>6, <1>7

(* A record says how long it is, and the handshake is behind its header. *)
LEMMA RecordIs ==
    ASSUME NEW p \in Seq(Byte), Fits(p, 2)
    PROVE  /\ Record(p) \in Seq(Byte) /\ Len(Record(p)) = 5 + Len(p)
           /\ Record(p)[1] = 22 /\ Total(Record(p)) = 5 + Len(p)
           /\ SubSeq(Record(p), 6, 5 + Len(p)) = p
<1> DEFINE n == Len(p)
           head == <<22, 3, 1>>
           l == Length(n, 2)
           hl == head \o l
           r == Record(p)
<1>1. n \in Nat /\ n < Limit(2)
  BY LenProperties DEF Fits
<1>2. l \in Seq(Byte) /\ Len(l) = 2 /\ BigEndian(l) = n
  BY <1>1, LengthBytes
<1>3. head \in Seq(Byte) /\ Len(head) = 3 /\ head[1] = 22
  <2>1. 22 \in Byte /\ 3 \in Byte /\ 1 \in Byte
    BY DEF Byte
  <2> HIDE DEF Byte
  <2> QED
    BY <2>1
<1>4. r = head \o (l \o p)
  BY DEF Record, Vec, ContentTypeHandshake
<1> HIDE DEF head, l, r, n
<1>4a. head \in Seq(Byte)
  BY <1>3
<1>4b. l \in Seq(Byte)
  BY <1>2
<1>5. /\ hl \in Seq(Byte) /\ Len(hl) = Len(head) + Len(l)
      /\ \A i \in 1..Len(head) : hl[i] = head[i]
      /\ \A i \in 1..Len(l) : hl[Len(head) + i] = l[i]
  BY <1>4a, <1>4b, Concat
<1>6. r = hl \o p
  <2>1. (head \o l) \o p = head \o (l \o p)
    BY <1>4a, <1>4b, ConcatAssociative
  <2> QED
    BY <1>4, <2>1
<1> HIDE DEF hl
<1>7. Len(hl) = 5 /\ hl[1] = 22 /\ hl[4] = l[1] /\ hl[5] = l[2]
  BY <1>2, <1>3, <1>5
<1>8. /\ r \in Seq(Byte) /\ Len(r) = Len(hl) + Len(p)
      /\ \A i \in 1..Len(hl) : r[i] = hl[i]
  <2>1. hl \in Seq(Byte)
    BY <1>5
  <2>2. /\ hl \o p \in Seq(Byte) /\ Len(hl \o p) = Len(hl) + Len(p)
        /\ \A i \in 1..Len(hl) : (hl \o p)[i] = hl[i]
    BY <2>1, Concat
  <2> QED
    BY <1>6, <2>2
<1>9. r[1] = 22 /\ r[4] = l[1] /\ r[5] = l[2] /\ Len(r) = 5 + n
  BY <1>7, <1>8 DEF n
<1>10. Total(r) = 5 + n
  <2>1. BigEndian(l) = 256 * l[1] + l[2]
    BY <1>2 DEF BigEndian
  <2>2. 256 * l[1] + l[2] = n
    BY <2>1, <1>2
  <2>3. Total(r) = (256 * l[1] + l[2]) + 5
    BY <1>9, Zenon DEF Total, RecordHeaderLen
  <2> QED
    BY <1>1, <2>2, <2>3
<1>11. SubSeq(r, 6, 5 + n) = p
  <2>1. SubSeq(hl \o p, Len(hl) + 1, Len(hl \o p)) = p
    BY <1>5, Parts
  <2>2. Len(hl) + 1 = 6 /\ Len(hl \o p) = 5 + n
    BY <1>6, <1>7, <1>9
  <2> QED
    BY <1>6, <2>1, <2>2
<1> QED
  BY <1>8, <1>9, <1>10, <1>11 DEF r, n

(* A stream that begins with a record: the record is what its header says. *)
LEMMA StreamOfRecord ==
    ASSUME NEW p \in Seq(Byte), Fits(p, 2), NEW w \in Seq(Byte), IsPrefix(Record(p), w)
    PROVE  /\ Len(w) >= 5 /\ w[1] = 22 /\ Total(w) = 5 + Len(p)
           /\ SubSeq(w, 1, Total(w)) = Record(p)
<1> DEFINE r == Record(p)
           n == Len(r)
           x == SubSeq(w, 1, n)
<1>1. r \in Seq(Byte) /\ n = 5 + Len(p) /\ r[1] = 22 /\ Total(r) = n
  BY RecordIs
<1>2. Len(p) \in Nat /\ Len(w) \in Nat /\ n \in Nat
  BY <1>1, LenProperties
<1>3. n <= Len(w) /\ x = r
  <2>1. n <= Len(w) /\ SubSeq(r, 1, n) = x
    BY DEF IsPrefix
  <2>2. SubSeq(r, 1, n) = r
    BY <1>1, SubSeqFull
  <2> QED
    BY <2>1, <2>2
<1> HIDE DEF r, x
<1>4. n \in RecordHeaderLen..Len(w) /\ n \in 0..Len(w)
  BY <1>1, <1>2, <1>3 DEF RecordHeaderLen
<1>5. Total(x) = Total(w)
  BY <1>4, TotalOfPrefix DEF x
<1>6. x[1] = w[1]
  <2>1. \A i \in 1..n : x[i] = w[i]
    BY <1>4, PrefixIs DEF x
  <2> QED
    BY <1>1, <1>2, <2>1
<1>7. Total(w) = n
  BY <1>1, <1>3, <1>5
<1> QED
  BY <1>1, <1>2, <1>3, <1>6, <1>7 DEF r, x

(* How the first bytes of a stream must read. *)
ReadsAsSent(s, w, b) ==
    LET read == Parse(b)
        cut  == w[1] = ContentTypeHandshake /\ Len(b) < Total(w)
    IN /\ read.err = IF cut THEN "Truncated" ELSE s.reads
       /\ read.err = NoError =>
             /\ read.hello = s.hello
             /\ Parse(SubSeq(b, RecordHeaderLen + 1, Len(b))) = read

(* What the capture hands over of a stream. *)
Handed(w, b) ==
    /\ w \in Seq(Byte)
    /\ \E n \in RecordHeaderLen..Len(w) : n <= Total(w) /\ b = SubSeq(w, 1, n)

LEMMA HandedIs ==
    ASSUME NEW w, NEW b, Handed(w, b)
    PROVE  /\ w \in Seq(Byte) /\ b \in Seq(Byte) /\ Len(b) \in Nat /\ Len(b) >= RecordHeaderLen
           /\ Len(b) <= Len(w) /\ Len(w) \in Nat
           /\ b[1] = w[1] /\ Total(b) = Total(w) /\ Total(w) \in Nat /\ Len(b) <= Total(w)
           /\ \A i \in 1..Len(b) : b[i] = w[i]
           /\ b = SubSeq(w, 1, Len(b))
<1>1. PICK n \in RecordHeaderLen..Len(w) : n <= Total(w) /\ b = SubSeq(w, 1, n)
  BY DEF Handed
<1>2. w \in Seq(Byte)
  BY DEF Handed
<1>3. Len(w) \in Nat /\ n \in 0..Len(w) /\ n \in Nat /\ n >= 5
  BY <1>2, LenProperties DEF RecordHeaderLen
<1>4. b \in Seq(Byte) /\ Len(b) = n /\ \A i \in 1..n : b[i] = w[i]
  BY <1>1, <1>2, <1>3, PrefixIs
<1>5. Total(b) = Total(w) /\ Total(w) \in Nat
  BY <1>1, <1>2, TotalOfPrefix
<1>6. b[1] = w[1]
  BY <1>3, <1>4
<1>7. n <= Len(w) /\ n >= RecordHeaderLen
  BY <1>3 DEF RecordHeaderLen
<1> QED
  BY <1>1, <1>2, <1>3, <1>4, <1>5, <1>6, <1>7

(* A record that is cut short reads as truncated, whoever sent it. *)
LEMMA CutReads ==
    ASSUME NEW s, NEW w, NEW b, Handed(w, b), w[1] = ContentTypeHandshake, Len(b) < Total(w)
    PROVE  ReadsAsSent(s, w, b)
<1>1. Parse(b) = Refused("Truncated")
  BY HandedIs, RecordReads
<1>2. Parse(b).err = "Truncated" /\ "Truncated" # NoError
  BY <1>1, RefusedIs, ParserAssumption
<1> QED
  BY <1>2 DEF ReadsAsSent

(* The first record of a stream, handed over to its end. *)
LEMMA WholeRecordReads ==
    ASSUME NEW w, NEW b, Handed(w, b), NEW p \in Seq(Byte), Fits(p, 2), IsPrefix(Record(p), w),
           ~(Len(b) < Total(w))
    PROVE  /\ w[1] = ContentTypeHandshake /\ Parse(b) = ParseHandshake(p)
           /\ SubSeq(b, RecordHeaderLen + 1, Len(b)) = p
<1>1. w \in Seq(Byte) /\ Len(b) = Total(w) /\ b = SubSeq(w, 1, Len(b))
  BY HandedIs
<1>2. /\ w[1] = 22 /\ Total(w) = 5 + Len(p)
      /\ SubSeq(w, 1, Total(w)) = Record(p)
  BY <1>1, StreamOfRecord
<1>3. b = Record(p) /\ Len(b) = 5 + Len(p)
  BY <1>1, <1>2
<1>4. SubSeq(b, 6, Len(b)) = p
  <2>1. SubSeq(Record(p), 6, 5 + Len(p)) = p
    BY RecordIs
  <2> QED
    BY <1>3, <2>1
<1>5. SubSeq(b, RecordHeaderLen + 1, Len(b)) = p
  <2>1. RecordHeaderLen + 1 = 6
    BY DEF RecordHeaderLen
  <2> QED
    BY <1>4, <2>1
<1>6. b \in Seq(Byte) /\ Len(b) >= RecordHeaderLen /\ b[1] = w[1] /\ Total(b) = Total(w)
  BY HandedIs
<1>7. b[1] = ContentTypeHandshake /\ Len(b) = Total(b)
  BY <1>1, <1>2, <1>6 DEF ContentTypeHandshake
<1>8. Parse(b) = ParseHandshake(SubSeq(b, RecordHeaderLen + 1, Len(b)))
  BY <1>6, <1>7, RecordReads
<1> QED
  BY <1>5, <1>6, <1>7, <1>8

(* A bare handshake that begins as a hello does. *)
LEMMA BareReads ==
    ASSUME NEW h, NEW aside, WellFormed(h, aside)
    PROVE  Parse(Encode(h, aside)) = ParseHandshake(Encode(h, aside))
<1> DEFINE v == Vec(Body(h, aside), 3)
           e == Encode(h, aside)
<1>1. v \in Seq(Byte) /\ e = <<1>> \o v
  BY EncodeIs
<1> HIDE DEF v, e
<1>2. e \in Seq(Byte) /\ Len(e) = Len(v) + 1 /\ e[1] = 1
  BY <1>1, OneAhead
<1>3. e # <<>>
  BY <1>1, <1>2, LenProperties
<1>4. Parse(e) = ParseHandshake(e)
  BY <1>2, <1>3 DEF Parse, ContentTypeHandshake, HandshakeTypeClientHello
<1> QED
  BY <1>4 DEF e

(* The five kinds of sender: what each sends reads as the kind says. *)

LEMMA WholeReads ==
    ASSUME NEW s, SendsWhole(s), NEW b, Handed(s.bytes, b)
    PROVE  ReadsAsSent(s, s.bytes, b)
<1> DEFINE w == s.bytes
           e == Encode(s.hello, s.aside)
<1>1. /\ s.reads = NoError /\ s.aside.stray = <<>>
      /\ WellFormed(s.hello, s.aside) /\ IsPrefix(Record(e), w)
  BY DEF SendsWhole, SendsHello
<1>2. e \in Seq(Byte) /\ Fits(e, 2)
  BY <1>1, EncodeIs
<1>3. ParseHandshake(e) = Parsed(s.hello) /\ Parse(e) = ParseHandshake(e)
  BY <1>1, HandshakeBack, BareReads
<1> HIDE DEF e
<1>4. CASE ~(Len(b) < Total(w))
  <2>1. /\ w[1] = ContentTypeHandshake /\ Parse(b) = ParseHandshake(e)
        /\ SubSeq(b, RecordHeaderLen + 1, Len(b)) = e
    BY <1>1, <1>2, <1>4, WholeRecordReads
  <2>2. Parse(b).err = NoError /\ Parse(b).hello = s.hello
    BY <1>3, <2>1, ParsedIs
  <2>3. Parse(SubSeq(b, RecordHeaderLen + 1, Len(b))) = Parse(b)
    BY <1>3, <2>1
  <2> QED
    BY <1>1, <1>4, <2>2, <2>3 DEF ReadsAsSent
<1>5. CASE Len(b) < Total(w)
  <2>1. w[1] = ContentTypeHandshake
    BY <1>1, <1>2, StreamOfRecord, HandedIs DEF ContentTypeHandshake
  <2> QED
    BY <1>5, <2>1, CutReads
<1> QED
  BY <1>4, <1>5

LEMMA RefusedReads ==
    ASSUME NEW s, NEW e \in {"Truncated", "Malformed", "NotClientHello"}, s.reads = e,
           NEW p \in Seq(Byte), Fits(p, 2), ParseHandshake(p) = Refused(e),
           IsPrefix(Record(p), s.bytes), NEW b, Handed(s.bytes, b)
    PROVE  ReadsAsSent(s, s.bytes, b)
<1> DEFINE w == s.bytes
<1>1. CASE ~(Len(b) < Total(w))
  <2>1. Parse(b) = Refused(e)
    BY <1>1, WholeRecordReads
  <2>2. Parse(b).err = e /\ e # NoError
    BY <2>1, RefusedIs, ParserAssumption
  <2> QED
    BY <1>1, <2>2 DEF ReadsAsSent
<1>2. CASE Len(b) < Total(w)
  <2>1. w[1] = ContentTypeHandshake
    BY StreamOfRecord, HandedIs DEF ContentTypeHandshake
  <2> QED
    BY <1>2, <2>1, CutReads
<1> QED
  BY <1>1, <1>2

LEMMA StrayReads ==
    ASSUME NEW s, SendsStray(s), NEW b, Handed(s.bytes, b)
    PROVE  ReadsAsSent(s, s.bytes, b)
<1> DEFINE e == Encode(s.hello, s.aside)
<1>1. /\ s.reads = "Malformed" /\ Len(s.aside.stray) = 1
      /\ WellFormed(s.hello, s.aside) /\ IsPrefix(Record(e), s.bytes)
  BY DEF SendsStray, SendsHello
<1>2. e \in Seq(Byte) /\ Fits(e, 2)
  BY <1>1, EncodeIs
<1>3. ParseHandshake(e) = Refused("Malformed")
  BY <1>1, HandshakeBack
<1> HIDE DEF e
<1> QED
  BY <1>1, <1>2, <1>3, RefusedReads

LEMMA PieceReads ==
    ASSUME NEW s, SendsInPieces(s), NEW b, Handed(s.bytes, b)
    PROVE  ReadsAsSent(s, s.bytes, b)
<1> DEFINE e == Encode(s.hello, s.aside)
<1>1. PICK n \in 0..(Len(e) - 1) : SendsHello(s, SubSeq(e, 1, n))
  BY DEF SendsInPieces
<1> DEFINE p == SubSeq(e, 1, n)
<1>2. s.reads = "Truncated" /\ WellFormed(s.hello, s.aside) /\ IsPrefix(Record(p), s.bytes)
  BY <1>1 DEF SendsInPieces, SendsHello
<1>3. e \in Seq(Byte) /\ Fits(e, 2) /\ Len(e) \in Nat
  BY <1>2, EncodeIs, LenProperties
<1>4. ParseHandshake(p) = Refused("Truncated")
  BY <1>2, CutHandshake
<1> HIDE DEF e
<1>5. n \in 0..Len(e) /\ n < Len(e) /\ n \in Nat
  BY <1>3
<1>6. p \in Seq(Byte) /\ Len(p) = n
  BY <1>3, <1>5, PrefixIs
<1> HIDE DEF p
<1>7. Fits(p, 2)
  BY <1>3, <1>5, <1>6 DEF Fits, Limit
<1> QED
  BY <1>2, <1>4, <1>6, <1>7, RefusedReads

LEMMA HangUpReads ==
    ASSUME NEW s, HangsUp(s), NEW b, Handed(s.bytes, b)
    PROVE  ReadsAsSent(s, s.bytes, b)
<1> DEFINE w == s.bytes
<1>1. /\ w[1] = ContentTypeHandshake
      /\ Len(w) >= RecordHeaderLen => Len(w) < Total(w)
  BY DEF HangsUp
<1> HIDE DEF w
<1>2. Handed(w, b)
  BY DEF w
<1>3. Len(b) < Total(w)
  BY <1>1, <1>2, HandedIs DEF RecordHeaderLen
<1> QED
  BY <1>1, <1>2, <1>3, CutReads DEF w

LEMMA OtherReads ==
    ASSUME NEW s, SendsOther(s), NEW b, Handed(s.bytes, b)
    PROVE  ReadsAsSent(s, s.bytes, b)
<1> DEFINE w == s.bytes
           p == SubSeq(b, 6, Len(b))
<1>1. s.reads = "NotClientHello" /\ "NotClientHello" # NoError
  BY ParserAssumption DEF SendsOther
<1>2. /\ w \in Seq(Byte) /\ b \in Seq(Byte) /\ Len(b) \in Nat /\ Len(b) >= 5
      /\ b[1] = w[1] /\ Total(b) = Total(w) /\ Total(w) \in Nat /\ Len(b) <= Total(w)
      /\ \A i \in 1..Len(b) : b[i] = w[i]
  BY HandedIs DEF RecordHeaderLen
<1>3. CASE w[1] \notin {ContentTypeHandshake, HandshakeTypeClientHello}
  <2>1. Parse(b) = Refused("NotClientHello")
    <3>1. b # <<>> /\ b[1] # ContentTypeHandshake /\ b[1] # HandshakeTypeClientHello
      BY <1>2, <1>3
    <3> QED
      BY <3>1 DEF Parse
  <2>2. Parse(b).err = "NotClientHello"
    BY <2>1, RefusedIs
  <2> QED
    BY <1>1, <1>3, <2>2 DEF ReadsAsSent
<1>4. CASE /\ w[1] = ContentTypeHandshake
           /\ Len(w) > RecordHeaderLen /\ w[6] # HandshakeTypeClientHello
           /\ RecordHeaderLen < Total(w) /\ Total(w) <= Len(w)
  <2>1. CASE Len(b) < Total(w)
    BY <1>4, <2>1, CutReads
  <2>2. CASE Len(b) = Total(w)
    <3>1. Len(b) > 5 /\ b[6] # 1
      BY <1>2, <1>4, <2>2 DEF RecordHeaderLen, HandshakeTypeClientHello
    <3>2. p \in Seq(Byte) /\ Len(p) = Len(b) - 5 /\ p[1] = b[6]
      <4>1. 6 \in 1..(Len(b) + 1) /\ Len(b) \in (6 - 1)..Len(b)
        BY <1>2, <3>1
      <4>2. /\ p \in Seq(Byte) /\ Len(p) = (Len(b) - 6) + 1
            /\ \A i \in 1..((Len(b) - 6) + 1) : p[i] = b[(6 + i) - 1]
        BY <1>2, <4>1, SliceIs
      <4> HIDE DEF p
      <4> QED
        BY <1>2, <3>1, <4>2
    <3>3. Parse(b) = ParseHandshake(p)
      <4>1. b[1] = ContentTypeHandshake /\ Len(b) = Total(b) /\ Len(b) >= RecordHeaderLen
        BY <1>2, <1>4, <2>2 DEF RecordHeaderLen
      <4>2. Parse(b) = ParseHandshake(SubSeq(b, RecordHeaderLen + 1, Len(b)))
        BY <1>2, <4>1, RecordReads
      <4>3. RecordHeaderLen + 1 = 6
        BY DEF RecordHeaderLen
      <4> QED
        BY <4>2, <4>3
    <3> HIDE DEF p
    <3>4. ParseHandshake(p) = Refused("NotClientHello")
      <4> DEFINE x == SubSeq(p, 1, 1)
                 y == SubSeq(p, 2, Len(p))
                 type == Take(p, 1)
      <4>1. type = Got(x, y)
        <5>1. 1 \in 0..Len(p) /\ 2 = 1 + 1
          BY <1>2, <3>1, <3>2
        <5> QED
          BY <3>2, <5>1, TakeSplits
      <4>2. x # <<1>>
        <5>1. 1 \in 0..Len(p)
          BY <1>2, <3>1, <3>2
        <5>2. x[1] = p[1]
          BY <3>2, <5>1, PrefixIs
        <5> HIDE DEF x
        <5> QED
          BY <5>2, <3>1, <3>2
      <4> HIDE DEF x, y, type
      <4>3. type.err = NoError /\ type.data = x
        BY <4>1, GotIs
      <4>4. type.err = NoError /\ type.data # <<HandshakeTypeClientHello>>
        BY <4>2, <4>3 DEF HandshakeTypeClientHello
      <4> QED
        BY <4>4 DEF ParseHandshake, type
    <3>5. Parse(b).err = "NotClientHello"
      BY <3>3, <3>4, RefusedIs
    <3>6. ~(Len(b) < Total(w))
      BY <1>2, <2>2
    <3> QED
      BY <1>1, <3>5, <3>6 DEF ReadsAsSent
  <2> QED
    BY <1>2, <2>1, <2>2
<1> QED
  BY <1>3, <1>4 DEF SendsOther

(* What the observer was given is the beginning of what one of the senders sent. *)
LEMMA CapturedIsSent ==
    ASSUME CaptureInv, NEW i \in 1..Len(captured)
    PROVE  /\ Sender(i) \in Sent /\ Sender(i).bytes = wire[captured[i].host]
           /\ Handed(wire[captured[i].host], captured[i].hello)
<1> DEFINE t == captured[i].host
           w == wire[t]
           b == captured[i].hello
           n == Len(b)
<1>1. t \in Tunnels /\ b \in Seq(Byte) /\ n \in Nat
  BY CapturedType DEF CaptureInv
<1>2. w \in Wires /\ w \in Seq(Byte) /\ Len(w) \in Nat
  BY <1>1, WireType DEF CaptureInv, CaptureTypeOK
<1>3. n <= pos[t] /\ b = SubSeq(w, 1, n) /\ n <= Total(w)
  BY DEF CaptureInv, CapturedIsFirstRecord, First
<1>4. pos[t] <= Len(w) /\ pos[t] \in Nat
  BY <1>1 DEF CaptureInv, CaptureTypeOK, WaitingHoldsAll
<1>5. n >= RecordHeaderLen
  BY DEF CaptureInv, Headed
<1> HIDE DEF n, b, w, t
<1>6. n \in RecordHeaderLen..Len(w)
  BY <1>1, <1>2, <1>3, <1>4, <1>5 DEF RecordHeaderLen
<1>7. Handed(w, b)
  BY <1>2, <1>3, <1>6 DEF Handed
<1>8. \E s \in Sent : s.bytes = w
  BY <1>2, SentAssumption
<1>9. Sender(i) \in Sent /\ Sender(i).bytes = w
  BY <1>8 DEF Sender, w, t
<1> QED
  BY <1>7, <1>9 DEF w, t, b

(* ClientHello::parse of what CapturingStream handed over gives back the hello
   that was encoded, for every hello that can be sent, with or without the
   record, however the stream was cut into reads; and refuses as truncated,
   malformed or no hello what is one. *)
THEOREM CapturedHelloIsRead == CaptureSpec => []ParsedIsSent
<1>1. ASSUME CaptureInv PROVE ParsedIsSent
  <2> SUFFICES ASSUME NEW i \in 1..Len(captured)
               PROVE  ReadsAsSent(Sender(i), wire[captured[i].host], captured[i].hello)
    BY DEF ParsedIsSent, ReadsAsSent, Reads
  <2> DEFINE s == Sender(i)
             b == captured[i].hello
  <2>1. s \in Sent /\ s.bytes = wire[captured[i].host] /\ Handed(s.bytes, b)
    BY <1>1, CapturedIsSent
  <2> HIDE DEF s, b
  <2>2. SendsWhole(s) \/ SendsStray(s) \/ HangsUp(s) \/ SendsInPieces(s) \/ SendsOther(s)
    BY <2>1, SentAssumption
  <2>3. ReadsAsSent(s, s.bytes, b)
    BY <2>1, <2>2, WholeReads, StrayReads, HangUpReads, PieceReads, OtherReads
  <2> QED
    BY <2>1, <2>3 DEF s, b
<1> QED
  BY CaptureInvariance, <1>1, PTL

-----------------------------------------------------------------------------
(* Fingerprints. *)

(* What Keeping computes: the elements at the places, and nothing else. *)
LEMMA KeepingStep ==
    ASSUME NEW S, NEW s \in Seq(S), NEW places
    PROVE  \E f : /\ f = [n \in 0..Len(s) |-> IF n = 0 THEN <<>>
                                 ELSE IF n \in places THEN Append(f[n - 1], s[n])
                                 ELSE f[n - 1]]
                  /\ Keeping(s, places) = f[Len(s)]
<1> DEFINE Grow(f, n) == IF n = 0 THEN <<>>
                         ELSE IF n \in places THEN Append(f[n - 1], s[n])
                         ELSE f[n - 1]
           Bad == {n \in Nat : ~ \E f : f = [k \in 0..n |-> Grow(f, k)]}
<1>1. Bad = {}
  <2> SUFFICES ASSUME Bad # {} PROVE FALSE
    OBVIOUS
  <2>1. PICK n \in Bad : \A y \in Bad : n <= y
    <3> HIDE DEF Grow
    <3> QED BY LeastNumber
  <2>2. CASE n = 0
    <3> DEFINE f == [k \in 0..0 |-> <<>>]
    <3>1. f = [k \in 0..0 |-> Grow(f, k)]
      OBVIOUS
    <3> QED
      BY <2>1, <2>2, <3>1
  <2>3. CASE n # 0
    <3>1. n \in Nat /\ n - 1 \in Nat /\ n - 1 \notin Bad
      <4>1. n \in Nat
        BY <2>1
      <4> HIDE DEF Bad
      <4>2. n - 1 \in Nat /\ ~(n <= n - 1)
        BY <4>1, <2>3
      <4> QED
        BY <4>1, <4>2, <2>1
    <3>2. PICK g : g = [k \in 0..(n - 1) |-> Grow(g, k)]
      BY <3>1
    <3> DEFINE f == [k \in 0..n |-> IF k < n THEN g[k] ELSE Grow(g, n)]
    <3>3. ASSUME NEW k \in 0..n PROVE f[k] = Grow(f, k)
      <4>1. k # 0 => f[k - 1] = g[k - 1]
        BY <3>1
      <4>2. k < n => g[k] = Grow(g, k)
        <5>1. k < n => k \in 0..(n - 1)
          BY <3>1
        <5> HIDE DEF Grow
        <5> QED BY <5>1, <3>2
      <4>3. Grow(f, k) = Grow(g, k)
        BY <4>1
      <4> QED
        BY <4>2, <4>3, <3>1
    <3>4. f = [k \in 0..n |-> Grow(f, k)]
      <4> HIDE DEF Grow
      <4> QED BY <3>3
    <3> QED
      BY <2>1, <3>4
  <2> QED
    BY <2>2, <2>3
<1>2. Len(s) \in Nat
  OBVIOUS
<1>3. \E f : f = [k \in 0..Len(s) |-> Grow(f, k)]
  <2> HIDE DEF Grow
  <2> QED BY <1>1, <1>2
<1> DEFINE kept == CHOOSE f : f = [k \in 0..Len(s) |-> Grow(f, k)]
<1>4. kept = [k \in 0..Len(s) |-> Grow(kept, k)]
  <2> HIDE DEF Grow
  <2> QED BY <1>3
<1>5. Keeping(s, places) = kept[Len(s)]
  BY DEF Keeping
<1> HIDE DEF kept
<1> QED
  BY <1>4, <1>5

(* How often a value is in a list. *)
LEMMA TimesType ==
    ASSUME NEW S, NEW s \in Seq(S), NEW v
    PROVE  /\ Times(s, v) \in Nat /\ IsFiniteSet({i \in 1..Len(s) : s[i] = v})
           /\ Times(s, v) = Cardinality({i \in 1..Len(s) : s[i] = v})
<1> DEFINE T == {i \in 1..Len(s) : s[i] = v}
<1>1. Len(s) \in Nat /\ DOMAIN s = 1..Len(s)
  BY LenProperties
<1>2. IsFiniteSet(1..Len(s))
  BY <1>1, FS_Interval
<1>3. T \in SUBSET (1..Len(s))
  OBVIOUS
<1>4. Times(s, v) = Cardinality(T)
  BY <1>1 DEF Times
<1> HIDE DEF T
<1>5. IsFiniteSet(T)
  BY <1>2, <1>3, FS_Subset
<1>6. Cardinality(T) \in Nat
  BY <1>5, FS_CardinalityType
<1> QED
  BY <1>4, <1>5, <1>6 DEF T

LEMMA TimesAppend ==
    ASSUME NEW S, NEW s \in Seq(S), NEW e \in S, NEW v
    PROVE  Times(Append(s, e), v) = IF e = v THEN Times(s, v) + 1 ELSE Times(s, v)
<1> DEFINE n == Len(s)
           a == Append(s, e)
           A == {i \in 1..Len(a) : a[i] = v}
           B == {i \in 1..n : s[i] = v}
<1>1. n \in Nat /\ a \in Seq(S) /\ Len(a) = n + 1 /\ a[n + 1] = e /\ \A i \in 1..n : a[i] = s[i]
  OBVIOUS
<1>2. Times(a, v) = Cardinality(A) /\ Times(s, v) = Cardinality(B) /\ IsFiniteSet(B)
  <2>1. a \in Seq(S)
    BY <1>1
  <2> HIDE DEF a
  <2> QED
    BY <2>1, TimesType
<1> HIDE DEF a, n
<1>3. n + 1 \notin B
  BY <1>1
<1>4. CASE e = v
  <2>1. A = B \cup {n + 1}
    BY <1>1, <1>4
  <2> HIDE DEF A, B
  <2>2. Cardinality(B \cup {n + 1}) = Cardinality(B) + 1
    BY <1>2, <1>3, FS_AddElement
  <2> QED
    BY <1>2, <1>4, <2>1, <2>2 DEF a
<1>5. CASE e # v
  <2>1. A = B
    BY <1>1, <1>5
  <2> HIDE DEF A, B
  <2> QED
    BY <1>2, <1>5, <2>1 DEF a
<1> QED
  BY <1>4, <1>5

(* filter: what is kept, and how often. *)
KeptTimes(s, places, n, v) == Cardinality({i \in 1..n : i \in places /\ s[i] = v})

LEMMA KeptTimesStep ==
    ASSUME NEW s, NEW places, NEW n \in Nat, n > 0, NEW v
    PROVE  KeptTimes(s, places, n, v) = IF n \in places /\ s[n] = v THEN KeptTimes(s, places, n - 1, v) + 1
                                        ELSE KeptTimes(s, places, n - 1, v)
<1> DEFINE A == {i \in 1..n : i \in places /\ s[i] = v}
           B == {i \in 1..(n - 1) : i \in places /\ s[i] = v}
<1>1. n \notin B /\ IsFiniteSet(1..(n - 1)) /\ B \in SUBSET (1..(n - 1))
  BY FS_Interval
<1>2. A = IF n \in places /\ s[n] = v THEN B \cup {n} ELSE B
  OBVIOUS
<1>3. KeptTimes(s, places, n, v) = Cardinality(A) /\ KeptTimes(s, places, n - 1, v) = Cardinality(B)
  BY DEF KeptTimes
<1> HIDE DEF A, B
<1>4. IsFiniteSet(B)
  BY <1>1, FS_Subset
<1>5. Cardinality(B \cup {n}) = Cardinality(B) + 1
  BY <1>1, <1>4, FS_AddElement
<1> QED
  BY <1>2, <1>3, <1>5

LEMMA KeepingTimes ==
    ASSUME NEW S, NEW s \in Seq(S), NEW places
    PROVE  /\ Keeping(s, places) \in Seq(S)
           /\ \A v : Times(Keeping(s, places), v) = KeptTimes(s, places, Len(s), v)
<1> DEFINE N == Len(s)
<1>1. PICK f : /\ f = [n \in 0..Len(s) |-> IF n = 0 THEN <<>>
                                 ELSE IF n \in places THEN Append(f[n - 1], s[n])
                                 ELSE f[n - 1]]
               /\ Keeping(s, places) = f[Len(s)]
  BY KeepingStep
<1>2. N \in Nat
  OBVIOUS
<1> DEFINE Good(n) == f[n] \in Seq(S) /\ \A v : Times(f[n], v) = KeptTimes(s, places, n, v)
           G == {n \in 0..N : Good(n)}
<1>3. Good(0)
  <2>1. f[0] = <<>>
    BY <1>1, <1>2
  <2>2. ASSUME NEW v PROVE Times(<<>>, v) = KeptTimes(s, places, 0, v)
    <3>1. {i \in DOMAIN <<>> : <<>>[i] = v} = {} /\ {i \in 1..0 : i \in places /\ s[i] = v} = {}
      OBVIOUS
    <3> QED
      BY <3>1, Zenon DEF Times, KeptTimes
  <2> QED
    BY <2>1, <2>2
<1>4. ASSUME NEW n \in 1..N, Good(n - 1) PROVE Good(n)
  <2>0. n \in Nat /\ n > 0 /\ n \in 0..N /\ n # 0
    BY <1>2
  <2>1. f[n] = IF n \in places THEN Append(f[n - 1], s[n]) ELSE f[n - 1]
    BY <1>1, <2>0
  <2>2. s[n] \in S
    BY LenProperties
  <2>3. f[n - 1] \in Seq(S) /\ \A v : Times(f[n - 1], v) = KeptTimes(s, places, n - 1, v)
    BY <1>4
  <2> DEFINE g == f[n - 1]
  <2> HIDE DEF g
  <2>4. g \in Seq(S) /\ f[n] = IF n \in places THEN Append(g, s[n]) ELSE g
    BY <2>1, <2>3 DEF g
  <2>5. f[n] \in Seq(S)
    BY <2>2, <2>4
  <2>6. ASSUME NEW v PROVE Times(f[n], v) = KeptTimes(s, places, n, v)
    <3>1. KeptTimes(s, places, n, v) = IF n \in places /\ s[n] = v THEN KeptTimes(s, places, n - 1, v) + 1
                                       ELSE KeptTimes(s, places, n - 1, v)
      BY <2>0, KeptTimesStep
    <3>2. Times(Append(g, s[n]), v) = IF s[n] = v THEN Times(g, v) + 1 ELSE Times(g, v)
      BY <2>2, <2>4, TimesAppend
    <3>3. Times(g, v) = KeptTimes(s, places, n - 1, v)
      BY <2>3 DEF g
    <3> QED
      BY <2>4, <3>1, <3>2, <3>3
  <2> QED
    BY <2>5, <2>6
<1>5. \A n \in 0..N : n \in G
  <2> HIDE DEF Good, N
  <2>1. 0 \in G
    BY <1>2, <1>3
  <2>2. \A n \in 1..N : n - 1 \in G => n \in G
    BY <1>2, <1>4
  <2> HIDE DEF G
  <2> QED
    BY <1>2, <2>1, <2>2, UpTo
<1>6. Good(N)
  <2> HIDE DEF Good
  <2> QED
    BY <1>2, <1>5
<1> QED
  BY <1>1, <1>6

(* GREASE is gone, and all else is there as often as before. *)
LEMMA GreaselessTimes ==
    ASSUME NEW list \in Seq(Word)
    PROVE  /\ Greaseless(list) \in Seq(Word)
           /\ \A v : Times(Greaseless(list), v) = IF IsGrease(v) THEN 0 ELSE Times(list, v)
<1> DEFINE places == {i \in DOMAIN list : ~IsGrease(list[i])}
<1>1. Greaseless(list) = Keeping(list, places)
  BY DEF Greaseless
<1>2. DOMAIN list = 1..Len(list)
  BY LenProperties
<1>3. ASSUME NEW v PROVE KeptTimes(list, places, Len(list), v) = IF IsGrease(v) THEN 0 ELSE Times(list, v)
  <2> DEFINE T == {i \in 1..Len(list) : i \in places /\ list[i] = v}
             U == {i \in 1..Len(list) : list[i] = v}
  <2>1. T = IF IsGrease(v) THEN {} ELSE U
    BY <1>2
  <2>2. KeptTimes(list, places, Len(list), v) = Cardinality(T) /\ Times(list, v) = Cardinality(U)
    BY TimesType DEF KeptTimes
  <2> HIDE DEF T, U, places
  <2> QED
    BY <2>1, <2>2, FS_EmptySet
<1> HIDE DEF places
<1> QED
  BY <1>1, <1>3, KeepingTimes

LEMMA UnrequestedTimes ==
    ASSUME NEW list \in Seq(Word)
    PROVE  /\ Unrequested(list) \in Seq(Word)
           /\ \A v : Times(Unrequested(list), v) = IF v \in {ServerName, Alpn} THEN 0 ELSE Times(list, v)
<1> DEFINE places == {i \in DOMAIN list : list[i] \notin {ServerName, Alpn}}
<1>1. Unrequested(list) = Keeping(list, places)
  BY DEF Unrequested
<1>2. DOMAIN list = 1..Len(list)
  BY LenProperties
<1>3. ASSUME NEW v
      PROVE  KeptTimes(list, places, Len(list), v) = IF v \in {ServerName, Alpn} THEN 0 ELSE Times(list, v)
  <2> DEFINE T == {i \in 1..Len(list) : i \in places /\ list[i] = v}
             U == {i \in 1..Len(list) : list[i] = v}
  <2>1. T = IF v \in {ServerName, Alpn} THEN {} ELSE U
    BY <1>2
  <2>2. KeptTimes(list, places, Len(list), v) = Cardinality(T) /\ Times(list, v) = Cardinality(U)
    BY TimesType DEF KeptTimes
  <2> HIDE DEF T, U, places
  <2> QED
    BY <2>1, <2>2, FS_EmptySet
<1> HIDE DEF places
<1> QED
  BY <1>1, <1>3, KeepingTimes

(* Values that are not in a list are there no times. *)
LEMMA TimesOutside ==
    ASSUME NEW S, NEW s \in Seq(S), NEW v, v \notin Range(s)
    PROVE  Times(s, v) = 0
<1>1. {i \in DOMAIN s : s[i] = v} = {}
  BY DEF Range
<1> QED
  BY <1>1, FS_EmptySet DEF Times

(* The sort puts every element in a place of its own, smaller keys first. *)
LEMMA SortIs ==
    ASSUME NEW S, NEW s \in Seq(S), NEW keys, DOMAIN keys = DOMAIN s,
           \A i \in DOMAIN s : keys[i] \in Int
    PROVE  \E at \in Bijection(DOMAIN s, DOMAIN s) :
              /\ SortedBy(s, keys) = [k \in DOMAIN s |-> s[at[k]]]
              /\ \A i, j \in DOMAIN s : i < j => keys[at[i]] <= keys[at[j]]
<1> DEFINE D == DOMAIN s
           n == Len(s)
           Ahead(i) == {j \in D : GoesBefore(keys, j, i)}
<1>1. n \in Nat /\ D = 1..n /\ IsFiniteSet(D) /\ Cardinality(D) = n /\ \A i \in D : keys[i] \in Int
  <2>1. n \in Nat /\ D = 1..n
    OBVIOUS
  <2>2. IsFiniteSet(1..n) /\ Cardinality(1..n) = IF 1 > n THEN 0 ELSE n - 1 + 1
    <3> HIDE DEF n
    <3> QED BY <2>1, FS_Interval
  <2>3. Cardinality(1..n) = n
    BY <2>1, <2>2
  <2> QED
    BY <2>1, <2>2, <2>3
<1> HIDE DEF D
<1>2. \A i, j \in D : i = j \/ GoesBefore(keys, i, j) \/ GoesBefore(keys, j, i)
  BY <1>1 DEF GoesBefore
<1>3. \A i \in D : ~GoesBefore(keys, i, i)
  BY <1>1 DEF GoesBefore
<1>4. \A i, j, k \in D : GoesBefore(keys, i, j) /\ GoesBefore(keys, j, k) => GoesBefore(keys, i, k)
  BY <1>1 DEF GoesBefore
<1>5. \A i \in D : IsFiniteSet(Ahead(i)) /\ Cardinality(Ahead(i)) \in Nat
  BY <1>1, FS_Subset, FS_CardinalityType
<1>6. \A i \in D : Place(keys, i) = Cardinality(Ahead(i)) + 1
  BY DEF Place, D
<1>7. \A i \in D : Place(keys, i) \in D
  <2> TAKE i \in D
  <2>1. Ahead(i) \subseteq D /\ Ahead(i) # D
    BY <1>3
  <2> HIDE DEF Ahead
  <2>2. Cardinality(Ahead(i)) <= Cardinality(D) /\ (Cardinality(Ahead(i)) = Cardinality(D) => Ahead(i) = D)
    BY <1>1, <2>1, FS_Subset
  <2>3. Cardinality(Ahead(i)) < Cardinality(D)
    BY <1>1, <1>5, <2>1, <2>2
  <2> QED
    BY <1>1, <1>5, <1>6, <2>3
<1>8. \A i, j \in D : GoesBefore(keys, i, j) => Place(keys, i) < Place(keys, j)
  <2> SUFFICES ASSUME NEW i \in D, NEW j \in D, GoesBefore(keys, i, j)
               PROVE  Place(keys, i) < Place(keys, j)
    OBVIOUS
  <2>1. Ahead(i) \subseteq Ahead(j) /\ Ahead(i) # Ahead(j)
    BY <1>3, <1>4
  <2> HIDE DEF Ahead
  <2>2. Cardinality(Ahead(i)) <= Cardinality(Ahead(j)) /\ (Cardinality(Ahead(i)) = Cardinality(Ahead(j)) => Ahead(i) = Ahead(j))
    BY <1>5, <2>1, FS_Subset
  <2> QED
    BY <1>5, <1>6, <2>1, <2>2
<1>9. \A i, j \in D : Place(keys, i) = Place(keys, j) => i = j
  BY <1>1, <1>2, <1>7, <1>8
<1>10. \A k \in D : \E i \in D : Place(keys, i) = k
  <2> DEFINE P == [i \in D |-> Place(keys, i)]
  <2>1. P \in [D -> D] /\ \A i, j \in D : P[i] = P[j] => i = j
    BY <1>7, <1>9
  <2>2. \A k \in D : (\E i \in D : P[i] = k) => \E i \in D : Place(keys, i) = k
    OBVIOUS
  <2> HIDE DEF P
  <2>3. P \in Injection(D, D)
    BY <2>1 DEF Injection, IsInjective
  <2>4. P \in Surjection(D, D)
    BY <1>1, <2>3, FS_Injection
  <2> QED
    BY <2>2, <2>4 DEF Surjection
<1> DEFINE at == [k \in D |-> CHOOSE i \in D : Place(keys, i) = k]
<1>11. \A k \in D : at[k] \in D /\ Place(keys, at[k]) = k
  BY <1>10
<1>12. SortedBy(s, keys) = [k \in D |-> s[at[k]]]
  BY DEF SortedBy, D
<1>13. at \in [D -> D]
  BY <1>10
<1> HIDE DEF at
<1>14. at \in Bijection(D, D)
  <2>1. \A i, j \in D : at[i] = at[j] => i = j
    BY <1>11
  <2>2. \A i \in D : \E k \in D : at[k] = i
    <3> TAKE i \in D
    <3>1. at[Place(keys, i)] = i
      BY <1>7, <1>9, <1>11
    <3> QED
      BY <1>7, <3>1
  <2> QED
    BY <1>13, <2>1, <2>2 DEF Bijection, Injection, Surjection, IsInjective
<1>15. ASSUME NEW i \in D, NEW j \in D, i < j PROVE keys[at[i]] <= keys[at[j]]
  <2>1. at[i] \in D /\ at[j] \in D /\ Place(keys, at[i]) = i /\ Place(keys, at[j]) = j
    BY <1>11
  <2>2. ~GoesBefore(keys, at[j], at[i])
    BY <1>1, <1>8, <1>15, <2>1
  <2>3. at[i] # at[j]
    BY <1>1, <1>15, <2>1
  <2>4. GoesBefore(keys, at[i], at[j])
    BY <1>2, <2>1, <2>2, <2>3
  <2> QED
    BY <1>1, <2>1, <2>4 DEF GoesBefore
<1> QED
  BY <1>12, <1>14, <1>15 DEF D

(* A sorted list of words holds every word as often as the list. *)
Rises(s) == \A i, j \in 1..Len(s) : i < j => s[i] <= s[j]

LEMMA AscendingIs ==
    ASSUME NEW list \in Seq(Word)
    PROVE  /\ Ascending(list) \in Seq(Word) /\ Len(Ascending(list)) = Len(list)
           /\ Rises(Ascending(list))
           /\ \A v : Times(Ascending(list), v) = Times(list, v)
<1> DEFINE D == 1..Len(list)
           a == Ascending(list)
<1>1. Len(list) \in Nat /\ DOMAIN list = D /\ \A i \in D : list[i] \in Word
  BY LenProperties
<1>2. \A i \in DOMAIN list : list[i] \in Int
  BY <1>1 DEF Word
<1>3. PICK at \in Bijection(D, D) :
         /\ a = [k \in D |-> list[at[k]]]
         /\ \A i, j \in D : i < j => list[at[i]] <= list[at[j]]
  <2>1. \E at \in Bijection(DOMAIN list, DOMAIN list) :
           /\ SortedBy(list, list) = [k \in DOMAIN list |-> list[at[k]]]
           /\ \A i, j \in DOMAIN list : i < j => list[at[i]] <= list[at[j]]
    BY <1>2, SortIs
  <2> QED
    BY <1>1, <2>1, Zenon DEF Ascending
<1>4. at \in [D -> D] /\ (\A i, j \in D : at[i] = at[j] => i = j) /\ \A i \in D : \E k \in D : at[k] = i
  BY <1>3 DEF Bijection, Injection, Surjection, IsInjective
<1>5. a \in Seq(Word) /\ Len(a) = Len(list)
  <2>1. a \in [D -> Word]
    BY <1>1, <1>3, <1>4
  <2> QED
    BY <1>1, <2>1, IsSeq
<1>6. \A k \in D : a[k] = list[at[k]]
  BY <1>3
<1> HIDE DEF a
<1>7. Rises(a)
  BY <1>3, <1>5, <1>6 DEF Rises
<1>8. ASSUME NEW v PROVE Times(a, v) = Times(list, v)
  <2> DEFINE A == {k \in 1..Len(a) : a[k] = v}
             B == {i \in 1..Len(list) : list[i] = v}
             f == [k \in A |-> at[k]]
  <2>1. Times(a, v) = Cardinality(A) /\ Times(list, v) = Cardinality(B) /\ IsFiniteSet(A)
    BY <1>5, TimesType
  <2>2. f \in [A -> B]
    BY <1>4, <1>5, <1>6
  <2>3. \A x, y \in A : f[x] = f[y] => x = y
    BY <1>4, <1>5
  <2>4. \A y \in B : \E x \in A : f[x] = y
    <3> TAKE y \in B
    <3>1. PICK k \in D : at[k] = y
      BY <1>4
    <3>2. k \in A
      BY <1>5, <1>6, <3>1
    <3> QED
      BY <3>1, <3>2
  <2> HIDE DEF f, A, B
  <2>5. f \in Bijection(A, B)
    BY <2>2, <2>3, <2>4 DEF Bijection, Injection, Surjection, IsInjective
  <2>6. Cardinality(B) = Cardinality(A)
    BY <2>1, <2>5, FS_Bijection DEF ExistsBijection
  <2> QED
    BY <2>1, <2>6
<1> QED
  BY <1>5, <1>7, <1>8 DEF a

(* The first place where two sorted lists differ tells them apart. *)
LEMMA FewerTimes ==
    ASSUME NEW a \in Seq(Word), NEW b \in Seq(Word), NEW k \in 1..Len(a),
           \A i \in 1..(k - 1) : i \in 1..Len(b) /\ a[i] = b[i],
           \A j \in 1..Len(b) : b[j] = a[k] => j < k
    PROVE  Times(b, a[k]) < Times(a, a[k])
<1> DEFINE v == a[k]
           A == {i \in 1..Len(a) : a[i] = v}
           B == {i \in 1..Len(b) : b[i] = v}
<1>1. /\ Times(a, v) = Cardinality(A) /\ Times(b, v) = Cardinality(B)
      /\ IsFiniteSet(A) /\ IsFiniteSet(B) /\ Cardinality(A) \in Nat /\ Cardinality(B) \in Nat
  <2>1. Times(a, v) = Cardinality(A) /\ IsFiniteSet(A)
    BY TimesType
  <2>2. Times(b, v) = Cardinality(B) /\ IsFiniteSet(B)
    BY TimesType
  <2> HIDE DEF A, B
  <2> QED
    BY <2>1, <2>2, FS_CardinalityType
<1>2. k \in A /\ k \notin B
  <2>1. Len(a) \in Nat /\ Len(b) \in Nat
    BY LenProperties
  <2> QED
    BY <2>1
<1>3. B \subseteq A
  <2> SUFFICES ASSUME NEW j \in B PROVE j \in A
    OBVIOUS
  <2>1. Len(a) \in Nat /\ Len(b) \in Nat
    BY LenProperties
  <2>2. j < k /\ j \in 1..Len(b) /\ b[j] = v
    OBVIOUS
  <2> HIDE DEF v
  <2>3. j \in 1..(k - 1) /\ j \in 1..Len(a)
    BY <2>1, <2>2
  <2>4. a[j] = b[j]
    BY <2>3
  <2> QED
    BY <2>2, <2>3, <2>4
<1> HIDE DEF A, B
<1>4. Cardinality(B) <= Cardinality(A) /\ (Cardinality(A) = Cardinality(B) => A = B)
  BY <1>1, <1>3, FS_Subset
<1> QED
  BY <1>1, <1>2, <1>4

(* Sorted lists that hold the same words as often are the same. *)
LEMMA SortedAreEqual ==
    ASSUME NEW a \in Seq(Word), NEW b \in Seq(Word), Rises(a), Rises(b),
           \A v : Times(a, v) = Times(b, v)
    PROVE  a = b
<1>1. Len(a) \in Nat /\ Len(b) \in Nat
  BY LenProperties
<1>2. /\ \A i \in 1..Len(a) : a[i] \in Nat
      /\ \A i \in 1..Len(b) : b[i] \in Nat
  BY LenProperties DEF Word
<1>3. ASSUME NEW x \in Seq(Word), NEW y \in Seq(Word), NEW k \in 1..Len(x),
             \A i \in 1..(k - 1) : i \in 1..Len(y) /\ x[i] = y[i],
             \A j \in 1..Len(y) : y[j] = x[k] => j < k,
             \A v : Times(x, v) = Times(y, v)
      PROVE  FALSE
  <2>1. Times(y, x[k]) < Times(x, x[k])
    BY <1>3, FewerTimes
  <2>2. Times(x, x[k]) \in Nat
    BY <1>3, TimesType
  <2> QED
    BY <1>3, <2>1, <2>2
<1> DEFINE Same(i) == i \in 1..Len(a) /\ i \in 1..Len(b) /\ a[i] = b[i]
           T == {i \in Nat : i >= 1 /\ (i \in 1..Len(a) \/ i \in 1..Len(b)) /\ ~Same(i)}
<1>4. T = {}
  <2> SUFFICES ASSUME T # {} PROVE FALSE
    OBVIOUS
  <2>1. PICK k \in T : \A i \in T : k <= i
    BY LeastNumber
  <2>2. k \in Nat /\ k >= 1 /\ (k \in 1..Len(a) \/ k \in 1..Len(b)) /\ ~Same(k)
    BY <2>1
  <2>3. \A i \in 1..(k - 1) : Same(i)
    <3> TAKE i \in 1..(k - 1)
    <3>1. i \in Nat /\ i >= 1 /\ ~(k <= i) /\ (i \in 1..Len(a) \/ i \in 1..Len(b))
      BY <1>1, <2>2
    <3> QED
      BY <2>1, <3>1
  <2>4. CASE k \in 1..Len(a) /\ ~(k \in 1..Len(b) /\ b[k] <= a[k])
    <3>1. \A j \in 1..Len(b) : b[j] = a[k] => j < k
      <4> SUFFICES ASSUME NEW j \in 1..Len(b), b[j] = a[k], ~(j < k) PROVE FALSE
        OBVIOUS
      <4>1. k \in 1..Len(b) /\ (k = j \/ k < j)
        BY <1>1, <2>2
      <4>2. b[k] <= b[j]
        BY <1>2, <4>1 DEF Rises
      <4> QED
        BY <2>4, <4>1, <4>2
    <3>2. \A i \in 1..(k - 1) : i \in 1..Len(b) /\ a[i] = b[i]
      BY <2>3
    <3> QED
      BY <1>3, <2>4, <3>1, <3>2
  <2>5. CASE k \in 1..Len(b) /\ ~(k \in 1..Len(a) /\ a[k] <= b[k])
    <3>1. \A j \in 1..Len(a) : a[j] = b[k] => j < k
      <4> SUFFICES ASSUME NEW j \in 1..Len(a), a[j] = b[k], ~(j < k) PROVE FALSE
        OBVIOUS
      <4>1. k \in 1..Len(a) /\ (k = j \/ k < j)
        BY <1>1, <2>2
      <4>2. a[k] <= a[j]
        BY <1>2, <4>1 DEF Rises
      <4> QED
        BY <2>5, <4>1, <4>2
    <3>2. \A i \in 1..(k - 1) : i \in 1..Len(a) /\ b[i] = a[i]
      BY <2>3
    <3> QED
      BY <1>3, <2>5, <3>1, <3>2
  <2> QED
    BY <1>2, <2>2, <2>4, <2>5
<1>5. \A i \in Nat : i >= 1 /\ (i \in 1..Len(a) \/ i \in 1..Len(b)) => Same(i)
  BY <1>4
<1>6. Len(a) = Len(b)
  BY <1>1, <1>5
<1>7. \A i \in 1..Len(a) : a[i] = b[i]
  BY <1>1, <1>5
<1> QED
  BY <1>6, <1>7, SeqEqual

LEMMA AscendingTells ==
    ASSUME NEW x \in Seq(Word), NEW y \in Seq(Word)
    PROVE  /\ Ascending(x) = Ascending(y) <=> \A v : Times(x, v) = Times(y, v)
           /\ Ascending(x) = Ascending(y) => Len(x) = Len(y)
<1>1. /\ Ascending(x) \in Seq(Word) /\ Len(Ascending(x)) = Len(x) /\ Rises(Ascending(x))
      /\ \A v : Times(Ascending(x), v) = Times(x, v)
  BY AscendingIs
<1>2. /\ Ascending(y) \in Seq(Word) /\ Len(Ascending(y)) = Len(y) /\ Rises(Ascending(y))
      /\ \A v : Times(Ascending(y), v) = Times(y, v)
  BY AscendingIs
<1>3. ASSUME \A v : Times(x, v) = Times(y, v) PROVE Ascending(x) = Ascending(y)
  <2>1. \A v : Times(Ascending(x), v) = Times(Ascending(y), v)
    BY <1>1, <1>2, <1>3
  <2> QED
    BY <1>1, <1>2, <2>1, SortedAreEqual
<1>4. ASSUME Ascending(x) = Ascending(y) PROVE \A v : Times(x, v) = Times(y, v)
  BY <1>1, <1>2, <1>4
<1> QED
  BY <1>1, <1>2, <1>3, <1>4

(* The code of a version that has one is its own. *)
KnownVersions == {2, 768, 769, 770, 771, 772}

LEMMA VersionTells ==
    ASSUME NEW g, NEW h, HighestVersion(g) \in KnownVersions, HighestVersion(h) \in KnownVersions
    PROVE  VersionCode(g) = VersionCode(h) <=> HighestVersion(g) = HighestVersion(h)
<1> DEFINE code(v) == CASE v = 772 -> "13" [] v = 771 -> "12" [] v = 770 -> "11" [] v = 769 -> "10"
                        [] v = 768 -> "s3" [] v = 2 -> "s2" [] OTHER -> "00"
<1>1. VersionCode(g) = code(HighestVersion(g)) /\ VersionCode(h) = code(HighestVersion(h))
  BY DEF VersionCode
<1>2. \A v, w \in KnownVersions : code(v) = code(w) => v = w
  <2>1. /\ code(2) = "s2" /\ code(768) = "s3" /\ code(769) = "10"
        /\ code(770) = "11" /\ code(771) = "12" /\ code(772) = "13"
    OBVIOUS
  <2> HIDE DEF code
  <2> QED
    BY <2>1 DEF KnownVersions
<1> HIDE DEF code
<1> QED
  BY <1>1, <1>2

(* A hash of one list or of two gives the lists away. *)
LEMMA HashTells ==
    ASSUME NEW x \in Seq(Word), NEW y \in Seq(Word)
    PROVE  TruncatedHash(<<x>>) = TruncatedHash(<<y>>) <=> x = y
<1> DEFINE p == <<x>>
           q == <<y>>
<1>1. p \in Seq(Seq(Word)) /\ q \in Seq(Seq(Word)) /\ p[1] = x /\ q[1] = y
  OBVIOUS
<1>2. /\ TruncatedHash(p) = IF x = <<>> THEN EmptyHash ELSE p
      /\ TruncatedHash(q) = IF y = <<>> THEN EmptyHash ELSE q
  BY DEF TruncatedHash
<1> HIDE DEF p, q
<1>3. p # EmptyHash /\ q # EmptyHash
  BY <1>1, Ja4Assumption
<1>4. p = q => x = y
  BY <1>1
<1>5. TruncatedHash(p) = TruncatedHash(q) => x = y
  BY <1>2, <1>3, <1>4
<1> QED
  BY <1>5 DEF p, q

LEMMA HashOfTwoTells ==
    ASSUME NEW x \in Seq(Word), NEW y \in Seq(Word), NEW s \in Seq(Word), NEW t \in Seq(Word)
    PROVE  TruncatedHash(<<x, s>>) = TruncatedHash(<<y, t>>) <=> x = y /\ s = t
<1> DEFINE p == <<x, s>>
           q == <<y, t>>
<1>1. /\ p \in Seq(Seq(Word)) /\ q \in Seq(Seq(Word))
      /\ p[1] = x /\ p[2] = s /\ q[1] = y /\ q[2] = t
  OBVIOUS
<1>2. /\ TruncatedHash(p) = IF x = <<>> /\ s = <<>> THEN EmptyHash ELSE p
      /\ TruncatedHash(q) = IF y = <<>> /\ t = <<>> THEN EmptyHash ELSE q
  <2>1. DOMAIN p = {1, 2} /\ DOMAIN q = {1, 2}
    OBVIOUS
  <2> HIDE DEF p, q
  <2> QED
    BY <1>1, <2>1 DEF TruncatedHash
<1> HIDE DEF p, q
<1>3. p # EmptyHash /\ q # EmptyHash
  BY <1>1, Ja4Assumption
<1>4. p = q => x = y /\ s = t
  BY <1>1
<1>5. TruncatedHash(p) = TruncatedHash(q) => x = y /\ s = t
  BY <1>2, <1>3, <1>4
<1> QED
  BY <1>5 DEF p, q

(* The cipher suites two hashes agree on, and the extensions. *)
LEMMA CiphersTell ==
    ASSUME NEW x \in Seq(Word), NEW y \in Seq(Word)
    PROVE  Ascending(Greaseless(x)) = Ascending(Greaseless(y))
              <=> \A v \in Range(x) \cup Range(y) : IsGrease(v) \/ Times(x, v) = Times(y, v)
<1>1. /\ Greaseless(x) \in Seq(Word)
      /\ \A v : Times(Greaseless(x), v) = IF IsGrease(v) THEN 0 ELSE Times(x, v)
  BY GreaselessTimes
<1>2. /\ Greaseless(y) \in Seq(Word)
      /\ \A v : Times(Greaseless(y), v) = IF IsGrease(v) THEN 0 ELSE Times(y, v)
  BY GreaselessTimes
<1>3. Ascending(Greaseless(x)) = Ascending(Greaseless(y))
         <=> \A v : Times(Greaseless(x), v) = Times(Greaseless(y), v)
  BY <1>1, <1>2, AscendingTells
<1>4. \A v : v \notin Range(x) \cup Range(y) => Times(x, v) = 0 /\ Times(y, v) = 0
  BY TimesOutside
<1>5. ASSUME \A v : Times(Greaseless(x), v) = Times(Greaseless(y), v)
      PROVE  \A v \in Range(x) \cup Range(y) : IsGrease(v) \/ Times(x, v) = Times(y, v)
  BY <1>1, <1>2, <1>5
<1>6. ASSUME \A v \in Range(x) \cup Range(y) : IsGrease(v) \/ Times(x, v) = Times(y, v)
      PROVE  \A v : Times(Greaseless(x), v) = Times(Greaseless(y), v)
  BY <1>1, <1>2, <1>4, <1>6
<1> QED
  BY <1>3, <1>5, <1>6

LEMMA ExtensionsTell ==
    ASSUME NEW x \in Seq(Word), NEW y \in Seq(Word)
    PROVE  Hashed(Greaseless(x)) = Hashed(Greaseless(y))
              <=> \A v \in Range(x) \cup Range(y) :
                     IsGrease(v) \/ v \in {ServerName, Alpn} \/ Times(x, v) = Times(y, v)
<1> DEFINE u == Unrequested(Greaseless(x))
           w == Unrequested(Greaseless(y))
           Out(v) == IsGrease(v) \/ v \in {ServerName, Alpn}
<1>1. u \in Seq(Word) /\ \A v : Times(u, v) = IF Out(v) THEN 0 ELSE Times(x, v)
  BY GreaselessTimes, UnrequestedTimes
<1>2. w \in Seq(Word) /\ \A v : Times(w, v) = IF Out(v) THEN 0 ELSE Times(y, v)
  BY GreaselessTimes, UnrequestedTimes
<1>3. Hashed(Greaseless(x)) = Ascending(u) /\ Hashed(Greaseless(y)) = Ascending(w)
  BY DEF Hashed
<1> HIDE DEF u, w, Out
<1>4. Ascending(u) = Ascending(w) <=> \A v : Times(u, v) = Times(w, v)
  BY <1>1, <1>2, AscendingTells
<1>5. \A v : v \notin Range(x) \cup Range(y) => Times(x, v) = 0 /\ Times(y, v) = 0
  BY TimesOutside
<1>6. ASSUME \A v : Times(u, v) = Times(w, v)
      PROVE  \A v \in Range(x) \cup Range(y) : Out(v) \/ Times(x, v) = Times(y, v)
  BY <1>1, <1>2, <1>6
<1>7. ASSUME \A v \in Range(x) \cup Range(y) : Out(v) \/ Times(x, v) = Times(y, v)
      PROVE  \A v : Times(u, v) = Times(w, v)
  BY <1>1, <1>2, <1>5, <1>7
<1>8. Ascending(u) = Ascending(w) <=> \A v \in Range(x) \cup Range(y) : Out(v) \/ Times(x, v) = Times(y, v)
  BY <1>4, <1>6, <1>7
<1> QED
  BY <1>3, <1>8, Zenon DEF Out

(* Two hellos have the same fingerprint exactly when they make the same offer. *)
LEMMA FingerprintTells ==
    ASSUME NEW g \in Hellos, NEW h \in Hellos, NEW t,
           HighestVersion(g) \in KnownVersions, HighestVersion(h) \in KnownVersions
    PROVE  FromClientHello(g, t) = FromClientHello(h, t) <=> SameOffer(g, h)
<1>1. /\ g.cipher_suites \in Seq(Word) /\ g.extensions \in Seq(Word)
      /\ g.signature_algorithms \in Seq(Word)
  BY HelloFields
<1>2. /\ h.cipher_suites \in Seq(Word) /\ h.extensions \in Seq(Word)
      /\ h.signature_algorithms \in Seq(Word)
  BY HelloFields
<1> DEFINE gc == Greaseless(g.cipher_suites)
           hc == Greaseless(h.cipher_suites)
           ge == Greaseless(g.extensions)
           he == Greaseless(h.extensions)
           gs == Greaseless(g.signature_algorithms)
           hs == Greaseless(h.signature_algorithms)
           gn == ServerName \in Range(g.extensions)
           hn == ServerName \in Range(h.extensions)
           SameVersion == VersionCode(g) = VersionCode(h)
           SameAlpn == AlpnCode(g) = AlpnCode(h)
           SameSuites == Ascending(gc) = Ascending(hc)
           SameExtensions == Hashed(ge) = Hashed(he)
           SameCount == Count(ge) = Count(he)
           Ciphers == \A v \in Range(g.cipher_suites) \cup Range(h.cipher_suites) :
                         IsGrease(v) \/ Times(g.cipher_suites, v) = Times(h.cipher_suites, v)
           Extensions == \A v \in Range(g.extensions) \cup Range(h.extensions) :
                            \/ IsGrease(v) \/ v \in {ServerName, Alpn}
                            \/ Times(g.extensions, v) = Times(h.extensions, v)
<1>3. /\ gc \in Seq(Word) /\ hc \in Seq(Word) /\ ge \in Seq(Word) /\ he \in Seq(Word)
      /\ gs \in Seq(Word) /\ hs \in Seq(Word)
  BY <1>1, <1>2, GreaselessTimes
<1>4. SameSuites <=> Ciphers
  BY <1>1, <1>2, CiphersTell
<1>5. SameExtensions <=> Extensions
  BY <1>1, <1>2, ExtensionsTell
<1>6. SameVersion <=> HighestVersion(g) = HighestVersion(h)
  BY VersionTells
<1>7. SameOffer(g, h) <=> /\ HighestVersion(g) = HighestVersion(h) /\ SameAlpn /\ (gn <=> hn)
                          /\ SameCount /\ Ciphers /\ Extensions /\ gs = hs
  BY Zenon DEF SameOffer
<1>8. SameSuites => Count(gc) = Count(hc)
  <2>1. SameSuites => Len(gc) = Len(hc)
    BY <1>3, AscendingTells
  <2> QED
    BY <2>1, Zenon DEF Count
<1>9. Ascending(gc) \in Seq(Word) /\ Ascending(hc) \in Seq(Word)
  BY <1>3, AscendingIs
<1>10. Hashed(ge) \in Seq(Word) /\ Hashed(he) \in Seq(Word)
  BY <1>3, UnrequestedTimes, AscendingIs DEF Hashed
<1> DEFINE ga == [transport |-> t, version |-> VersionCode(g), sni |-> gn,
                  ciphers |-> Count(gc), extensions |-> Count(ge), alpn |-> AlpnCode(g)]
           ha == [transport |-> t, version |-> VersionCode(h), sni |-> hn,
                  ciphers |-> Count(hc), extensions |-> Count(he), alpn |-> AlpnCode(h)]
           gb == TruncatedHash(<<Ascending(gc)>>)
           hb == TruncatedHash(<<Ascending(hc)>>)
           gx == TruncatedHash(<<Hashed(ge), gs>>)
           hx == TruncatedHash(<<Hashed(he), hs>>)
<1>11. /\ FromClientHello(g, t) = [a |-> ga, b |-> gb, c |-> gx]
       /\ FromClientHello(h, t) = [a |-> ha, b |-> hb, c |-> hx]
  BY DEF FromClientHello
<1>12. gb = hb <=> SameSuites
  BY <1>9, HashTells
<1>13. gx = hx <=> SameExtensions /\ gs = hs
  BY <1>3, <1>10, HashOfTwoTells
<1>14. ga = ha <=> SameVersion /\ (gn <=> hn) /\ Count(gc) = Count(hc) /\ SameCount /\ SameAlpn
  <2>1. ASSUME NEW v1, NEW n1 \in BOOLEAN, NEW c1, NEW e1, NEW p1,
               NEW v2, NEW n2 \in BOOLEAN, NEW c2, NEW e2, NEW p2
        PROVE  [transport |-> t, version |-> v1, sni |-> n1, ciphers |-> c1, extensions |-> e1, alpn |-> p1]
             = [transport |-> t, version |-> v2, sni |-> n2, ciphers |-> c2, extensions |-> e2, alpn |-> p2]
               <=> v1 = v2 /\ n1 = n2 /\ c1 = c2 /\ e1 = e2 /\ p1 = p2
    OBVIOUS
  <2>2. gn \in BOOLEAN /\ hn \in BOOLEAN
    OBVIOUS
  <2>3. (gn <=> hn) <=> (gn = hn)
    OBVIOUS
  <2> HIDE DEF gn, hn, gc, hc, ge, he
  <2>4. ga = ha <=> /\ VersionCode(g) = VersionCode(h) /\ gn = hn /\ Count(gc) = Count(hc)
                    /\ Count(ge) = Count(he) /\ AlpnCode(g) = AlpnCode(h)
    BY <2>1, <2>2
  <2> QED
    BY <2>3, <2>4
<1> HIDE DEF ga, ha, gb, hb, gx, hx
<1>15. FromClientHello(g, t) = FromClientHello(h, t) <=> ga = ha /\ gb = hb /\ gx = hx
  BY <1>11
<1> HIDE DEF gn, hn, SameVersion, SameAlpn, SameSuites, SameExtensions, SameCount, Ciphers, Extensions,
             gc, hc, ge, he, gs, hs
<1> QED
  BY <1>4, <1>5, <1>6, <1>7, <1>8, <1>12, <1>13, <1>14, <1>15

(* A hello that reads was sent whole. *)
LEMMA WholeIsSent ==
    ASSUME NEW s \in Sent, s.reads = NoError
    PROVE  s.hello \in Hellos
<1>1. s.reads \notin {"Truncated", "Malformed", "NotClientHello"}
  BY ParserAssumption
<1>2. SendsWhole(s)
  BY <1>1, SentAssumption DEF SendsStray, HangsUp, SendsInPieces, SendsOther
<1> QED
  BY <1>2 DEF SendsWhole, SendsHello, WellFormed

(* Ja4::from_client_hello of what was captured, for any hellos: as many names as
   there are browsers.  The order of what is sent, GREASE and the host do not
   show, and nothing that tells two browsers apart is lost. *)
THEOREM FingerprintsNameBrowsers == CaptureSpec => []Ja4NamesTheBrowser
<1>1. ASSUME CaptureInv, ParsedIsSent PROVE Ja4NamesTheBrowser
  <2> DEFINE whole == {k \in 1..Len(captured) : Reads(k) = NoError}
  <2>1. ASSUME NEW k \in whole
        PROVE  /\ Sender(k) \in Sent /\ Sender(k).reads = NoError
               /\ Ja4Of(captured[k].hello) = FromClientHello(Sender(k).hello, "t")
    <3>1. k \in 1..Len(captured) /\ Reads(k) = NoError
      OBVIOUS
    <3>2. Sender(k) \in Sent
      BY <1>1, <3>1, CapturedIsSent
    <3>3. Sender(k).reads = NoError
      BY <3>1, ParserAssumption DEF Reads
    <3>4. /\ Parse(captured[k].hello).err = NoError
          /\ Parse(captured[k].hello).hello = Sender(k).hello
      BY <1>1, <3>1 DEF ParsedIsSent
    <3>5. Ja4Of(captured[k].hello) = FromClientHello(Sender(k).hello, "t")
      BY <3>4 DEF Ja4Of
    <3> QED
      BY <3>2, <3>3, <3>5
  <2>2. ASSUME NEW k \in whole, NEW l \in whole
        PROVE  Ja4Of(captured[k].hello) = Ja4Of(captured[l].hello) <=> Sender(k).browser = Sender(l).browser
    <3> DEFINE r == Sender(k)
               s == Sender(l)
    <3>1. /\ r \in Sent /\ r.reads = NoError
          /\ Ja4Of(captured[k].hello) = FromClientHello(r.hello, "t")
      BY <2>1
    <3>2. /\ s \in Sent /\ s.reads = NoError
          /\ Ja4Of(captured[l].hello) = FromClientHello(s.hello, "t")
      BY <2>1
    <3> HIDE DEF r, s
    <3>3. /\ HighestVersion(r.hello) \in KnownVersions /\ HighestVersion(s.hello) \in KnownVersions
          /\ r.browser = s.browser <=> SameOffer(r.hello, s.hello)
      BY <3>1, <3>2, BrowserAssumption DEF KnownVersions
    <3>4. r.hello \in Hellos /\ s.hello \in Hellos
      BY <3>1, <3>2, WholeIsSent
    <3>5. FromClientHello(r.hello, "t") = FromClientHello(s.hello, "t") <=> SameOffer(r.hello, s.hello)
      BY <3>3, <3>4, FingerprintTells
    <3> QED
      BY <3>1, <3>2, <3>3, <3>5 DEF r, s
  <2> HIDE DEF whole
  <2> DEFINE named == {<<Ja4Of(captured[k].hello), Sender(k).browser>> : k \in whole}
  <2>3. ASSUME NEW x \in named, NEW y \in named PROVE x[1] = y[1] <=> x[2] = y[2]
    <3>1. PICK k \in whole : x = <<Ja4Of(captured[k].hello), Sender(k).browser>>
      OBVIOUS
    <3>2. PICK l \in whole : y = <<Ja4Of(captured[l].hello), Sender(l).browser>>
      OBVIOUS
    <3> QED
      BY <2>2, <3>1, <3>2
  <2> QED
    BY <2>3 DEF Ja4NamesTheBrowser, whole
<1> QED
  BY CaptureInvariance, CapturedHelloIsRead, <1>1, PTL
=============================================================================
