----------------------------- MODULE MitmProxy -----------------------------
(***************************************************************************)
(* The local TLS-terminating proxy (proxy.rs) with the certificate cache   *)
(* its tunnels share (CertAuthority::acceptor in ca.rs).                   *)
(*                                                                         *)
(* A connection carries plain requests until a CONNECT makes a tunnel of   *)
(* it.  Each runs in a task of its own.  A tunnel takes an acceptor for its *)
(* host: from the cache, or, with the lock released in between, by minting *)
(* one and looking again.  Each request takes a copy of the client in the  *)
(* slot, which a rotation replaces, and is forwarded through that copy.    *)
(* Dropping the proxy cancels one token: the listener and every serving    *)
(* connection select on it; a tunnel that is still in its handshake does   *)
(* not.  Status codes and headers are left out: a request ends, with the   *)
(* answer of the upstream or with a 502.                                   *)
(***************************************************************************)
EXTENDS LeafCache

CONSTANTS
    Conns,      \* connections the browser opens
    Names,      \* hosts it names in CONNECT
    Valid,      \* those is_valid_host accepts
    MaxSwaps,   \* bound: calls of set_upstream_client
    None

ASSUME NamesAssumption == Valid \subseteq Names /\ None \notin Names \cup Nat
ASSUME MaxSwapsAssumption == MaxSwaps \in Nat

VARIABLES
    pc,         \* where the task of each connection is
    host,       \* the host of a tunnel
    leaf,       \* the acceptor it was given
    used,       \* the client its request went through
    cache,      \* CertAuthority::cache
    serial,     \* leaves minted so far
    slot,       \* the client in client_slot: the swaps made so far
    cancelled,  \* the cancellation token
    listening   \* whether the accept loop is running

conns == <<pc, host, leaf, used>>
proxy == <<slot, cancelled, listening>>
vars == <<conns, cache, serial, proxy>>

Leaves == [host : Names, serial : Nat]

TypeOK ==
    /\ pc \in [Conns -> {"none", "upgrade", "mint", "handshake", "serve", "forward", "closed"}]
    /\ host \in [Conns -> Names \cup {None}]
    /\ leaf \in [Conns -> Leaves \cup {None}]
    /\ used \in [Conns -> 0..MaxSwaps \cup {None}]
    /\ Hosts(cache) \subseteq Valid
    /\ \A h \in Hosts(cache) : cache.acceptors[h] \in Leaves /\ cache.acceptors[h].host = h
    /\ cache.order \in Seq(Valid) /\ Cardinality(Hosts(cache)) <= MaxCached
    /\ serial \in Nat
    /\ slot \in 0..MaxSwaps
    /\ cancelled \in BOOLEAN /\ listening \in BOOLEAN

Init ==
    /\ pc = [c \in Conns |-> "none"]
    /\ host = [c \in Conns |-> None]
    /\ leaf = [c \in Conns |-> None]
    /\ used = [c \in Conns |-> None]
    /\ cache = Default
    /\ serial = 0
    /\ slot = 0
    /\ cancelled = FALSE
    /\ listening = TRUE

-----------------------------------------------------------------------------
(* The listener *)

Accept(c) ==
    /\ listening /\ pc[c] = "none"
    /\ pc' = [pc EXCEPT ![c] = "serve"]
    /\ UNCHANGED <<host, leaf, used, cache, serial, proxy>>

(* The accept loop may take more connections before it sees the token. *)
ListenerStops ==
    /\ cancelled /\ listening
    /\ listening' = FALSE
    /\ UNCHANGED <<conns, cache, serial, slot, cancelled>>

-----------------------------------------------------------------------------
(* The tunnel and its acceptor *)

Connect(c, h) ==
    /\ pc[c] = "serve" /\ host[c] = None
    /\ pc' = [pc EXCEPT ![c] = "upgrade"]
    /\ host' = [host EXCEPT ![c] = h]
    /\ UNCHANGED <<leaf, used, cache, serial, proxy>>

Closes(c) ==
    /\ pc' = [pc EXCEPT ![c] = "closed"]
    /\ leaf' = [leaf EXCEPT ![c] = None]
    /\ used' = [used EXCEPT ![c] = None]
    /\ UNCHANGED <<host, cache, serial, proxy>>

(* The upgrade fails, the host is refused, or no leaf can be built.  The   *)
(* token ends an upgrade by dropping the connection it belongs to.         *)
NoTunnel(c) ==
    /\ pc[c] \in {"upgrade", "mint"}
    /\ Closes(c)

IsValidHost(h) == h \in Valid

Cached(c) == host[c] \in Hosts(cache)

Hit(c) ==
    /\ pc[c] = "upgrade" /\ IsValidHost(host[c]) /\ Cached(c)
    /\ pc' = [pc EXCEPT ![c] = "handshake"]
    /\ leaf' = [leaf EXCEPT ![c] = cache.acceptors[host[c]]]
    /\ UNCHANGED <<host, used, cache, serial, proxy>>

(* The first look finds nothing; the lock is released. *)
Miss(c) ==
    /\ pc[c] = "upgrade" /\ IsValidHost(host[c]) /\ ~Cached(c)
    /\ pc' = [pc EXCEPT ![c] = "mint"]
    /\ UNCHANGED <<host, leaf, used, cache, serial, proxy>>

NewLeaf(c) == [host |-> host[c], serial |-> serial + 1]

(* MUTANT: the tunnel keeps the leaf it minted even if another was first. *)
Mint_KeepsOwn(c) ==
    /\ pc[c] = "mint"
    /\ serial' = serial + 1
    /\ cache' = Insert(cache, host[c], NewLeaf(c))
    /\ leaf' = [leaf EXCEPT ![c] = NewLeaf(c)]
    /\ pc' = [pc EXCEPT ![c] = "handshake"]
    /\ UNCHANGED <<host, used, proxy>>

(* Build a leaf, take the lock, look again, insert. *)
Mint(c) ==
    /\ pc[c] = "mint"
    /\ serial' = serial + 1
    /\ cache' = Insert(cache, host[c], NewLeaf(c))
    /\ leaf' = [leaf EXCEPT ![c] = cache'.acceptors[host[c]]]
    /\ pc' = [pc EXCEPT ![c] = "handshake"]
    /\ UNCHANGED <<host, used, proxy>>

(* The handshake with the browser; it may also fail. *)
Handshake(c) ==
    /\ pc[c] = "handshake"
    /\ \/ pc' = [pc EXCEPT ![c] = "serve"] /\ UNCHANGED <<host, leaf, used, cache, serial, proxy>>
       \/ Closes(c)

-----------------------------------------------------------------------------
(* Requests *)

(* MUTANT: a tunnel takes its client once and keeps it. *)
Snapshot_Once(c) == IF host[c] = None THEN slot ELSE 0

Snapshot(c) == slot

Request(c) ==
    /\ pc[c] = "serve"
    /\ pc' = [pc EXCEPT ![c] = "forward"]
    /\ used' = [used EXCEPT ![c] = Snapshot(c)]
    /\ UNCHANGED <<host, leaf, cache, serial, proxy>>

Respond(c) ==
    /\ pc[c] = "forward"
    /\ pc' = [pc EXCEPT ![c] = "serve"]
    /\ used' = [used EXCEPT ![c] = None]
    /\ UNCHANGED <<host, leaf, cache, serial, proxy>>

(* The browser hangs up. *)
HangUp(c) ==
    /\ pc[c] \in {"serve", "forward"}
    /\ Closes(c)

(* MUTANT: tunnels do not watch the token. *)
Shutdown_PlainOnly(c) ==
    /\ cancelled /\ pc[c] \in {"serve", "forward"} /\ host[c] = None
    /\ Closes(c)

(* The token ends the select: the connection is dropped with its request. *)
Shutdown(c) ==
    /\ cancelled /\ pc[c] \in {"serve", "forward"}
    /\ Closes(c)

-----------------------------------------------------------------------------
(* The owner *)

SetUpstreamClient ==
    /\ ~cancelled /\ slot < MaxSwaps
    /\ slot' = slot + 1
    /\ UNCHANGED <<conns, cache, serial, cancelled, listening>>

DropProxy ==
    /\ ~cancelled
    /\ cancelled' = TRUE
    /\ UNCHANGED <<conns, cache, serial, slot, listening>>

-----------------------------------------------------------------------------
Acceptor(c) == NoTunnel(c) \/ Hit(c) \/ Miss(c) \/ Mint(c)

Serve(c) == (\E h \in Names : Connect(c, h)) \/ Request(c) \/ Respond(c) \/ HangUp(c)

Gone(c) == pc[c] \in {"none", "closed"}

Terminated == ~listening /\ (\A c \in Conns : Gone(c)) /\ UNCHANGED vars

Next ==
    \/ \E c \in Conns : Accept(c) \/ Acceptor(c) \/ Handshake(c) \/ Serve(c) \/ Shutdown(c)
    \/ ListenerStops
    \/ SetUpstreamClient
    \/ DropProxy
    \/ Terminated

(* The runtime polls what is ready, the token among it.  A handshake ends: *)
(* the browser goes on with it or is killed with the scraper that owns     *)
(* both.  Nothing is assumed of requests.                                  *)
Fairness ==
    /\ WF_vars(ListenerStops)
    /\ \A c \in Conns : WF_vars(Acceptor(c)) /\ WF_vars(Handshake(c)) /\ WF_vars(Shutdown(c))

Spec == Init /\ [][Next]_vars /\ Fairness

-----------------------------------------------------------------------------
(* The map and the eviction list of the cache hold the same hosts, each    *)
(* once, however many tunnels mint at the same time, so that eviction      *)
(* always finds what it counts (LeafCache::insert, CertAuthority::acceptor). *)
CacheAgrees == Agrees(cache)

(* A tunnel is given the leaf that is cached for its host, and a cached    *)
(* leaf is not replaced while it is cached: of two that mint for one host  *)
(* the first to land serves both (CertAuthority::acceptor).                *)
FirstLeafServesAll ==
    [][/\ \A c \in Conns : leaf'[c] \notin {leaf[c], None} =>
             Cached(c)' /\ leaf'[c] = cache'.acceptors[host[c]]
       /\ \A h \in Hosts(cache) \cap Hosts(cache') :
             cache'.acceptors[h] = cache.acceptors[h]]_vars

Through(v) == {c \in Conns : used[c] = v}

(* CertAuthority::acceptor: a bounded cache that stays whole, and one leaf per *)
(* host for as long as it is cached.                                          *)
LeavesAgree == []CacheAgrees /\ FirstLeafServesAll

(* A client that was swapped out gets no further request, not even from a  *)
(* connection that was open before the swap; requests it has finish on it  *)
(* (TlsSpoofingProxy::set_upstream_client).                                *)
SwappedOutDrains == [][\A v \in 0..MaxSwaps : v # slot => Through(v)' \subseteq Through(v)]_vars

(* Once the proxy is dropped the listener stops and every connection ends  *)
(* (Drop for TlsSpoofingProxy).                                            *)
DropEndsEverything == cancelled ~> (~listening /\ \A c \in Conns : Gone(c))
=============================================================================
