-------------------------- MODULE KeptStateProofs --------------------------
(***************************************************************************)
(* What a session keeps: the record of each host in its store, and the     *)
(* cookies of its identity.                                                *)
(*                                                                         *)
(* The stores that override update are atomic maps for any number of       *)
(* threads, hosts and outcomes.  The invariant behind it is mutual         *)
(* exclusion: between its read and its write a call holds the mutex or the *)
(* write transaction, so what it read is still what is stored.             *)
(*                                                                         *)
(* No cookie goes where its setter has no say, the two legs hold the same  *)
(* cookies, and the HTTP leg sends what a browser would, for any hosts,    *)
(* suffixes and Set-Cookie headers.  The invariant behind the first is     *)
(* that every cookie of the jar and of the browser is in a scope its       *)
(* setter may set; the second needs that the parser of the HTTP leg and    *)
(* the rules of the RFC accept the same headers and store the same         *)
(* cookies, and the third that their matching agrees.                      *)
(***************************************************************************)
EXTENDS StateStores, CookieJar,
        WellFoundedInduction, FiniteSetTheorems, SequenceTheorems, TLAPS

(* A call that has begun is one of the port's. *)
CallsAreKnown == \A t \in Threads : pc[t] # "idle" => req[t] \in Request

Inv == TypeOK /\ CallsAreKnown /\ HolderIsInside /\ UpdateSeesLatest

----------------------------------------------------------------------------
(* Values. *)

LEMMA RequestFields ==
    ASSUME NEW r \in Request
    PROVE  /\ r.op \in {"get", "put", "remove", "update"}
           /\ r.host \in Host
           /\ r.state \in Value
BY CountAssumption DEF Request, Value, New

LEMMA EffectType ==
    ASSUME NEW r \in Request, NEW v \in Stored
    PROVE  Effect(r, v) \in Stored
<1>1. Recorded(v) \in Value
  BY CountAssumption, NoneAssumption DEF Recorded, Stored, Value, New
<1> QED
  BY <1>1, RequestFields DEF Effect, Stored

LEMMA AnswerType ==
    ASSUME NEW r \in Request, NEW v \in Stored
    PROVE  Answer(r, v) \in Answers
<1>1. Recorded(v) \in Value
  BY CountAssumption, NoneAssumption DEF Recorded, Stored, Value, New
<1> QED
  BY <1>1, RequestFields DEF Answer, Answers, Stored

LEMMA FailedType == Failed \in Answers
BY DEF Failed, Answers, Stored

----------------------------------------------------------------------------
(* The invariant. *)

LEMMA InitInv == Init => Inv
<1> SUFFICES ASSUME Init PROVE Inv
  OBVIOUS
<1>1. TypeOK
  BY FailedType DEF Init, TypeOK, Stored
<1> QED
  BY <1>1 DEF Init, Inv, CallsAreKnown, HolderIsInside, UpdateSeesLatest

LEMMA TypeStep == Inv /\ [Next]_vars => TypeOK' /\ CallsAreKnown'
<1> SUFFICES ASSUME Inv, [Next]_vars PROVE TypeOK' /\ CallsAreKnown'
  OBVIOUS
<1> USE DEF Inv, TypeOK, CallsAreKnown
<1>1. ASSUME NEW t \in Threads, Call(t) PROVE TypeOK' /\ CallsAreKnown'
  BY <1>1 DEF Call
<1>2. ASSUME NEW t \in Threads, Lock(t) PROVE TypeOK' /\ CallsAreKnown'
  BY <1>2 DEF Lock
<1>3. ASSUME NEW t \in Threads, LockPoisoned(t) PROVE TypeOK' /\ CallsAreKnown'
  BY <1>3, FailedType DEF LockPoisoned, Ends
<1>4. ASSUME NEW t \in Threads, BeginWrite(t) PROVE TypeOK' /\ CallsAreKnown'
  BY <1>4 DEF BeginWrite
<1>5. ASSUME NEW t \in Threads, Read(t) PROVE TypeOK' /\ CallsAreKnown'
  <2>1. pc[t] # "idle" /\ req[t] \in Request
    BY <1>5 DEF Read, ReadsUnlocked
  <2>2. table[req[t].host] \in Stored
    BY <2>1, RequestFields
  <2>3. Answer(req[t], table[req[t].host]) \in Answers
    BY <2>1, <2>2, AnswerType
  <2>4. CASE req[t].op = "get"
    BY <1>5, <2>1, <2>2, <2>3, <2>4 DEF Read, Ends, Released
  <2>5. CASE req[t].op # "get"
    BY <1>5, <2>1, <2>2, <2>5 DEF Read
  <2> QED BY <2>4, <2>5
<1>6. ASSUME NEW t \in Threads, Publish(t) PROVE TypeOK' /\ CallsAreKnown'
  <2>1. pc[t] # "idle" /\ req[t] \in Request
    BY <1>6 DEF Publish
  <2>2. /\ Effect(req[t], base[t]) \in Stored
        /\ Answer(req[t], base[t]) \in Answers
    BY <2>1, EffectType, AnswerType
  <2> QED
    BY <1>6, <2>1, <2>2 DEF Publish, Ends, Released
<1>7. ASSUME NEW t \in Threads, ClosurePanics(t) PROVE TypeOK' /\ CallsAreKnown'
  BY <1>7, FailedType DEF ClosurePanics, Ends, Released
<1>8. ASSUME NEW t \in Threads, StepFails(t) PROVE TypeOK' /\ CallsAreKnown'
  BY <1>8, FailedType DEF StepFails, Ends, Released
<1>9. ASSUME NEW t \in Threads, Return(t) PROVE TypeOK' /\ CallsAreKnown'
  BY <1>9, FailedType DEF Return, Stored
<1>10. CASE Crash
  BY <1>10, FailedType DEF Crash, Stored
<1>11. CASE Open
  BY <1>11 DEF Open
<1>12. CASE UNCHANGED vars
  BY <1>12 DEF vars
<1> QED
  BY <1>1, <1>2, <1>3, <1>4, <1>5, <1>6, <1>7, <1>8, <1>9, <1>10, <1>11, <1>12 DEF Next, Step

(* One call at a time is between its read and its write. *)
LEMMA ExclusionStep == Inv /\ [Next]_vars => HolderIsInside'
<1> SUFFICES ASSUME Inv, [Next]_vars PROVE HolderIsInside'
  OBVIOUS
<1> USE NoneAssumption DEF Inv, TypeOK, HolderIsInside
<1>1. ASSUME NEW t \in Threads, Call(t) PROVE HolderIsInside'
  BY <1>1 DEF Call
<1>2. ASSUME NEW t \in Threads, Lock(t) PROVE HolderIsInside'
  BY <1>2 DEF Lock
<1>3. ASSUME NEW t \in Threads, LockPoisoned(t) PROVE HolderIsInside'
  BY <1>3 DEF LockPoisoned, Ends
<1>4. ASSUME NEW t \in Threads, BeginWrite(t) PROVE HolderIsInside'
  BY <1>4 DEF BeginWrite
<1>5. ASSUME NEW t \in Threads, Read(t) PROVE HolderIsInside'
  BY <1>5 DEF Read, ReadsUnlocked, Ends, Released
<1>6. ASSUME NEW t \in Threads, Publish(t) PROVE HolderIsInside'
  BY <1>6 DEF Publish, Ends, Released
<1>7. ASSUME NEW t \in Threads, ClosurePanics(t) PROVE HolderIsInside'
  BY <1>7 DEF ClosurePanics, Ends, Released
<1>8. ASSUME NEW t \in Threads, StepFails(t) PROVE HolderIsInside'
  BY <1>8 DEF StepFails, Ends, Released
<1>9. ASSUME NEW t \in Threads, Return(t) PROVE HolderIsInside'
  BY <1>9 DEF Return
<1>10. CASE Crash
  BY <1>10 DEF Crash
<1>11. CASE Open
  BY <1>11 DEF Open
<1>12. CASE UNCHANGED vars
  BY <1>12 DEF vars
<1> QED
  BY <1>1, <1>2, <1>3, <1>4, <1>5, <1>6, <1>7, <1>8, <1>9, <1>10, <1>11, <1>12 DEF Next, Step

(* What a call read stays what is stored until the call writes. *)
LEMMA LatestStep == Inv /\ [Next]_vars => UpdateSeesLatest'
<1> SUFFICES ASSUME Inv, [Next]_vars PROVE UpdateSeesLatest'
  OBVIOUS
<1> USE NoneAssumption DEF Inv, TypeOK, HolderIsInside, UpdateSeesLatest
<1>1. ASSUME NEW t \in Threads, Call(t) PROVE UpdateSeesLatest'
  BY <1>1 DEF Call
<1>2. ASSUME NEW t \in Threads, Lock(t) PROVE UpdateSeesLatest'
  BY <1>2 DEF Lock
<1>3. ASSUME NEW t \in Threads, LockPoisoned(t) PROVE UpdateSeesLatest'
  BY <1>3 DEF LockPoisoned, Ends
<1>4. ASSUME NEW t \in Threads, BeginWrite(t) PROVE UpdateSeesLatest'
  BY <1>4 DEF BeginWrite
<1>5. ASSUME NEW t \in Threads, Read(t) PROVE UpdateSeesLatest'
  BY <1>5 DEF Read, Ends
<1>6. ASSUME NEW t \in Threads, Publish(t) PROVE UpdateSeesLatest'
  <2> SUFFICES ASSUME NEW u \in Threads, adapter # "inherited", pc'[u] = "ready"
               PROVE  base[u] = table'[req[u].host]
    BY <1>6 DEF Publish
  <2>1. u # t /\ pc[u] = "ready" /\ pc[t] = "ready"
    BY <1>6 DEF Publish, Ends
  <2>2. holder = u /\ holder = t
    BY <2>1
  <2> QED BY <2>1, <2>2
<1>7. ASSUME NEW t \in Threads, ClosurePanics(t) PROVE UpdateSeesLatest'
  BY <1>7 DEF ClosurePanics, Ends
<1>8. ASSUME NEW t \in Threads, StepFails(t) PROVE UpdateSeesLatest'
  BY <1>8 DEF StepFails, Ends
<1>9. ASSUME NEW t \in Threads, Return(t) PROVE UpdateSeesLatest'
  BY <1>9 DEF Return
<1>10. CASE Crash
  BY <1>10 DEF Crash
<1>11. CASE Open
  BY <1>11 DEF Open
<1>12. CASE UNCHANGED vars
  BY <1>12 DEF vars
<1> QED
  BY <1>1, <1>2, <1>3, <1>4, <1>5, <1>6, <1>7, <1>8, <1>9, <1>10, <1>11, <1>12 DEF Next, Step

LEMMA Invariance == Spec => []Inv
<1>1. Inv /\ [Next]_vars => Inv'
  BY TypeStep, ExclusionStep, LatestStep DEF Inv
<1> QED
  BY InitInv, <1>1, PTL DEF Spec

(* The types of the stores: every adapter only ever holds and answers
   records of the port, whatever is called, fails or dies. *)
THEOREM TypeCorrect == Spec => []TypeOK
<1>1. Inv => TypeOK
  BY DEF Inv
<1> QED
  BY Invariance, <1>1, PTL

(* Between its read and its write a call of a built-in store has the mutex or
   the write transaction, and nobody has written what it read. *)
THEOREM UpdatesAreIsolated == Spec => [](HolderIsInside /\ UpdateSeesLatest)
<1>1. Inv => HolderIsInside /\ UpdateSeesLatest
  BY DEF Inv
<1> QED
  BY Invariance, <1>1, PTL

----------------------------------------------------------------------------
(* The refinement. *)

(* What callers see changes for the thread that takes a step only. *)
LEMMA SeenBy ==
    ASSUME NEW t \in Threads, NEW v,
           Seen(t)' = v,
           \A u \in Threads \ {t} : Seen(u)' = Seen(u)
    PROVE  [u \in Threads |-> Seen(u)]' = [[u \in Threads |-> Seen(u)] EXCEPT ![t] = v]
OBVIOUS

(* A step inside a call shows nothing. *)
LEMMA Unseen ==
    ASSUME \A u \in Threads : Seen(u)' = Seen(u), UNCHANGED table
    PROVE  UNCHANGED Atomic!vars
BY DEF Atomic!vars

(* A call that is under way, as the abstract map knows it. *)
LEMMA SeenPending ==
    ASSUME Inv, NEW t \in Threads, pc[t] \in {"called", "held", "ready"}
    PROVE  req[t] \in Request /\ Seen(t) = Atomic!Pending(req[t])
BY DEF Inv, CallsAreKnown, Seen, Atomic!Pending, Atomic!Failed, Failed

(* A step that ends a call with the stored value it found. *)
LEMMA EndsWell ==
    ASSUME Inv, NEW t \in Threads, pc[t] \in {"called", "held", "ready"},
           Ends(t, Answer(req[t], table[req[t].host])), UNCHANGED req,
           table' = [table EXCEPT ![req[t].host] = Effect(req[t], table[req[t].host])]
    PROVE  Atomic!Next
<1>1. req[t] \in Request /\ Seen(t) = Atomic!Pending(req[t])
  BY SeenPending
<1>2. Seen(t)' = Atomic!Done(req[t], Answer(req[t], table[req[t].host]))
  BY DEF Ends, Seen, Atomic!Done, Inv, TypeOK
<1>3. \A u \in Threads \ {t} : Seen(u)' = Seen(u)
  BY DEF Ends, Seen, Inv, TypeOK
<1>4. Atomic!TakeEffect(t)
  BY <1>1, <1>2, <1>3, SeenBy DEF Atomic!TakeEffect
<1> QED
  BY <1>4 DEF Atomic!Next

(* A step that ends a call with an error and leaves the map alone. *)
LEMMA EndsBadly ==
    ASSUME Inv, NEW t \in Threads, pc[t] \in {"called", "held", "ready"},
           Ends(t, Failed), UNCHANGED <<table, req>>
    PROVE  Atomic!Next
<1>1. req[t] \in Request /\ Seen(t) = Atomic!Pending(req[t])
  BY SeenPending
<1>2. Seen(t)' = Atomic!Done(req[t], Atomic!Failed)
  BY DEF Ends, Seen, Atomic!Done, Atomic!Failed, Failed, Inv, TypeOK
<1>3. \A u \in Threads \ {t} : Seen(u)' = Seen(u)
  BY DEF Ends, Seen, Inv, TypeOK
<1>4. Atomic!Fail(t)
  BY <1>1, <1>2, <1>3, SeenBy DEF Atomic!Fail
<1> QED
  BY <1>4 DEF Atomic!Next

LEMMA StepRefines ==
    Inv /\ [Next]_vars => [adapter # "inherited" => Atomic!Next]_(Atomic!vars)
<1> SUFFICES ASSUME Inv, [Next]_vars, adapter # "inherited"
             PROVE  Atomic!Next \/ UNCHANGED Atomic!vars
  OBVIOUS
<1>1. ASSUME NEW t \in Threads, Call(t) PROVE Atomic!Next
  <2>1. PICK r \in Request : req' = [req EXCEPT ![t] = r]
    BY <1>1 DEF Call
  <2>2. Seen(t) = None
    BY <1>1 DEF Call, Seen
  <2>3. Seen(t)' = Atomic!Pending(r)
    BY <1>1, <2>1 DEF Call, Seen, Atomic!Pending, Atomic!Failed, Failed, Inv, TypeOK
  <2>4. \A u \in Threads \ {t} : Seen(u)' = Seen(u)
    BY <1>1, <2>1 DEF Call, Seen, Inv, TypeOK
  <2>5. Atomic!Call(t)
    BY <1>1, <2>2, <2>3, <2>4, SeenBy DEF Call, Atomic!Call
  <2> QED
    BY <2>5 DEF Atomic!Next
<1>2. ASSUME NEW t \in Threads, Lock(t) \/ BeginWrite(t) PROVE UNCHANGED Atomic!vars
  <2>1. \A u \in Threads : Seen(u)' = Seen(u)
    BY <1>2 DEF Lock, BeginWrite, Seen, Inv, TypeOK
  <2> QED
    BY <1>2, <2>1, Unseen DEF Lock, BeginWrite
<1>3. ASSUME NEW t \in Threads, LockPoisoned(t) PROVE Atomic!Next
  BY <1>3, EndsBadly DEF LockPoisoned
<1>4. ASSUME NEW t \in Threads, Read(t) PROVE Atomic!Next \/ UNCHANGED Atomic!vars
  <2>1. pc[t] \in {"called", "held", "ready"} /\ req[t] \in Request
    BY <1>4 DEF Read, ReadsUnlocked, Inv, CallsAreKnown
  <2>2. CASE req[t].op = "get"
    <3>1. Effect(req[t], table[req[t].host]) = table[req[t].host]
      BY <2>2 DEF Effect
    <3>2. table' = [table EXCEPT ![req[t].host] = Effect(req[t], table[req[t].host])]
      BY <1>4, <3>1 DEF Read, Inv, TypeOK
    <3> QED
      BY <1>4, <2>1, <2>2, <3>2, EndsWell DEF Read
  <2>3. CASE req[t].op # "get"
    <3>1. \A u \in Threads : Seen(u)' = Seen(u)
      BY <1>4, <2>1, <2>3 DEF Read, Seen, ReadsUnlocked, Inv, TypeOK
    <3> QED
      BY <1>4, <3>1, Unseen DEF Read
  <2> QED BY <2>2, <2>3
<1>5. ASSUME NEW t \in Threads, Publish(t) PROVE Atomic!Next
  <2>1. base[t] = table[req[t].host]
    BY <1>5 DEF Publish, Inv, UpdateSeesLatest
  <2> QED
    BY <1>5, <2>1, EndsWell DEF Publish
<1>6. ASSUME NEW t \in Threads, ClosurePanics(t) PROVE Atomic!Next
  BY <1>6, EndsBadly DEF ClosurePanics
<1>7. ASSUME NEW t \in Threads, StepFails(t) PROVE Atomic!Next
  BY <1>7, EndsBadly DEF StepFails
<1>8. ASSUME NEW t \in Threads, Return(t) PROVE Atomic!Next
  <2>1. /\ Seen(t) = [request |-> req[t], done |-> TRUE, answer |-> answer[t]]
        /\ req[t] \in Request /\ answer[t] \in Answers
    BY <1>8 DEF Return, Seen, Inv, TypeOK, CallsAreKnown
  <2>2. Seen(t) \in Views /\ Seen(t).done
    BY <2>1 DEF Views
  <2>3. Seen(t) # None
    BY <2>2, NoneAssumption
  <2>4. Seen(t)' = None
    BY <1>8 DEF Return, Seen, Inv, TypeOK
  <2>5. \A u \in Threads \ {t} : Seen(u)' = Seen(u)
    BY <1>8 DEF Return, Seen, Inv, TypeOK
  <2>6. Atomic!Return(t)
    BY <1>8, <2>2, <2>3, <2>4, <2>5, SeenBy DEF Return, Atomic!Return
  <2> QED
    BY <2>6 DEF Atomic!Next
<1>9. CASE Crash
  <2>1. \A u \in Threads : Seen(u)' = None
    BY <1>9 DEF Crash, Seen
  <2> QED
    BY <1>9, <2>1 DEF Crash, Atomic!Crash, Atomic!Next
<1>10. CASE Open
  <2>1. \A u \in Threads : Seen(u)' = Seen(u)
    BY <1>10 DEF Open, Seen
  <2> QED
    BY <1>10, <2>1, Unseen DEF Open
<1>11. CASE UNCHANGED vars
  <2>1. \A u \in Threads : Seen(u)' = Seen(u)
    BY <1>11 DEF vars, Seen
  <2> QED
    BY <1>11, <2>1, Unseen DEF vars
<1> QED
  BY <1>1, <1>2, <1>3, <1>4, <1>5, <1>6, <1>7, <1>8, <1>9, <1>10, <1>11 DEF Next, Step

(* The in-memory and the redb store are atomic maps: every call takes effect
   once, on what was stored at that moment, or fails and changes nothing, for
   any threads and hosts and whatever panics, fails or dies. *)
THEOREM StoresAreAtomic == Spec => ImplementsAtomicMap
<1>1. Init => Atomic!Init
  <2>1. ASSUME Init PROVE \A u \in Threads : Seen(u) = None
    BY <2>1 DEF Init, Seen
  <2> QED
    BY <2>1 DEF Init, Atomic!Init
<1>2. Inv /\ [Next]_vars => [adapter # "inherited" => Atomic!Next]_(Atomic!vars)
  BY StepRefines
<1> QED
  BY <1>1, <1>2, Invariance, PTL DEF Spec, ImplementsAtomicMap

----------------------------------------------------------------------------
(* Numbers, places and sequences. *)

(* Every set of numbers with an element has a least one. *)
LEMMA LeastNumber ==
    ASSUME NEW T \in SUBSET Nat, T # {}
    PROVE  \E x \in T : \A y \in T : x <= y
<1>1. IsWellFoundedOn(OpToRel(<, Nat), Nat)
  BY NatLessThanWellFounded
<1>2. PICK x \in T : \A y \in T : ~ (<<y, x>> \in OpToRel(<, Nat))
  BY <1>1, WFMin
<1>3. ASSUME NEW y \in T PROVE x <= y
  <2>1. x \in Nat /\ y \in Nat
    OBVIOUS
  <2>2. ~(y < x)
    BY <1>2, <2>1 DEF OpToRel
  <2> QED
    BY <2>1, <2>2
<1> QED
  BY <1>3

(* Max of places in a sequence is one of them, and the last. *)
LEMMA LastPlace ==
    ASSUME NEW n \in Nat, NEW S \in SUBSET (0..n), S # {}
    PROVE  Max(S) \in S /\ \A y \in S : y <= Max(S)
<1> DEFINE T == {n - x : x \in S}
<1>1. T \in SUBSET Nat /\ T # {}
  <2>1. \A x \in S : x \in 0..n /\ n - x \in Nat
    OBVIOUS
  <2> QED
    BY <2>1
<1>2. PICK t \in T : \A y \in T : t <= y
  BY <1>1, LeastNumber
<1>3. PICK m \in S : t = n - m
  BY <1>2
<1>4. \A y \in S : m >= y
  BY <1>2, <1>3
<1> QED
  BY <1>4 DEF Max

(* What Keeping computes: the elements at the places, and nothing else. *)
LEMMA KeepingStep ==
    ASSUME NEW S, NEW s \in Seq(S), NEW places
    PROVE  \E f : /\ f = [n \in 0..Len(s) |-> IF n = 0 THEN <<>>
                                 ELSE IF n \in places THEN Append(f[n - 1], s[n])
                                 ELSE f[n - 1]]
                  /\ Keeping(s, places) = f[Len(s)]
<1> DEFINE Grow(f, n) == IF n = 0 THEN <<>>
                         ELSE IF n \in places THEN Append(f[n - 1], s[n])
                         ELSE f[n - 1]
           Bad == {n \in Nat : ~ \E f : f = [k \in 0..n |-> Grow(f, k)]}
<1>1. Bad = {}
  <2> SUFFICES ASSUME Bad # {} PROVE FALSE
    OBVIOUS
  <2>1. PICK n \in Bad : \A y \in Bad : n <= y
    <3> HIDE DEF Grow
    <3> QED BY LeastNumber
  <2>2. CASE n = 0
    <3> DEFINE f == [k \in 0..0 |-> <<>>]
    <3>1. f = [k \in 0..0 |-> Grow(f, k)]
      OBVIOUS
    <3> QED
      BY <2>1, <2>2, <3>1
  <2>3. CASE n # 0
    <3>1. n \in Nat /\ n - 1 \in Nat /\ n - 1 \notin Bad
      <4>1. n \in Nat
        BY <2>1
      <4> HIDE DEF Bad
      <4>2. n - 1 \in Nat /\ ~(n <= n - 1)
        BY <4>1, <2>3
      <4> QED
        BY <4>1, <4>2, <2>1
    <3>2. PICK g : g = [k \in 0..(n - 1) |-> Grow(g, k)]
      BY <3>1
    <3> DEFINE f == [k \in 0..n |-> IF k < n THEN g[k] ELSE Grow(g, n)]
    <3>3. ASSUME NEW k \in 0..n PROVE f[k] = Grow(f, k)
      <4>1. k # 0 => f[k - 1] = g[k - 1]
        BY <3>1
      <4>2. k < n => g[k] = Grow(g, k)
        <5>1. k < n => k \in 0..(n - 1)
          BY <3>1
        <5> HIDE DEF Grow
        <5> QED BY <5>1, <3>2
      <4>3. Grow(f, k) = Grow(g, k)
        BY <4>1
      <4> QED
        BY <4>2, <4>3, <3>1
    <3>4. f = [k \in 0..n |-> Grow(f, k)]
      <4> HIDE DEF Grow
      <4> QED BY <3>3
    <3> QED
      BY <2>1, <3>4
  <2> QED
    BY <2>2, <2>3
<1>2. Len(s) \in Nat
  OBVIOUS
<1>3. \E f : f = [k \in 0..Len(s) |-> Grow(f, k)]
  <2> HIDE DEF Grow
  <2> QED BY <1>1, <1>2
<1> DEFINE kept == CHOOSE f : f = [k \in 0..Len(s) |-> Grow(f, k)]
<1>4. kept = [k \in 0..Len(s) |-> Grow(kept, k)]
  <2> HIDE DEF Grow
  <2> QED BY <1>3
<1>5. Keeping(s, places) = kept[Len(s)]
  BY DEF Keeping
<1> HIDE DEF kept
<1> QED
  BY <1>4, <1>5

LEMMA RangeAppend ==
    ASSUME NEW S, NEW s \in Seq(S), NEW e \in S
    PROVE  Append(s, e) \in Seq(S) /\ Range(Append(s, e)) = Range(s) \cup {e}
<1>1. Append(s, e) \in Seq(S) /\ Len(Append(s, e)) = Len(s) + 1
  OBVIOUS
<1>2. DOMAIN Append(s, e) = 1..(Len(s) + 1) /\ DOMAIN s = 1..Len(s) /\ Len(s) \in Nat
  BY <1>1
<1>3. \A i \in 1..Len(s) : Append(s, e)[i] = s[i]
  OBVIOUS
<1>4. Append(s, e)[Len(s) + 1] = e
  OBVIOUS
<1>5. \A x \in Range(Append(s, e)) : x \in Range(s) \cup {e}
  BY <1>2, <1>3, <1>4 DEF Range
<1>6. \A x \in Range(s) \cup {e} : x \in Range(Append(s, e))
  BY <1>2, <1>3, <1>4 DEF Range
<1> QED
  BY <1>1, <1>5, <1>6

LEMMA KeepingKeeps ==
    ASSUME NEW S, NEW s \in Seq(S), NEW places
    PROVE  /\ Keeping(s, places) \in Seq(S)
           /\ Range(Keeping(s, places)) = {s[i] : i \in DOMAIN s \cap places}
<1>1. PICK f : /\ f = [n \in 0..Len(s) |-> IF n = 0 THEN <<>>
                                 ELSE IF n \in places THEN Append(f[n - 1], s[n])
                                 ELSE f[n - 1]]
               /\ Keeping(s, places) = f[Len(s)]
  BY KeepingStep
<1> DEFINE Upto(n) == {s[i] : i \in (1..n) \cap places}
           Good(n) == f[n] \in Seq(S) /\ Range(f[n]) = Upto(n)
           Bad == {n \in 0..Len(s) : ~Good(n)}
<1>2. Len(s) \in Nat /\ DOMAIN s = 1..Len(s)
  OBVIOUS
<1>3. ASSUME NEW n \in 0..Len(s), n # 0 PROVE Upto(n) = IF n \in places THEN Upto(n - 1) \cup {s[n]} ELSE Upto(n - 1)
  <2>1. \A i \in 1..n : i \in 1..(n - 1) \/ i = n
    BY <1>2
  <2>2. 1..(n - 1) \subseteq 1..n /\ n \in 1..n
    BY <1>2, <1>3
  <2> QED
    BY <2>1, <2>2
<1>4. Good(0)
  <2>1. f[0] = <<>>
    BY <1>1, <1>2
  <2>2. Upto(0) = {} /\ Range(<<>>) = {}
    BY DEF Range
  <2> QED
    BY <2>1, <2>2
<1>5. ASSUME NEW n \in 0..Len(s), n # 0, Good(n - 1) PROVE Good(n)
  <2>1. f[n] = IF n \in places THEN Append(f[n - 1], s[n]) ELSE f[n - 1]
    BY <1>1, <1>5
  <2>2. s[n] \in S
    BY <1>2, <1>5
  <2>3. n \in places => f[n] \in Seq(S) /\ Range(f[n]) = Range(f[n - 1]) \cup {s[n]}
    BY <1>5, <2>1, <2>2, RangeAppend
  <2> HIDE DEF Upto
  <2> QED
    BY <1>3, <1>5, <2>1, <2>3
<1>6. Bad = {}
  <2> HIDE DEF Good
  <2> SUFFICES ASSUME Bad # {} PROVE FALSE
    OBVIOUS
  <2>1. Bad \in SUBSET Nat
    BY <1>2
  <2>2. PICK n \in Bad : \A y \in Bad : n <= y
    BY <2>1, LeastNumber
  <2>3. n \in 0..Len(s) /\ n # 0 /\ n - 1 \in 0..Len(s) /\ ~(n <= n - 1)
    BY <2>2, <1>2, <1>4
  <2>4. Good(n - 1)
    BY <2>2, <2>3
  <2> QED
    BY <2>2, <2>3, <2>4, <1>5
<1>7. Good(Len(s))
  <2> HIDE DEF Good
  <2> QED BY <1>2, <1>6
<1> QED
  BY <1>1, <1>2, <1>7

(* The sort puts every element in a place of its own, smaller keys first. *)
LEMMA SortIs ==
    ASSUME NEW S, NEW s \in Seq(S), NEW keys, DOMAIN keys = DOMAIN s,
           \A i \in DOMAIN s : keys[i] \in Int
    PROVE  \E at \in Bijection(DOMAIN s, DOMAIN s) :
              /\ SortedBy(s, keys) = [k \in DOMAIN s |-> s[at[k]]]
              /\ \A i, j \in DOMAIN s : i < j => keys[at[i]] <= keys[at[j]]
<1> DEFINE D == DOMAIN s
           n == Len(s)
           Ahead(i) == {j \in D : GoesBefore(keys, j, i)}
<1>1. n \in Nat /\ D = 1..n /\ IsFiniteSet(D) /\ Cardinality(D) = n /\ \A i \in D : keys[i] \in Int
  <2>1. n \in Nat /\ D = 1..n
    OBVIOUS
  <2>2. IsFiniteSet(1..n) /\ Cardinality(1..n) = IF 1 > n THEN 0 ELSE n - 1 + 1
    <3> HIDE DEF n
    <3> QED BY <2>1, FS_Interval
  <2>3. Cardinality(1..n) = n
    BY <2>1, <2>2
  <2> QED
    BY <2>1, <2>2, <2>3
<1> HIDE DEF D
<1>2. \A i, j \in D : i = j \/ GoesBefore(keys, i, j) \/ GoesBefore(keys, j, i)
  BY <1>1 DEF GoesBefore
<1>3. \A i \in D : ~GoesBefore(keys, i, i)
  BY <1>1 DEF GoesBefore
<1>4. \A i, j, k \in D : GoesBefore(keys, i, j) /\ GoesBefore(keys, j, k) => GoesBefore(keys, i, k)
  BY <1>1 DEF GoesBefore
<1>5. \A i \in D : IsFiniteSet(Ahead(i)) /\ Cardinality(Ahead(i)) \in Nat
  BY <1>1, FS_Subset, FS_CardinalityType
<1>6. \A i \in D : Place(keys, i) = Cardinality(Ahead(i)) + 1
  BY DEF Place, D
<1>7. \A i \in D : Place(keys, i) \in D
  <2> TAKE i \in D
  <2>1. Ahead(i) \subseteq D /\ Ahead(i) # D
    BY <1>3
  <2> HIDE DEF Ahead
  <2>2. Cardinality(Ahead(i)) <= Cardinality(D) /\ (Cardinality(Ahead(i)) = Cardinality(D) => Ahead(i) = D)
    BY <1>1, <2>1, FS_Subset
  <2>3. Cardinality(Ahead(i)) < Cardinality(D)
    BY <1>1, <1>5, <2>1, <2>2
  <2> QED
    BY <1>1, <1>5, <1>6, <2>3
<1>8. \A i, j \in D : GoesBefore(keys, i, j) => Place(keys, i) < Place(keys, j)
  <2> SUFFICES ASSUME NEW i \in D, NEW j \in D, GoesBefore(keys, i, j)
               PROVE  Place(keys, i) < Place(keys, j)
    OBVIOUS
  <2>1. Ahead(i) \subseteq Ahead(j) /\ Ahead(i) # Ahead(j)
    BY <1>3, <1>4
  <2> HIDE DEF Ahead
  <2>2. Cardinality(Ahead(i)) <= Cardinality(Ahead(j)) /\ (Cardinality(Ahead(i)) = Cardinality(Ahead(j)) => Ahead(i) = Ahead(j))
    BY <1>5, <2>1, FS_Subset
  <2> QED
    BY <1>5, <1>6, <2>1, <2>2
<1>9. \A i, j \in D : Place(keys, i) = Place(keys, j) => i = j
  BY <1>1, <1>2, <1>7, <1>8
<1>10. \A k \in D : \E i \in D : Place(keys, i) = k
  <2> DEFINE P == [i \in D |-> Place(keys, i)]
  <2>1. P \in [D -> D] /\ \A i, j \in D : P[i] = P[j] => i = j
    BY <1>7, <1>9
  <2>2. \A k \in D : (\E i \in D : P[i] = k) => \E i \in D : Place(keys, i) = k
    OBVIOUS
  <2> HIDE DEF P
  <2>3. P \in Injection(D, D)
    BY <2>1 DEF Injection, IsInjective
  <2>4. P \in Surjection(D, D)
    BY <1>1, <2>3, FS_Injection
  <2> QED
    BY <2>2, <2>4 DEF Surjection
<1> DEFINE at == [k \in D |-> CHOOSE i \in D : Place(keys, i) = k]
<1>11. \A k \in D : at[k] \in D /\ Place(keys, at[k]) = k
  BY <1>10
<1>12. SortedBy(s, keys) = [k \in D |-> s[at[k]]]
  BY DEF SortedBy, D
<1>13. at \in [D -> D]
  BY <1>10
<1> HIDE DEF at
<1>14. at \in Bijection(D, D)
  <2>1. \A i, j \in D : at[i] = at[j] => i = j
    BY <1>11
  <2>2. \A i \in D : \E k \in D : at[k] = i
    <3> TAKE i \in D
    <3>1. at[Place(keys, i)] = i
      BY <1>7, <1>9, <1>11
    <3> QED
      BY <1>7, <3>1
  <2> QED
    BY <1>13, <2>1, <2>2 DEF Bijection, Injection, Surjection, IsInjective
<1>15. ASSUME NEW i \in D, NEW j \in D, i < j PROVE keys[at[i]] <= keys[at[j]]
  <2>1. at[i] \in D /\ at[j] \in D /\ Place(keys, at[i]) = i /\ Place(keys, at[j]) = j
    BY <1>11
  <2>2. ~GoesBefore(keys, at[j], at[i])
    BY <1>1, <1>8, <1>15, <2>1
  <2>3. at[i] # at[j]
    BY <1>1, <1>15, <2>1
  <2>4. GoesBefore(keys, at[i], at[j])
    BY <1>2, <2>1, <2>2, <2>3
  <2> QED
    BY <1>1, <2>1, <2>4 DEF GoesBefore
<1> QED
  BY <1>12, <1>14, <1>15 DEF D

(* Longer paths first. *)
LEMMA PathLenType ==
    ASSUME NEW S, NEW p \in Seq(S)
    PROVE  PathLen(p) \in Nat
<1>1. Len(p) \in Nat /\ DOMAIN p = 1..Len(p)
  OBVIOUS
<1>2. IsFiniteSet(1..Len(p))
  BY <1>1, FS_Interval
<1> DEFINE named == {i \in DOMAIN p : p[i] # ""}
<1>3. named \in SUBSET (1..Len(p))
  BY <1>1
<1>4. PathLen(p) = Len(p) + Cardinality(named)
  BY DEF PathLen
<1> HIDE DEF named
<1>5. Cardinality(named) \in Nat
  BY <1>2, <1>3, FS_Subset, FS_CardinalityType
<1> QED
  BY <1>1, <1>4, <1>5

LEMMA SortPermutes ==
    ASSUME NEW S, NEW s \in Seq(S), \A i \in DOMAIN s : PathLen(s[i].path) \in Nat
    PROVE  /\ DOMAIN LongestFirst(s) = DOMAIN s
           /\ Range(LongestFirst(s)) = Range(s)
           /\ \A i, j \in DOMAIN s : i < j =>
                PathLen(LongestFirst(s)[i].path) >= PathLen(LongestFirst(s)[j].path)
<1> DEFINE D == DOMAIN s
           L(i) == PathLen(s[i].path)
           keys == [i \in D |-> -L(i)]
           sorted == LongestFirst(s)
<1>1. sorted = SortedBy(s, keys)
  BY DEF LongestFirst
<1>2. DOMAIN keys = D /\ \A i \in D : keys[i] = -L(i) /\ keys[i] \in Int /\ L(i) \in Int
  OBVIOUS
<1> HIDE DEF keys, L, sorted
<1>3. PICK at \in Bijection(D, D) : /\ sorted = [k \in D |-> s[at[k]]]
                                   /\ \A i, j \in D : i < j => keys[at[i]] <= keys[at[j]]
  BY <1>1, <1>2, SortIs
<1> HIDE DEF D
<1>4. at \in [D -> D] /\ \A i \in D : \E k \in D : at[k] = i
  BY <1>3 DEF Bijection, Injection, Surjection
<1>5. DOMAIN sorted = D /\ \A k \in D : sorted[k] = s[at[k]]
  BY <1>3
<1>6. Range(sorted) = Range(s)
  BY <1>4, <1>5 DEF Range, D
<1>7. ASSUME NEW i \in D, NEW j \in D, i < j PROVE L(at[i]) >= L(at[j])
  <2>1. at[i] \in D /\ at[j] \in D /\ keys[at[i]] <= keys[at[j]]
    BY <1>3, <1>4, <1>7
  <2> QED
    BY <1>2, <2>1
<1>8. \A i, j \in D : i < j => PathLen(sorted[i].path) >= PathLen(sorted[j].path)
  BY <1>5, <1>7 DEF L
<1> QED
  BY <1>5, <1>6, <1>8 DEF D, sorted

----------------------------------------------------------------------------
(* Domains. *)

(* What a domain covers it is a tail of. *)
LEMMA SuffixIsTail ==
    ASSUME NEW d \in Seq(Labels) \ {<<>>}, NEW h \in Seq(Labels), IsSuffix(d, h)
    PROVE  d \in Tails(h) /\ Last(d) = Last(h)
<1> DEFINE m == Len(d)
           n == Len(h)
<1>1. m \in Nat /\ n \in Nat /\ m > 0 /\ DOMAIN d = 1..m /\ DOMAIN h = 1..n
  OBVIOUS
<1>2. /\ Reverse(d) \in Seq(Labels) /\ Len(Reverse(d)) = m
      /\ \A i \in 1..m : Reverse(d)[i] = d[(m - i) + 1]
  BY <1>1 DEF Reverse
<1>3. /\ Reverse(h) \in Seq(Labels) /\ Len(Reverse(h)) = n
      /\ \A i \in 1..n : Reverse(h)[i] = h[(n - i) + 1]
  BY <1>1 DEF Reverse
<1>4. m <= n /\ SubSeq(Reverse(d), 1, m) = SubSeq(Reverse(h), 1, m)
  BY <1>2, <1>3 DEF IsSuffix, IsPrefix
<1>5. \A i \in 1..m : Reverse(d)[i] = Reverse(h)[i]
  <2> TAKE i \in 1..m
  <2>1. SubSeq(Reverse(d), 1, m)[i] = Reverse(d)[i] /\ SubSeq(Reverse(h), 1, m)[i] = Reverse(h)[i]
    BY <1>1, <1>2, <1>3, <1>4
  <2> QED
    BY <2>1, <1>4
<1>6. \A i \in 1..m : d[i] = h[(n - m) + i]
  <2> TAKE i \in 1..m
  <2>1. (m - i) + 1 \in 1..m /\ (m - i) + 1 \in 1..n
        /\ (m - ((m - i) + 1)) + 1 = i /\ (n - ((m - i) + 1)) + 1 = (n - m) + i
    BY <1>1, <1>4
  <2> QED
    BY <2>1, <1>2, <1>3, <1>5
<1>7. d = SubSeq(h, (n - m) + 1, n)
  <2>1. /\ SubSeq(h, (n - m) + 1, n) \in Seq(Labels) /\ Len(SubSeq(h, (n - m) + 1, n)) = m
        /\ \A i \in 1..m : SubSeq(h, (n - m) + 1, n)[i] = h[(n - m) + i]
    BY <1>1, <1>4
  <2> HIDE DEF m, n
  <2> QED
    BY <1>1, <1>6, <2>1, SeqEqual
<1>8. (n - m) + 1 \in DOMAIN h
  BY <1>1, <1>4
<1>9. d[m] = h[n]
  <2>1. m \in 1..m /\ (n - m) + m = n
    BY <1>1
  <2> QED
    BY <2>1, <1>6
<1> QED
  BY <1>7, <1>8, <1>9 DEF Tails, Last

(* A cookie's domain is one its setter has a say over. *)
InScope(d, by) ==
    IF d.sub THEN /\ d.labels # <<>> /\ d.labels \notin PublicSuffixes
                  /\ IsSuffix(d.labels, by) /\ by \notin IpLiterals
    ELSE d.labels = by

LEMMA ScopeIsSound ==
    ASSUME NEW given \in [labels : Seq(Labels), dot : BOOLEAN], NEW host \in Hosts,
           DomainScope(given, host).kind = "widen"
    PROVE  /\ DomainScope(given, host).domain \in Domains
           /\ InScope(DomainScope(given, host).domain, host.labels)
BY DEF DomainScope, InScope, DomainMatches, Widened, KeepHost, Refuse, Domains, Hosts

----------------------------------------------------------------------------
(* Headers. *)

LEMMA GivenValue ==
    ASSUME NEW s \in Settings, NEW h, h.attributes = s.attributes, NEW key,
           NEW places \in SUBSET Given(h, key), places # {}
    PROVE  /\ Max(places) \in places
           /\ h.attributes[Max(places)].key = key
           /\ WellFormed(h.attributes[Max(places)])
<1> DEFINE n == Len(s.attributes)
<1>1. n \in Nat /\ DOMAIN s.attributes = 1..n
  BY SettingAssumption
<1>2. Given(h, key) \subseteq 1..n /\ 1..n \subseteq 0..n
  BY <1>1 DEF Given
<1> HIDE DEF n
<1>3. Max(places) \in places
  BY <1>1, <1>2, LastPlace
<1>4. Max(places) \in DOMAIN s.attributes /\ h.attributes[Max(places)].key = key
  BY <1>3 DEF Given
<1> QED
  BY <1>3, <1>4, SettingAssumption DEF Range

LEMMA SettingUrl ==
    ASSUME NEW s \in Settings
    PROVE  s.url.secure \in BOOLEAN /\ s.url.host \in Hosts /\ s.url.path \in Paths
BY UrlAssumption

LEMMA SingletonSeq ==
    ASSUME NEW S, NEW x \in S
    PROVE  <<x>> \in Seq(S) /\ <<x>> # <<>>
OBVIOUS

LEMMA DefaultPathType ==
    ASSUME NEW p \in Paths
    PROVE  DefaultPath(p) \in Paths
<1>1. p \in Seq(Segments) /\ Len(p) \in Nat /\ Len(p) # 0
  BY DEF Paths
<1>2. CASE Len(p) = 1
  <2>1. DefaultPath(p) = <<"">>
    BY <1>2 DEF DefaultPath
  <2>2. "" \in Segments
    BY UrlAssumption, Zenon
  <2>3. <<"">> \in Seq(Segments) /\ <<"">> # <<>>
    BY <2>2, SingletonSeq, Zenon
  <2> QED
    BY <2>1, <2>3 DEF Paths
<1>3. CASE Len(p) # 1
  <2> DEFINE m == Len(p) - 1
  <2>1. DefaultPath(p) = SubSeq(p, 1, m)
    BY <1>3 DEF DefaultPath, Front
  <2>2. m \in Nat /\ m > 0 /\ m <= Len(p)
    <3> DEFINE n == Len(p)
    <3>1. n \in Nat /\ n # 0 /\ n # 1
      BY <1>1, <1>3
    <3> HIDE DEF n
    <3>2. n - 1 \in Nat /\ n - 1 > 0 /\ n - 1 <= n
      BY <3>1
    <3> QED
      BY <3>2 DEF n
  <2> HIDE DEF m
  <2>3. SubSeq(p, 1, m) \in Seq(Segments) /\ Len(SubSeq(p, 1, m)) = m
    BY <1>1, <2>2
  <2> QED
    BY <2>1, <2>2, <2>3 DEF Paths
<1> QED
  BY <1>2, <1>3

LEMMA ParsedIsSound ==
    ASSUME NEW s \in Settings, NEW v \in Nat, NEW n \in Nat, NEW h,
           h = [name |-> s.name, value |-> v, attributes |-> s.attributes],
           NEW c, c = AnchorMaxAge(ParseSetCookie(h, s.url.host, s.url.path), n)
    PROVE  /\ c \in Cookies /\ c.value = v
           /\ InScope(c.domain, s.url.host.labels)
<1> DEFINE host == s.url.host
           widened == Widening(h, host)
           absolute == {i \in Given(h, "path") : h.attributes[i].value # Absent}
           max_age == LastValue(h, Given(h, "max-age"), Absent)
           p == ParseSetCookie(h, s.url.host, s.url.path)
<1>1. host \in Hosts /\ s.url.path \in Paths /\ h.attributes = s.attributes
  BY SettingUrl
<1>2. p = [name |-> s.name, value |-> v,
           domain |-> IF widened = {} THEN HostOnly(host.labels, host.dot)
                      ELSE ScopeAt(h, Max(widened), host).domain,
           path |-> LastValue(h, absolute, DefaultPath(s.url.path)),
           expires |-> IF max_age = Absent THEN Absent ELSE IF max_age <= 0 THEN 0 ELSE max_age,
           secure |-> Given(h, "secure") # {}, http_only |-> Given(h, "httponly") # {},
           same_site |-> LastValue(h, Given(h, "samesite"), Absent)]
  BY DEF ParseSetCookie
<1>a. /\ widened \in SUBSET Given(h, "domain")
      /\ \A i \in widened : ScopeAt(h, i, host).kind = "widen"
      /\ absolute \in SUBSET Given(h, "path")
      /\ \A i \in absolute : h.attributes[i].value # Absent
  BY DEF Widening
<1>b. /\ p.name = s.name /\ p.value = v
      /\ p.domain = IF widened = {} THEN HostOnly(host.labels, host.dot)
                    ELSE ScopeAt(h, Max(widened), host).domain
      /\ p.path = LastValue(h, absolute, DefaultPath(s.url.path))
      /\ p.expires = IF max_age = Absent THEN Absent ELSE IF max_age <= 0 THEN 0 ELSE max_age
      /\ p.secure = (Given(h, "secure") # {}) /\ p.http_only = (Given(h, "httponly") # {})
      /\ p.same_site = LastValue(h, Given(h, "samesite"), Absent)
  <2> HIDE DEF p, widened, absolute, max_age, host
  <2> QED
    BY <1>2
<1> HIDE DEF p, widened, absolute, host
<1>3. p.domain \in Domains /\ InScope(p.domain, host.labels)
  <2>1. CASE widened = {}
    <3>1. p.domain = [sub |-> FALSE, labels |-> host.labels, dot |-> host.dot]
      BY <1>b, <2>1 DEF HostOnly
    <3> QED
      BY <1>1, <3>1 DEF Hosts, Domains, InScope
  <2>2. CASE widened # {}
    <3>1. /\ Max(widened) \in widened
          /\ h.attributes[Max(widened)].key = "domain"
          /\ WellFormed(h.attributes[Max(widened)])
      BY <1>1, <1>a, <2>2, GivenValue
    <3>2. p.domain = DomainScope(h.attributes[Max(widened)].value, host).domain
      BY <1>b, <2>2 DEF ScopeAt
    <3>3. DomainScope(h.attributes[Max(widened)].value, host).kind = "widen"
      BY <1>a, <3>1 DEF ScopeAt
    <3>4. h.attributes[Max(widened)].value \in [labels : Seq(Labels), dot : BOOLEAN]
      BY <3>1 DEF WellFormed
    <3> QED
      BY <1>1, <3>2, <3>3, <3>4, ScopeIsSound
  <2> QED
    BY <2>1, <2>2
<1>4. p.path \in Paths
  <2>1. CASE absolute = {}
    BY <1>1, <1>b, <2>1, DefaultPathType DEF LastValue
  <2>2. CASE absolute # {}
    <3>1. /\ Max(absolute) \in absolute
          /\ h.attributes[Max(absolute)].key = "path"
          /\ WellFormed(h.attributes[Max(absolute)])
      BY <1>1, <1>a, <2>2, GivenValue
    <3>2. p.path = h.attributes[Max(absolute)].value /\ p.path # Absent
      BY <1>a, <1>b, <2>2, <3>1 DEF LastValue
    <3> QED
      BY <3>1, <3>2 DEF WellFormed
  <2> QED
    BY <2>1, <2>2
<1>5. max_age \in Int \cup {Absent}
  <2>1. CASE Given(h, "max-age") = {}
    BY <2>1 DEF LastValue
  <2>2. CASE Given(h, "max-age") # {}
    BY <1>1, <2>2, GivenValue DEF LastValue, WellFormed
  <2> QED
    BY <2>1, <2>2
<1>6. p.same_site \in SameSite \cup {Absent}
  <2>1. CASE Given(h, "samesite") = {}
    BY <1>b, <2>1 DEF LastValue
  <2>2. CASE Given(h, "samesite") # {}
    BY <1>1, <1>b, <2>2, GivenValue DEF LastValue, WellFormed
  <2> QED
    BY <2>1, <2>2
<1>7. p.expires \in Nat \cup {Absent}
  <2> HIDE DEF max_age
  <2> QED
    BY <1>b, <1>5, AbsentAssumption
<1>8. p \in Cookies /\ p.value = v
  <2>1. s.name \in Names
    BY DEF Names
  <2>2. p.name = s.name /\ p.value = v /\ p.secure \in BOOLEAN /\ p.http_only \in BOOLEAN
    BY <1>b
  <2>3. p = [name |-> p.name, value |-> p.value, domain |-> p.domain, path |-> p.path,
             expires |-> p.expires, secure |-> p.secure, http_only |-> p.http_only,
             same_site |-> p.same_site]
    BY <1>2
  <2> QED
    BY <1>3, <1>4, <1>6, <1>7, <2>1, <2>2, <2>3 DEF Cookies
<1>9. c = [p EXCEPT !.expires = IF p.expires = Absent THEN Absent
                                ELSE IF p.expires = 0 THEN 0 ELSE n + p.expires]
  BY DEF AnchorMaxAge, p, host
<1>10. (IF p.expires = Absent THEN Absent ELSE IF p.expires = 0 THEN 0 ELSE n + p.expires)
         \in Nat \cup {Absent}
  BY <1>7, AbsentAssumption
<1>11. c \in Cookies /\ c.value = p.value /\ c.domain = p.domain
  BY <1>8, <1>9, <1>10 DEF Cookies
<1> QED
  BY <1>3, <1>8, <1>11 DEF host

LEMMA RfcExpiryType ==
    ASSUME now \in Nat, NEW s \in Settings, NEW half \in {0, 1}, NEW h, h.attributes = s.attributes
    PROVE  /\ ValueOf(h, "max-age") \in Int \cup {Absent}
           /\ ValueOf(h, "expires") \in Int \cup {Absent}
           /\ RfcExpiry(h, half) \in Nat \cup {-1}
<1>1. ASSUME NEW key \in {"max-age", "expires"} PROVE ValueOf(h, key) \in Int \cup {Absent}
  <2>1. CASE Given(h, key) = {}
    BY <2>1 DEF ValueOf, LastValue
  <2>2. CASE Given(h, key) # {}
    BY <1>1, <2>2, GivenValue DEF ValueOf, LastValue, WellFormed
  <2> QED
    BY <2>1, <2>2
<1>2. PICK age, date : age = ValueOf(h, "max-age") /\ date = ValueOf(h, "expires")
  OBVIOUS
<1>3. age \in Int \cup {Absent} /\ date \in Int \cup {Absent}
  BY <1>1, <1>2
<1>4. RfcExpiry(h, half) = IF age # Absent THEN IF age <= 0 THEN 0 ELSE 2 * (now + age) + half
                           ELSE IF date # Absent THEN IF date <= 0 THEN 0 ELSE 2 * date
                           ELSE -1
  BY <1>2 DEF RfcExpiry
<1>5. RfcExpiry(h, half) \in Nat \cup {-1}
  BY <1>3, <1>4
<1> QED
  BY <1>1, <1>5

LEMMA RfcCookieIsSound ==
    ASSUME now \in Nat, NEW s \in Settings, NEW v \in Nat, NEW half \in {0, 1}, NEW h,
           h = [name |-> s.name, value |-> v, attributes |-> s.attributes],
           RfcAccepts(h, s.url.host)
    PROVE  /\ RfcCookie(h, s.url, half) \in Entries /\ RfcCookie(h, s.url, half).value = v
           /\ Key(RfcCookie(h, s.url, half)) \in Keys
           /\ InScope(RfcCookie(h, s.url, half).domain, s.url.host.labels)
<1> DEFINE host == s.url.host
           given == ValueOf(h, "domain")
           host_only == RfcHostOnly(h, host)
           x == RfcExpiry(h, half)
           path == ValueOf(h, "path")
           e == RfcCookie(h, s.url, half)
<1>1. host \in Hosts /\ s.url.path \in Paths /\ h.attributes = s.attributes
  BY SettingUrl
<1>2. e = [name |-> s.name, value |-> v,
           domain |-> [sub |-> ~host_only, dot |-> host.dot,
                       labels |-> IF host_only THEN host.labels ELSE given.labels],
           path |-> IF path # Absent THEN path ELSE DefaultPath(s.url.path),
           expires |-> x,
           secure |-> Given(h, "secure") # {}, httpOnly |-> Given(h, "httponly") # {},
           sameSite |-> ValueOf(h, "samesite")]
  BY DEF RfcCookie, DefaultPath, Has
<1>3. x \in Nat \cup {-1}
  BY <1>1, RfcExpiryType
<1>4. path \in Paths \cup {Absent}
  <2>1. CASE Given(h, "path") = {}
    BY <2>1 DEF ValueOf, LastValue
  <2>2. CASE Given(h, "path") # {}
    BY <1>1, <2>2, GivenValue DEF ValueOf, LastValue, WellFormed
  <2> QED
    BY <2>1, <2>2
<1>5. ValueOf(h, "samesite") \in SameSite \cup {Absent}
  <2>1. CASE Given(h, "samesite") = {}
    BY <2>1 DEF ValueOf, LastValue
  <2>2. CASE Given(h, "samesite") # {}
    BY <1>1, <2>2, GivenValue DEF ValueOf, LastValue, WellFormed
  <2> QED
    BY <2>1, <2>2
<1>6. Named(h) => given \in [labels : Seq(Labels), dot : BOOLEAN]
  BY <1>1, GivenValue DEF Named, Has, ValueOf, LastValue, WellFormed
<1>7. /\ Named(h) => /\ given.labels # <<>>
                     /\ IsSuffix(given.labels, host.labels)
                     /\ \/ given = host
                        \/ given.labels \notin PublicSuffixes /\ host.labels \notin IpLiterals
      /\ Own(h, host) <=> Named(h) /\ given = host
  BY DEF RfcAccepts, RfcDomainMatch, Named, Own
<1> HIDE DEF host, given, x, path
<1> DEFINE d == [sub |-> ~host_only, dot |-> host.dot,
                 labels |-> IF host_only THEN host.labels ELSE given.labels]
<1>8. d \in Domains /\ InScope(d, host.labels)
  <2>1. CASE host_only
    BY <1>1, <2>1 DEF Domains, Hosts, InScope
  <2>2. CASE ~host_only
    <3>1. Named(h) /\ d.sub = TRUE /\ d.labels = given.labels
      BY <2>2 DEF RfcHostOnly
    <3>2. given.labels \notin PublicSuffixes /\ host.labels \notin IpLiterals
      BY <1>7, <2>2 DEF RfcHostOnly
    <3> HIDE DEF host_only
    <3> QED
      BY <1>1, <1>6, <1>7, <3>1, <3>2 DEF Domains, Hosts, InScope
  <2> QED
    BY <2>1, <2>2
<1>9. (IF path # Absent THEN path ELSE DefaultPath(s.url.path)) \in Paths
  BY <1>1, <1>4, DefaultPathType
<1>10. s.name \in Names
  BY DEF Names
<1> HIDE DEF e, d
<1>11. e = [name |-> s.name, value |-> v, domain |-> d,
           path |-> IF path # Absent THEN path ELSE DefaultPath(s.url.path),
           expires |-> x,
           secure |-> Given(h, "secure") # {}, httpOnly |-> Given(h, "httponly") # {},
           sameSite |-> ValueOf(h, "samesite")]
  BY <1>2 DEF d
<1>12. e \in Entries /\ e.value = v /\ e.domain = d
  <2> HIDE DEF host_only
  <2> QED
    BY <1>3, <1>5, <1>8, <1>9, <1>10, <1>11 DEF Entries
<1>13. Key(e) \in Keys
  BY <1>12 DEF Key, Keys, Entries
<1> QED
  BY <1>8, <1>12, <1>13 DEF e, host

----------------------------------------------------------------------------
(* What is kept. *)

LEMMA Unspents ==
    ASSUME NEW es \in Seq(Entries)
    PROVE  Unspent(es) \in Seq(Entries) /\ Range(Unspent(es)) = {e \in Range(es) : ~Over(e)}
<1> DEFINE places == {i \in DOMAIN es : ~Over(es[i])}
<1>1. /\ Keeping(es, places) \in Seq(Entries)
      /\ Range(Keeping(es, places)) = {es[i] : i \in DOMAIN es \cap places}
  <2> HIDE DEF places
  <2> QED
    BY KeepingKeeps
<1>2. {es[i] : i \in DOMAIN es \cap places} = {e \in Range(es) : ~Over(e)}
  BY DEF Range
<1> QED
  BY <1>1, <1>2 DEF Unspent

LEMMA SetCookiesKeeps ==
    ASSUME NEW cs \in Seq(Cookies), NEW n
    PROVE  /\ SetCookies(cs, n) \in Seq(Cookies)
           /\ Range(SetCookies(cs, n)) = {c \in Range(cs) : ~IsExpired(c, n)}
<1> DEFINE places == {i \in DOMAIN cs : ~IsExpired(cs[i], n)}
<1>1. /\ Keeping(cs, places) \in Seq(Cookies)
      /\ Range(Keeping(cs, places)) = {cs[i] : i \in DOMAIN cs \cap places}
  <2> HIDE DEF places
  <2> QED
    BY KeepingKeeps
<1>2. {cs[i] : i \in DOMAIN cs \cap places} = {c \in Range(cs) : ~IsExpired(c, n)}
  BY DEF Range
<1> QED
  BY <1>1, <1>2 DEF SetCookies

LEMMA RfcStoreKeeps ==
    ASSUME NEW es \in Seq(Entries), NEW e \in Entries
    PROVE  /\ RfcStore(es, e) \in Seq(Entries)
           /\ Range(RfcStore(es, e)) = {x \in Range(es) : ~SameCookie(x, e)}
                                         \cup (IF Over(e) THEN {} ELSE {e})
<1> DEFINE same == {i \in DOMAIN es : SameCookie(es[i], e)}
           others == {x \in Range(es) : ~SameCookie(x, e)}
<1>1. CASE Over(e)
  <2> DEFINE places == DOMAIN es \ same
  <2>1. /\ Keeping(es, places) \in Seq(Entries)
        /\ Range(Keeping(es, places)) = {es[i] : i \in DOMAIN es \cap places}
    <3> HIDE DEF places
    <3> QED
      BY KeepingKeeps
  <2>2. {es[i] : i \in DOMAIN es \cap places} = others
    BY DEF Range
  <2>3. RfcStore(es, e) = Keeping(es, places)
    BY <1>1 DEF RfcStore
  <2> HIDE DEF places
  <2> QED
    BY <1>1, <2>1, <2>2, <2>3
<1>2. CASE ~Over(e) /\ same = {}
  <2>1. others = Range(es)
    BY <1>2 DEF Range
  <2>2. RfcStore(es, e) = Append(es, e)
    BY <1>2 DEF RfcStore
  <2> QED
    BY <1>2, <2>1, <2>2, RangeAppend
<1>3. CASE ~Over(e) /\ same # {}
  <2> DEFINE t == [i \in DOMAIN es |-> IF i \in same THEN e ELSE es[i]]
  <2>1. RfcStore(es, e) = t
    BY <1>3 DEF RfcStore
  <2>2. t \in Seq(Entries)
    <3> HIDE DEF same
    <3> QED OBVIOUS
  <2>3. \A x \in Range(t) : x \in others \cup {e}
    BY DEF Range
  <2>4. \A x \in others \cup {e} : x \in Range(t)
    <3>1. e \in Range(t)
      BY <1>3 DEF Range
    <3>2. ASSUME NEW x \in others PROVE x \in Range(t)
      BY <3>2 DEF Range
    <3> QED
      BY <3>1, <3>2
  <2> QED
    BY <1>3, <2>1, <2>2, <2>3, <2>4
<1> QED
  BY <1>1, <1>2, <1>3

LEMMA AbsorbKeeps ==
    ASSUME NEW cs \in Seq(Cookies), NEW s \in Settings, NEW v \in Nat, NEW n \in Nat, NEW h,
           h = [name |-> s.name, value |-> v, attributes |-> s.attributes],
           NEW c, c = AnchorMaxAge(ParseSetCookie(h, s.url.host, s.url.path), n),
           NEW after, after = AbsorbCookies(cs, h, s.url.host, s.url.path, n)
    PROVE  /\ after \in Seq(Cookies)
           /\ ~IsCookie(h, s.url.host) => after = cs
           /\ IsCookie(h, s.url.host) =>
                Range(after) = {x \in Range(cs) : ~SameCookie(x, c)}
                                 \cup (IF IsExpired(c, n) THEN {} ELSE {c})
<1> DEFINE places == {i \in DOMAIN cs : ~SameCookie(cs[i], c)}
           others == Keeping(cs, places)
<1>1. c \in Cookies
  BY ParsedIsSound
<1>2. others \in Seq(Cookies) /\ Range(others) = {cs[i] : i \in DOMAIN cs \cap places}
  <2> HIDE DEF places
  <2> QED
    BY KeepingKeeps
<1>3. {cs[i] : i \in DOMAIN cs \cap places} = {x \in Range(cs) : ~SameCookie(x, c)}
  BY DEF Range
<1>4. after = IF ~IsCookie(h, s.url.host) THEN cs
              ELSE IF IsExpired(c, n) THEN others ELSE Append(others, c)
  BY DEF AbsorbCookies
<1>5. Append(others, c) \in Seq(Cookies) /\ Range(Append(others, c)) = Range(others) \cup {c}
  <2> HIDE DEF others
  <2> QED
    BY <1>1, <1>2, RangeAppend
<1> HIDE DEF others, places
<1> QED
  BY <1>2, <1>3, <1>4, <1>5

----------------------------------------------------------------------------
(* The invariant behind NeverLeaks: whatever is held was set by a host that has a
   say over its domain.  It is kept by both parsers and both conversions. *)

Owned(c) == c.value \in 1..Len(setter) /\ InScope(c.domain, setter[c.value].labels)
AllOwned == /\ \A c \in Range(jar) : Owned(c)
            /\ Running => \A e \in Range(browser) : Owned(e)

JarInv == JarTypeOK /\ AllOwned

LEMMA OwnedStays ==
    ASSUME JarTypeOK, NEW s \in Settings, SetBy(s), NEW c
    PROVE  /\ Owned(c) => Owned(c)'
           /\ c.value = Issued + 1 /\ InScope(c.domain, s.url.host.labels) => Owned(c)'
           /\ setter' \in Seq(Setters) /\ Issued + 1 \in Nat
<1> DEFINE n == Len(setter)
<1>1. s.url.host \in Setters /\ setter \in Seq(Setters) /\ setter' = Append(setter, s.url.host)
  BY DEF JarTypeOK, SetBy, Setters
<1>2. /\ setter' \in Seq(Setters) /\ Len(setter') = n + 1 /\ n \in Nat
      /\ setter'[n + 1] = s.url.host
      /\ \A i \in 1..n : setter'[i] = setter[i]
  BY <1>1
<1>3. /\ \A i \in 1..n : i \in 1..(n + 1)
      /\ n + 1 \in 1..(n + 1)
  BY <1>2
<1>4. Owned(c) => c.value \in 1..n /\ InScope(c.domain, setter[c.value].labels)
  BY DEF Owned
<1> HIDE DEF n
<1>5. Owned(c)' <=> c.value \in 1..Len(setter') /\ InScope(c.domain, setter'[c.value].labels)
  BY DEF Owned
<1> QED
  BY <1>2, <1>3, <1>4, <1>5 DEF Issued, n

LEMMA ReceiveKeeps ==
    ASSUME JarTypeOK, NEW s \in Settings, SetBy(s), NEW half \in {0, 1},
           NEW es \in Seq(Entries), NEW after, after = RfcReceive(es, Header(s), s.url, half)
    PROVE  /\ after \in Seq(Entries)
           /\ (\A e \in Range(es) : Owned(e)) => \A e \in Range(after) : Owned(e)'
<1>e. PICK h, e : h = Header(s) /\ e = RfcCookie(h, s.url, half)
  OBVIOUS
<1>1. Issued + 1 \in Nat /\ now \in Nat
  BY OwnedStays DEF JarTypeOK
<1>2. h = [name |-> s.name, value |-> Issued + 1, attributes |-> s.attributes]
  BY <1>e DEF Header
<1>3. CASE ~RfcAccepts(h, s.url.host)
  <2>1. after = es
    BY <1>e, <1>3 DEF RfcReceive
  <2> QED
    BY <2>1, OwnedStays
<1>4. CASE RfcAccepts(h, s.url.host)
  <2>1. after = RfcStore(es, e)
    BY <1>e, <1>4 DEF RfcReceive
  <2>2. e \in Entries /\ e.value = Issued + 1 /\ InScope(e.domain, s.url.host.labels)
    BY <1>e, <1>1, <1>2, <1>4, RfcCookieIsSound
  <2>3. after \in Seq(Entries) /\ \A x \in Range(after) : x \in Range(es) \/ x = e
    BY <2>1, <2>2, RfcStoreKeeps
  <2>4. Owned(e)'
    BY <2>2, OwnedStays
  <2> QED
    BY <2>3, <2>4, OwnedStays
<1> QED
  BY <1>3, <1>4

LEMMA UnreadKeeps ==
    ASSUME JarTypeOK, NEW s \in Settings, SetBy(s), NEW half \in {0, 1}, NEW http
    PROVE  UnreadAfter(Header(s), s.url, half, http) \subseteq Keys
<1>1. PICK h : h = Header(s) /\ h = [name |-> s.name, value |-> Issued + 1, attributes |-> s.attributes]
  BY DEF Header
<1>2. Issued + 1 \in Nat /\ now \in Nat /\ unread \subseteq Keys
  BY OwnedStays DEF JarTypeOK
<1>3. RfcAccepts(h, s.url.host) => Key(RfcCookie(h, s.url, half)) \in Keys
  BY <1>1, <1>2, RfcCookieIsSound
<1> QED
  BY <1>1, <1>2, <1>3 DEF UnreadAfter

LEMMA FetchKeeps ==
    ASSUME JarInv, NEW s \in Settings, HttpFetch(s)
    PROVE  JarInv'
<1>e. PICK h, c : h = Header(s) /\ c = AnchorMaxAge(ParseSetCookie(h, s.url.host, s.url.path), now)
  OBVIOUS
<1>1. JarTypeOK /\ AllOwned /\ SetBy(s) /\ now' = now /\ browser' = browser
  BY DEF JarInv, HttpFetch
<1>2. /\ jar' = AbsorbCookies(jar, h, s.url.host, s.url.path, now)
      /\ ideal' = RfcReceive(ideal, Header(s), s.url, 0)
      /\ unread' = UnreadAfter(Header(s), s.url, 0, TRUE)
      /\ gap' \in {gap, "http"}
  BY <1>e DEF HttpFetch
<1>3. now \in Nat /\ jar \in Seq(Cookies) /\ ideal \in Seq(Entries) /\ Issued + 1 \in Nat
  BY <1>1, OwnedStays DEF JarTypeOK
<1>4. h = [name |-> s.name, value |-> Issued + 1, attributes |-> s.attributes]
  BY <1>e DEF Header
<1>5. ideal' \in Seq(Entries)
  BY <1>1, <1>2, <1>3, ReceiveKeeps
<1>6. c \in Cookies /\ c.value = Issued + 1 /\ InScope(c.domain, s.url.host.labels)
  BY <1>e, <1>3, <1>4, ParsedIsSound
<1>7. jar' \in Seq(Cookies) /\ \A x \in Range(jar') : x \in Range(jar) \/ x = c
  <2>1. /\ jar' \in Seq(Cookies)
        /\ ~IsCookie(h, s.url.host) => jar' = jar
        /\ IsCookie(h, s.url.host) =>
             Range(jar') = {x \in Range(jar) : ~SameCookie(x, c)}
                             \cup (IF IsExpired(c, now) THEN {} ELSE {c})
    <3>1. PICK after : after = jar'
      OBVIOUS
    <3>2. PICK n, v, cs : n = now /\ v = Issued + 1 /\ cs = jar
      OBVIOUS
    <3>3. cs \in Seq(Cookies) /\ n \in Nat /\ v \in Nat
      BY <1>3, <3>2
    <3>4. /\ h = [name |-> s.name, value |-> v, attributes |-> s.attributes]
          /\ c = AnchorMaxAge(ParseSetCookie(h, s.url.host, s.url.path), n)
          /\ after = AbsorbCookies(cs, h, s.url.host, s.url.path, n)
      BY <1>e, <1>2, <1>4, <3>1, <3>2, Zenon
    <3>5. /\ after \in Seq(Cookies)
          /\ ~IsCookie(h, s.url.host) => after = cs
          /\ IsCookie(h, s.url.host) =>
               Range(after) = {x \in Range(cs) : ~SameCookie(x, c)}
                                \cup (IF IsExpired(c, n) THEN {} ELSE {c})
      BY <3>3, <3>4, AbsorbKeeps
    <3> QED
      BY <3>1, <3>2, <3>5
  <2>2. CASE IsCookie(h, s.url.host)
    BY <2>1, <2>2
  <2>3. CASE ~IsCookie(h, s.url.host)
    BY <2>1, <2>3
  <2> QED
    BY <2>2, <2>3
<1>8. Owned(c)' /\ setter' \in Seq(Setters)
  BY <1>1, <1>6, OwnedStays
<1>9. JarTypeOK'
  BY <1>1, <1>2, <1>5, <1>7, <1>8, UnreadKeeps DEF JarTypeOK, Running
<1>10. AllOwned'
  <2>1. \A x \in Range(jar') : Owned(x)'
    BY <1>1, <1>7, <1>8, OwnedStays DEF AllOwned
  <2>2. browser' # Absent => \A x \in Range(browser') : Owned(x)'
    BY <1>1, OwnedStays DEF AllOwned, Running
  <2> QED
    BY <2>1, <2>2 DEF AllOwned, Running
<1> QED
  BY <1>9, <1>10 DEF JarInv

LEMMA ConversionKeeps ==
    /\ \A c \in Cookies : /\ CookieToCdp(c) \in Entries /\ Portable(CookieToCdp(c)) = c
                          /\ CookieToCdp(c).value = c.value /\ CookieToCdp(c).domain = c.domain
    /\ \A e \in Entries : /\ CookieFromCdp(e) \in Cookies
                          /\ CookieFromCdp(e).value = e.value /\ CookieFromCdp(e).domain = e.domain
<1>1. ASSUME NEW c \in Cookies
      PROVE  /\ CookieToCdp(c) \in Entries /\ Portable(CookieToCdp(c)) = c
             /\ CookieToCdp(c).value = c.value /\ CookieToCdp(c).domain = c.domain
  <2>1. c.expires \in Nat \cup {Absent}
    BY DEF Cookies
  <2> DEFINE x == IF c.expires = Absent THEN -1 ELSE 2 * c.expires
  <2>2. x \in Nat \cup {-1} /\ (IF x < 0 THEN Absent ELSE x \div 2) = c.expires
    BY <2>1, AbsentAssumption
  <2> HIDE DEF x
  <2>3. CookieToCdp(c) = [name |-> c.name, value |-> c.value, domain |-> c.domain, path |-> c.path,
             expires |-> x, secure |-> c.secure, httpOnly |-> c.http_only, sameSite |-> c.same_site]
    BY DEF CookieToCdp, x
  <2>4. Portable(CookieToCdp(c)) = [name |-> c.name, value |-> c.value, domain |-> c.domain,
             path |-> c.path, expires |-> c.expires, secure |-> c.secure,
             http_only |-> c.http_only, same_site |-> c.same_site]
    BY <2>2, <2>3 DEF Portable
  <2> QED
    BY <2>2, <2>3, <2>4 DEF Cookies, Entries
<1>2. ASSUME NEW e \in Entries
      PROVE  /\ CookieFromCdp(e) \in Cookies
             /\ CookieFromCdp(e).value = e.value /\ CookieFromCdp(e).domain = e.domain
  <2>1. e.expires \in Nat \cup {-1}
    BY DEF Entries
  <2>2. (IF e.expires > 0 THEN e.expires \div 2 ELSE Absent) \in Nat \cup {Absent}
    BY <2>1
  <2> QED
    BY <2>2 DEF CookieFromCdp, Cookies, Entries
<1> QED
  BY <1>1, <1>2

(* A field-wise conversion of a jar. *)
LEMMA LaunchKeeps ==
    ASSUME JarInv, Launch
    PROVE  JarInv'
<1> DEFINE handed == [i \in DOMAIN jar |-> CookieToCdp(jar[i])]
<1>1. jar \in Seq(Cookies) /\ browser' = Unspent(handed)
  BY DEF JarInv, JarTypeOK, Launch
<1>2. handed \in Seq(Entries)
  BY <1>1, ConversionKeeps
<1>3. \A e \in Range(handed) : \E c \in Range(jar) : e.value = c.value /\ e.domain = c.domain
  BY <1>1, ConversionKeeps DEF Range
<1> HIDE DEF handed
<1>4. browser' \in Seq(Entries) /\ \A e \in Range(browser') : e \in Range(handed)
  BY <1>1, <1>2, Unspents
<1>5. UNCHANGED <<now, jar, ideal, setter, unread, gap>>
  BY DEF Launch
<1>6. \A c : Owned(c)' <=> Owned(c)
  BY <1>5 DEF Owned
<1>7. \A e \in Range(browser') : Owned(e)
  BY <1>3, <1>4 DEF JarInv, AllOwned, Owned
<1>8. JarTypeOK'
  BY <1>4, <1>5 DEF JarInv, JarTypeOK
<1>9. AllOwned'
  BY <1>5, <1>6, <1>7 DEF JarInv, AllOwned
<1> QED
  BY <1>8, <1>9 DEF JarInv

LEMMA ClearKeeps ==
    ASSUME JarInv, NEW s \in Settings, NEW half \in Fractions, Clear(s, half)
    PROVE  JarInv'
<1>1. JarTypeOK /\ AllOwned /\ SetBy(s) /\ now' = now /\ Running /\ half \in {0, 1}
  BY FractionAssumption DEF JarInv, Clear
<1>2. /\ browser' = RfcReceive(browser, Header(s), s.url, half)
      /\ ideal' = RfcReceive(ideal, Header(s), s.url, half)
      /\ unread' = UnreadAfter(Header(s), s.url, half, FALSE)
      /\ gap' \in {gap, "none"}
      /\ Export(Unspent(browser'))
  BY DEF Clear
<1>3. browser \in Seq(Entries) /\ ideal \in Seq(Entries) /\ setter' \in Seq(Setters)
  BY <1>1, OwnedStays DEF JarTypeOK
<1>4. ideal' \in Seq(Entries) /\ browser' \in Seq(Entries) /\ \A e \in Range(browser') : Owned(e)'
  BY <1>1, <1>2, <1>3, ReceiveKeeps DEF AllOwned
<1>5. PICK es : es = Unspent(browser')
  OBVIOUS
<1>6. es \in Seq(Entries) /\ \A e \in Range(es) : Owned(e)'
  BY <1>4, <1>5, Unspents
<1> DEFINE cs == [i \in DOMAIN es |-> CookieFromCdp(es[i])]
<1>7. cs \in Seq(Cookies)
  BY <1>6, ConversionKeeps
<1>8. \A c \in Range(cs) : \E e \in Range(es) : e.value = c.value /\ e.domain = c.domain
  BY <1>6, ConversionKeeps DEF Range
<1>9. jar' = SetCookies(cs, now)
  BY <1>2, <1>5 DEF Export
<1> HIDE DEF cs
<1>10. jar' \in Seq(Cookies) /\ \A c \in Range(jar') : c \in Range(cs)
  BY <1>7, <1>9, SetCookiesKeeps
<1>11. \A c \in Range(jar') : Owned(c)'
  BY <1>6, <1>8, <1>10 DEF Owned
<1>12. JarTypeOK'
  BY <1>1, <1>2, <1>3, <1>4, <1>10, UnreadKeeps DEF JarTypeOK
<1>13. AllOwned'
  BY <1>4, <1>11 DEF AllOwned
<1> QED
  BY <1>12, <1>13 DEF JarInv

LEMMA ClearFailsKeeps ==
    ASSUME JarInv, NEW s \in Settings, NEW half \in Fractions, ClearFails(s, half)
    PROVE  JarInv'
<1>1. /\ JarTypeOK /\ AllOwned /\ SetBy(s) /\ now' = now /\ jar' = jar
      /\ Running /\ half \in {0, 1}
  BY FractionAssumption DEF JarInv, ClearFails
<1>2. /\ browser' = RfcReceive(browser, Header(s), s.url, half)
      /\ ideal' = RfcReceive(ideal, Header(s), s.url, half)
      /\ unread' = UnreadAfter(Header(s), s.url, half, FALSE)
      /\ gap' \in {gap, "browser"}
  BY DEF ClearFails
<1>3. browser \in Seq(Entries) /\ ideal \in Seq(Entries) /\ setter' \in Seq(Setters)
  BY <1>1, OwnedStays DEF JarTypeOK
<1>4. ideal' \in Seq(Entries) /\ browser' \in Seq(Entries) /\ \A e \in Range(browser') : Owned(e)'
  BY <1>1, <1>2, <1>3, ReceiveKeeps DEF AllOwned
<1>5. \A c \in Range(jar') : Owned(c)'
  BY <1>1, OwnedStays DEF AllOwned
<1>6. JarTypeOK'
  BY <1>1, <1>2, <1>3, <1>4, UnreadKeeps DEF JarTypeOK
<1>7. AllOwned'
  BY <1>4, <1>5 DEF AllOwned
<1> QED
  BY <1>6, <1>7 DEF JarInv

LEMMA JarStarts ==
    ASSUME JarInit
    PROVE  JarInv
<1>1. Range(jar) = {}
  BY DEF JarInit, Range
<1>2. JarTypeOK
  BY DEF JarInit, JarTypeOK, Running
<1> QED
  BY <1>1, <1>2 DEF JarInv, AllOwned, JarInit, Running

(* Types and ownership hold throughout. *)
THEOREM JarInvariance == JarSpec => []JarInv
<1>1. JarInit => JarInv
  BY JarStarts
<1>2. JarInv /\ [JarNext]_jarVars => JarInv'
  <2> SUFFICES ASSUME JarInv, [JarNext]_jarVars PROVE JarInv'
    OBVIOUS
  <2>1. CASE Tick
    <3>1. UNCHANGED <<jar, browser, ideal, setter, unread, gap>> /\ now' = now + 1
      BY <2>1 DEF Tick
    <3> QED
      BY <3>1 DEF JarInv, JarTypeOK, AllOwned, Owned, Running
  <2>2. CASE Launch
    BY <2>2, LaunchKeeps
  <2>3. CASE Demote
    <3>1. UNCHANGED <<now, jar, ideal, setter, unread>> /\ browser' = Absent /\ gap' \in {gap, "http"}
      BY <2>3 DEF Demote
    <3> QED
      BY <3>1 DEF JarInv, JarTypeOK, AllOwned, Owned, Running
  <2>4. CASE \E s \in Settings : HttpFetch(s)
    BY <2>4, FetchKeeps
  <2>5. CASE \E s \in Settings : \E half \in Fractions : Clear(s, half)
    BY <2>5, ClearKeeps
  <2>6. CASE \E s \in Settings : \E half \in Fractions : ClearFails(s, half)
    BY <2>6, ClearFailsKeeps
  <2>7. CASE UNCHANGED jarVars
    BY <2>7 DEF JarInv, JarTypeOK, AllOwned, Owned, Running, jarVars
  <2> QED
    BY <2>1, <2>2, <2>3, <2>4, <2>5, <2>6, <2>7 DEF JarNext
<1> QED
  BY <1>1, <1>2, PTL DEF JarSpec

----------------------------------------------------------------------------
(* What is sent. *)

LEMMA HeaderSends ==
    ASSUME NEW cs \in Seq(Cookies), NEW url, NEW n, NEW sent, sent = CookieHeader(cs, url, n)
    PROVE  /\ Range(sent) = {c \in Range(cs) : ~IsExpired(c, n) /\ CookieApplies(c, url)}
           /\ \A i, j \in DOMAIN sent : i < j => PathLen(sent[i].path) >= PathLen(sent[j].path)
<1> DEFINE places == {i \in DOMAIN cs : /\ ~IsExpired(cs[i], n) /\ CookieApplies(cs[i], url)}
           t == Keeping(cs, places)
<1>1. t \in Seq(Cookies) /\ Range(t) = {cs[i] : i \in DOMAIN cs \cap places}
  <2> HIDE DEF places
  <2> QED
    BY KeepingKeeps
<1>2. {cs[i] : i \in DOMAIN cs \cap places}
        = {c \in Range(cs) : ~IsExpired(c, n) /\ CookieApplies(c, url)}
  BY DEF Range
<1>3. sent = LongestFirst(t)
  BY DEF CookieHeader, Applicable
<1> HIDE DEF t, places
<1>4. \A i \in DOMAIN t : PathLen(t[i].path) \in Nat
  <2> TAKE i \in DOMAIN t
  <2>1. t[i] \in Cookies
    BY <1>1
  <2>2. t[i].path \in Seq(Segments)
    BY <2>1 DEF Cookies, Paths
  <2> QED
    BY <2>2, PathLenType
<1>5. /\ DOMAIN sent = DOMAIN t /\ Range(sent) = Range(t)
      /\ \A i, j \in DOMAIN t : i < j => PathLen(sent[i].path) >= PathLen(sent[j].path)
  BY <1>1, <1>3, <1>4, SortPermutes
<1> QED
  BY <1>1, <1>2, <1>5

(* No cookie goes where its setter has no say: for any hosts, suffixes and
   Set-Cookie headers, and any way through the two legs. *)
THEOREM CookiesNeverLeak == JarSpec => []NeverLeaks
<1>1. JarInv => NeverLeaks
  <2> SUFFICES ASSUME JarInv, NEW url \in Urls, NEW c \in Range(CookieHeader(jar, url, now)),
                      NEW by, by = setter[c.value].labels
               PROVE  /\ c.secure => url.secure
                      /\ \/ by = url.host.labels
                         \/ /\ by \notin IpLiterals /\ url.host.labels \notin IpLiterals
                            /\ \E d \in Tails(by) \cap Tails(url.host.labels) : d \notin PublicSuffixes
    BY DEF NeverLeaks
  <2>1. jar \in Seq(Cookies) /\ setter \in Seq(Setters)
    BY DEF JarInv, JarTypeOK
  <2>2. c \in Range(jar) /\ CookieApplies(c, url)
    <3>1. PICK sent : sent = CookieHeader(jar, url, now)
      OBVIOUS
    <3> QED
      BY <2>1, <3>1, HeaderSends
  <2>3. c.secure => url.secure
    BY <2>2 DEF CookieApplies
  <2>4. c \in Cookies /\ Owned(c)
    BY <2>1, <2>2 DEF JarInv, AllOwned, Range
  <2> DEFINE d == c.domain
             to == url.host.labels
  <2>5. d \in Domains /\ InScope(d, by)
    BY <2>4 DEF Cookies, Owned
  <2>a. PICK s \in Settings : by = s.url.host.labels
    <3>1. setter[c.value] \in Setters
      BY <2>1, <2>4 DEF Owned
    <3> QED
      BY <3>1 DEF Setters
  <2>6. by \in Seq(Labels) \ {<<>>} /\ to \in Seq(Labels) \ {<<>>}
    <3>1. s.url.host \in Hosts /\ url.host \in Hosts
      BY UrlAssumption
    <3> QED
      BY <2>a, <3>1 DEF Hosts
  <2>7. IF d.sub THEN IsSuffix(d.labels, to) ELSE d.labels = to
    BY <2>2 DEF CookieApplies, DomainMatches
  <2>8. CASE ~d.sub
    BY <2>3, <2>5, <2>7, <2>8 DEF InScope
  <2>9. CASE d.sub
    <3>1. /\ d.labels \in Seq(Labels) \ {<<>>} /\ d.labels \notin PublicSuffixes
          /\ IsSuffix(d.labels, by) /\ IsSuffix(d.labels, to) /\ by \notin IpLiterals
      BY <2>5, <2>7, <2>9 DEF InScope, Domains
    <3>2. /\ d.labels \in Tails(by) /\ d.labels \in Tails(to)
          /\ Last(by) = Last(to)
      BY <2>6, <3>1, SuffixIsTail
    <3>3. to \notin IpLiterals
      BY <2>a, <3>1, <3>2, AddressAssumption
    <3> QED
      BY <2>3, <3>1, <3>2, <3>3
  <2> QED
    BY <2>8, <2>9
<1> QED
  BY <1>1, JarInvariance, PTL

----------------------------------------------------------------------------
(* The two parsers agree on a header that gives each attribute once. *)

OnlyAt(h, key, i) ==
    /\ Given(h, key) = {i} /\ Max({i}) = i
    /\ WellFormed(h.attributes[i]) /\ h.attributes[i].key = key

LEMMA GivenOnce ==
    ASSUME NEW s \in Settings, NEW h, h.attributes = s.attributes, NEW key,
           Given(h, key) # {}
    PROVE  \E i : OnlyAt(h, key, i)
<1>1. PICK i : i \in Given(h, key)
  OBVIOUS
<1>2. i \in DOMAIN s.attributes /\ s.attributes[i].key = key
  BY <1>1 DEF Given
<1>3. \A j \in Given(h, key) : j = i
  BY <1>2, OnceAssumption DEF Given
<1>4. Given(h, key) = {i}
  BY <1>1, <1>3
<1>5. /\ Max({i}) \in {i} /\ h.attributes[Max({i})].key = key
      /\ WellFormed(h.attributes[Max({i})])
  BY <1>4, GivenValue
<1> QED
  BY <1>4, <1>5 DEF OnlyAt

LEMMA SuffixOfItself ==
    ASSUME NEW l \in Seq(Labels)
    PROVE  IsSuffix(l, l)
BY DEF IsSuffix, IsPrefix, Reverse

(* What the code makes of a Domain is what the RFC makes of it. *)
LEMMA ScopeAgrees ==
    ASSUME NEW s \in Settings, NEW h, h.attributes = s.attributes, h.name # Absent,
           NEW host \in Hosts, host.dot = FALSE
    PROVE  /\ IsCookie(h, host) <=> RfcAccepts(h, host)
           /\ IsCookie(h, host) =>
                IF Widening(h, host) = {} THEN RfcHostOnly(h, host)
                ELSE /\ ~RfcHostOnly(h, host)
                     /\ ScopeAt(h, Max(Widening(h, host)), host).domain
                          = [sub |-> TRUE, labels |-> ValueOf(h, "domain").labels, dot |-> FALSE]
<1>1. CASE Given(h, "domain") = {}
  <2>1. ~Named(h) /\ Widening(h, host) = {}
    BY <1>1 DEF Named, Has, Widening
  <2> QED
    BY <1>1, <2>1 DEF IsCookie, RfcAccepts, RfcHostOnly
<1>2. CASE Given(h, "domain") # {}
  <2>0. PICK i : OnlyAt(h, "domain", i)
    BY <1>2, GivenOnce
  <2>1. /\ Given(h, "domain") = {i} /\ Max({i}) = i
        /\ WellFormed(h.attributes[i]) /\ h.attributes[i].key = "domain"
    BY <2>0 DEF OnlyAt
  <2>2. PICK g : g = h.attributes[i].value
    OBVIOUS
  <2>3. g \in [labels : Seq(Labels), dot : BOOLEAN]
    BY <2>1, <2>2 DEF WellFormed
  <2>4. ValueOf(h, "domain") = g /\ ScopeAt(h, i, host) = DomainScope(g, host)
    BY <2>1, <2>2 DEF ValueOf, LastValue, ScopeAt
  <2>5. IsCookie(h, host) <=> DomainScope(g, host).kind # "refuse"
    BY <2>1, <2>4 DEF IsCookie
  <2> DEFINE widened == Widening(h, host)
  <2>6. widened = IF DomainScope(g, host).kind = "widen" THEN {i} ELSE {}
    BY <2>1, <2>4 DEF Widening
  <2> HIDE DEF widened
  <2>7. (Named(h) <=> g.labels # <<>>) /\ (Own(h, host) <=> g.labels # <<>> /\ g = host)
    BY <1>2, <2>4 DEF Named, Own, Has
  <2>h. RfcHostOnly(h, host) <=> (g.labels = <<>> \/ (g = host /\ host.labels \in PublicSuffixes \cup IpLiterals))
    BY <2>7 DEF RfcHostOnly
  <2>8. RfcAccepts(h, host) <=>
          (g.labels # <<>> => /\ g.dot = FALSE /\ IsSuffix(g.labels, host.labels)
                              /\ g = host \/ (g.labels \notin PublicSuffixes /\ host.labels \notin IpLiterals))
    <3>1. RfcAccepts(h, host) <=>
            (Named(h) => /\ RfcDomainMatch(g.labels, g.dot, host)
                         /\ Own(h, host) \/ (g.labels \notin PublicSuffixes /\ host.labels \notin IpLiterals))
      BY <2>4, Zenon DEF RfcAccepts
    <3>2. RfcDomainMatch(g.labels, g.dot, host) <=> (g.dot = FALSE /\ IsSuffix(g.labels, host.labels))
      BY <2>3, Zenon DEF RfcDomainMatch
    <3> QED
      BY <2>7, <3>1, <3>2, Zenon
  <2>9. [host EXCEPT !.dot = FALSE] = host /\ IsSuffix(host.labels, host.labels)
    BY SuffixOfItself DEF Hosts
  <2>10. CASE g.labels = <<>>
    <3>1. DomainScope(g, host).kind = "host"
      BY <2>10 DEF DomainScope, KeepHost
    <3> QED
      BY <2>5, <2>6, <2>h, <2>8, <2>10, <3>1 DEF widened
  <2>11. CASE g.labels # <<>> /\ (host.labels \in IpLiterals \/ g.labels \in PublicSuffixes) /\ g = host
    <3>1. DomainScope(g, host).kind = "host"
      BY <2>9, <2>11 DEF DomainScope, KeepHost
    <3> QED
      BY <2>5, <2>6, <2>h, <2>8, <2>9, <2>11, <3>1 DEF widened
  <2>12. CASE g.labels # <<>> /\ (host.labels \in IpLiterals \/ g.labels \in PublicSuffixes) /\ g # host
    <3>1. DomainScope(g, host).kind = "refuse"
      BY <2>9, <2>12 DEF DomainScope, Refuse
    <3> QED
      BY <2>5, <2>8, <2>12, <3>1
  <2>13. CASE g.labels # <<>> /\ host.labels \notin IpLiterals /\ g.labels \notin PublicSuffixes
    <3>1. CASE g.dot = FALSE /\ IsSuffix(g.labels, host.labels)
      <4>1. DomainScope(g, host) = [kind |-> "widen", domain |-> [sub |-> TRUE, labels |-> g.labels, dot |-> g.dot]]
        BY <2>13, <3>1 DEF DomainScope, DomainMatches, Widened
      <4>2. ~(g = host /\ host.labels \in PublicSuffixes \cup IpLiterals)
        BY <2>13
      <4> QED
        <5>1. IsCookie(h, host) /\ RfcAccepts(h, host) /\ widened = {i}
          BY <2>5, <2>6, <2>7, <2>8, <2>13, <3>1, <4>1
        <5>2. ~RfcHostOnly(h, host)
          BY <2>13, <2>h, <4>2
        <5>3. ScopeAt(h, Max(widened), host).domain
                = [sub |-> TRUE, labels |-> ValueOf(h, "domain").labels, dot |-> FALSE]
          <6>1. ScopeAt(h, Max(widened), host) = DomainScope(g, host)
            BY <2>1, <2>4, <5>1, Zenon
          <6>2. DomainScope(g, host).domain = [sub |-> TRUE, labels |-> g.labels, dot |-> FALSE]
            <7>1. DomainScope(g, host).domain = [sub |-> TRUE, labels |-> g.labels, dot |-> g.dot]
              BY <4>1
            <7> QED
              BY <3>1, <7>1, Zenon
          <6> QED
            BY <2>4, <6>1, <6>2, Zenon
        <5> QED
          BY <5>1, <5>2, <5>3 DEF widened
    <3>2. CASE ~(g.dot = FALSE /\ IsSuffix(g.labels, host.labels))
      <4>1. DomainScope(g, host).kind = "refuse"
        BY <2>3, <2>13, <3>2 DEF DomainScope, DomainMatches, Widened, Refuse
      <4> QED
        <5>1. ~IsCookie(h, host) /\ ~RfcAccepts(h, host)
          BY <2>5, <2>8, <2>13, <3>2, <4>1, Zenon
        <5> QED
          BY <5>1, Zenon
    <3> QED
      BY <3>1, <3>2
  <2> QED
    BY <2>10, <2>11, <2>12, <2>13
<1> QED
  BY <1>1, <1>2

LEMMA ParsersAgree ==
    ASSUME now \in Nat, NEW s \in Settings, NEW v \in Nat, NEW h,
           h = [name |-> s.name, value |-> v, attributes |-> s.attributes],
           s.url.host.dot = FALSE
    PROVE  /\ IsCookie(h, s.url.host) <=> RfcAccepts(h, s.url.host)
           /\ IsCookie(h, s.url.host) =>
                LET c == AnchorMaxAge(ParseSetCookie(h, s.url.host, s.url.path), now)
                    e == RfcCookie(h, s.url, 0)
                IN  Key(c) = Key(e) /\ (~ByDate(h) => Portable(e) = c)
<1> DEFINE host == s.url.host
           widened == Widening(h, host)
           absolute == {i \in Given(h, "path") : h.attributes[i].value # Absent}
           age == ValueOf(h, "max-age")
           host_only == RfcHostOnly(h, host)
           path == ValueOf(h, "path")
<1>1. host \in Hosts /\ s.url.path \in Paths /\ h.attributes = s.attributes /\ h.name = s.name
  BY SettingUrl
<1>2. CASE h.name = Absent
  BY <1>2 DEF IsCookie, RfcAccepts
<1>3. CASE h.name # Absent
  <2>1. /\ IsCookie(h, host) <=> RfcAccepts(h, host)
        /\ IsCookie(h, host) =>
             IF widened = {} THEN host_only
             ELSE /\ ~host_only
                  /\ ScopeAt(h, Max(widened), host).domain
                        = [sub |-> TRUE, labels |-> ValueOf(h, "domain").labels, dot |-> FALSE]
    BY <1>1, <1>3, ScopeAgrees
  <2> SUFFICES ASSUME IsCookie(h, host)
               PROVE  /\ Key(AnchorMaxAge(ParseSetCookie(h, s.url.host, s.url.path), now))
                            = Key(RfcCookie(h, s.url, 0))
                      /\ ~ByDate(h) => Portable(RfcCookie(h, s.url, 0))
                            = AnchorMaxAge(ParseSetCookie(h, s.url.host, s.url.path), now)
    BY <2>1
  <2> DEFINE d1 == IF widened = {} THEN HostOnly(host.labels, host.dot)
                   ELSE ScopeAt(h, Max(widened), host).domain
             d2 == [sub |-> ~host_only, dot |-> host.dot,
                    labels |-> IF host_only THEN host.labels ELSE ValueOf(h, "domain").labels]
             p1 == LastValue(h, absolute, DefaultPath(s.url.path))
             p2 == IF path # Absent THEN path ELSE DefaultPath(s.url.path)
             x1 == IF age = Absent THEN Absent ELSE IF age <= 0 THEN 0 ELSE age
             x2 == RfcExpiry(h, 0)
             y1 == IF x1 = Absent THEN Absent ELSE IF x1 = 0 THEN 0 ELSE now + x1
             y2 == IF x2 < 0 THEN Absent ELSE x2 \div 2
  <2>2. d1 = d2
    <3> HIDE DEF widened, host_only
    <3>1. CASE widened = {}
      BY <2>1, <3>1 DEF HostOnly
    <3>2. CASE widened # {}
      BY <2>1, <3>2
    <3> QED
      BY <3>1, <3>2
  <2>3. p1 = p2
    <3>1. CASE Given(h, "path") = {}
      BY <3>1 DEF ValueOf, LastValue
    <3>2. CASE Given(h, "path") # {}
      <4>0. PICK i : OnlyAt(h, "path", i)
        BY <1>1, <3>2, GivenOnce
      <4>1. Given(h, "path") = {i} /\ Max({i}) = i
        BY <4>0 DEF OnlyAt
      <4>2. path = h.attributes[i].value
        BY <4>1 DEF ValueOf, LastValue
      <4>3. absolute = IF path = Absent THEN {} ELSE {i}
        BY <4>1, <4>2
      <4> HIDE DEF absolute
      <4> QED
        BY <4>1, <4>2, <4>3 DEF LastValue
    <3> QED
      BY <3>1, <3>2
  <2>4. /\ age \in Int \cup {Absent}
        /\ ~ByDate(h) => x2 = IF age = Absent THEN -1 ELSE IF age <= 0 THEN 0 ELSE 2 * (now + age) + 0
    BY <1>1, RfcExpiryType DEF ByDate, RfcExpiry
  <2>5. ASSUME ~ByDate(h) PROVE y1 = y2
    <3>a. x2 = IF age = Absent THEN -1 ELSE IF age <= 0 THEN 0 ELSE 2 * (now + age) + 0
      BY <2>4, <2>5
    <3> HIDE DEF age, x2
    <3>1. CASE age = Absent
      BY <3>a, <3>1
    <3>2. CASE age # Absent /\ age <= 0
      BY <2>4, <3>a, <3>2, AbsentAssumption
    <3>3. CASE age # Absent /\ ~(age <= 0)
      <4>1. age \in Nat /\ age > 0
        BY <2>4, <3>3
      <4>2. x1 = age /\ x2 = 2 * (now + age)
        BY <3>a, <3>3, <4>1
      <4>3. (2 * (now + age)) \div 2 = now + age /\ ~(2 * (now + age) < 0)
        BY <4>1
      <4> QED
        BY <3>3, <4>1, <4>2, <4>3
    <3> QED
      BY <3>1, <3>2, <3>3
  <2>6. ParseSetCookie(h, s.url.host, s.url.path)
          = [name |-> h.name, value |-> v, domain |-> d1, path |-> p1, expires |-> x1,
             secure |-> Given(h, "secure") # {}, http_only |-> Given(h, "httponly") # {},
             same_site |-> ValueOf(h, "samesite")]
    BY DEF ParseSetCookie, ValueOf
  <2>7. RfcCookie(h, s.url, 0)
          = [name |-> h.name, value |-> v, domain |-> d2, path |-> p2, expires |-> x2,
             secure |-> Given(h, "secure") # {}, httpOnly |-> Given(h, "httponly") # {},
             sameSite |-> ValueOf(h, "samesite")]
    BY DEF RfcCookie, DefaultPath, Has
  <2> HIDE DEF d1, d2, p1, p2, x1, x2
  <2>8. AnchorMaxAge(ParseSetCookie(h, s.url.host, s.url.path), now)
          = [name |-> h.name, value |-> v, domain |-> d1, path |-> p1, expires |-> y1,
             secure |-> Given(h, "secure") # {}, http_only |-> Given(h, "httponly") # {},
             same_site |-> ValueOf(h, "samesite")]
    BY <2>6 DEF AnchorMaxAge
  <2>9. Portable(RfcCookie(h, s.url, 0))
          = [name |-> h.name, value |-> v, domain |-> d2, path |-> p2, expires |-> y2,
             secure |-> Given(h, "secure") # {}, http_only |-> Given(h, "httponly") # {},
             same_site |-> ValueOf(h, "samesite")]
    BY <2>7 DEF Portable
  <2>10. ~ByDate(h) => Portable(RfcCookie(h, s.url, 0))
                         = AnchorMaxAge(ParseSetCookie(h, s.url.host, s.url.path), now)
    BY <2>2, <2>3, <2>5, <2>8, <2>9
  <2>11. Key(AnchorMaxAge(ParseSetCookie(h, s.url.host, s.url.path), now)) = Key(RfcCookie(h, s.url, 0))
    BY <2>2, <2>3, <2>7, <2>8 DEF Key
  <2> QED
    BY <2>10, <2>11
<1> QED
  BY <1>2, <1>3

----------------------------------------------------------------------------
(* What the legs hold. *)

LEMMA SameKey ==
    ASSUME NEW c, NEW d
    PROVE  SameCookie(c, d) <=> Key(c) = Key(d)
BY DEF SameCookie, Key

LEMMA PortableFields ==
    ASSUME NEW e \in Entries, NEW x \in Entries, now \in Nat
    PROVE  /\ SameCookie(Portable(e), Portable(x)) <=> SameCookie(e, x)
           /\ Key(Portable(e)) = Key(e)
           /\ Portable(e).value = e.value
           /\ Over(e) => IsExpired(Portable(e), now)
<1>1. e.expires \in Nat \cup {-1}
  BY DEF Entries
<1>2. Over(e) => ~(e.expires < 0) /\ e.expires \div 2 <= now /\ e.expires \div 2 \in Int
  BY <1>1 DEF Over
<1>3. Over(e) => Portable(e).expires = e.expires \div 2
  BY <1>2 DEF Portable
<1>4. Over(e) => IsExpired(Portable(e), now)
  BY <1>2, <1>3, AbsentAssumption DEF IsExpired
<1> QED
  BY <1>4 DEF SameCookie, Portable, Key

(* Storing a cookie changes what is held as the RFC says, whatever was over. *)
LEMMA HeldStore ==
    ASSUME now \in Nat, NEW es \in Seq(Entries), NEW e \in Entries
    PROVE  Held(RfcStore(es, e)) = {x \in Held(es) : ~SameCookie(x, Portable(e))}
                                     \cup LiveOf({Portable(e)})
<1> DEFINE after == RfcStore(es, e)
           Live(c) == ~IsExpired(c, now)
<1>1. Range(after) = {x \in Range(es) : ~SameCookie(x, e)} \cup (IF Over(e) THEN {} ELSE {e})
  BY RfcStoreKeeps
<1>2. \A x \in Range(es) : x \in Entries
  BY DEF Range
<1>3. Held(after) = {c \in {Portable(x) : x \in Range(after)} : Live(c)}
  BY DEF Held, LiveOf
<1>4. Held(es) = {c \in {Portable(x) : x \in Range(es)} : Live(c)}
  BY DEF Held, LiveOf
<1>5. LiveOf({Portable(e)}) = {c \in {Portable(e)} : Live(c)}
  BY DEF LiveOf
<1>6. Over(e) => ~Live(Portable(e))
  BY PortableFields
<1>7. \A x \in Range(es) : SameCookie(Portable(x), Portable(e)) <=> SameCookie(x, e)
  BY <1>2, PortableFields
<1> HIDE DEF after, Live
<1>8. ASSUME NEW c \in Held(after)
      PROVE  c \in {x \in Held(es) : ~SameCookie(x, Portable(e))} \cup LiveOf({Portable(e)})
  <2>1. PICK x \in Range(after) : c = Portable(x) /\ Live(c)
    BY <1>3
  <2>2. CASE x = e
    BY <1>5, <2>1, <2>2
  <2>3. CASE x \in Range(es) /\ ~SameCookie(x, e)
    BY <1>4, <1>7, <2>1, <2>3
  <2> QED
    BY <1>1, <2>1, <2>2, <2>3
<1>9. ASSUME NEW c \in Held(es), ~SameCookie(c, Portable(e)) PROVE c \in Held(after)
  <2>1. PICK x \in Range(es) : c = Portable(x) /\ Live(c)
    BY <1>4
  <2>2. x \in Range(after)
    BY <1>1, <1>7, <1>9, <2>1
  <2> QED
    BY <1>3, <2>1, <2>2
<1>10. ASSUME NEW c \in LiveOf({Portable(e)}) PROVE c \in Held(after)
  <2>1. c = Portable(e) /\ Live(c)
    BY <1>5
  <2>2. e \in Range(after)
    BY <1>1, <1>6, <2>1
  <2> QED
    BY <1>3, <2>1, <2>2
<1>11. Held(after) = {x \in Held(es) : ~SameCookie(x, Portable(e))} \cup LiveOf({Portable(e)})
  BY <1>8, <1>9, <1>10
<1> QED
  BY <1>11 DEF after

LEMMA Namesakes ==
    ASSUME NEW c, NEW x
    PROVE  /\ SameCookie(x, c) <=> Key(x) = Key(c)
           /\ x \in LiveOf({c}) => Key(x) = Key(c)
BY SameKey DEF LiveOf

(* Two browsers that hold the same still do after the same answer. *)
LEMMA ReceiveAlike ==
    ASSUME JarTypeOK, NEW s \in Settings, SetBy(s), NEW half \in {0, 1},
           NEW a \in Seq(Entries), NEW b \in Seq(Entries), Readable(Held(a)) = Readable(Held(b)),
           NEW U, U = UnreadAfter(Header(s), s.url, half, FALSE)
    PROVE  \A x : Key(x) \notin U => (x \in Held(RfcReceive(a, Header(s), s.url, half))
                                       <=> x \in Held(RfcReceive(b, Header(s), s.url, half)))
<1>1. PICK h, e : h = Header(s) /\ e = RfcCookie(h, s.url, half)
  OBVIOUS
<1>2. now \in Nat /\ Issued + 1 \in Nat
  BY OwnedStays DEF JarTypeOK
<1>3. CASE ~RfcAccepts(h, s.url.host)
  BY <1>1, <1>3 DEF RfcReceive, UnreadAfter, Readable
<1>4. CASE RfcAccepts(h, s.url.host)
  <2>1. h = [name |-> s.name, value |-> Issued + 1, attributes |-> s.attributes]
    BY <1>1 DEF Header
  <2>2. e \in Entries
    BY <1>1, <1>2, <1>4, <2>1, RfcCookieIsSound
  <2>3. /\ RfcReceive(a, Header(s), s.url, half) = RfcStore(a, e)
        /\ RfcReceive(b, Header(s), s.url, half) = RfcStore(b, e)
        /\ U = unread \ {Key(e)}
    BY <1>1, <1>4 DEF RfcReceive, UnreadAfter
  <2>4. PICK c : c = Portable(e) /\ Key(c) = Key(e)
    BY <1>2, <2>2, PortableFields
  <2>5. ASSUME NEW es \in Seq(Entries), NEW x
        PROVE  x \in Held(RfcStore(es, e)) /\ Key(x) \notin U
                 <=> (x \in Readable(Held(es)) /\ Key(x) # Key(c)) \/ x \in LiveOf({c})
    <3>1. Held(RfcStore(es, e)) = {y \in Held(es) : ~SameCookie(y, Portable(e))}
                                    \cup LiveOf({Portable(e)})
      BY <1>2, <2>2, HeldStore
    <3>2. Held(RfcStore(es, e)) = {y \in Held(es) : ~SameCookie(y, c)} \cup LiveOf({c})
      BY <2>4, <3>1, Zenon
    <3>3. x \in Held(RfcStore(es, e)) <=> (x \in Held(es) /\ ~SameCookie(x, c)) \/ x \in LiveOf({c})
      BY <3>2
    <3>4. x \in Held(RfcStore(es, e)) /\ Key(x) \notin unread \ {Key(c)}
            <=> (x \in Held(es) /\ Key(x) \notin unread /\ Key(x) # Key(c)) \/ x \in LiveOf({c})
      BY <3>3, Namesakes
    <3> QED
      BY <2>3, <2>4, <3>4 DEF Readable
  <2> QED
    BY <2>3, <2>5
<1> QED
  BY <1>3, <1>4

(* Handing the session's cookies to a browser, and reading a browser's. *)
LEMMA HandedOver ==
    ASSUME now \in Nat, NEW cs \in Seq(Cookies), NEW es,
           es = Unspent([i \in DOMAIN cs |-> CookieToCdp(cs[i])])
    PROVE  Held(es) = LiveOf(Range(cs))
<1> DEFINE handed == [i \in DOMAIN cs |-> CookieToCdp(cs[i])]
<1>1. handed \in Seq(Entries) /\ \A e \in Range(handed) : \E c \in Range(cs) : e = CookieToCdp(c)
  BY ConversionKeeps DEF Range
<1>2. \A c \in Range(cs) : c \in Cookies /\ CookieToCdp(c) \in Range(handed)
  BY DEF Range
<1> HIDE DEF handed
<1>3. Range(es) = {e \in Range(handed) : ~Over(e)}
  BY <1>1, Unspents DEF handed
<1>4. ASSUME NEW c \in Held(es) PROVE c \in LiveOf(Range(cs))
  <2>1. PICK e \in Range(es) : c = Portable(e) /\ ~IsExpired(c, now)
    BY DEF Held, LiveOf
  <2>2. PICK d \in Range(cs) : e = CookieToCdp(d)
    BY <1>1, <1>3, <2>1
  <2> QED
    BY <1>2, <2>1, <2>2, ConversionKeeps DEF LiveOf
<1>5. ASSUME NEW c \in LiveOf(Range(cs)) PROVE c \in Held(es)
  <2>1. c \in Range(cs) /\ ~IsExpired(c, now) /\ c \in Cookies
    BY <1>2 DEF LiveOf
  <2>2. PICK e \in Entries : e = CookieToCdp(c) /\ Portable(e) = c /\ e \in Range(handed)
    BY <1>2, <2>1, ConversionKeeps
  <2>3. e \in Range(es)
    BY <1>3, <2>1, <2>2, PortableFields
  <2> QED
    BY <2>1, <2>2, <2>3 DEF Held, LiveOf
<1> QED
  BY <1>4, <1>5

LEMMA Exported ==
    ASSUME now \in Nat, NEW es \in Seq(Entries), NEW cs,
           cs = SetCookies([i \in DOMAIN Unspent(es) |-> CookieFromCdp(Unspent(es)[i])], now)
    PROVE  LiveOf(Range(cs)) = Held(es)
<1>1. PICK us : us = Unspent(es)
  OBVIOUS
<1>2. us \in Seq(Entries) /\ Range(us) = {e \in Range(es) : ~Over(e)}
  BY <1>1, Unspents
<1> DEFINE read == [i \in DOMAIN us |-> CookieFromCdp(us[i])]
<1>3. /\ read \in Seq(Cookies)
      /\ \A c \in Range(read) : \E e \in Range(us) : c = CookieFromCdp(e)
      /\ \A e \in Range(us) : CookieFromCdp(e) \in Range(read)
  BY <1>2, ConversionKeeps DEF Range
<1> HIDE DEF read
<1>4. Range(cs) = {c \in Range(read) : ~IsExpired(c, now)}
  BY <1>1, <1>3, SetCookiesKeeps DEF read
<1>5. \A e \in Range(es) : e \in Entries
  BY DEF Range
<1>6. ASSUME NEW e \in Entries, ~Over(e) PROVE CookieFromCdp(e) = Portable(e)
  <2>1. e.expires \in Nat \cup {-1}
    BY DEF Entries
  <2>2. e.expires = -1 \/ e.expires > 0
    BY <1>6, <2>1 DEF Over
  <2>3. (e.expires > 0) <=> ~(e.expires < 0)
    BY <2>1, <2>2
  <2> QED
    BY <2>3 DEF CookieFromCdp, Portable
<1>7. ASSUME NEW c \in LiveOf(Range(cs)) PROVE c \in Held(es)
  <2>1. c \in Range(read) /\ ~IsExpired(c, now)
    BY <1>4 DEF LiveOf
  <2>2. PICK e \in Range(es) : ~Over(e) /\ c = CookieFromCdp(e)
    BY <1>2, <1>3, <2>1
  <2> QED
    BY <1>5, <1>6, <2>1, <2>2 DEF Held, LiveOf
<1>8. ASSUME NEW c \in Held(es) PROVE c \in LiveOf(Range(cs))
  <2>1. PICK e \in Range(es) : c = Portable(e) /\ ~IsExpired(c, now)
    BY DEF Held, LiveOf
  <2>2. ~Over(e) /\ e \in Entries
    BY <1>5, <2>1, PortableFields
  <2>3. c = CookieFromCdp(e) /\ c \in Range(read)
    BY <1>2, <1>3, <1>6, <2>1, <2>2
  <2> QED
    BY <1>4, <2>1, <2>3 DEF LiveOf
<1> QED
  BY <1>7, <1>8

(* What the HTTP leg absorbs is what the RFC's browser stores. *)
LEMMA AbsorbedAlike ==
    ASSUME JarTypeOK, NEW s \in Settings, SetBy(s), s.url.host.dot = FALSE,
           Readable(LiveOf(Range(jar))) = Readable(Held(ideal)),
           NEW cs, cs = AbsorbCookies(jar, Header(s), s.url.host, s.url.path, now),
           NEW U, U = UnreadAfter(Header(s), s.url, 0, TRUE)
    PROVE  \A x : Key(x) \notin U => (x \in LiveOf(Range(cs))
                                       <=> x \in Held(RfcReceive(ideal, Header(s), s.url, 0)))
<1>1. PICK h, c, e : /\ h = Header(s)
                     /\ c = AnchorMaxAge(ParseSetCookie(h, s.url.host, s.url.path), now)
                     /\ e = RfcCookie(h, s.url, 0)
  OBVIOUS
<1>2. /\ now \in Nat /\ Issued + 1 \in Nat /\ jar \in Seq(Cookies) /\ ideal \in Seq(Entries)
      /\ h = [name |-> s.name, value |-> Issued + 1, attributes |-> s.attributes]
  BY <1>1, OwnedStays DEF JarTypeOK, Header
<1>3. /\ IsCookie(h, s.url.host) <=> RfcAccepts(h, s.url.host)
      /\ IsCookie(h, s.url.host) => Key(c) = Key(e) /\ (~ByDate(h) => Portable(e) = c)
  BY <1>1, <1>2, ParsersAgree
<1>4. /\ ~IsCookie(h, s.url.host) => cs = jar
      /\ IsCookie(h, s.url.host) =>
           Range(cs) = {x \in Range(jar) : ~SameCookie(x, c)}
                         \cup (IF IsExpired(c, now) THEN {} ELSE {c})
  BY <1>1, <1>2, AbsorbKeeps
<1>5. CASE ~IsCookie(h, s.url.host)
  BY <1>1, <1>3, <1>4, <1>5 DEF RfcReceive, UnreadAfter, Readable
<1>6. CASE IsCookie(h, s.url.host)
  <2>1. /\ RfcReceive(ideal, Header(s), s.url, 0) = RfcStore(ideal, e)
        /\ U = IF ByDate(h) THEN unread \cup {Key(e)} ELSE unread \ {Key(e)}
    BY <1>1, <1>3, <1>6 DEF RfcReceive, UnreadAfter
  <2>2. e \in Entries
    BY <1>1, <1>2, <1>3, <1>6, RfcCookieIsSound
  <2>3. PICK p : p = Portable(e) /\ Key(p) = Key(e)
    BY <1>2, <2>2, PortableFields
  <2>4. ASSUME NEW x
        PROVE  /\ x \in Held(RfcStore(ideal, e))
                    <=> (x \in Held(ideal) /\ ~SameCookie(x, p)) \/ x \in LiveOf({p})
               /\ x \in LiveOf(Range(cs))
                    <=> (x \in LiveOf(Range(jar)) /\ ~SameCookie(x, c)) \/ x \in LiveOf({c})
    <3>1. Held(RfcStore(ideal, e)) = {y \in Held(ideal) : ~SameCookie(y, Portable(e))}
                                       \cup LiveOf({Portable(e)})
      BY <1>2, <2>2, HeldStore
    <3>2. Held(RfcStore(ideal, e)) = {y \in Held(ideal) : ~SameCookie(y, p)} \cup LiveOf({p})
      BY <2>3, <3>1, Zenon
    <3>3. LiveOf(Range(cs)) = {y \in LiveOf(Range(jar)) : ~SameCookie(y, c)} \cup LiveOf({c})
      BY <1>4, <1>6 DEF LiveOf
    <3> QED
      BY <3>2, <3>3
  <2>5. \A x : Key(x) \notin unread => (x \in LiveOf(Range(jar)) <=> x \in Held(ideal))
    BY DEF Readable
  <2>6. Key(c) = Key(e) /\ Key(p) = Key(c)
    BY <1>3, <1>6, <2>3
  <2> SUFFICES ASSUME NEW x, Key(x) \notin U
               PROVE  x \in LiveOf(Range(cs)) <=> x \in Held(RfcStore(ideal, e))
    BY <2>1
  <2>7. CASE ByDate(h)
    <3>1. Key(x) \notin unread \cup {Key(c)} /\ Key(x) \notin unread \cup {Key(p)}
      BY <2>1, <2>6, <2>7
    <3>2. x \in Held(RfcStore(ideal, e)) /\ Key(x) \notin unread \cup {Key(p)}
            <=> x \in Held(ideal) /\ Key(x) \notin unread /\ Key(x) # Key(p)
      BY <2>4, Namesakes
    <3>3. x \in LiveOf(Range(cs)) /\ Key(x) \notin unread \cup {Key(c)}
            <=> x \in LiveOf(Range(jar)) /\ Key(x) \notin unread /\ Key(x) # Key(c)
      BY <2>4, Namesakes
    <3> QED
      BY <2>5, <2>6, <3>1, <3>2, <3>3
  <2>8. CASE ~ByDate(h)
    <3>1. p = c
      BY <1>3, <1>6, <2>3, <2>8
    <3>2. Key(x) \notin unread \ {Key(c)}
      BY <2>1, <2>6, <2>8
    <3>3. x \in Held(RfcStore(ideal, e)) /\ Key(x) \notin unread \ {Key(c)}
            <=> (x \in Held(ideal) /\ Key(x) \notin unread /\ Key(x) # Key(c)) \/ x \in LiveOf({c})
      BY <2>4, <3>1, Namesakes
    <3>4. x \in LiveOf(Range(cs)) /\ Key(x) \notin unread \ {Key(c)}
            <=> (x \in LiveOf(Range(jar)) /\ Key(x) \notin unread /\ Key(x) # Key(c)) \/ x \in LiveOf({c})
      BY <2>4, Namesakes
    <3> QED
      BY <2>5, <3>2, <3>3, <3>4
  <2> QED
    BY <2>7, <2>8
<1> QED
  BY <1>5, <1>6

(* What is over for one is over for the other, and stays so. *)
LEMMA LiveLater ==
    ASSUME now \in Nat, now' = now + 1, NEW S, \A c \in S : c.expires \in Nat \cup {Absent}
    PROVE  {c \in S : ~IsExpired(c, now')} = {c \in LiveOf(S) : ~IsExpired(c, now')}
<1>1. \A c \in S : IsExpired(c, now) => IsExpired(c, now')
  BY AbsentAssumption DEF IsExpired
<1> QED
  BY <1>1 DEF LiveOf

LegInv == JarInv /\ LegsAgree /\ (gap = "browser" => Running)

LEMMA LegStep ==
    ASSUME LegInv, JarInv', [JarNext]_jarVars
    PROVE  LegInv'
<1>1. JarInv /\ JarTypeOK /\ now \in Nat /\ jar \in Seq(Cookies) /\ ideal \in Seq(Entries)
  BY DEF LegInv, JarInv, JarTypeOK
<1>2. /\ gap = "none" => Readable(LiveOf(Range(jar))) = Readable(Held(ideal))
      /\ gap # "http" /\ Running => Readable(Held(browser)) = Readable(Held(ideal))
      /\ gap = "browser" => Running
      /\ Running => browser \in Seq(Entries)
      /\ gap \in {"none", "browser", "http"}
  BY <1>1 DEF LegInv, LegsAgree, JarTypeOK
<1>3. SUFFICES /\ gap' = "none" => Readable(LiveOf(Range(jar)))' = Readable(Held(ideal))'
               /\ gap' # "http" /\ Running' => Readable(Held(browser))' = Readable(Held(ideal))'
               /\ gap' = "browser" => Running'
  BY DEF LegInv, LegsAgree
<1>4. now' = now =>
        /\ Readable(LiveOf(Range(jar)))' = {c \in LiveOf(Range(jar')) : Key(c) \notin unread'}
        /\ Readable(Held(ideal))' = {c \in Held(ideal') : Key(c) \notin unread'}
        /\ Readable(Held(browser))' = {c \in Held(browser') : Key(c) \notin unread'}
  BY DEF LiveOf, Held, Readable
<1>5. CASE Tick
  <2>1. now' = now + 1 /\ UNCHANGED <<jar, browser, ideal, setter, unread, gap>>
    BY <1>5 DEF Tick
  <2>2. \A c \in Range(jar) : c.expires \in Nat \cup {Absent}
    <3>1. \A c \in Range(jar) : c \in Cookies
      BY <1>1 DEF Range
    <3> QED
      BY <3>1 DEF Cookies
  <2>3. ASSUME NEW es \in Seq(Entries), NEW c \in {Portable(e) : e \in Range(es)}
        PROVE  c.expires \in Nat \cup {Absent}
    <3>1. PICK e \in Entries : c = Portable(e)
      BY DEF Range
    <3>2. e.expires \in Nat \cup {-1}
      BY <3>1 DEF Entries
    <3>3. (IF e.expires < 0 THEN Absent ELSE e.expires \div 2) \in Nat \cup {Absent}
      BY <3>2
    <3> QED
      BY <3>1, <3>3 DEF Portable
  <2>4. LiveOf(Range(jar))' = {c \in LiveOf(Range(jar)) : ~IsExpired(c, now')}
    <3>1. LiveOf(Range(jar))' = {c \in Range(jar) : ~IsExpired(c, now')}
      BY <2>1 DEF LiveOf
    <3> QED
      BY <1>1, <2>1, <2>2, <3>1, LiveLater
  <2>5. Held(ideal)' = {c \in Held(ideal) : ~IsExpired(c, now')}
    <3>1. Held(ideal)' = {c \in {Portable(e) : e \in Range(ideal)} : ~IsExpired(c, now')}
      BY <2>1 DEF Held, LiveOf
    <3> QED
      BY <1>1, <2>1, <2>3, <3>1, LiveLater DEF Held
  <2>6. Running => Held(browser)' = {c \in Held(browser) : ~IsExpired(c, now')}
    <3>1. Held(browser)' = {c \in {Portable(e) : e \in Range(browser)} : ~IsExpired(c, now')}
      BY <2>1 DEF Held, LiveOf
    <3> QED
      BY <1>1, <1>2, <2>1, <2>3, <3>1, LiveLater DEF Held
  <2>7. Running' <=> Running
    BY <2>1 DEF Running
  <2>8. ASSUME NEW S, NEW T, Readable(S) = Readable(T)
        PROVE  {c \in {x \in S : ~IsExpired(x, now')} : Key(c) \notin unread}
                 = {c \in {x \in T : ~IsExpired(x, now')} : Key(c) \notin unread}
    BY <2>8 DEF Readable
  <2>9. /\ Readable(LiveOf(Range(jar)))'
             = {c \in {x \in LiveOf(Range(jar)) : ~IsExpired(x, now')} : Key(c) \notin unread}
        /\ Readable(Held(ideal))'
             = {c \in {x \in Held(ideal) : ~IsExpired(x, now')} : Key(c) \notin unread}
        /\ Running => Readable(Held(browser))'
             = {c \in {x \in Held(browser) : ~IsExpired(x, now')} : Key(c) \notin unread}
    BY <2>1, <2>4, <2>5, <2>6 DEF Readable
  <2> QED
    BY <1>2, <2>1, <2>7, <2>8, <2>9
<1>6. CASE Launch
  <2>1. /\ browser' = Unspent([i \in DOMAIN jar |-> CookieToCdp(jar[i])])
        /\ UNCHANGED <<now, jar, ideal, setter, unread, gap>> /\ ~Running
    BY <1>6 DEF Launch
  <2>2. Held(browser') = LiveOf(Range(jar))
    <3>1. PICK es : es = browser'
      OBVIOUS
    <3> QED
      BY <1>1, <2>1, <3>1, HandedOver
  <2> QED
    BY <1>2, <1>4, <2>1, <2>2 DEF Readable
<1>7. CASE Demote
  <2>1. /\ UNCHANGED <<now, jar, ideal, setter, unread>> /\ browser' = Absent
        /\ gap' = IF gap = "browser" THEN "http" ELSE gap
    BY <1>7 DEF Demote
  <2>2. ~Running'
    BY <2>1 DEF Running
  <2> QED
    BY <1>2, <1>4, <2>1, <2>2 DEF Readable
<1>8. ASSUME NEW s \in Settings, HttpFetch(s)
      PROVE  /\ gap' = "none" => Readable(LiveOf(Range(jar)))' = Readable(Held(ideal))'
             /\ gap' # "http" /\ Running' => Readable(Held(browser))' = Readable(Held(ideal))'
             /\ gap' = "browser" => Running'
  <2>1. /\ SetBy(s) /\ now' = now /\ browser' = browser
        /\ jar' = AbsorbCookies(jar, Header(s), s.url.host, s.url.path, now)
        /\ ideal' = RfcReceive(ideal, Header(s), s.url, 0)
        /\ unread' = UnreadAfter(Header(s), s.url, 0, TRUE)
        /\ gap' = IF Running \/ s.url.host.dot THEN "http" ELSE gap
    BY <1>8 DEF HttpFetch
  <2>2. Running' <=> Running
    BY <2>1 DEF Running
  <2>3. s.url.host.dot \in BOOLEAN
    BY SettingUrl DEF Hosts
  <2>4. ASSUME gap' = "none"
        PROVE  \A x : Key(x) \notin unread' => (x \in LiveOf(Range(jar')) <=> x \in Held(ideal'))
    <3>1. s.url.host.dot = FALSE /\ gap = "none"
      BY <2>1, <2>3, <2>4
    <3>2. Readable(LiveOf(Range(jar))) = Readable(Held(ideal))
      BY <1>2, <3>1
    <3>3. PICK cs, U : cs = jar' /\ U = unread'
      OBVIOUS
    <3> QED
      BY <1>1, <2>1, <3>1, <3>2, <3>3, AbsorbedAlike
  <2> QED
    BY <1>2, <1>4, <2>1, <2>2, <2>4
<1>9. ASSUME NEW s \in Settings, NEW half \in Fractions, Clear(s, half)
      PROVE  /\ gap' = "none" => Readable(LiveOf(Range(jar)))' = Readable(Held(ideal))'
             /\ gap' # "http" /\ Running' => Readable(Held(browser))' = Readable(Held(ideal))'
             /\ gap' = "browser" => Running'
  <2>1. /\ SetBy(s) /\ now' = now /\ Running /\ half \in {0, 1}
        /\ browser' = RfcReceive(browser, Header(s), s.url, half)
        /\ ideal' = RfcReceive(ideal, Header(s), s.url, half)
        /\ unread' = UnreadAfter(Header(s), s.url, half, FALSE)
        /\ jar' = SetCookies([i \in DOMAIN Unspent(browser') |-> CookieFromCdp(Unspent(browser')[i])], now)
        /\ gap' = IF gap = "browser" THEN "none" ELSE gap
    BY <1>9, FractionAssumption DEF Clear, Export
  <2>2. gap' # "http" =>
          \A x : Key(x) \notin unread' => (x \in Held(browser') <=> x \in Held(ideal'))
    <3>1. PICK U : U = unread'
      OBVIOUS
    <3>2. gap' # "http" => Readable(Held(browser)) = Readable(Held(ideal))
      BY <1>2, <2>1
    <3>3. browser \in Seq(Entries) /\ U = UnreadAfter(Header(s), s.url, half, FALSE)
      BY <1>2, <2>1, <3>1
    <3>4. PICK a, b : a = browser /\ b = ideal
      OBVIOUS
    <3>5. ASSUME gap' # "http"
          PROVE  \A x : Key(x) \notin U => (x \in Held(RfcReceive(a, Header(s), s.url, half))
                                             <=> x \in Held(RfcReceive(b, Header(s), s.url, half)))
      <4>1. a \in Seq(Entries) /\ b \in Seq(Entries) /\ Readable(Held(a)) = Readable(Held(b))
        BY <1>1, <3>2, <3>3, <3>4, <3>5
      <4>2. JarTypeOK /\ SetBy(s) /\ half \in {0, 1}
        BY <1>1, <2>1
      <4> QED
        BY <3>3, <4>1, <4>2, ReceiveAlike
    <3> QED
      BY <2>1, <3>1, <3>4, <3>5
  <2>3. browser' \in Seq(Entries)
    <3>1. PICK es : es = browser'
      OBVIOUS
    <3> QED
      BY <1>1, <1>2, <2>1, <3>1, ReceiveKeeps
  <2>4. LiveOf(Range(jar')) = Held(browser')
    <3>1. PICK es, cs : es = browser' /\ cs = jar'
      OBVIOUS
    <3> QED
      BY <1>1, <2>1, <2>3, <3>1, Exported
  <2> QED
    BY <1>2, <1>4, <2>1, <2>2, <2>4
<1>10. ASSUME NEW s \in Settings, NEW half \in Fractions, ClearFails(s, half)
      PROVE  /\ gap' = "none" => Readable(LiveOf(Range(jar)))' = Readable(Held(ideal))'
             /\ gap' # "http" /\ Running' => Readable(Held(browser))' = Readable(Held(ideal))'
             /\ gap' = "browser" => Running'
  <2>1. /\ SetBy(s) /\ now' = now /\ Running /\ half \in {0, 1}
        /\ browser' = RfcReceive(browser, Header(s), s.url, half)
        /\ ideal' = RfcReceive(ideal, Header(s), s.url, half)
        /\ unread' = UnreadAfter(Header(s), s.url, half, FALSE)
        /\ gap' = IF gap = "none" THEN "browser" ELSE gap
    BY <1>10, FractionAssumption DEF ClearFails
  <2>2. gap' # "http" =>
          \A x : Key(x) \notin unread' => (x \in Held(browser') <=> x \in Held(ideal'))
    <3>1. PICK U : U = unread'
      OBVIOUS
    <3>2. gap' # "http" => Readable(Held(browser)) = Readable(Held(ideal))
      BY <1>2, <2>1
    <3>3. browser \in Seq(Entries) /\ U = UnreadAfter(Header(s), s.url, half, FALSE)
      BY <1>2, <2>1, <3>1
    <3>4. PICK a, b : a = browser /\ b = ideal
      OBVIOUS
    <3>5. ASSUME gap' # "http"
          PROVE  \A x : Key(x) \notin U => (x \in Held(RfcReceive(a, Header(s), s.url, half))
                                             <=> x \in Held(RfcReceive(b, Header(s), s.url, half)))
      <4>1. a \in Seq(Entries) /\ b \in Seq(Entries) /\ Readable(Held(a)) = Readable(Held(b))
        BY <1>1, <3>2, <3>3, <3>4, <3>5
      <4>2. JarTypeOK /\ SetBy(s) /\ half \in {0, 1}
        BY <1>1, <2>1
      <4> QED
        BY <3>3, <4>1, <4>2, ReceiveAlike
    <3> QED
      BY <2>1, <3>1, <3>4, <3>5
  <2>3. Running'
    <3>1. PICK es : es = browser'
      OBVIOUS
    <3>2. browser' \in Seq(Entries)
      BY <1>1, <1>2, <2>1, <3>1, ReceiveKeeps
    <3> QED
      BY <3>2, NoBrowserAssumption DEF Running
  <2> QED
    BY <1>2, <1>4, <2>1, <2>2, <2>3
<1>11. CASE UNCHANGED jarVars
  BY <1>2, <1>4, <1>11 DEF jarVars, Running, Readable
<1> QED
  BY <1>5, <1>6, <1>7, <1>8, <1>9, <1>10, <1>11 DEF JarNext

(* Unless a leg was told what the other was not, both hold what one browser
   that had seen every Set-Cookie would hold, but for the cookies an answer over
   HTTP last set by Expires alone. *)
THEOREM BothLegsAgree == JarSpec => []LegsAgree
<1>1. JarInit => LegInv
  <2> SUFFICES ASSUME JarInit PROVE LegInv
    OBVIOUS
  <2>1. JarInv
    BY JarStarts
  <2>2. Range(jar) = {} /\ Range(ideal) = {} /\ ~Running /\ gap = "none"
    BY DEF JarInit, Range, Running
  <2> QED
    BY <2>1, <2>2 DEF LegInv, LegsAgree, LiveOf, Held, Readable
<1>2. LegInv /\ JarInv' /\ [JarNext]_jarVars => LegInv'
  BY LegStep
<1>3. LegInv => LegsAgree
  BY DEF LegInv
<1> QED
  BY <1>1, <1>2, <1>3, JarInvariance, PTL DEF JarSpec

----------------------------------------------------------------------------
(* The HTTP leg's matching is the RFC's, final slashes and dots apart. *)

LEMMA PrefixOfEmpty ==
    ASSUME NEW S, NEW p \in Seq(S), NEW q \in Seq(S)
    PROVE  SubSeq(p, 1, 0) = <<>> /\ IsPrefix(<<>>, q)
<1>1. SubSeq(p, 1, 0) = <<>> /\ SubSeq(q, 1, 0) = <<>>
  OBVIOUS
<1>2. Len(<<>>) = 0 /\ Len(q) \in Nat /\ SubSeq(<<>>, 1, 0) = <<>>
  OBVIOUS
<1> QED
  BY <1>1, <1>2 DEF IsPrefix

LEMMA PathsAgree ==
    ASSUME NEW p \in Paths, NEW q \in Paths, ~Slashed(p)
    PROVE  PathMatches(p, q) <=>
             \/ p = q
             \/ Last(p) = "" /\ Len(q) >= Len(p) /\ IsPrefix(Front(p), q)
             \/ Len(q) > Len(p) /\ IsPrefix(p, q)
<1> DEFINE n == Len(p)
           named == {i \in DOMAIN p : p[i] # ""}
<1>1. /\ p \in Seq(Segments) /\ q \in Seq(Segments) /\ n \in Nat /\ n > 0
      /\ Len(q) \in Nat /\ Len(q) > 0 /\ DOMAIN p = 1..n
  BY DEF Paths
<1>2. PathMatches(p, q) <=> IsPrefix(SubSeq(p, 1, Max({0} \cup named)), q)
  BY DEF PathMatches, TrimEnd
<1>a. \A i : i \in named <=> i \in 1..n /\ p[i] # ""
  BY <1>1, Zenon
<1>b. p[n] = "" => ~(n > 1)
  BY Zenon DEF Slashed, Last
<1>c. Len(p) = n
  OBVIOUS
<1> HIDE DEF n, named
<1>3. CASE p[n] = ""
  <2>1. n = 1
    <3>1. ~(n > 1)
      BY <1>3, <1>b, Zenon
    <3> QED
      BY <1>1, <3>1
  <2>2. {0} \cup named = {0}
    <3>1. \A i : i \notin named
      <4> SUFFICES ASSUME NEW i, i \in named PROVE FALSE
        OBVIOUS
      <4>1. i \in 1..1 /\ p[i] # ""
        BY <1>a, <2>1, Zenon
      <4>2. \A j \in 1..1 : j = 1
        OBVIOUS
      <4> QED
        BY <1>3, <2>1, <4>1, <4>2, Zenon
    <3> QED
      BY <3>1
  <2>3. Max({0}) = 0
    BY LastPlace
  <2>4. SubSeq(p, 1, Max({0} \cup named)) = <<>>
    BY <1>1, <2>2, <2>3, PrefixOfEmpty
  <2>5. PathMatches(p, q)
    BY <1>1, <1>2, <2>4, PrefixOfEmpty
  <2>6. Front(p) = <<>>
    BY <1>1, <1>c, <2>1, PrefixOfEmpty DEF Front
  <2>7. Last(p) = "" /\ Len(q) >= Len(p) /\ IsPrefix(Front(p), q)
    <3>1. Last(p) = ""
      BY <1>3, <1>c DEF Last
    <3>2. Len(q) >= Len(p)
      BY <1>1, <1>c, <2>1
    <3>3. IsPrefix(Front(p), q)
      BY <1>1, <2>6, PrefixOfEmpty
    <3> QED
      BY <3>1, <3>2, <3>3
  <2> QED
    BY <2>5, <2>7
<1>4. CASE p[n] # ""
  <2>1. n \in named /\ \A i \in named : i \in 1..n
    <3>1. n \in 1..n
      BY <1>1
    <3> QED
      BY <1>4, <1>a, <3>1, Zenon
  <2>2. {0} \cup named \in SUBSET (0..n) /\ {0} \cup named # {}
    BY <1>1, <2>1
  <2>3. Max({0} \cup named) \in {0} \cup named /\ \A y \in {0} \cup named : y <= Max({0} \cup named)
    BY <1>1, <2>2, LastPlace
  <2>4. Max({0} \cup named) = n
    <3>1. PICK m : m = Max({0} \cup named)
      OBVIOUS
    <3>2. m \in 0..n /\ n <= m
      BY <2>1, <2>2, <2>3, <3>1
    <3> QED
      BY <1>1, <3>1, <3>2
  <2>5. SubSeq(p, 1, n) = p
    BY <1>1, <1>c, SubSeqFull
  <2>6. PathMatches(p, q) <=> IsPrefix(p, q)
    BY <1>2, <2>4, <2>5
  <2>7. Last(p) # ""
    BY <1>4, <1>c DEF Last
  <2>8. IsPrefix(p, q) <=> n <= Len(q) /\ p = SubSeq(q, 1, n)
    BY <1>c, <2>5 DEF IsPrefix
  <2>9. n = Len(q) => SubSeq(q, 1, n) = q
    BY <1>1, SubSeqFull
  <2>10. IsPrefix(p, q) <=> p = q \/ (Len(q) > n /\ IsPrefix(p, q))
    <3>1. CASE Len(q) > n
      BY <1>1, <3>1
    <3>2. CASE Len(q) = n
      BY <1>1, <2>8, <2>9, <3>2
    <3>3. CASE Len(q) < n
      BY <1>1, <2>8, <3>3
    <3> QED
      BY <1>1, <3>1, <3>2, <3>3
  <2> QED
    BY <1>c, <2>6, <2>7, <2>10
<1> QED
  BY <1>3, <1>4

LEMMA SendsAlike ==
    ASSUME now \in Nat, NEW e \in Entries, NEW url \in Urls, url.host.dot = FALSE,
           ~Slashed(e.path), ~Over(e)
    PROVE  CookieApplies(Portable(e), url) <=> RfcSends(e, url)
<1>1. e.domain \in Domains /\ e.path \in Paths /\ url.path \in Paths
  BY UrlAssumption DEF Entries
<1>2. Portable(e).domain = e.domain /\ Portable(e).path = e.path /\ Portable(e).secure = e.secure
  BY DEF Portable
<1>3. DomainMatches(e.domain, url.host) <=>
        IF e.domain.sub THEN RfcDomainMatch(e.domain.labels, e.domain.dot, url.host)
        ELSE e.domain.labels = url.host.labels /\ e.domain.dot = url.host.dot
  BY <1>1 DEF DomainMatches, RfcDomainMatch, Domains
<1>4. PathMatches(e.path, url.path) <=>
        \/ e.path = url.path
        \/ Last(e.path) = "" /\ Len(url.path) >= Len(e.path) /\ IsPrefix(Front(e.path), url.path)
        \/ Len(url.path) > Len(e.path) /\ IsPrefix(e.path, url.path)
  BY <1>1, PathsAgree
<1>5. CookieApplies(Portable(e), url) <=>
        (e.secure => url.secure) /\ DomainMatches(e.domain, url.host) /\ PathMatches(e.path, url.path)
  BY <1>2 DEF CookieApplies
<1>6. RfcSends(e, url) <=>
        /\ e.secure => url.secure
        /\ IF e.domain.sub THEN RfcDomainMatch(e.domain.labels, e.domain.dot, url.host)
           ELSE e.domain.labels = url.host.labels /\ e.domain.dot = url.host.dot
        /\ \/ e.path = url.path
           \/ Last(e.path) = "" /\ Len(url.path) >= Len(e.path) /\ IsPrefix(Front(e.path), url.path)
           \/ Len(url.path) > Len(e.path) /\ IsPrefix(e.path, url.path)
  BY DEF RfcSends
<1> QED
  BY <1>3, <1>4, <1>5, <1>6

(* The HTTP leg sends what that browser would send, longer paths first. *)
THEOREM HttpSendsAlike == JarSpec => []SentAsTheBrowserWould
<1>1. JarInv /\ LegsAgree => SentAsTheBrowserWould
  <2> SUFFICES ASSUME JarInv, LegsAgree, NEW url \in Urls, NEW sent, sent = CookieHeader(jar, url, now)
      PROVE /\ \A i, j \in DOMAIN sent : i < j => PathLen(sent[i].path) >= PathLen(sent[j].path)
            /\ gap = "none" /\ ~url.host.dot =>
                {c.value : c \in Comparable(Range(sent))}
                  = {e.value : e \in {x \in Comparable(Range(ideal)) :
                                         RfcSends(x, url) /\ ~IsExpired(Portable(x), now)}}
    BY DEF SentAsTheBrowserWould
  <2>1. now \in Nat /\ jar \in Seq(Cookies) /\ ideal \in Seq(Entries)
    BY DEF JarInv, JarTypeOK
  <2>2. /\ Range(sent) = {c \in Range(jar) : ~IsExpired(c, now) /\ CookieApplies(c, url)}
        /\ \A i, j \in DOMAIN sent : i < j => PathLen(sent[i].path) >= PathLen(sent[j].path)
    BY <2>1, HeaderSends
  <2>3. SUFFICES ASSUME gap = "none", ~url.host.dot
        PROVE {c.value : c \in Comparable(Range(sent))}
                = {e.value : e \in {x \in Comparable(Range(ideal)) :
                                       RfcSends(x, url) /\ ~IsExpired(Portable(x), now)}}
    BY <2>2
  <2>4. url.host.dot = FALSE
    BY <2>3, UrlAssumption DEF Hosts
  <2>5. \A c : Key(c) \notin unread => (c \in LiveOf(Range(jar)) <=> c \in Held(ideal))
    BY <2>3 DEF LegsAgree, Readable
  <2>6. \A e \in Range(ideal) : e \in Entries
    BY <2>1 DEF Range
  <2>7. \A e \in Entries : /\ Portable(e).path = e.path /\ Portable(e).value = e.value
                           /\ Key(Portable(e)) = Key(e)
    BY DEF Portable, Key
  <2>8. \A S, c : c \in Comparable(S) <=> c \in S /\ Key(c) \notin unread /\ ~Slashed(c.path)
    BY DEF Comparable, Readable
  <2>9. ASSUME NEW c \in Comparable(Range(sent))
        PROVE  \E e \in Comparable(Range(ideal)) : /\ RfcSends(e, url) /\ ~IsExpired(Portable(e), now)
                                                   /\ c.value = e.value
    <3>1. /\ c \in LiveOf(Range(jar)) /\ CookieApplies(c, url)
          /\ Key(c) \notin unread /\ ~Slashed(c.path)
      BY <2>2, <2>8 DEF LiveOf
    <3>2. PICK e \in Range(ideal) : c = Portable(e) /\ ~IsExpired(Portable(e), now)
      BY <2>5, <3>1 DEF Held, LiveOf
    <3>3. e \in Entries /\ ~Over(e) /\ e \in Comparable(Range(ideal)) /\ ~Slashed(e.path)
      BY <2>1, <2>6, <2>7, <2>8, <3>1, <3>2, PortableFields
    <3>4. RfcSends(e, url)
      BY <2>1, <2>4, <3>1, <3>2, <3>3, SendsAlike
    <3> QED
      BY <2>7, <3>2, <3>3, <3>4
  <2>10. ASSUME NEW e \in Comparable(Range(ideal)), RfcSends(e, url), ~IsExpired(Portable(e), now)
         PROVE  \E c \in Comparable(Range(sent)) : c.value = e.value
    <3>1. e \in Range(ideal) /\ e \in Entries /\ Key(e) \notin unread /\ ~Slashed(e.path)
      BY <2>6, <2>8
    <3>2. ~Over(e) /\ Portable(e) \in Held(ideal)
      BY <2>1, <2>10, <3>1, PortableFields DEF Held, LiveOf
    <3>3. CookieApplies(Portable(e), url)
      BY <2>1, <2>4, <2>10, <3>1, <3>2, SendsAlike
    <3>4. Portable(e) \in Range(sent)
      BY <2>2, <2>5, <2>7, <2>10, <3>1, <3>2, <3>3 DEF LiveOf
    <3> QED
      BY <2>7, <2>8, <3>1, <3>4
  <2> QED
    BY <2>9, <2>10
<1> QED
  BY <1>1, JarInvariance, BothLegsAgree, PTL

(* Types of clock, cookies and setters. *)
THEOREM JarTypeCorrect == JarSpec => []JarTypeOK
<1>1. JarInv => JarTypeOK
  BY DEF JarInv
<1> QED
  BY <1>1, JarInvariance, PTL

============================================================================
