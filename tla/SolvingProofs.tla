--------------------------- MODULE SolvingProofs ---------------------------
(***************************************************************************)
(* Proofs about Solving for any number of tasks and endpoints, any budget  *)
(* and either strategy.  The argument is IInv of Solving: as long as no    *)
(* rotation met another page and none stopped halfway, the pool, the       *)
(* client and the locale are one rotation apart at most, and the task      *)
(* carrying that rotation is the only one with a page.                     *)
(***************************************************************************)
EXTENDS Solving, TLAPS

ConstantAssumptions ==
    /\ N \in Nat /\ Strategy \in {"RoundRobin", "Random"} /\ Mitm \in BOOLEAN
    /\ LocaleOf \in [Proxies -> Locales \cup {NoLocale}] /\ NoLocale \notin Locales
    /\ MaxAttempts \in Nat /\ MaxProfiles \in Nat \ {0}
    /\ Bodies \subseteq SUBSET Markers
    /\ None \notin Load /\ None \notin Record

LEMMA Assumed == ConstantAssumptions
BY PoolAssumption, LocaleAssumption, BudgetAssumption, BodyAssumption, NoneAssumption
   DEF ConstantAssumptions

(* decide asks for another round only while the budget lasts, and for a
   rotation only on a hard block. *)
LEMMA DecideSpends ==
    ASSUME NEW kind, NEW a \in Nat, NEW max \in Nat, NEW can
    PROVE  /\ Decide(kind, a, max, can) = "Wait" => a < max
           /\ Decide(kind, a, max, can) = "RotateProxy" => a < max /\ kind = "AccessDenied"
BY DEF Decide

LEMMA DirectIsNoProxy == Direct \notin Proxies
BY DEF Direct, Proxies

LEMMA LocaleForType ==
    ASSUME NEW p \in Proxies \cup {Direct}
    PROVE  LocaleFor(p) \in Locales \cup {NoLocale}
BY Assumed DEF LocaleFor, ConstantAssumptions

-----------------------------------------------------------------------------
(* Types.                                                                  *)

LEMMA InitTypes == Init => TypeOK
<1> SUFFICES ASSUME Init PROVE TypeOK
  OBVIOUS
<1>1. current \in Proxies \cup {Direct}
  BY Assumed DEF Init, ConstantAssumptions, Proxies
<1>2. locale \in Locales \cup {NoLocale}
  BY <1>1, LocaleForType DEF Init
<1>3. profile \in 0..MaxProfiles /\ 0 \in 0..MaxAttempts
  BY Assumed DEF Init, ConstantAssumptions
<1> QED
  BY <1>1, <1>2, <1>3 DEF Init, TypeOK, Places, Results

(* A load is made of what the client and the page hold. *)
LEMMA LoadTypes ==
    ASSUME TypeOK, NEW t \in Tasks, Loads(t)
    PROVE  page' \in [Tasks -> Load \cup {None}] /\ denied' \subseteq Proxies \cup {Direct}
BY DEF TypeOK, Loads, Load

(* So is a record of what the pool and the page hold. *)
LEMMA StoreTypes ==
    ASSUME TypeOK, NEW t \in Tasks, page[t] # None,
           NEW o \in {"Success", "Challenged", "Blocked", "RateLimited"}, Stores(t, o)
    PROVE  record' \in [Tasks -> Record \cup {None}]
BY DEF TypeOK, Stores, Load, Record

LEMMA EndTypes ==
    ASSUME TypeOK, NEW t \in Tasks, NEW how \in Results, Ends(t, how)
    PROVE  /\ pc' \in [Tasks -> Places] /\ result' \in [Tasks -> Results]
           /\ attempt' \in [Tasks -> 0..MaxAttempts] /\ saw' \in [Tasks -> BOOLEAN]
           /\ next' \in [Tasks -> Proxies \cup {Direct}]
BY Assumed DEF TypeOK, Ends, Go, Places, ConstantAssumptions

LEMMA NextTypes == TypeOK /\ Bookkeeping /\ [Next]_vars => TypeOK'
<1> SUFFICES ASSUME TypeOK, Bookkeeping, [Next]_vars PROVE TypeOK'
  OBVIOUS
<1> USE DEF shared, pool, solve, dress, verdict, history
<1>0. CASE UNCHANGED vars
  BY <1>0 DEF TypeOK, vars
<1>1. ASSUME NEW t \in Tasks, SolveStep(t) PROVE TypeOK'
  <2>0. \A to \in Places : Go(t, to) => pc' \in [Tasks -> Places]
    BY DEF TypeOK, Go
  <2> USE DEF Places, Solves, Rotating, Results
  <2>1. CASE Proceed(t)
    <3>1. page[t] # None
      BY <2>1 DEF Proceed, Bookkeeping
    <3> QED
      BY <2>1, <3>1, StoreTypes, EndTypes DEF Proceed, NotStored, TypeOK
  <2>2. CASE Fail(t)
    <3>1. page[t] # None
      BY <2>2 DEF Fail, Bookkeeping
    <3> QED
      BY <2>2, <3>1, StoreTypes, EndTypes DEF Fail, NotStored, TypeOK
  <2>3. ASSUME Wait(t) \/ DecideToRotate(t) PROVE TypeOK'
    <3>1. attempt[t] \in 0..MaxAttempts /\ attempt[t] < MaxAttempts /\ MaxAttempts \in Nat
      BY <2>3, DecideSpends, Assumed DEF Wait, DecideToRotate, Action, TypeOK, ConstantAssumptions
    <3>2. attempt[t] + 1 \in 0..MaxAttempts
      BY <3>1
    <3>3. CASE Wait(t)
      BY <3>3, <3>2, <2>0 DEF Wait, Again, TypeOK
    <3>4. CASE DecideToRotate(t)
      BY <3>4, <3>2, <2>0 DEF DecideToRotate, Again, TypeOK
    <3> QED
      BY <2>3, <3>3, <3>4
  <2>4. CASE Wake(t)
    <3>1. page' \in [Tasks -> Load \cup {None}] /\ denied' \subseteq Proxies \cup {Direct}
      BY <2>4, LoadTypes DEF Wake, TypeOK
    <3> QED
      BY <2>4, <2>0, <3>1 DEF Wake, TypeOK
  <2>5. CASE DetectFails(t)
    BY <2>5, EndTypes DEF DetectFails, TypeOK
  <2>6. CASE PoolRotates(t)
    BY <2>6, <2>0 DEF PoolRotates, Candidates, TypeOK
  <2>7. CASE PoolExhausted(t)
    <3>1. page[t] # None
      BY <2>7 DEF PoolExhausted, Bookkeeping
    <3>2. record' \in [Tasks -> Record \cup {None}]
      BY <2>7, <3>1 DEF PoolExhausted, NotStored, TypeOK, Load, Record
    <3> QED
      BY <2>7, <3>2, EndTypes DEF PoolExhausted, TypeOK
  <2>8. CASE ClientFails(t)
    <3>1. page[t] # None
      BY <2>8 DEF ClientFails, Bookkeeping
    <3> QED
      BY <2>8, <3>1, StoreTypes, EndTypes DEF ClientFails, NotStored, TypeOK
  <2>9. CASE BuildClient(t)
    BY <2>9, <2>0 DEF BuildClient, TypeOK
  <2>10. CASE SwapClient(t)
    BY <2>10, <2>0 DEF SwapClient, TypeOK
  <2>11. CASE Relocale(t)
    <3>1. next[t] \in Proxies
      BY <2>11 DEF Relocale, Bookkeeping
    <3>2. LocaleOf[next[t]] \in Locales \cup {NoLocale}
      BY <3>1, Assumed DEF ConstantAssumptions
    <3> QED
      BY <2>11, <2>0, <3>2 DEF Relocale, TypeOK
  <2>12. CASE SnapshotLocale(t)
    BY <2>12, <2>0 DEF SnapshotLocale, TypeOK
  <2>13. CASE ApplyOverrides(t)
    BY <2>13, <2>0 DEF ApplyOverrides, ApplyLocaleOverrides, Dressed, TypeOK
  <2>14. CASE RefreshFails(t)
    <3>1. zone' \in [Tasks -> Locales \cup {NoLocale}]
      BY <2>14 DEF RefreshFails, Dressed, TypeOK
    <3> QED
      BY <2>14, <3>1, EndTypes DEF RefreshFails, TypeOK
  <2>15. CASE Reload(t)
    BY <2>15, <2>0, LoadTypes DEF Reload, TypeOK
  <2> QED
    BY <1>1, <2>1, <2>2, <2>3, <2>4, <2>5, <2>6, <2>7, <2>8, <2>9, <2>10, <2>11, <2>12,
       <2>13, <2>14, <2>15 DEF SolveStep
<1>2. ASSUME NEW t \in Tasks, PageStep(t) PROVE TypeOK'
  <2>0. \A to \in Places : Go(t, to) => pc' \in [Tasks -> Places]
    BY DEF TypeOK, Go
  <2> USE DEF Places, Solves, Rotating, Results
  <2>1. CASE OpenPage(t)
    BY <2>1, <2>0 DEF OpenPage, TypeOK
  <2>2. CASE DressPage(t)
    BY <2>2, <2>0 DEF DressPage, ApplyLocaleOverrides, Dressed, TypeOK
  <2>3. CASE Navigate(t)
    BY <2>3, LoadTypes DEF Navigate, TypeOK
  <2>4. CASE ClosePage(t)
    BY <2>4, <2>0 DEF ClosePage, Undressed, TypeOK
  <2>5. CASE Solve(t)
    BY <2>5, <2>0 DEF Solve, TypeOK
  <2> QED
    BY <1>2, <2>1, <2>2, <2>3, <2>4, <2>5 DEF PageStep
<1>3. CASE RotateProfile
  <2>1. locale' \in Locales \cup {NoLocale}
    BY <1>3, LocaleForType DEF RotateProfile, TypeOK
  <2>2. profile' \in 0..MaxProfiles
    BY <1>3, Assumed DEF RotateProfile, Consumed, TypeOK, ConstantAssumptions
  <2> QED
    BY <1>3, <2>1, <2>2 DEF RotateProfile, Consumed, TypeOK, Places, Results
<1>4. CASE RelaunchFails
  BY <1>4, Assumed DEF RelaunchFails, Consumed, TypeOK, Places, Results, ConstantAssumptions
<1>5. CASE Gone
  BY <1>5 DEF Gone, TypeOK, vars
<1> QED
  BY <1>0, <1>1, <1>2, <1>3, <1>4, <1>5 DEF Next

-----------------------------------------------------------------------------
(* The pool.                                                               *)

LEMMA InitSelected == Init => SelectedIsHealthy
BY Assumed DEF Init, SelectedIsHealthy, Proxies, Direct, ConstantAssumptions

LEMMA NextSelected == SelectedIsHealthy /\ [Next]_vars => SelectedIsHealthy'
<1> SUFFICES ASSUME SelectedIsHealthy, [Next]_vars PROVE SelectedIsHealthy'
  OBVIOUS
<1> USE DEF shared, pool, solve, dress, verdict, history
<1>1. ASSUME NEW t \in Tasks, PoolRotates(t) PROVE SelectedIsHealthy'
  BY <1>1 DEF PoolRotates, Candidates, SelectedIsHealthy
<1>2. ASSUME NEW t \in Tasks, PoolExhausted(t) PROVE SelectedIsHealthy'
  BY <1>2 DEF PoolExhausted, SelectedIsHealthy
<1>3. ASSUME NEW t \in Tasks, SolveStep(t) \/ PageStep(t), ~PoolRotates(t), ~PoolExhausted(t)
      PROVE  UNCHANGED <<healthy, current>>
  BY <1>3 DEF SolveStep, PageStep, OpenPage, DressPage, Navigate, ClosePage, Solve, Proceed,
     Fail, Wait, Wake, DecideToRotate, DetectFails, ClientFails, BuildClient, SwapClient,
     Relocale, SnapshotLocale, ApplyOverrides, RefreshFails, Reload
<1>4. RotateProfile \/ RelaunchFails \/ Gone \/ UNCHANGED vars => UNCHANGED <<healthy, current>>
  BY DEF RotateProfile, RelaunchFails, Gone, vars
<1>5. UNCHANGED <<healthy, current>> => SelectedIsHealthy'
  BY DEF SelectedIsHealthy
<1> QED
  BY <1>1, <1>2, <1>3, <1>4, <1>5 DEF Next

-----------------------------------------------------------------------------
(* Bookkeeping.                                                            *)

LEMMA InitBookkeeping == Init => Bookkeeping
BY DEF Init, Bookkeeping, Solves, Rotating

(* After a load the page is there, and a denial it shows is known. *)
LEMMA LoadsAreKept ==
    ASSUME TypeOK, Bookkeeping, NEW t \in Tasks, Loads(t), NEW u \in Tasks
    PROVE  /\ u = t => page'[u] # None
           /\ u # t => page'[u] = page[u]
           /\ page'[u] # None /\ Denies(u)' => page'[u].egress \in denied'
<1>1. PICK body \in Bodies :
         /\ page' = [page EXCEPT ![t] = [egress |-> egress, zone |-> zone[t], body |-> body]]
         /\ denied' = IF Detect(FromBody(body)) = "AccessDenied" THEN denied \cup {egress} ELSE denied
  BY DEF Loads
<1>2. [egress |-> egress, zone |-> zone[t], body |-> body] \in Load
  BY DEF TypeOK, Load
<1>3. CASE u = t
  BY <1>1, <1>2, <1>3, Assumed DEF TypeOK, Denies, ConstantAssumptions
<1>4. CASE u # t
  BY <1>1, <1>4 DEF TypeOK, Bookkeeping, Denies
<1> QED
  BY <1>3, <1>4

LEMMA NextBookkeeping == TypeOK /\ Bookkeeping /\ [Next]_vars => Bookkeeping'
<1> SUFFICES ASSUME TypeOK, Bookkeeping, [Next]_vars, NEW u \in Tasks
             PROVE  /\ (pc[u] \in Solves => page[u] # None)'
                    /\ (pc[u] \in {"closed", "dressing"} => page[u] = None)'
                    /\ (pc[u] = "rotate" => Denies(u))'
                    /\ (pc[u] \in Rotating => next[u] \in Proxies)'
                    /\ (page[u] # None /\ Denies(u) => page[u].egress \in denied)'
  BY DEF Bookkeeping
<1> DEFINE Kept == page'[u] = page[u] /\ denied \subseteq denied'
<1> USE DEF shared, pool, solve, dress, verdict, history, Solves, Rotating
<1>a. Kept => (page[u] # None /\ Denies(u) => page[u].egress \in denied)'
  BY DEF Bookkeeping, Denies

<1>b. Kept /\ pc'[u] = pc[u] /\ next'[u] = next[u] =>
         /\ (pc[u] \in Solves => page[u] # None)'
         /\ (pc[u] \in {"closed", "dressing"} => page[u] = None)'
         /\ (pc[u] = "rotate" => Denies(u))'
         /\ (pc[u] \in Rotating => next[u] \in Proxies)'
  BY DEF Bookkeeping, Denies
<1>0. CASE UNCHANGED vars
  BY <1>0, <1>a, <1>b DEF vars
<1>1. ASSUME NEW t \in Tasks, Wake(t) \/ Reload(t) \/ Navigate(t), Loads(t)
      PROVE  /\ (pc[u] \in Solves => page[u] # None)'
             /\ (pc[u] \in {"closed", "dressing"} => page[u] = None)'
             /\ (pc[u] = "rotate" => Denies(u))'
             /\ (pc[u] \in Rotating => next[u] \in Proxies)'
             /\ (page[u] # None /\ Denies(u) => page[u].egress \in denied)'
  <2>1. u = t => page'[u] # None /\ pc'[u] \in {"ready", "detect"}
    BY <1>1, LoadsAreKept DEF Wake, Reload, Navigate, Go, TypeOK
  <2>2. u # t => page'[u] = page[u] /\ pc'[u] = pc[u]
    BY <1>1, LoadsAreKept DEF Wake, Reload, Navigate, Go, TypeOK
  <2>3. next' = next
    BY <1>1 DEF Wake, Reload, Navigate
  <2>4. (page[u] # None /\ Denies(u) => page[u].egress \in denied)'
    BY <1>1, LoadsAreKept
  <2> QED
    BY <2>1, <2>2, <2>3, <2>4 DEF Bookkeeping, Denies
<1>2. ASSUME NEW t \in Tasks, SolveStep(t), UNCHANGED <<page, denied>>
      PROVE  /\ Kept
             /\ (pc[u] \in Solves => page[u] # None)'
             /\ (pc[u] \in {"closed", "dressing"} => page[u] = None)'
             /\ (pc[u] = "rotate" => Denies(u))'
             /\ (pc[u] \in Rotating => next[u] \in Proxies)'
  <2>2. CASE u # t
    <3>1. pc'[u] = pc[u] /\ next'[u] = next[u]
      BY <1>2, <2>2 DEF TypeOK, Go, Ends, Again, SolveStep, Proceed, Fail, Wait, Wake,
         DecideToRotate, DetectFails, PoolRotates, PoolExhausted, ClientFails, BuildClient,
         SwapClient, Relocale, SnapshotLocale, ApplyOverrides, RefreshFails, Reload
    <3> QED
      BY <1>2, <3>1, <1>b
  <2>3. CASE u = t
    <3>1. pc[t] \in Solves
      BY <1>2 DEF SolveStep, Proceed, Fail, Wait, Wake, DecideToRotate, DetectFails, PoolRotates,
         PoolExhausted, ClientFails, BuildClient, SwapClient, Relocale, SnapshotLocale,
         ApplyOverrides, RefreshFails, Reload
    <3>2. pc'[t] \notin {"closed", "dressing"} /\ (pc'[t] = "rotate" => DecideToRotate(t))
      BY <1>2 DEF TypeOK, Go, Ends, Again, SolveStep, Proceed, Fail, Wait, Wake,
         DecideToRotate, DetectFails, PoolRotates, PoolExhausted, ClientFails, BuildClient,
         SwapClient, Relocale, SnapshotLocale, ApplyOverrides, RefreshFails, Reload
    <3>3. DecideToRotate(t) => Denies(t)
      BY DecideSpends, Assumed DEF DecideToRotate, Action, Denies, TypeOK, ConstantAssumptions
    <3>4. pc'[t] \in Rotating => next'[t] \in Proxies
      BY <1>2 DEF TypeOK, Bookkeeping, Go, Ends, Again, SolveStep, Proceed, Fail, Wait, Wake,
         DecideToRotate, DetectFails, PoolRotates, Candidates, PoolExhausted, ClientFails,
         BuildClient, SwapClient, Relocale, SnapshotLocale, ApplyOverrides, RefreshFails, Reload
    <3> QED
      BY <1>2, <2>3, <3>1, <3>2, <3>3, <3>4 DEF Bookkeeping, Denies
  <2> QED
    BY <1>2, <2>2, <2>3
<1>3. ASSUME NEW t \in Tasks, OpenPage(t) \/ DressPage(t) \/ Solve(t)
      PROVE  /\ Kept
             /\ (pc[u] \in Solves => page[u] # None)'
             /\ (pc[u] \in {"closed", "dressing"} => page[u] = None)'
             /\ (pc[u] = "rotate" => Denies(u))'
             /\ (pc[u] \in Rotating => next[u] \in Proxies)'
  BY <1>3 DEF TypeOK, Bookkeeping, Denies, Go, OpenPage, DressPage, Solve
<1>4. ASSUME NEW t \in Tasks, ClosePage(t)
      PROVE  /\ page'[u] # None => Kept
             /\ (pc[u] \in Solves => page[u] # None)'
             /\ (pc[u] \in {"closed", "dressing"} => page[u] = None)'
             /\ (pc[u] = "rotate" => Denies(u))'
             /\ (pc[u] \in Rotating => next[u] \in Proxies)'
  BY <1>4 DEF TypeOK, Bookkeeping, Denies, Go, ClosePage, Undressed
<1>5. RotateProfile \/ RelaunchFails => page'[u] = None /\ pc'[u] = "closed"
  BY DEF RotateProfile, RelaunchFails, Consumed
<1>6. Gone => UNCHANGED vars
  BY DEF Gone
<1>7. ASSUME NEW t \in Tasks, SolveStep(t)
      PROVE  UNCHANGED <<page, denied>> \/ ((Wake(t) \/ Reload(t)) /\ Loads(t))
  BY <1>7 DEF SolveStep, Proceed, Fail, Wait, Wake, DecideToRotate, DetectFails, PoolRotates,
     PoolExhausted, ClientFails, BuildClient, SwapClient, Relocale, SnapshotLocale,
     ApplyOverrides, RefreshFails, Reload
<1>8. ASSUME NEW t \in Tasks, SolveStep(t) \/ PageStep(t)
      PROVE  /\ (pc[u] \in Solves => page[u] # None)'
             /\ (pc[u] \in {"closed", "dressing"} => page[u] = None)'
             /\ (pc[u] = "rotate" => Denies(u))'
             /\ (pc[u] \in Rotating => next[u] \in Proxies)'
             /\ (page[u] # None /\ Denies(u) => page[u].egress \in denied)'
  <2>1. CASE SolveStep(t)
    BY <2>1, <1>1, <1>2, <1>7, <1>a
  <2>2. CASE PageStep(t)
    <3>1. CASE Navigate(t)
      BY <3>1, <1>1 DEF Navigate
    <3>2. CASE OpenPage(t) \/ DressPage(t) \/ Solve(t)
      BY <3>2, <1>3, <1>a
    <3>3. CASE ClosePage(t)
      BY <3>3, <1>4, <1>a
    <3> QED
      BY <2>2, <3>1, <3>2, <3>3 DEF PageStep
  <2> QED
    BY <1>8, <2>1, <2>2
<1> QED
  BY <1>0, <1>5, <1>6, <1>8 DEF Next

-----------------------------------------------------------------------------
(* Coherence.                                                              *)

LEMMA InitCoherent == Init => Coherence
BY DirectIsNoProxy DEF Init, Coherence, OneRotation, PageSuits, DeniedAreKnown, NoneRotating, Rotating, Settled,
   Redressed

LEMMA TaskStepCoherent ==
    ASSUME TypeOK, SelectedIsHealthy, Bookkeeping, Undisturbed, Coherence, Undisturbed',
           NEW t \in Tasks, SolveStep(t) \/ PageStep(t)
    PROVE  Coherence'
<1> USE DirectIsNoProxy, Assumed
    DEF shared, pool, solve, dress, verdict, history, Go, Rotating, Halfway, Settled, Redressed,
        Solves, Coherence, OneRotation, PageSuits, DeniedAreKnown, NoneRotating, Alone, TypeOK,
        Bookkeeping, Undisturbed, ConstantAssumptions, LocaleFor
<1>1. CASE Proceed(t)
  BY <1>1 DEF Proceed, Stores, NotStored, Ends
<1>2. CASE Fail(t)
  BY <1>2 DEF Fail, Stores, NotStored, Ends
<1>3. CASE Wait(t)
  BY <1>3 DEF Wait, Again
<1>4. CASE Wake(t)
  BY <1>4 DEF Wake, Loads
<1>5. CASE DecideToRotate(t)
  BY <1>5 DEF DecideToRotate, Again
<1>6. CASE DetectFails(t)
  BY <1>6 DEF DetectFails, Ends
<1>7. CASE PoolRotates(t)
  <2>1. healthy' = healthy \ {current} /\ current' \in healthy' /\ Alone(t) /\ pc[t] = "rotate"
    BY <1>7 DEF PoolRotates, Candidates
  <2>2. current \in healthy /\ current \in Proxies /\ current # Direct
    BY <2>1 DEF SelectedIsHealthy
  <2>3. NoneRotating
    BY <2>1
  <2>4. egress = current /\ locale = LocaleFor(egress) /\ egress \in denied
    BY <2>1, <2>2, <2>3
  <2>5. \A u \in Tasks : OneRotation(u)'
    BY <1>7, <2>1, <2>2, <2>4 DEF PoolRotates
  <2>6. DeniedAreKnown' /\ (Proxies \ healthy \subseteq denied)'
    BY <1>7, <2>1, <2>4 DEF PoolRotates
  <2> QED
    BY <1>7, <2>5, <2>6 DEF PoolRotates
<1>8. CASE PoolExhausted(t)
  BY <1>8 DEF PoolExhausted, NotStored, Ends, Alone
<1>9. CASE BuildClient(t)
  BY <1>9 DEF BuildClient
<1>10. CASE SwapClient(t)
  <2>1. pc[t] = "swap" /\ Alone(t) /\ current = next[t] /\ egress' = next[t]
        /\ egress \in Proxies \ healthy
    BY <1>10 DEF SwapClient
  <2>2. DeniedAreKnown'
    BY <1>10, <2>1 DEF SwapClient
  <2>3. \A u \in Tasks : OneRotation(u)' /\ PageSuits(u)'
    BY <1>10, <2>1 DEF SwapClient
  <2> QED
    BY <1>10, <2>1, <2>2, <2>3 DEF SwapClient
<1>11. CASE Relocale(t)
  BY <1>11 DEF Relocale
<1>12. CASE SnapshotLocale(t)
  BY <1>12 DEF SnapshotLocale
<1>13. CASE ApplyOverrides(t)
  BY <1>13 DEF ApplyOverrides, ApplyLocaleOverrides, Dressed
<1>14. CASE Reload(t)
  BY <1>14 DEF Reload, Loads
<1>15. CASE OpenPage(t)
  BY <1>15 DEF OpenPage
<1>16. CASE DressPage(t)
  BY <1>16 DEF DressPage, ApplyLocaleOverrides, Dressed
<1>17. CASE Navigate(t)
  BY <1>17 DEF Navigate, Loads
<1>18. CASE ClosePage(t)
  BY <1>18 DEF ClosePage, Undressed
<1>19. CASE Solve(t)
  BY <1>19 DEF Solve
<1>20. ASSUME ClientFails(t) \/ RefreshFails(t) PROVE FALSE
  BY <1>20 DEF ClientFails, RefreshFails
<1> QED
  BY <1>1, <1>2, <1>3, <1>4, <1>5, <1>6, <1>7, <1>8, <1>9, <1>10, <1>11, <1>12, <1>13, <1>14,
     <1>15, <1>16, <1>17, <1>18, <1>19, <1>20 DEF SolveStep, PageStep

(* Either relaunch leaves no page and no rotation; only a success moves the
   client, and then to what the pool has selected. *)
LEMMA RelaunchCoherent ==
    ASSUME TypeOK, SelectedIsHealthy, Undisturbed, Coherence, RotateProfile \/ RelaunchFails
    PROVE  Coherence'
<1>1. /\ NoneRotating /\ UNCHANGED <<healthy, current, denied>>
      /\ \A t \in Tasks : pc'[t] = "closed" /\ page'[t] = None /\ record'[t] = None
  BY DEF RotateProfile, RelaunchFails, Consumed, NoneRotating, Solves, pool
<1>2. (current # Direct => egress = current) /\ locale = LocaleFor(egress)
  BY <1>1 DEF Coherence
<1>3. \/ egress' = egress /\ locale' = locale
      \/ egress' = current /\ locale' = LocaleFor(current)
  BY DEF RotateProfile, RelaunchFails
<1>4. DeniedAreKnown'
  <2>1. egress' # egress => healthy = {} /\ egress \in Proxies
    BY <1>2, <1>3, DirectIsNoProxy DEF SelectedIsHealthy, TypeOK
  <2> QED
    BY <1>1, <2>1 DEF DeniedAreKnown, Coherence
<1>5. \A t \in Tasks : OneRotation(t)' /\ PageSuits(t)'
  BY <1>1 DEF OneRotation, PageSuits, Rotating, Settled, Redressed
<1> QED
  BY <1>1, <1>2, <1>3, <1>4, <1>5 DEF Coherence, LocaleFor

LEMMA NextCoherent ==
    /\ TypeOK /\ SelectedIsHealthy /\ Bookkeeping /\ (Undisturbed => Coherence) /\ [Next]_vars
    => (Undisturbed => Coherence)'
<1> SUFFICES ASSUME TypeOK, SelectedIsHealthy, Bookkeeping, Undisturbed => Coherence,
                    [Next]_vars, Undisturbed'
             PROVE  Coherence'
  OBVIOUS
<1> USE DEF shared, pool, solve, dress, verdict, history
<1>1. ASSUME NEW t \in Tasks, SolveStep(t) \/ PageStep(t) PROVE Coherence'
  <2>1. Undisturbed
    BY <1>1 DEF Undisturbed, TypeOK, SolveStep, PageStep, OpenPage, DressPage, Navigate, ClosePage,
       Solve, Proceed, Fail, Wait, Wake, DecideToRotate, DetectFails, PoolRotates, PoolExhausted,
       ClientFails, BuildClient, SwapClient, Relocale, SnapshotLocale, ApplyOverrides,
       RefreshFails, Reload
  <2> QED
    BY <1>1, <2>1, TaskStepCoherent
<1>2. CASE RotateProfile \/ RelaunchFails
  <2>1. Undisturbed
    BY <1>2 DEF Undisturbed, RotateProfile, RelaunchFails
  <2> QED
    BY <1>2, <2>1, RelaunchCoherent
<1>3. CASE Gone \/ UNCHANGED vars
  BY <1>3 DEF Gone, vars, Undisturbed, Coherence, OneRotation, PageSuits, DeniedAreKnown,
     NoneRotating, Alone
<1> QED
  BY <1>1, <1>2, <1>3 DEF Next

-----------------------------------------------------------------------------
(* IInv is an inductive invariant of the specification. *)
THEOREM Invariance == Spec => []IInv
<1>1. Init => IInv
  BY InitTypes, InitSelected, InitBookkeeping, InitCoherent DEF IInv
<1>2. IInv /\ [Next]_vars => IInv'
  BY NextTypes, NextSelected, NextBookkeeping, NextCoherent DEF IInv
<1> QED
  BY <1>1, <1>2, PTL DEF Spec

(* Every variable keeps to the type its field or local has; in particular no
   solve spends more attempts than the policy allows. *)
THEOREM TypeCorrect == Spec => []TypeOK
BY Invariance, PTL DEF IInv

(* ProxyPool: what is selected was never retired, and nothing is selected
   only when every endpoint was. *)
THEOREM PoolSelectsHealthy == Spec => []SelectedIsHealthy
BY Invariance, PTL DEF IInv

(* rotate_proxy: while rotations are neither raced nor cut short, the pool,
   the MITM client and the locale agree whenever none is under way. *)
THEOREM IdentityIsCoherent == Spec => []IdentityAgrees
<1>1. IInv => IdentityAgrees
  BY DEF IInv, Coherence, IdentityAgrees
<1> QED
  BY <1>1, Invariance, PTL

(* solve_challenge: no request leaves showing another country's locale than
   its egress's, if that has one. *)
THEOREM RequestsAreCoherent == Spec => []LoadsTellTheirEgress
<1>1. IInv => LoadsTellTheirEgress
  BY DEF IInv, Coherence, LoadsTellTheirEgress
<1> QED
  BY <1>1, Invariance, PTL

(* decide and rotate: only proxies a page was denied through are retired. *)
THEOREM OnlyDeniedAreRetired == Spec => []RetiredWereDenied
<1>1. IInv => RetiredWereDenied
  BY DEF IInv, Coherence, RetiredWereDenied
<1> QED
  BY <1>1, Invariance, PTL

(* record_outcome: the stored proxy is the one the outcome came through. *)
THEOREM RecordsAreTrue == Spec => []RecordNamesEgress
<1>1. IInv => RecordNamesEgress
  BY DEF IInv, Coherence, RecordNamesEgress
<1> QED
  BY <1>1, Invariance, PTL

(* rotate: the client is never moved to a proxy a page was denied through. *)
THEOREM DeniedAreLeftBehind == Spec => NeverBackToDenied
<1> DEFINE Step == egress' # egress /\ Undisturbed' => egress' \notin denied
<1>1. IInv /\ IInv' /\ [Next]_vars => [Step]_vars
  <2> SUFFICES ASSUME IInv, Next, egress' # egress, Undisturbed' PROVE egress' \notin denied
    BY DEF Undisturbed
  <2> USE DEF shared, pool, solve, dress, verdict, history
  <2>1. ASSUME NEW t \in Tasks, SolveStep(t) \/ PageStep(t) PROVE SwapClient(t)
    BY <2>1 DEF SolveStep, PageStep, OpenPage, DressPage, Navigate, ClosePage, Solve, Proceed,
       Fail, Wait, Wake, DecideToRotate, DetectFails, PoolRotates, PoolExhausted, ClientFails,
       BuildClient, Relocale, SnapshotLocale, ApplyOverrides, RefreshFails, Reload
  <2>2. ASSUME NEW t \in Tasks, SwapClient(t) PROVE egress' \notin denied
    <3>1. Coherence /\ pc[t] = "swap" /\ egress' = next[t]
      BY <2>2 DEF SwapClient, IInv, Undisturbed
    <3>2. current = next[t] /\ next[t] \in Proxies
      BY <3>1 DEF Coherence, OneRotation, Rotating, IInv, Bookkeeping
    <3>3. current \in healthy
      BY <3>2, DirectIsNoProxy DEF IInv, SelectedIsHealthy
    <3> QED
      BY <3>1, <3>2, <3>3 DEF Coherence, DeniedAreKnown
  <2>3. CASE RotateProfile
    <3>1. Coherence /\ NoneRotating /\ egress' = current
      BY <2>3 DEF RotateProfile, Consumed, NoneRotating, Solves, IInv, Undisturbed
    <3>2. current = Direct
      BY <3>1 DEF Coherence
    <3> QED
      BY <3>1, <3>2, DirectIsNoProxy DEF Coherence, DeniedAreKnown
  <2>4. ~RelaunchFails /\ ~Gone
    BY DEF RelaunchFails, Gone, vars
  <2> QED
    BY <2>1, <2>2, <2>3, <2>4 DEF Next
<1> QED
  BY <1>1, Invariance, PTL DEF Spec, NeverBackToDenied

(* rotate_profile_with: the new profile keeps the egress as long as the pool
   has a proxy selected. *)
THEOREM ProfileRotationIsLocal == Spec => ProfileKeepsEgress
<1> DEFINE Step == profile' > profile /\ Undisturbed /\ current # Direct => egress' = egress
<1>1. IInv /\ [Next]_vars => [Step]_vars
  <2> SUFFICES ASSUME IInv, Next, profile' > profile, Undisturbed, current # Direct
               PROVE  egress' = egress
    OBVIOUS
  <2> USE DEF shared, pool, solve, dress, verdict, history
  <2>0. profile \in Nat
    BY Assumed DEF IInv, TypeOK, ConstantAssumptions
  <2>1. ASSUME NEW t \in Tasks, SolveStep(t) \/ PageStep(t) PROVE profile' = profile
    BY <2>1 DEF SolveStep, PageStep, OpenPage, DressPage, Navigate, ClosePage, Solve, Proceed,
       Fail, Wait, Wake, DecideToRotate, DetectFails, PoolRotates, PoolExhausted, ClientFails,
       BuildClient, SwapClient, Relocale, SnapshotLocale, ApplyOverrides, RefreshFails, Reload
  <2>2. RotateProfile
    BY <2>0, <2>1 DEF Next, RelaunchFails, Gone, vars
  <2>3. Coherence /\ NoneRotating
    BY <2>2 DEF RotateProfile, Consumed, NoneRotating, Solves, IInv
  <2> QED
    BY <2>2, <2>3 DEF RotateProfile, Coherence
<1> QED
  BY <1>1, Invariance, PTL DEF Spec, ProfileKeepsEgress

-----------------------------------------------------------------------------
(* ProxyPool and record_outcome, for any pool, strategy and tasks: selected is
   healthy, retired was denied, recorded was used. *)
THEOREM PoolIsTrue == Spec => []PoolTellsTheTruth
BY PoolSelectsHealthy, OnlyDeniedAreRetired, RecordsAreTrue, PTL DEF PoolTellsTheTruth

(* rotate_proxy and solve_challenge, for any pool and tasks: pool, client,
   locale and page tell one egress. *)
THEOREM OneEgress == Spec => []OneEgressIsTold
BY IdentityIsCoherent, RequestsAreCoherent, PTL DEF OneEgressIsTold
=============================================================================
