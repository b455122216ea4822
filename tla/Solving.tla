------------------------------ MODULE Solving ------------------------------
(***************************************************************************)
(* Challenge solving on a shared scraper (scraper.rs, proxy_pool.rs, with  *)
(* Challenge for the pure decisions).  Tasks hold one &CloudScraper, each  *)
(* with a page of its own.  solve_challenge looks at the page, waits or    *)
(* rotates the egress proxy, and looks again until the page is clear or    *)
(* the budget is spent.                                                    *)
(*                                                                         *)
(* The scraper's identity is in three places behind three locks: the proxy *)
(* the pool has selected, the client the MITM proxy sends through, and the *)
(* locale pages are dressed in.  A rotation changes them one after the     *)
(* other, so what tasks interleave here are those separate updates.        *)
(*                                                                         *)
(* The site and the browser are external: what a page shows after a load   *)
(* is any of Bodies, and any CDP call may fail.                            *)
(***************************************************************************)
EXTENDS Naturals, Challenge

CONSTANTS
    Tasks,
    N,             \* endpoints in the pool, after blanks and duplicates went
    Strategy,      \* "RoundRobin" or "Random"
    Mitm,          \* use_tls_proxy
    Locales,       \* curated locales
    LocaleOf,      \* resolve_locale: each proxy's locale, or NoLocale
    NoLocale,      \* country unknown or not in the table
    MaxAttempts,   \* max_challenge_attempts
    Bodies,        \* bound: what pages the site shows
    MaxProfiles,   \* bound: profiles the scraper is rotated through
    None

Proxies == 1..N
Direct  == 0       \* no upstream, and no proxy selected

ASSUME PoolAssumption   == N \in Nat /\ Strategy \in {"RoundRobin", "Random"} /\ Mitm \in BOOLEAN
ASSUME LocaleAssumption == LocaleOf \in [Proxies -> Locales \cup {NoLocale}] /\ NoLocale \notin Locales
ASSUME BudgetAssumption == MaxAttempts \in Nat /\ MaxProfiles \in Nat \ {0}
ASSUME BodyAssumption   == Bodies \subseteq SUBSET Markers

(* A load: the egress its request left through and the locale it showed. *)
Load == [egress : Proxies \cup {Direct}, zone : Locales \cup {NoLocale}, body : Bodies]

(* A record: proxy is what the pool had selected, Direct when nothing was
   (the store then keeps the proxy of an earlier record), and about is the
   egress of the load the outcome was decided on. *)
Record == [outcome : {"Success", "Challenged", "Blocked", "RateLimited"},
           proxy : Proxies \cup {Direct}, about : Proxies \cup {Direct}]

ASSUME NoneAssumption == None \notin Load /\ None \notin Record

VARIABLES
    healthy,   \* the pool's endpoints not retired
    current,   \* the pool's selected endpoint, Direct when there is none
    egress,    \* upstream of the client the MITM proxy holds
    locale,    \* CloudScraper.locale
    profile,   \* how many profiles the scraper has had; 0 once a relaunch failed
    pc,        \* where each task is
    attempt,   \* solve_challenge's attempt
    saw,       \* solve_challenge's saw_challenge
    next,      \* rotate_proxy's next: the endpoint the task's rotation selected
    seen,      \* the locale the task cloned out of the lock
    zone,      \* the timezone and locale overrides on the task's page
    page,      \* the load the task's page shows
    result,    \* how the task's last solve ended
    record,    \* what it told the store: an outcome, a proxy, and the load it was about
    denied,    \* history: proxies a page answered access-denied through
    met,       \* history: some rotation met another task's page
    unfinished \* history: some rotation selected a proxy and stopped halfway

pool    == <<healthy, current>>
shared  == <<pool, egress, locale, profile>>
solve   == <<attempt, saw, next>>
dress   == <<seen, zone>>
verdict == <<result, record>>
history == <<met, unfinished>>
vars    == <<shared, pc, solve, dress, page, verdict, denied, history>>

Results  == {"solved", "challenge_error", "error", "store_error", None}
Rotating == {"client", "swap", "relocale"}
Solves   == {"detect", "waiting", "rotate", "snapshot", "apply", "reload"} \cup Rotating
Places   == {"closed", "dressing", "ready"} \cup Solves

CanRotate == Mitm /\ N >= 2

(* resolve_locale on what the pool has selected: no proxy, no locale. *)
LocaleFor(p) == IF p = Direct THEN NoLocale ELSE LocaleOf[p]

Init ==
    /\ healthy = Proxies
    /\ \/ N = 0 /\ current = Direct
       \/ N > 0 /\ Strategy = "RoundRobin" /\ current = 1
       \/ N > 0 /\ Strategy = "Random" /\ current \in Proxies
    /\ egress = current
    /\ locale = LocaleFor(current)
    /\ profile = 1
    /\ pc      = [t \in Tasks |-> "closed"]
    /\ attempt = [t \in Tasks |-> 0]
    /\ saw     = [t \in Tasks |-> FALSE]
    /\ next    = [t \in Tasks |-> Direct]
    /\ seen    = [t \in Tasks |-> NoLocale]
    /\ zone    = [t \in Tasks |-> NoLocale]
    /\ page    = [t \in Tasks |-> None]
    /\ result  = [t \in Tasks |-> None]
    /\ record  = [t \in Tasks |-> None]
    /\ denied = {} /\ met = FALSE /\ unfinished = FALSE

Go(t, to) == pc' = [pc EXCEPT ![t] = to]

-----------------------------------------------------------------------------
(* A page: new_stealth_page, navigation, close.                            *)

(* new_page, then the locale is cloned out of its lock. *)
OpenPage(t) ==
    /\ pc[t] = "closed" /\ profile # 0
    /\ seen' = [seen EXCEPT ![t] = locale]
    /\ Go(t, "dressing")
    /\ met' = (met \/ \E u \in Tasks : pc[u] \in Rotating)
    /\ UNCHANGED <<shared, solve, zone, page, verdict, denied, unfinished>>

(* apply_locale_overrides: zone stands for the timezone and the locale, which
   are left as they are when there is no locale to apply. *)
Dressed(t) == IF seen[t] = NoLocale THEN zone[t] ELSE seen[t]

ApplyLocaleOverrides(t) ==
    /\ zone' = [zone EXCEPT ![t] = Dressed(t)]
    /\ seen' = [seen EXCEPT ![t] = NoLocale]

DressPage(t) ==
    /\ pc[t] = "dressing"
    /\ ApplyLocaleOverrides(t)
    /\ Go(t, "ready")
    /\ UNCHANGED <<shared, solve, page, verdict, denied, history>>

(* What a page shows comes through the egress the MITM proxy holds when the
   request passes it. *)
Loads(t) ==
    \E body \in Bodies :
       /\ page' = [page EXCEPT ![t] = [egress |-> egress, zone |-> zone[t], body |-> body]]
       /\ denied' = IF Detect(FromBody(body)) = "AccessDenied" THEN denied \cup {egress} ELSE denied

Navigate(t) ==
    /\ pc[t] = "ready"
    /\ Loads(t)
    /\ UNCHANGED <<shared, pc, solve, dress, verdict, history>>

Undressed(t) ==
    /\ Go(t, "closed")
    /\ seen' = [seen EXCEPT ![t] = NoLocale]
    /\ zone' = [zone EXCEPT ![t] = NoLocale]
    /\ page' = [page EXCEPT ![t] = None]

(* new_stealth_page fails after new_page, or the caller closes the page. *)
ClosePage(t) ==
    /\ pc[t] \in {"dressing", "ready"}
    /\ Undressed(t)
    /\ result' = [result EXCEPT ![t] = None]
    /\ record' = [record EXCEPT ![t] = None]
    /\ UNCHANGED <<shared, solve, denied, history>>

-----------------------------------------------------------------------------
(* solve_challenge.                                                        *)

(* page_host, then the loop from the top. *)
Solve(t) ==
    /\ pc[t] = "ready" /\ page[t] # None
    /\ result' = [result EXCEPT ![t] = None]
    /\ record' = [record EXCEPT ![t] = None]
    /\ Go(t, "detect")
    /\ UNCHANGED <<shared, solve, dress, page, denied, history>>

(* The call returns and its locals go with it. *)
Ends(t, how) ==
    /\ Go(t, "ready")
    /\ result' = [result EXCEPT ![t] = how]
    /\ attempt' = [attempt EXCEPT ![t] = 0]
    /\ saw' = [saw EXCEPT ![t] = FALSE]
    /\ next' = [next EXCEPT ![t] = Direct]

(* record_for_host: what the pool has selected now goes to the store. *)
Stores(t, outcome) ==
    record' = [record EXCEPT ![t] = [outcome |-> outcome, proxy |-> current,
                                     about |-> page[t].egress]]

(* The page has no host or the scraper no store, or the store fails. *)
NotStored == UNCHANGED record

Action(t) == Decide(Detect(FromBody(page[t].body)), attempt[t], MaxAttempts, CanRotate)

Proceed(t) ==
    /\ pc[t] = "detect" /\ Action(t) = "Proceed"
    /\ \/ Stores(t, IF saw[t] THEN "Challenged" ELSE "Success") /\ Ends(t, "solved")
       \/ NotStored /\ Ends(t, "solved")
       \/ NotStored /\ Ends(t, "store_error")
    /\ UNCHANGED <<shared, dress, page, denied, history>>

Fail(t) ==
    /\ pc[t] = "detect" /\ Action(t) = "Fail"
    /\ \/ Stores(t, IF Detect(FromBody(page[t].body)) = "RateLimited"
                    THEN "RateLimited" ELSE "Blocked")
       \/ NotStored
    /\ Ends(t, "challenge_error")
    /\ UNCHANGED <<shared, dress, page, denied, history>>

(* Mutant: the loop goes round with the attempt it had. *)
Again_Forgets(t, to) ==
    /\ saw' = [saw EXCEPT ![t] = TRUE]
    /\ Go(t, to)
    /\ UNCHANGED attempt

(* The next attempt's number is taken with the decision: no other task
   reads it. *)
Again(t, to) ==
    /\ saw' = [saw EXCEPT ![t] = TRUE]
    /\ attempt' = [attempt EXCEPT ![t] = @ + 1]
    /\ Go(t, to)

Wait(t) ==
    /\ pc[t] = "detect" /\ Action(t) = "Wait"
    /\ Again(t, "waiting")
    /\ UNCHANGED <<shared, next, dress, page, verdict, denied, history>>

(* The click on the widget and the sleep are over; the browser may have
   resolved the challenge and loaded the page again on its own. *)
Wake(t) ==
    /\ pc[t] = "waiting"
    /\ Go(t, "detect")
    /\ Loads(t) \/ UNCHANGED <<page, denied>>
    /\ UNCHANGED <<shared, solve, dress, verdict, history>>

DecideToRotate(t) ==
    /\ pc[t] = "detect" /\ Action(t) = "RotateProxy"
    /\ Again(t, "rotate")
    /\ UNCHANGED <<shared, next, dress, page, verdict, denied, history>>

(* The page's content cannot be read: the error ends the solve, unrecorded. *)
DetectFails(t) ==
    /\ pc[t] = "detect"
    /\ Ends(t, "error")
    /\ UNCHANGED <<shared, dress, page, record, denied, history>>

-----------------------------------------------------------------------------
(* rotate_proxy and what solve_challenge does with the new egress.         *)

(* next_round_robin takes the first healthy endpoint in 1..n steps after the
   current one, next_random any healthy one. *)
StepsTo(i) == IF i > current THEN i - current ELSE i + N - current

(* Mutant: the search does not look at the health flag. *)
Candidates_Any(left) ==
    {i \in Proxies : \A j \in Proxies : StepsTo(i) <= StepsTo(j)}

Candidates(left) ==
    {i \in left : Strategy = "Random" \/ \A j \in left : StepsTo(i) <= StepsTo(j)}

Alone(t) == \A u \in Tasks \ {t} : pc[u] = "closed"

(* Mutant: the endpoint left behind stays healthy. *)
PoolRotates_Keeps(t) ==
    /\ pc[t] = "rotate"
    /\ current' \in Candidates(healthy \ {current})
    /\ next' = [next EXCEPT ![t] = current']
    /\ Go(t, "client")
    /\ met' = (met \/ ~Alone(t))
    /\ UNCHANGED <<healthy, egress, locale, profile, attempt, saw, dress, page, verdict, denied, unfinished>>

(* ProxyPool::rotate under the pool's lock: the selected endpoint is retired
   whichever task saw the denial, and through whichever proxy. *)
PoolRotates(t) ==
    /\ pc[t] = "rotate"
    /\ healthy' = healthy \ {current}
    /\ current' \in Candidates(healthy')
    /\ next' = [next EXCEPT ![t] = current']
    /\ Go(t, "client")
    /\ met' = (met \/ ~Alone(t))
    /\ UNCHANGED <<egress, locale, profile, attempt, saw, dress, page, verdict, denied, unfinished>>

(* Nobody is left: the block is final, and the record names no proxy. *)
PoolExhausted(t) ==
    /\ pc[t] = "rotate"
    /\ healthy' = healthy \ {current}
    /\ healthy' = {}
    /\ current' = Direct
    /\ \/ record' = [record EXCEPT ![t] = [outcome |-> "Blocked", proxy |-> Direct,
                                           about |-> page[t].egress]]
       \/ NotStored
    /\ Ends(t, "challenge_error")
    /\ met' = (met \/ ~Alone(t))
    /\ UNCHANGED <<egress, locale, profile, dress, page, denied, unfinished>>

(* build_impersonation_client refuses the endpoint's URL: the pool has moved,
   the MITM proxy has not. *)
ClientFails(t) ==
    /\ pc[t] = "client"
    /\ Stores(t, "Blocked") \/ NotStored
    /\ Ends(t, "error")
    /\ unfinished' = TRUE
    /\ UNCHANGED <<shared, dress, page, denied, met>>

BuildClient(t) ==
    /\ pc[t] = "client"
    /\ Go(t, "swap")
    /\ UNCHANGED <<shared, solve, dress, page, verdict, denied, history>>

(* set_upstream_client. *)
SwapClient(t) ==
    /\ pc[t] = "swap"
    /\ egress' = next[t]
    /\ Go(t, "relocale")
    /\ UNCHANGED <<pool, locale, profile, solve, dress, page, verdict, denied, history>>

(* Mutant: the locale of the first egress is kept. *)
Relocale_Skipped(t) ==
    /\ pc[t] = "relocale"
    /\ next' = [next EXCEPT ![t] = Direct]
    /\ Go(t, "snapshot")
    /\ UNCHANGED <<shared, attempt, saw, dress, page, verdict, denied, history>>

Relocale(t) ==
    /\ pc[t] = "relocale"
    /\ locale' = LocaleOf[next[t]]
    /\ next' = [next EXCEPT ![t] = Direct]
    /\ Go(t, "snapshot")
    /\ UNCHANGED <<pool, egress, profile, attempt, saw, dress, page, verdict, denied, history>>

SnapshotLocale(t) ==
    /\ pc[t] = "snapshot"
    /\ seen' = [seen EXCEPT ![t] = locale]
    /\ Go(t, "apply")
    /\ UNCHANGED <<shared, solve, zone, page, verdict, denied, history>>

ApplyOverrides(t) ==
    /\ pc[t] = "apply"
    /\ ApplyLocaleOverrides(t)
    /\ Go(t, "reload")
    /\ UNCHANGED <<shared, solve, page, verdict, denied, history>>

(* An override or the reload fails or times out, unrecorded: the egress has
   moved, the page has not, and its overrides may have. *)
RefreshFails(t) ==
    /\ \/ pc[t] = "apply" /\ zone' \in {zone, [zone EXCEPT ![t] = Dressed(t)]}
       \/ pc[t] = "reload" /\ UNCHANGED zone
    /\ seen' = [seen EXCEPT ![t] = NoLocale]
    /\ Ends(t, "error")
    /\ unfinished' = TRUE
    /\ UNCHANGED <<shared, page, record, denied, met>>

Reload(t) ==
    /\ pc[t] = "reload"
    /\ Loads(t)
    /\ Go(t, "detect")
    /\ UNCHANGED <<shared, solve, dress, verdict, history>>

-----------------------------------------------------------------------------
(* rotate_profile_with consumes the scraper: no task can be using it, and    *)
(* every page goes with the old browser.                                     *)

Consumed ==
    /\ profile # 0 /\ profile < MaxProfiles
    /\ \A t \in Tasks : pc[t] \notin Solves
    /\ pc'     = [t \in Tasks |-> "closed"]
    /\ seen'   = [t \in Tasks |-> NoLocale]
    /\ zone'   = [t \in Tasks |-> NoLocale]
    /\ page'   = [t \in Tasks |-> None]
    /\ result' = [t \in Tasks |-> None]
    /\ record' = [t \in Tasks |-> None]

(* Mutant: the client for the new profile is built without the upstream. *)
RotateProfile_Direct ==
    /\ Consumed
    /\ profile' = profile + 1
    /\ egress' = Direct
    /\ locale' = LocaleFor(current)
    /\ UNCHANGED <<pool, solve, denied, history>>

RotateProfile ==
    /\ Consumed
    /\ profile' = profile + 1
    /\ egress' = current
    /\ locale' = LocaleFor(current)
    /\ UNCHANGED <<pool, solve, denied, history>>

(* The client cannot be built or the browser does not come up again. *)
RelaunchFails ==
    /\ Consumed
    /\ profile' = 0
    /\ UNCHANGED <<pool, egress, locale, solve, denied, history>>

Gone == profile = 0 /\ UNCHANGED vars

SolveStep(t) ==
    \/ Proceed(t) \/ Fail(t) \/ Wait(t) \/ Wake(t) \/ DecideToRotate(t) \/ DetectFails(t)
    \/ PoolRotates(t) \/ PoolExhausted(t) \/ ClientFails(t) \/ BuildClient(t)
    \/ SwapClient(t) \/ Relocale(t) \/ SnapshotLocale(t) \/ ApplyOverrides(t)
    \/ RefreshFails(t) \/ Reload(t)

PageStep(t) == OpenPage(t) \/ DressPage(t) \/ Navigate(t) \/ ClosePage(t) \/ Solve(t)

Next == \/ \E t \in Tasks : SolveStep(t) \/ PageStep(t)
        \/ RotateProfile \/ RelaunchFails \/ Gone

(* A task inside solve_challenge keeps running: each of its awaits is a
   sleep, a CDP call with a timeout or a wait for a load with a timeout. *)
Spec == Init /\ [][Next]_vars /\ \A t \in Tasks : WF_vars(SolveStep(t))

-----------------------------------------------------------------------------
TypeOK ==
    /\ healthy \subseteq Proxies /\ current \in Proxies \cup {Direct}
    /\ egress \in Proxies \cup {Direct}
    /\ locale \in Locales \cup {NoLocale}
    /\ profile \in 0..MaxProfiles
    /\ pc \in [Tasks -> Places]
    /\ attempt \in [Tasks -> 0..MaxAttempts]
    /\ saw \in [Tasks -> BOOLEAN]
    /\ next \in [Tasks -> Proxies \cup {Direct}]
    /\ seen \in [Tasks -> Locales \cup {NoLocale}]
    /\ zone \in [Tasks -> Locales \cup {NoLocale}]
    /\ page \in [Tasks -> Load \cup {None}]
    /\ result \in [Tasks -> Results]
    /\ record \in [Tasks -> Record \cup {None}]
    /\ denied \subseteq Proxies \cup {Direct}
    /\ met \in BOOLEAN /\ unfinished \in BOOLEAN

(* Nothing but the pool rotating to its end has touched the identity. *)
Undisturbed == ~met /\ ~unfinished
NoneRotating == \A t \in Tasks : pc[t] \notin Rotating

(* ProxyPool::rotate and selected: the selected endpoint is one that was
   never retired, and nothing is selected only when none is left. *)
SelectedIsHealthy == current \in healthy \/ (current = Direct /\ healthy = {})

(* rotate_proxy: once its three updates are through, the client sends through
   the proxy the pool names and pages are dressed for that proxy; after the
   pool ran dry, still for the proxy the client kept. *)
IdentityAgrees ==
    Undisturbed /\ NoneRotating =>
        /\ current # Direct => egress = current
        /\ locale = LocaleFor(egress)

(* solve_challenge re-dresses the page before it reloads it: the locale a
   request shows is the one of the egress it leaves through, whenever that
   egress has a locale. *)
LoadsTellTheirEgress ==
    Undisturbed => \A t \in Tasks :
        page[t] # None => LocaleFor(page[t].egress) \in {NoLocale, page[t].zone}

(* decide and rotate: a proxy is retired only after a page was denied access
   through it. *)
RetiredWereDenied == Undisturbed => Proxies \ healthy \subseteq denied

(* record_outcome: the proxy stored with an outcome is the one the page that
   decided it was loaded through. *)
RecordNamesEgress ==
    Undisturbed => \A t \in Tasks :
        record[t] # None /\ record[t].proxy # Direct => record[t].proxy = record[t].about

(* ProxyPool and record_outcome: what is selected is healthy, what was retired
   was denied, and what was recorded is what was used. *)
PoolTellsTheTruth == SelectedIsHealthy /\ RetiredWereDenied /\ RecordNamesEgress

(* rotate_proxy and solve_challenge: pool, client, locale and the page on show
   are those of one egress. *)
OneEgressIsTold == IdentityAgrees /\ LoadsTellTheirEgress

(* rotate: the client never moves to a proxy a page was denied through. *)
NeverBackToDenied == [][egress' # egress /\ Undisturbed' => egress' \notin denied]_vars

(* rotate_profile_with: a new profile leaves through the same egress while
   the pool has one selected. *)
ProfileKeepsEgress ==
    [][profile' > profile /\ Undisturbed /\ current # Direct => egress' = egress]_vars

(* solve_challenge ends: the budget bounds its loop. *)
EverySolveReturns == \A t \in Tasks : pc[t] \in Solves ~> pc[t] \notin Solves

-----------------------------------------------------------------------------
(* The inductive invariant.                                                *)

Denies(t) == Detect(FromBody(page[t].body)) = "AccessDenied"

(* What holds whatever the tasks do to each other. *)
Bookkeeping ==
    \A t \in Tasks :
       /\ pc[t] \in Solves => page[t] # None
       /\ pc[t] \in {"closed", "dressing"} => page[t] = None
       /\ pc[t] = "rotate" => Denies(t)
       /\ pc[t] \in Rotating => next[t] \in Proxies
       /\ page[t] # None /\ Denies(t) => page[t].egress \in denied

Halfway   == {"client", "swap"}
Settled   == {"ready", "detect", "waiting", "rotate"}
Redressed == Settled \cup {"reload"}

(* The rotation under way is the only open page's, the pool is ahead of the
   client by at most that rotation, and the client ahead of the locale. *)
OneRotation(t) ==
    pc[t] \in Rotating =>
       /\ Alone(t)
       /\ current = next[t]
       /\ pc[t] \in Halfway => locale = LocaleFor(egress) /\ egress \in Proxies \ healthy
       /\ pc[t] = "relocale" => egress = current

(* What the task's page is dressed in, or will be, suits the egress; and the
   page shows what came through it. *)
PageSuits(t) ==
    /\ pc[t] \in {"dressing", "apply"} => seen[t] = LocaleFor(egress)
    /\ pc[t] \in Redressed => LocaleFor(egress) \in {NoLocale, zone[t]}
    /\ pc[t] \in Settled /\ page[t] # None => page[t].egress = egress

(* A denial is either of the egress in use or the reason it was left. *)
DeniedAreKnown == \A p \in denied : p = egress \/ p \in Proxies \ healthy

Coherence ==
    /\ \A t \in Tasks : OneRotation(t) /\ PageSuits(t)
    /\ DeniedAreKnown
    /\ NoneRotating => (current # Direct => egress = current) /\ locale = LocaleFor(egress)
    /\ \A t \in Tasks : page[t] # None => LocaleFor(page[t].egress) \in {NoLocale, page[t].zone}
    /\ Proxies \ healthy \subseteq denied
    /\ \A t \in Tasks : record[t] # None /\ record[t].proxy # Direct
                           => record[t].proxy = record[t].about

IInv == TypeOK /\ SelectedIsHealthy /\ Bookkeeping /\ (Undisturbed => Coherence)

-----------------------------------------------------------------------------
(* What comments in the code say and the code does not do.                 *)

(* scraper.rs on rotate_profile_with: "keeping the same egress IP". *)
ProfileRotationKeepsEgress ==
    [][profile' > profile /\ Undisturbed => egress' = egress]_vars
=============================================================================
