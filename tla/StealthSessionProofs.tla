------------------------ MODULE StealthSessionProofs ------------------------
(***************************************************************************)
(* Proofs about StealthSession for any cookies, profiles and lifetimes,    *)
(* any server and any margin.  The argument is IInv of StealthSession.     *)
(***************************************************************************)
EXTENDS StealthSession, TLAPS

ConstantAssumptions ==
    /\ Clearance \in Names /\ Margin \in Nat /\ None \notin Nat
    /\ None \notin Cookie /\ None \notin Browser /\ None \notin Learned
    /\ Upstream \in Egresses /\ SavedJars \subseteq Jar
    /\ Lifetimes \subseteq Nat \cup {None}
    /\ MaxNow \in Nat /\ MaxIssue \in Nat /\ Values = 1..MaxIssue
    /\ None \notin Profiles

LEMMA Assumed == ConstantAssumptions
BY PolicyAssumption, NoCookieAssumption, SessionAssumption, NoBrowserAssumption
   DEF ConstantAssumptions

-----------------------------------------------------------------------------
(* The operators.                                                          *)

(* Over HTTP the policy never demotes, in the browser it never escalates. *)
LEMMA DecisionKinds ==
    ASSUME NEW j, NEW r, NEW c, NEW t
    PROVE  /\ DecideHttp(j, r, c, t) \in {"Stay", "Escalate"}
           /\ DecideBrowser(j, r, c, t) \in {"Stay", "Demote"}
BY DEF DecideHttp, DecideBrowser

(* A challenge always ends in the browser. *)
LEMMA ChallengeGoesToBrowser ==
    ASSUME NEW j, NEW r, NEW t
    PROVE  DecideHttp(j, r, TRUE, t) = "Escalate" /\ DecideBrowser(j, r, TRUE, t) = "Stay"
BY DEF DecideHttp, DecideBrowser

(* set_cookies keeps every cookie that has not expired as it is. *)
LEMMA LiveKeeps ==
    ASSUME NEW j \in Jar, NEW t \in Nat
    PROVE  /\ Live(j, t) \in Jar
           /\ \A n \in Names : ~IsExpired(j[n], t) => Live(j, t)[n] = j[n]
BY DEF Live, Jar

(* Time does not bring a cookie back. *)
LEMMA ExpiryIsFinal ==
    ASSUME NEW c \in Cookie, NEW t \in Nat, ~IsExpired(c, t + 1)
    PROVE  ~IsExpired(c, t)
BY Assumed DEF IsExpired, Cookie, ConstantAssumptions

(* A policy that lets a request go over HTTP on a clearance it requires has
   seen one that outlasts the margin. *)
LEMMA StayOutlasts ==
    ASSUME NEW j \in Jar, NEW t \in Nat,
           \/ DecideHttp(j, TRUE, FALSE, t) = "Stay"
           \/ DecideBrowser(j, TRUE, FALSE, t) = "Demote"
    PROVE  /\ j[Clearance] # None
           /\ j[Clearance].expires # None => j[Clearance].expires > t + Margin
<1>1. j[Clearance] # None /\ ~IsExpired(j[Clearance], t) /\ ~Expiring(j, t)
  BY DEF DecideHttp, DecideBrowser, HoldsClearance
<1>2. j[Clearance].expires \in Nat \cup {None}
  BY <1>1, Assumed DEF Jar, Cookie, ConstantAssumptions
<1> QED
  BY <1>1, <1>2, Assumed DEF Expiring, Remaining, IsExpired, ConstantAssumptions

LEMMA FreshType ==
    ASSUME TypeOK, NEW life \in Lifetimes, issued < MaxIssue
    PROVE  Fresh(life) \in Cookie
<1>1. issued + 1 \in Values
  BY Assumed DEF TypeOK, ConstantAssumptions
<1>2. Anchored(life) \in Nat \cup {None}
  BY Assumed DEF Anchored, TypeOK, ConstantAssumptions
<1> QED
  BY <1>1, <1>2 DEF Fresh, Cookie

LEMMA AbsorbType ==
    ASSUME TypeOK, NEW j \in Jar, NEW n \in Names, NEW life \in Lifetimes, issued < MaxIssue
    PROVE  /\ Absorb(j, n, life) \in Jar
           /\ Absorb(j, n, life)[n] = IF IsExpired(Fresh(life), now) THEN None ELSE Fresh(life)
           /\ \A m \in Names : m # n => Absorb(j, n, life)[m] = j[m]
BY FreshType DEF Absorb, Jar

LEMMA LaunchedType ==
    ASSUME TypeOK
    PROVE  Launched \in Browser /\ Launched # None /\ Launched.profile = profile
           /\ Launched.jar = Live(jar, now)
<1>1. now \in Nat
  BY Assumed DEF TypeOK, ConstantAssumptions
<1> QED
  BY <1>1, LiveKeeps, Assumed DEF TypeOK, Launched, Browser, ConstantAssumptions


-----------------------------------------------------------------------------
(* What a decision does, wherever fetch takes it.                          *)

LEMMA DecisionSteps ==
    ASSUME IInv, NEW c \in BOOLEAN, Decides(c)
    PROVE  \/ browser' = browser /\ launches' = launches /\ Transition(c) = "Stay"
           \/ browser' = Launched /\ launches' = launches + 1 /\ ~Running
           \/ browser' = None /\ launches' = launches /\ Running /\ Transition(c) = "Demote"
<1>1. CASE Running
  <2>1. Transition(c) \in {"Stay", "Demote"}
    BY <1>1, DecisionKinds DEF Transition
  <2> QED
    BY <1>1, <2>1 DEF Decides
<1>2. CASE ~Running
  <2>1. Transition(c) \in {"Stay", "Escalate"}
    BY <1>2, DecisionKinds DEF Transition
  <2> QED
    BY <1>2, <2>1 DEF Decides, Launch
<1> QED
  BY <1>1, <1>2

LEMMA CarriedByLaunch ==
    ASSUME IInv, browser' = Launched, UNCHANGED <<now, jar, learned>>
    PROVE  LearnedIsCarried'
<1> SUFFICES ASSUME NEW n \in Names, learned[n] # None, learned[n].alone,
                    ~IsExpired(learned[n].cookie, now)
             PROVE  jar[n] = learned[n].cookie /\ Launched.jar[n] = learned[n].cookie
  BY DEF LearnedIsCarried
<1>1. jar[n] = learned[n].cookie
  BY DEF IInv, LearnedIsCarried
<1>2. now \in Nat /\ jar \in Jar
  BY Assumed DEF IInv, TypeOK, ConstantAssumptions
<1>3. Live(jar, now)[n] = jar[n]
  BY <1>1, <1>2, LiveKeeps
<1> QED
  BY <1>1, <1>3, LaunchedType DEF IInv

LEMMA DecisionKeeps ==
    ASSUME IInv, NEW c \in BOOLEAN, Decides(c), UNCHANGED <<now, require, identity, http, learned>>
    PROVE  /\ browser' \in Browser \cup {None}
           /\ OneIdentity'
           /\ LearnedIsCarried'
           /\ decided' = now
           /\ launches' \in {launches, launches + 1}
           /\ Running => launches' = launches
<1>0. decided' = now
  BY DEF Decides
<1>1. CASE browser' = browser /\ launches' = launches
  BY <1>0, <1>1 DEF IInv, TypeOK, OneIdentity, LearnedIsCarried, Running, identity
<1>2. CASE browser' = Launched /\ launches' = launches + 1 /\ ~Running
  <2>1. LearnedIsCarried'
    BY <1>2, CarriedByLaunch DEF identity
  <2>2. OneIdentity'
    BY <1>2, LaunchedType DEF IInv, OneIdentity, Running, identity
  <2> QED
    BY <1>0, <1>2, <2>1, <2>2, LaunchedType DEF IInv
<1>3. CASE browser' = None /\ launches' = launches
  BY <1>0, <1>3 DEF IInv, OneIdentity, LearnedIsCarried, Running, identity
<1> QED
  BY <1>1, <1>2, <1>3, DecisionSteps

(* A decision after which the request goes without a browser. *)
LEMMA DecisionLasts ==
    ASSUME IInv, Decides(FALSE), require, browser' = None
    PROVE  /\ jar[Clearance] # None
           /\ jar[Clearance].expires # None => jar[Clearance].expires > now + Margin
<1>1. now \in Nat /\ jar \in Jar /\ require = TRUE
  BY Assumed DEF IInv, TypeOK, ConstantAssumptions
<1>2. \/ DecideHttp(jar, TRUE, FALSE, now) = "Stay"
      \/ DecideBrowser(jar, TRUE, FALSE, now) = "Demote"
  BY <1>1, DecisionSteps, LaunchedType DEF IInv, Transition, Running
<1> QED
  BY <1>1, <1>2, StayOutlasts


-----------------------------------------------------------------------------
(* The invariant.                                                          *)

LEMMA InitInv == Init => IInv
<1> SUFFICES ASSUME Init PROVE IInv
  OBVIOUS
<1>1. EmptyJar \in Jar
  BY DEF EmptyJar, Jar
<1>2. TypeOK
  BY <1>1, Assumed DEF Init, TypeOK, Stages, ConstantAssumptions
<1> QED
  BY <1>2, Assumed DEF Init, IInv, StageFacts, OneIdentity, ClearanceLasts,
                       LearnedIsCarried, Running, ConstantAssumptions

LEMMA TickInv == IInv /\ Tick => IInv'
<1> SUFFICES ASSUME IInv, Tick PROVE IInv'
  OBVIOUS
<1>1. now \in Nat /\ now' = now + 1 /\ now' \in 0..MaxNow
  BY Assumed DEF IInv, TypeOK, Tick, ConstantAssumptions
<1>2. TypeOK'
  BY <1>1 DEF IInv, TypeOK, Tick, identity, calls
<1>3. LearnedIsCarried'
  <2> SUFFICES ASSUME NEW n \in Names, learned[n] # None, learned[n].alone,
                      ~IsExpired(learned[n].cookie, now + 1)
               PROVE  /\ jar[n] = learned[n].cookie
                      /\ Running => browser.jar[n] = learned[n].cookie
    BY <1>1 DEF LearnedIsCarried, Tick, identity, Running
  <2>1. learned[n].cookie \in Cookie
    BY DEF IInv, TypeOK, Learned
  <2>2. ~IsExpired(learned[n].cookie, now)
    BY <1>1, <2>1, ExpiryIsFinal
  <2> QED
    BY <2>2 DEF IInv, LearnedIsCarried
<1> QED
  BY <1>2, <1>3 DEF IInv, StageFacts, OneIdentity, ClearanceLasts, Running, Tick,
                    identity, calls

LEMMA FetchInv == IInv /\ Fetch => IInv'
BY DEF IInv, TypeOK, Stages, StageFacts, OneIdentity, ClearanceLasts,
       LearnedIsCarried, Running, Fetch, identity

(* A return leaves the transports and the identity to the caller. *)
LEMMA ReturnFacts ==
    ASSUME IInv, Returns, now' = now
    PROVE  /\ stage' \in Stages /\ leg' \in {1, 2} /\ launches' \in 0..2 /\ requests' \in 0..1
           /\ decided' \in 0..now'
           /\ StageFacts' /\ ClearanceLasts'
<1>1. now \in Nat
  BY Assumed DEF IInv, TypeOK, ConstantAssumptions
<1> QED
  BY <1>1 DEF Returns, Stages, StageFacts, ClearanceLasts

LEMMA LaunchFailsInv == IInv /\ LaunchFails => IInv'
<1> SUFFICES ASSUME IInv, LaunchFails PROVE IInv'
  OBVIOUS
<1>1. Returns /\ UNCHANGED <<now, require, identity, browser, http, issued, learned>>
  BY DEF LaunchFails
<1> QED
  BY <1>1, ReturnFacts DEF IInv, TypeOK, OneIdentity, LearnedIsCarried, Running,
                           identity

LEMMA BeforeInv == IInv /\ Before => IInv'
<1> SUFFICES ASSUME IInv, Before PROVE IInv'
  OBVIOUS
<1>1. UNCHANGED <<now, require, identity, http, leg, requests, issued, learned>>
      /\ Decides(FALSE) /\ stage = "before" /\ launches = 0 /\ leg = 1
  BY DEF Before, IInv, StageFacts
<1>2. /\ browser' \in Browser \cup {None} /\ OneIdentity' /\ LearnedIsCarried'
      /\ decided' = now /\ launches' \in {0, 1}
  <2>1. /\ browser' \in Browser \cup {None} /\ OneIdentity' /\ LearnedIsCarried'
        /\ decided' = now /\ launches' \in {launches, launches + 1}
    BY <1>1, DecisionKeeps
  <2> QED
    BY <1>1, <2>1
<1>3. stage' = IF browser' # None THEN "clear" ELSE "request"
  BY DEF Before
<1>4. TypeOK'
  BY <1>1, <1>2, <1>3 DEF IInv, TypeOK, Stages, identity
<1>5. StageFacts'
  BY <1>1, <1>2, <1>3 DEF IInv, StageFacts, Running
<1>6. ClearanceLasts'
  BY <1>1, <1>2, <1>3, DecisionLasts DEF ClearanceLasts, Running, identity
<1> QED
  BY <1>1, <1>2, <1>4, <1>5, <1>6 DEF IInv, identity

LEMMA AfterInv == IInv /\ After => IInv'
<1> SUFFICES ASSUME IInv, After PROVE IInv'
  OBVIOUS
<1>1. UNCHANGED <<now, require, identity, http, leg, requests, issued, learned>>
      /\ Decides(FALSE) /\ stage = "after" /\ stage' = "request" /\ Running
  BY DEF After, IInv, StageFacts
<1>2. /\ browser' \in Browser \cup {None} /\ OneIdentity' /\ LearnedIsCarried'
      /\ decided' = now /\ launches' = launches
  BY <1>1, DecisionKeeps
<1>3. TypeOK'
  BY <1>1, <1>2 DEF IInv, TypeOK, Stages, identity
<1>4. StageFacts'
  BY <1>1, <1>2 DEF IInv, StageFacts, Running
<1>5. ClearanceLasts'
  BY <1>1, <1>2, DecisionLasts DEF ClearanceLasts, Running, identity
<1> QED
  BY <1>1, <1>2, <1>3, <1>4, <1>5 DEF IInv, identity

LEMMA ChallengedInv == IInv /\ Challenged => IInv'
<1> SUFFICES ASSUME IInv, Challenged PROVE IInv'
  OBVIOUS
<1>1. UNCHANGED <<now, require, identity, http, requests, issued, learned>>
      /\ Decides(TRUE) /\ stage = "challenged" /\ stage' = "clear" /\ leg' = 2
  BY DEF Challenged
<1>0. leg = 1 /\ launches \in 0..1 /\ requests = 1
  BY <1>1 DEF IInv, StageFacts, TypeOK
<1>2. /\ browser' \in Browser \cup {None} /\ OneIdentity' /\ LearnedIsCarried'
      /\ decided' = now /\ launches' \in 0..2
  <2>1. /\ browser' \in Browser \cup {None} /\ OneIdentity' /\ LearnedIsCarried'
        /\ decided' = now /\ launches' \in {launches, launches + 1}
    BY <1>1, DecisionKeeps
  <2> QED
    BY <1>0, <2>1
<1>3. browser' # None
  <2>1. CASE Running
    BY <1>1, <2>1, DecisionSteps, ChallengeGoesToBrowser DEF Transition, Running
  <2>2. CASE ~Running
    BY <1>1, <2>2, DecisionSteps, ChallengeGoesToBrowser, LaunchedType DEF IInv, Transition
  <2> QED
    BY <2>1, <2>2
<1>4. TypeOK'
  BY <1>0, <1>1, <1>2 DEF IInv, TypeOK, Stages, identity
<1>5. StageFacts' /\ ClearanceLasts'
  BY <1>0, <1>1, <1>2, <1>3 DEF StageFacts, ClearanceLasts, Running
<1> QED
  BY <1>1, <1>2, <1>4, <1>5 DEF IInv, identity


-----------------------------------------------------------------------------
(* The browser leg.                                                        *)

(* What the site sets in the browser takes over its name and no other. *)
LEMMA VisitCarries ==
    ASSUME IInv, Running, NEW j, BrowserVisits(j)
    PROVE  /\ j \in Jar /\ issued' \in 0..MaxIssue /\ learned' \in [Names -> Learned \cup {None}]
           /\ \A n \in Names :
                 learned'[n] # None /\ learned'[n].alone /\ ~IsExpired(learned'[n].cookie, now)
                     => j[n] = learned'[n].cookie /\ jar[n] = learned'[n].cookie
<1>1. browser.jar \in Jar /\ TypeOK
  BY DEF IInv, TypeOK, Running, Browser
<1>2. CASE j = browser.jar /\ UNCHANGED <<issued, learned>>
  BY <1>1, <1>2 DEF IInv, TypeOK, LearnedIsCarried
<1>3. CASE ~(j = browser.jar /\ UNCHANGED <<issued, learned>>)
  <2>1. PICK n \in Names, life \in Lifetimes :
            /\ issued < MaxIssue /\ issued' = issued + 1
            /\ j = Absorb(browser.jar, n, life)
            /\ learned' = [learned EXCEPT ![n] = None]
    BY <1>3 DEF BrowserVisits
  <2>2. j \in Jar /\ \A m \in Names : m # n => j[m] = browser.jar[m]
    BY <1>1, <2>1, AbsorbType
  <2>3. issued' \in 0..MaxIssue /\ learned' \in [Names -> Learned \cup {None}]
    BY <1>1, <2>1, Assumed DEF TypeOK, ConstantAssumptions
  <2>4. learned'[n] = None /\ \A m \in Names : m # n => learned'[m] = learned[m]
    BY <1>1, <2>1 DEF TypeOK
  <2> QED
    BY <2>2, <2>3, <2>4 DEF IInv, LearnedIsCarried
<1> QED
  BY <1>2, <1>3

LEMMA ClearInv == IInv /\ Clear => IInv'
<1> SUFFICES ASSUME IInv, Clear PROVE IInv'
  OBVIOUS
<1>1. UNCHANGED <<now, require, profile, egress, http, leg, launches, requests, decided>>
      /\ stage = "clear" /\ stage' = "after" /\ Running
  BY DEF Clear, IInv, StageFacts
<1>2. PICK j : BrowserVisits(j) /\ browser' = [browser EXCEPT !.jar = j] /\ Export(j)
  BY DEF Clear
<1>3. /\ j \in Jar /\ issued' \in 0..MaxIssue /\ learned' \in [Names -> Learned \cup {None}]
      /\ \A n \in Names :
            learned'[n] # None /\ learned'[n].alone /\ ~IsExpired(learned'[n].cookie, now)
                => j[n] = learned'[n].cookie
  BY <1>1, <1>2, VisitCarries
<1>4. now \in Nat /\ browser \in Browser
  BY <1>1, Assumed DEF IInv, TypeOK, Running, ConstantAssumptions
<1>5. /\ browser' \in Browser /\ browser' # None
      /\ browser'.profile = browser.profile /\ browser'.jar = j
  BY <1>2, <1>3, <1>4, Assumed DEF Browser, ConstantAssumptions
<1>6. jar' \in Jar /\ \A n \in Names : ~IsExpired(j[n], now) => jar'[n] = j[n]
  BY <1>2, <1>3, <1>4, LiveKeeps DEF Export
<1>7. TypeOK'
  BY <1>1, <1>3, <1>5, <1>6 DEF IInv, TypeOK, Stages
<1>8. LearnedIsCarried'
  BY <1>1, <1>3, <1>5, <1>6 DEF LearnedIsCarried
<1>9. OneIdentity'
  BY <1>1, <1>5 DEF IInv, OneIdentity, Running
<1>10. StageFacts' /\ ClearanceLasts'
  BY <1>1, <1>5 DEF IInv, StageFacts, ClearanceLasts, Running
<1> QED
  BY <1>7, <1>8, <1>9, <1>10 DEF IInv

LEMMA ClearFailsInv == IInv /\ ClearFails => IInv'
<1> SUFFICES ASSUME IInv, ClearFails PROVE IInv'
  OBVIOUS
<1>1. UNCHANGED <<now, require, identity, http>> /\ Returns /\ Running
  BY DEF ClearFails, IInv, StageFacts
<1>2. PICK j : BrowserVisits(j) /\ browser' = [browser EXCEPT !.jar = j]
  BY DEF ClearFails
<1>3. /\ j \in Jar /\ issued' \in 0..MaxIssue /\ learned' \in [Names -> Learned \cup {None}]
      /\ \A n \in Names :
            learned'[n] # None /\ learned'[n].alone /\ ~IsExpired(learned'[n].cookie, now)
                => j[n] = learned'[n].cookie /\ jar[n] = learned'[n].cookie
  BY <1>1, <1>2, VisitCarries
<1>4. browser \in Browser
  BY <1>1 DEF IInv, TypeOK, Running
<1>5. /\ browser' \in Browser /\ browser' # None
      /\ browser'.profile = browser.profile /\ browser'.jar = j
  BY <1>2, <1>3, <1>4, Assumed DEF Browser, ConstantAssumptions
<1>6. TypeOK' /\ StageFacts' /\ ClearanceLasts'
  BY <1>1, <1>3, <1>5, ReturnFacts DEF IInv, TypeOK, identity
<1>7. LearnedIsCarried'
  BY <1>1, <1>3, <1>5 DEF LearnedIsCarried, identity
<1>8. OneIdentity'
  BY <1>1, <1>5 DEF IInv, OneIdentity, Running, identity
<1> QED
  BY <1>6, <1>7, <1>8 DEF IInv

-----------------------------------------------------------------------------
(* The HTTP leg.                                                           *)

LEMMA ServerSetsKeeps ==
    ASSUME IInv, ServerSets, UNCHANGED <<now, browser>>
    PROVE  /\ jar' \in Jar /\ issued' \in 0..MaxIssue /\ learned' \in [Names -> Learned \cup {None}]
           /\ LearnedIsCarried'
<1>1. jar \in Jar /\ TypeOK
  BY DEF IInv, TypeOK
<1>2. CASE UNCHANGED <<jar, issued, learned>>
  BY <1>1, <1>2 DEF IInv, TypeOK, LearnedIsCarried, Running
<1>3. CASE ~UNCHANGED <<jar, issued, learned>>
  <2>1. PICK n \in Names, life \in Lifetimes :
            /\ issued < MaxIssue /\ issued' = issued + 1
            /\ jar' = Absorb(jar, n, life)
            /\ learned' = [learned EXCEPT ![n] =
                             IF IsExpired(Fresh(life), now) THEN None
                             ELSE [cookie |-> Fresh(life), alone |-> ~Running]]
    BY <1>3 DEF ServerSets
  <2>2. Fresh(life) \in Cookie
    BY <1>1, <2>1, FreshType
  <2>3. [cookie |-> Fresh(life), alone |-> ~Running] \in Learned
    BY <2>2 DEF Learned, Running
  <2>4. /\ jar' \in Jar
        /\ jar'[n] = IF IsExpired(Fresh(life), now) THEN None ELSE Fresh(life)
        /\ \A m \in Names : m # n => jar'[m] = jar[m]
    BY <1>1, <2>1, AbsorbType
  <2>5. issued' \in 0..MaxIssue /\ learned' \in [Names -> Learned \cup {None}]
    BY <1>1, <2>1, <2>3, Assumed DEF TypeOK, ConstantAssumptions
  <2>6. /\ learned'[n] = IF IsExpired(Fresh(life), now) THEN None
                         ELSE [cookie |-> Fresh(life), alone |-> ~Running]
        /\ \A m \in Names : m # n => learned'[m] = learned[m]
    BY <1>1, <2>1 DEF TypeOK
  <2>7. LearnedIsCarried'
    <3> SUFFICES ASSUME NEW m \in Names, learned'[m] # None, learned'[m].alone,
                        ~IsExpired(learned'[m].cookie, now)
                 PROVE  /\ jar'[m] = learned'[m].cookie
                        /\ Running => browser.jar[m] = learned'[m].cookie
      BY DEF LearnedIsCarried, Running
    <3>1. CASE m = n
      <4> DEFINE rec == [cookie |-> Fresh(life), alone |-> ~Running]
      <4>1. rec.cookie = Fresh(life) /\ (rec.alone <=> ~Running)
        BY Zenon
      <4> HIDE DEF rec
      <4>2. ~IsExpired(Fresh(life), now) /\ learned'[m] = rec
        BY <2>6, <3>1 DEF rec
      <4> QED
        BY <2>4, <3>1, <4>1, <4>2
    <3>2. CASE m # n
      BY <2>4, <2>6, <3>2 DEF IInv, LearnedIsCarried
    <3> QED
      BY <3>1, <3>2
  <2> QED
    BY <2>4, <2>5, <2>7
<1> QED
  BY <1>2, <1>3

LEMMA ClientType ==
    ASSUME IInv
    PROVE  Client \in Profiles /\ Client = profile
BY DEF IInv, TypeOK, OneIdentity, Client

LEMMA AnsweredFacts ==
    ASSUME IInv, stage = "request", NEW b \in BOOLEAN, Answered(b), now' = now, UNCHANGED browser
    PROVE  /\ stage' \in Stages /\ leg' \in {1, 2} /\ launches' \in 0..2 /\ requests' \in 0..1
           /\ decided' \in 0..now'
           /\ StageFacts' /\ ClearanceLasts'
<1>1. CASE Returns
  BY <1>1, ReturnFacts
<1>2. CASE ~Returns
  <2>1. /\ leg = 1 /\ stage' = "challenged" /\ requests' = requests + 1
        /\ UNCHANGED <<leg, launches, decided>>
    BY <1>2 DEF Answered
  <2>2. requests = 0
    BY <2>1 DEF IInv, StageFacts
  <2> QED
    BY <2>1, <2>2 DEF IInv, TypeOK, StageFacts, ClearanceLasts, Stages
<1> QED
  BY <1>1, <1>2

LEMMA RequestInv == IInv /\ Request => IInv'
<1> SUFFICES ASSUME IInv, Request PROVE IInv'
  OBVIOUS
<1>1. UNCHANGED <<now, require, profile, egress, browser>> /\ stage = "request"
      /\ ServerSets /\ http' = Client
  BY DEF Request
<1>2. PICK response \in Responses : Answered(IsChallenge(Detect(response)))
  BY DEF Request
<1>3. IsChallenge(Detect(response)) \in BOOLEAN
  BY DEF IsChallenge
<1>4. /\ stage' \in Stages /\ leg' \in {1, 2} /\ launches' \in 0..2 /\ requests' \in 0..1
      /\ decided' \in 0..now'
      /\ StageFacts' /\ ClearanceLasts'
  BY <1>1, <1>2, <1>3, AnsweredFacts
<1>5. /\ jar' \in Jar /\ issued' \in 0..MaxIssue /\ learned' \in [Names -> Learned \cup {None}]
      /\ LearnedIsCarried'
  BY <1>1, ServerSetsKeeps
<1>6. TypeOK'
  BY <1>1, <1>4, <1>5, ClientType DEF IInv, TypeOK
<1>7. OneIdentity'
  BY <1>1, ClientType DEF IInv, OneIdentity, Running
<1> QED
  BY <1>4, <1>5, <1>6, <1>7 DEF IInv

LEMMA RequestFailsInv == IInv /\ RequestFails => IInv'
<1> SUFFICES ASSUME IInv, RequestFails PROVE IInv'
  OBVIOUS
<1>1. UNCHANGED <<now, require, identity, browser, issued, learned>> /\ Returns
      /\ http' \in {http, Client}
  BY DEF RequestFails
<1>2. TypeOK' /\ StageFacts' /\ ClearanceLasts'
  BY <1>1, ReturnFacts, ClientType DEF IInv, TypeOK, identity
<1>3. OneIdentity' /\ LearnedIsCarried'
  BY <1>1, ClientType DEF IInv, OneIdentity, LearnedIsCarried, Running, identity
<1> QED
  BY <1>2, <1>3 DEF IInv


-----------------------------------------------------------------------------
(* The caller.                                                             *)

LEMMA EscalateInv == IInv /\ Escalate => IInv'
<1> SUFFICES ASSUME IInv, Escalate PROVE IInv'
  OBVIOUS
<1>1. browser' = Launched /\ UNCHANGED <<now, require, profile, egress, jar, http, stage, leg,
                                         launches, requests, decided, issued, learned>>
      /\ stage = "idle"
  BY DEF Escalate, identity, calls
<1>2. LearnedIsCarried'
  BY <1>1, CarriedByLaunch
<1>3. TypeOK' /\ OneIdentity'
  BY <1>1, LaunchedType DEF IInv, TypeOK, OneIdentity, Running
<1> QED
  BY <1>1, <1>2, <1>3 DEF IInv, StageFacts, ClearanceLasts, Running

LEMMA DemoteInv == IInv /\ Demote => IInv'
BY DEF IInv, TypeOK, StageFacts, OneIdentity, ClearanceLasts, LearnedIsCarried,
       Running, Demote, identity, calls

LEMMA RestoreInv == ASSUME IInv, NEW i \in Offered, Restore(i) PROVE IInv'
<1>1. /\ stage = "idle" /\ browser' = None /\ http' = None
      /\ profile' = i.profile /\ egress' = i.egress /\ jar' = i.jar
      /\ learned' = [n \in Names |-> None]
      /\ UNCHANGED <<now, require, stage, leg, launches, requests, decided, issued>>
      /\ i.egress = Upstream
  BY DEF Restore, Forget, IsBoundTo, calls
<1>2. i.profile \in Profiles /\ i.egress \in Egresses /\ i.jar \in Jar
  BY Assumed DEF Offered, ConstantAssumptions
<1>3. TypeOK'
  BY <1>1, <1>2 DEF IInv, TypeOK
<1>4. LearnedIsCarried'
  BY <1>1 DEF LearnedIsCarried
<1> QED
  BY <1>1, <1>3, <1>4 DEF IInv, StageFacts, OneIdentity, ClearanceLasts, Running

LEMMA NextInv == IInv /\ [Next]_vars => IInv'
<1> SUFFICES ASSUME IInv, [Next]_vars PROVE IInv'
  OBVIOUS
<1>1. CASE UNCHANGED vars
  BY <1>1 DEF IInv, TypeOK, StageFacts, OneIdentity, ClearanceLasts,
              LearnedIsCarried, Running, vars, identity, calls
<1>2. CASE FetchStep
  BY <1>2, BeforeInv, LaunchFailsInv, ClearInv, ClearFailsInv, AfterInv, RequestInv,
     RequestFailsInv, ChallengedInv DEF FetchStep
<1>3. CASE \E i \in Offered : Restore(i)
  BY <1>3, RestoreInv
<1>4. CASE Tick \/ Fetch \/ Escalate \/ Demote
  BY <1>4, TickInv, FetchInv, EscalateInv, DemoteInv
<1> QED
  BY <1>1, <1>2, <1>3, <1>4 DEF Next

(* The invariant holds whatever the server sets and whichever await fails. *)
THEOREM Invariance == Spec => []IInv
BY InitInv, NextInv, PTL DEF Spec

-----------------------------------------------------------------------------
(* What follows.                                                           *)

(* TypeOK; with it, fetch launches at most two browsers and sends at most one
   request before the one whose answer it returns. *)
THEOREM TypeCorrect == Spec => []TypeOK
BY Invariance, PTL DEF IInv

(* Both transports present the identity's profile through its own egress,
   across every escalation, demotion and restore (session.rs, escalate_for,
   http_transport, restore). *)
THEOREM OneIdentityIsShown == Spec => []OneIdentity
BY Invariance, PTL DEF IInv

(* The two halves of SessionPolicy::decide never send a session back and
   forth, whatever its cookies and the margin. *)
THEOREM PolicyIsStable == Spec => []NoPingPong
<1>1. NoPingPong
  BY DEF NoPingPong, DecideBrowser, DecideHttp
<1> QED
  BY <1>1, PTL

(* A request that needs a clearance leaves with one that is still live a
   margin later (identity.rs, decide; session.rs, fetch). *)
THEOREM MarginIsEnough == Spec => []MarginCoversRequest
<1>1. IInv => MarginCoversRequest
  <2> SUFFICES ASSUME IInv, stage = "request", require, ~Running, now <= decided + Margin
               PROVE  HoldsClearance(jar, now)
    BY DEF MarginCoversRequest
  <2>1. /\ jar[Clearance] # None
        /\ jar[Clearance].expires # None => jar[Clearance].expires > decided + Margin
    BY DEF IInv, ClearanceLasts
  <2>2. now \in Nat /\ decided \in Nat /\ Margin \in Nat
    BY Assumed DEF IInv, TypeOK, ConstantAssumptions
  <2>3. jar[Clearance].expires \in Nat \cup {None}
    BY <2>1, Assumed DEF IInv, TypeOK, Jar, Cookie, ConstantAssumptions
  <2> QED
    BY <2>1, <2>2, <2>3, Assumed DEF HoldsClearance, IsExpired, ConstantAssumptions
<1> QED
  BY <1>1, Invariance, PTL

(* What the HTTP leg learned while no browser ran survives every later trip
   through the browser (session.rs, escalate_for and clear_on_page). *)
THEOREM CookiesSurviveTheBrowser == Spec => []LearnedAloneIsKept
<1>1. IInv => LearnedAloneIsKept
  BY DEF IInv, LearnedIsCarried, LearnedAloneIsKept
<1> QED
  BY <1>1, Invariance, PTL

(* SessionPolicy::decide, for every jar, clock and margin: stable, and never
   late. *)
THEOREM PolicyIsSound == Spec => []PolicyHolds
BY PolicyIsStable, MarginIsEnough, PTL DEF PolicyHolds
=============================================================================
