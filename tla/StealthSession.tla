--------------------------- MODULE StealthSession ---------------------------
(***************************************************************************)
(* StealthSession (session.rs, http_scraper.rs): one identity, its cookies *)
(* and two transports that both render from it.  A fetch decides, may      *)
(* launch the browser, clears the page there and exports the browser's     *)
(* cookies into the identity, may leave the browser, and sends the request *)
(* over HTTP; a challenged answer sends it round once more.                *)
(*                                                                         *)
(* Every method takes &mut self, so calls follow one another; what moves   *)
(* in between is the clock, and any await may fail.  The server is         *)
(* external: it answers with any of Responses and sets cookies as it likes.*)
(***************************************************************************)
EXTENDS SessionPolicy, Challenge, FiniteSets

CONSTANTS
    Profiles,     \* browser profiles
    Egresses,     \* redacted upstream URLs, or no upstream at all
    Upstream,     \* the session's own
    SavedJars,    \* bound: cookies of the identities callers kept earlier
    Lifetimes,    \* Max-Age of a cookie: None when absent, 0 to delete it
    Responses,    \* bound: what the server answers over HTTP
    MaxNow,       \* bound: the clock
    MaxIssue      \* bound: values the server hands out over the session

ASSUME SessionAssumption ==
    /\ Upstream \in Egresses
    /\ SavedJars \subseteq Jar
    /\ Lifetimes \subseteq Nat \cup {None}
    /\ Responses \subseteq DetectionInput
    /\ MaxNow \in Nat /\ MaxIssue \in Nat
    /\ Values = 1..MaxIssue
    /\ None \notin Profiles

VARIABLES
    now,         \* the clock
    require,     \* require_clearance_for_http
    profile,     \* identity.profile
    egress,      \* identity.egress
    jar,         \* identity.cookies
    browser,     \* the running browser: its profile and its own jar
    http,        \* the profile the HTTP client was built from
    stage,       \* where fetch is
    leg,         \* 1, or 2 once the challenged answer sent it round again
    launches,    \* browsers launched by this fetch
    requests,    \* HTTP requests answered in this fetch
    decided,     \* history: when the last decision was made
    issued,      \* history: how many values the server has handed out
    learned      \* history: what the HTTP leg was last set under each name

identity == <<profile, egress, jar>>
calls    == <<stage, leg, launches, requests, decided>>
vars     == <<now, require, identity, browser, http, calls, issued, learned>>

EmptyJar == [n \in Names |-> None]
Browser  == [profile : Profiles, jar : Jar]

(* A cookie learned over HTTP, and whether no browser was running then. *)
Learned  == [cookie : Cookie, alone : BOOLEAN]
Stages   == {"idle", "before", "clear", "after", "request", "challenged"}

ASSUME NoBrowserAssumption == None \notin Browser /\ None \notin Learned

(* build: nothing is launched. *)
Init ==
    /\ now = 0 /\ require \in BOOLEAN
    /\ profile \in Profiles /\ egress = Upstream /\ jar = EmptyJar
    /\ browser = None /\ http = None
    /\ stage = "idle" /\ leg = 1 /\ launches = 0 /\ requests = 0 /\ decided = 0
    /\ issued = 0
    /\ learned = [n \in Names |-> None]

Tick ==
    /\ now < MaxNow
    /\ now' = now + 1
    /\ UNCHANGED <<require, identity, browser, http, calls, issued, learned>>

Running == browser # None

(* decide: the policy on the current mode, identity and clock. *)
Transition(challenged) ==
    IF Running THEN DecideBrowser(jar, require, challenged, now)
    ELSE DecideHttp(jar, require, challenged, now)

-----------------------------------------------------------------------------
(* Moving between the transports.                                          *)

(* Mutant: the browser starts as a stranger. *)
Launched_Stranger == [profile |-> profile, jar |-> EmptyJar]

(* escalate_for: a browser for the identity's profile, handed its cookies. *)
Launched == [profile |-> profile, jar |-> Live(jar, now)]

Launch == browser' = Launched /\ launches' = launches + 1

(* decide and apply; what follows depends on whether a browser is running. *)
Decides(challenged) ==
    /\ decided' = now
    /\ CASE Transition(challenged) = "Stay"     -> UNCHANGED <<browser, launches>>
         [] Transition(challenged) = "Escalate" -> Launch
         [] Transition(challenged) = "Demote"   -> browser' = None /\ UNCHANGED launches

(* fetch returns, with an answer or an error; its counts start over. *)
Returns == stage' = "idle" /\ leg' = 1 /\ launches' = 0 /\ requests' = 0 /\ decided' = 0

(* The browser does not come up or refuses the cookies: it is dropped. *)
LaunchFails ==
    /\ \/ stage = "before" /\ Transition(FALSE) = "Escalate"
       \/ stage = "challenged" /\ Transition(TRUE) = "Escalate"
    /\ Returns
    /\ UNCHANGED <<now, require, identity, browser, http, issued, learned>>

-----------------------------------------------------------------------------
(* fetch.                                                                  *)

Fetch ==
    /\ stage = "idle"
    /\ stage' = "before"
    /\ UNCHANGED <<now, require, identity, browser, http, leg, launches, requests, decided,
                   issued, learned>>

Before ==
    /\ stage = "before"
    /\ Decides(FALSE)
    /\ stage' = IF browser' # None THEN "clear" ELSE "request"
    /\ UNCHANGED <<now, require, identity, http, leg, requests, issued, learned>>

(* anchor_max_age: what a cookie set now expires at. *)
Anchored(life) == IF life = None THEN None ELSE IF life = 0 THEN 0 ELSE now + life

Fresh(life) == [value |-> issued + 1, expires |-> Anchored(life)]

(* A cookie set now replaces its namesake, and only removes it when it is
   expired as it arrives. *)
Absorb(j, n, life) ==
    [j EXCEPT ![n] = IF IsExpired(Fresh(life), now) THEN None ELSE Fresh(life)]

(* The page is loaded and solved; the site may set a cookie meanwhile. *)
BrowserVisits(j) ==
    \/ j = browser.jar /\ UNCHANGED <<issued, learned>>
    \/ \E n \in Names, life \in Lifetimes :
          /\ issued < MaxIssue /\ issued' = issued + 1
          /\ j = Absorb(browser.jar, n, life)
          /\ learned' = [learned EXCEPT ![n] = None]

(* browser_cookies, then set_cookies replaces the identity's. *)
Export(j) == jar' = Live(j, now)

(* clear_with_browser. *)
Clear ==
    /\ stage = "clear"
    /\ \E j \in {browser.jar} \cup {Absorb(browser.jar, n, life) : n \in Names, life \in Lifetimes} :
          /\ BrowserVisits(j)
          /\ browser' = [browser EXCEPT !.jar = j]
          /\ Export(j)
    /\ stage' = "after"
    /\ UNCHANGED <<now, require, profile, egress, http, leg, launches, requests, decided>>

(* No page, no load, no solution, or no cookies read back: the browser stays
   with what it was set, and the error ends the fetch. *)
ClearFails ==
    /\ stage = "clear"
    /\ \E j \in {browser.jar} \cup {Absorb(browser.jar, n, life) : n \in Names, life \in Lifetimes} :
          /\ BrowserVisits(j)
          /\ browser' = [browser EXCEPT !.jar = j]
    /\ Returns
    /\ UNCHANGED <<now, require, identity, http>>

After ==
    /\ stage = "after"
    /\ Decides(FALSE)
    /\ stage' = "request"
    /\ UNCHANGED <<now, require, identity, http, leg, requests, issued, learned>>

(* http_transport: built on first use, then kept. *)
Client == IF http = None THEN profile ELSE http

(* absorb_cookies on the answer. *)
ServerSets ==
    \/ UNCHANGED <<jar, issued, learned>>
    \/ \E n \in Names, life \in Lifetimes :
          /\ issued < MaxIssue /\ issued' = issued + 1
          /\ jar' = Absorb(jar, n, life)
          /\ learned' = [learned EXCEPT ![n] =
                           IF IsExpired(Fresh(life), now) THEN None
                           ELSE [cookie |-> Fresh(life), alone |-> ~Running]]

(* Mutant: a challenged answer starts the fetch over. *)
Answered_StartsOver(challenge) ==
    \/ /\ challenge
       /\ stage' = "before" /\ leg' = 1 /\ launches' = 0 /\ requests' = 0
       /\ UNCHANGED decided
    \/ ~challenge /\ Returns

(* A challenge is retried once; the second answer is returned as it is. *)
Answered(challenge) ==
    \/ /\ challenge /\ leg = 1
       /\ stage' = "challenged" /\ requests' = requests + 1
       /\ UNCHANGED <<leg, launches, decided>>
    \/ ~(challenge /\ leg = 1) /\ Returns

(* HttpScraper::fetch. *)
Request ==
    /\ stage = "request"
    /\ http' = Client
    /\ ServerSets
    /\ \E response \in Responses : Answered(IsChallenge(Detect(response)))
    /\ UNCHANGED <<now, require, profile, egress, browser>>

(* The client cannot be built, or the request or its body fails. *)
RequestFails ==
    /\ stage = "request"
    /\ http' \in {http, Client}
    /\ Returns
    /\ UNCHANGED <<now, require, identity, browser, issued, learned>>

(* Over HTTP a challenge always escalates and in the browser it stays, so a
   browser is running either way. *)
Challenged ==
    /\ stage = "challenged"
    /\ Decides(TRUE)
    /\ stage' = "clear" /\ leg' = 2
    /\ UNCHANGED <<now, require, identity, http, requests, issued, learned>>

-----------------------------------------------------------------------------
(* What the caller does between fetches.                                   *)

Escalate ==
    /\ stage = "idle" /\ ~Running
    /\ browser' = Launched
    /\ UNCHANGED <<now, require, identity, http, calls, issued, learned>>

Demote ==
    /\ stage = "idle" /\ Running
    /\ browser' = None
    /\ UNCHANGED <<now, require, identity, http, calls, issued, learned>>

IsBoundTo(i) == i.egress = Upstream

(* Mutant: the running browser is kept. *)
Forget_Http == http' = None /\ UNCHANGED browser

(* Both transports were rendered from the identity that is replaced. *)
Forget == http' = None /\ browser' = None

(* restore: an identity of another egress is refused and changes nothing. *)
Restore(i) ==
    /\ stage = "idle" /\ IsBoundTo(i)
    /\ profile' = i.profile /\ egress' = i.egress /\ jar' = i.jar
    /\ Forget
    /\ learned' = [n \in Names |-> None]
    /\ UNCHANGED <<now, require, calls, issued>>

Offered == [profile : Profiles, egress : Egresses, jar : SavedJars]

FetchStep ==
    \/ Before \/ LaunchFails \/ Clear \/ ClearFails \/ After \/ Request \/ RequestFails
    \/ Challenged

Next == Tick \/ Fetch \/ FetchStep \/ Escalate \/ Demote \/ \E i \in Offered : Restore(i)

(* A fetch keeps running: every await in it has a timeout. *)
Spec == Init /\ [][Next]_vars /\ WF_vars(FetchStep)

-----------------------------------------------------------------------------
(* One fetch launches at most two browsers, and goes on after one answer only:
   the second is returned whatever it says. *)
TypeOK ==
    /\ now \in 0..MaxNow /\ require \in BOOLEAN
    /\ profile \in Profiles /\ egress \in Egresses /\ jar \in Jar
    /\ browser \in Browser \cup {None} /\ http \in Profiles \cup {None}
    /\ stage \in Stages /\ leg \in {1, 2}
    /\ launches \in 0..2 /\ requests \in 0..1
    /\ decided \in 0..now /\ issued \in 0..MaxIssue
    /\ learned \in [Names -> Learned \cup {None}]

(* Both transports present the identity's own profile through the egress its
   cookies were earned on, whichever of them is running and whatever was
   restored: restore refuses what was earned elsewhere and drops what the
   previous identity was rendered into. *)
OneIdentity ==
    /\ Running => browser.profile = profile
    /\ http # None => http = profile
    /\ egress = Upstream

(* decide_http and decide_browser agree: with nothing new, a session that just
   left the browser is not sent back, and one just sent there stays. *)
NoPingPong ==
    /\ DecideBrowser(jar, require, FALSE, now) = "Demote"
         => DecideHttp(jar, require, FALSE, now) = "Stay"
    /\ DecideHttp(jar, require, FALSE, now) = "Escalate"
         => DecideBrowser(jar, require, FALSE, now) = "Stay"

(* clearance_margin: a session that must hold a clearance over HTTP still
   holds a live one a whole margin after the policy let the request go.  The
   code takes the clearance of any host, so this is per session, not per host. *)
MarginCoversRequest ==
    stage = "request" /\ require /\ ~Running /\ now <= decided + Margin
        => HoldsClearance(jar, now)

(* SessionPolicy::decide: a transport change is not undone by the next
   decision, and one that was not made was not needed. *)
PolicyHolds == NoPingPong /\ MarginCoversRequest

(* escalate_for and clear_on_page: a cookie the HTTP leg was set while no
   browser was running goes into the browser and comes back out of it. *)
LearnedAloneIsKept ==
    \A n \in Names :
        learned[n] # None /\ learned[n].alone /\ ~IsExpired(learned[n].cookie, now)
            => jar[n] = learned[n].cookie

(* fetch returns, even to a server that challenges every answer. *)
EveryFetchReturns == stage # "idle" ~> stage = "idle"

-----------------------------------------------------------------------------
(* What a fetch knows at each stage: a page is cleared in a running browser,
   and going round again is what the second launch and the request are for. *)
StageFacts ==
    /\ stage \in {"clear", "after"} => Running
    /\ stage \in {"idle", "before"} => launches = 0
    /\ stage \in {"idle", "before", "challenged"} => leg = 1
    /\ leg = 1 => launches <= 1
    /\ requests = IF stage = "challenged" \/ leg = 2 THEN 1 ELSE 0

(* The request goes without a browser on a clearance that outlasts the margin. *)
ClearanceLasts ==
    stage = "request" /\ require /\ ~Running
        => /\ jar[Clearance] # None
           /\ jar[Clearance].expires # None => jar[Clearance].expires > decided + Margin

(* What the HTTP leg learned alone is in the jar, and in any browser since. *)
LearnedIsCarried ==
    \A n \in Names :
        learned[n] # None /\ learned[n].alone /\ ~IsExpired(learned[n].cookie, now)
            => /\ jar[n] = learned[n].cookie
               /\ Running => browser.jar[n] = learned[n].cookie

IInv == TypeOK /\ StageFacts /\ OneIdentity /\ ClearanceLasts /\ LearnedIsCarried

-----------------------------------------------------------------------------
(* http_scraper.rs on HttpScraper: "the two legs share one cookie set, or the
   transfer loses whatever the cheap leg learned". *)
LearnedIsKept ==
    \A n \in Names :
        learned[n] # None /\ ~IsExpired(learned[n].cookie, now) => jar[n] = learned[n].cookie
=============================================================================
