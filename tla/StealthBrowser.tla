--------------------------- MODULE StealthBrowser ---------------------------
(***************************************************************************)
(* A scraper's browser and the pages opened on it (scraper.rs and the      *)
(* identity half of cdp/session.rs): the browser is launched under a       *)
(* profile behind the MITM proxy, each page is dressed by a series of CDP  *)
(* calls of which any may fail, a rotation of the proxy changes the locale *)
(* and dresses the page again, and a rotation of the profile swaps the     *)
(* proxy's client and relaunches.  Document is what a page would show its  *)
(* server and its own scripts if it loaded now.                            *)
(***************************************************************************)
EXTENDS BrowserLaunch, Fingerprint

CONSTANTS
    Scraper,      \* the handle the scraper holds; the others are pages
    Profiles,     \* the profiles in use
    Countries     \* the exit countries of the pool, known and unknown

Pages == Handles \ {Scraper}

\* A profile claims the platform of its User-Agent and some language, as those
\* BrowserProfile::random draws do.
SelfConsistent(prof) ==
    /\ prof.platform = Platform(prof.ua.os)
    /\ 1 \in DOMAIN prof.language

Locals == {ForCountry(c) : c \in Countries} \cup {None}

\* Script and User-Agent override of a page are kept as what they were made from.
Sources == [profile : Profiles, locale : Locals]

ASSUME ScraperAssumption ==
    /\ Scraper \in Handles
    /\ \A prof \in Profiles : SelfConsistent(prof)

\* None is none of the values it stands for the lack of.
ASSUME NoneAssumption ==
    /\ None \notin Launches \cup Profiles \cup Sources \cup {Locales[c] : c \in DOMAIN Locales}
    /\ None \notin [launch : Launches, profile : Profiles]
    /\ \A prof \in Profiles : prof.ua.chrome # 0 =>
          HintsFor(prof) # None /\ Metadata(HintsFor(prof)) # None

VARIABLES
    mitm,       \* whether the scraper was built with the TLS proxy
    profile,    \* CloudScraper.profile, None without a scraper
    browser,    \* the launch CloudScraper.browser is connected to, or None
    next,       \* the launch under way and its profile, or None
    args,       \* launch -> the command line, None before it is built
    client,     \* the profile the proxy's client impersonates, or None
    locale,     \* CloudScraper.locale
    page        \* page -> the overrides in force and the calls still to make

pageVars == <<mitm, profile, browser, next, args, client, locale, page>>
vars == <<launchVars, pageVars>>

\* under and opened are the locales last applied and first applied; located and
\* torn are history: some country's overrides were begun, and not finished.
NoPage == [step |-> "none", on |-> None, todo |-> <<>>, under |-> None, opened |-> None,
           located |-> FALSE, torn |-> FALSE, script |-> None, ua |-> None, tz |-> None, loc |-> None,
           screen |-> None]

PageRecord ==
    [step : {"none", "attaching", "dressing", "open", "rotated", "redressing"},
     on : Launches \cup {None}, todo : Seq({"script", "ua", "tz", "loc", "screen"}),
     under : Locals, opened : Locals, located : BOOLEAN, torn : BOOLEAN,
     script : Sources \cup {None}, ua : Sources \cup {None},
     tz : {loc.timezone : loc \in Locals \ {None}} \cup {None},
     loc : {PrimaryLanguage(loc) : loc \in Locals \ {None}} \cup {None},
     screen : {prof.viewport : prof \in Profiles} \cup {None}]

TypeOK ==
    /\ LaunchTypeOK
    /\ mitm \in BOOLEAN
    /\ profile \in Profiles \cup {None} /\ client \in Profiles \cup {None}
    /\ browser \in Launches \cup {None} /\ locale \in Locals
    /\ next \in [launch : Launches, profile : Profiles] \cup {None}
    /\ DOMAIN args = Launches
    /\ page \in [Pages -> PageRecord]
    /\ \A p \in Pages : page[p].step \in {"none", "open", "rotated"} => page[p].todo = <<>>

Init ==
    /\ LaunchInit
    /\ mitm \in BOOLEAN
    /\ profile = None /\ browser = None /\ next = None /\ client = None /\ locale = None
    /\ args = [l \in Launches |-> None]
    /\ page = [p \in Pages |-> NoPage]

-----------------------------------------------------------------------------
(* Launching. *)

\* LaunchConfig::for_profile: what the browser says of itself at start.
ForProfile(prof) ==
    [ua |-> prof.ua, language |-> prof.language, window |-> prof.viewport,
     proxy |-> None, pin |-> FALSE, insecure |-> FALSE]

\* launch_browser points the browser at the MITM proxy and pins its key; which
\* upstream it gets without one is told apart by nothing here.
LaunchConfig(prof) ==
    IF mitm THEN [ForProfile(prof) EXCEPT !.proxy = "mitm", !.pin = TRUE]
    ELSE ForProfile(prof)

\* build_args: a pin takes the place of accepting any certificate.
BuildArgs(config) ==
    [ua |-> config.ua, language |-> config.language, window |-> config.window,
     proxy |-> config.proxy,
     trust |-> CASE config.pin -> "pin"
                 [] ~config.pin /\ config.insecure -> "any"
                 [] OTHER -> "none"]

\* The client is built, or swapped, before the browser is launched.
BeginLaunch(prof) ==
    /\ next = None /\ \E l \in Launches : step[l] = "idle"
    /\ LET l == CHOOSE l \in Launches : step[l] = "idle" IN
        /\ FindChrome(l) \/ LaunchFails(l)
        /\ next' = [launch |-> l, profile |-> prof]
        /\ client' = IF mitm THEN prof ELSE None
        /\ args' = [args EXCEPT ![l] = BuildArgs(LaunchConfig(prof))]

Quiet == \A p \in Pages : page[p].step \in {"none", "open"}

Build ==
    /\ browser = None /\ next = None
    /\ \E prof \in Profiles : BeginLaunch(prof)
    /\ locale' \in Locals
    /\ UNCHANGED <<mitm, profile, browser, page>>

\* Consuming the scraper means nothing else is using it, but pages may be held.
RotateProfileWith(prof) ==
    /\ browser # None /\ Quiet
    /\ BeginLaunch(prof)
    /\ UNCHANGED <<mitm, profile, browser, locale, page>>

LaunchesOn ==
    /\ next # None /\ step[next.launch] # "idle"
    /\ LaunchStep(next.launch)
    /\ UNCHANGED pageVars

\* The new scraper takes over what the old one had, and its own browser.
Connects ==
    /\ next # None
    /\ Connect(next.launch, Scraper)
    /\ browser' = next.launch /\ profile' = next.profile /\ next' = None
    /\ UNCHANGED <<mitm, args, client, locale, page>>

\* build or rotate_profile_with returns an error: scraper and proxy are dropped.
LaunchReturnsError ==
    /\ next # None /\ step[next.launch] \in {"failed", "gone"}
    /\ browser' = None /\ profile' = None /\ client' = None /\ next' = None /\ locale' = None
    /\ UNCHANGED <<launchVars, mitm, args, page>>

DropScraper ==
    /\ browser # None /\ next = None /\ Quiet
    /\ browser' = None /\ profile' = None /\ client' = None /\ locale' = None
    /\ UNCHANGED <<launchVars, mitm, next, args, page>>

\* The handle of a scraper that was consumed or dropped.
DropsHandle(l) ==
    /\ l # browser /\ DropHandle(l, Scraper)
    /\ UNCHANGED pageVars

-----------------------------------------------------------------------------
(* Dressing a page. *)

(* Mutant: without a locale there is nothing to apply. *)
Dressing_LocaleOnly(prof, loc) ==
    IF loc # None THEN <<"ua", "tz", "loc", "screen">> ELSE <<>>

\* apply_locale_overrides, and apply_client_hints when there is no locale:
\* Safari then gets nothing at all.
Dressing(prof, loc) ==
    CASE loc # None -> <<"ua", "tz", "loc", "screen">>
      [] loc = None /\ HintsFor(prof) # None -> <<"ua", "screen">>
      [] OTHER -> <<>>

\* Target.createTarget and Target.attachToTarget.
OpenPage(p) ==
    /\ browser # None /\ next = None
    /\ page[p].step = "none"
    /\ page' = [page EXCEPT ![p] = [NoPage EXCEPT !.step = "attaching", !.on = browser]]
    /\ UNCHANGED <<launchVars, mitm, profile, browser, next, args, client, locale>>

\* The page is handed over, and the locale read under its lock.
Attached(p) ==
    /\ page[p].step = "attaching" /\ reader[page[p].on] = "reading"
    /\ CloneHandle(page[p].on, p)
    /\ page' = [page EXCEPT ![p].step = "dressing", ![p].under = locale, ![p].opened = locale,
                            ![p].located = locale # None,
                            ![p].todo = <<"script">> \o Dressing(profile, locale)]
    /\ UNCHANGED <<mitm, profile, browser, next, args, client, locale>>

\* What a call of apply_locale_overrides leaves in force.
Applied(pg, call) ==
    CASE call = "script" -> [pg EXCEPT !.script = [profile |-> profile, locale |-> pg.under]]
      [] call = "ua"     -> [pg EXCEPT !.ua = [profile |-> profile, locale |-> pg.under]]
      [] call = "tz"     -> [pg EXCEPT !.tz = pg.under.timezone]
      [] call = "loc"    -> [pg EXCEPT !.loc = PrimaryLanguage(pg.under)]
      [] call = "screen" -> [pg EXCEPT !.screen = profile.viewport]

Dress(p) ==
    /\ page[p].step \in {"dressing", "redressing"} /\ page[p].todo # <<>>
    /\ reader[page[p].on] = "reading"
    /\ page' = [page EXCEPT ![p] = [Applied(page[p], Head(page[p].todo))
                                        EXCEPT !.todo = Tail(page[p].todo)]]
    /\ UNCHANGED <<launchVars, mitm, profile, browser, next, args, client, locale>>

Dressed(p) ==
    /\ page[p].step = "dressing" /\ page[p].todo = <<>>
    /\ page' = [page EXCEPT ![p].step = "open"]
    /\ UNCHANGED <<launchVars, mitm, profile, browser, next, args, client, locale>>

\* new_stealth_page returns the error; the page it had is dropped, not closed.
OpenFails(p) ==
    /\ \/ /\ page[p].step = "attaching" /\ UNCHANGED launchVars
       \/ /\ page[p].step = "dressing" /\ page[p].todo # <<>>
          /\ DropHandle(page[p].on, p)
    /\ page' = [page EXCEPT ![p] = NoPage]
    /\ UNCHANGED <<mitm, profile, browser, next, args, client, locale>>

\* The caller closes the page, or drops it.
DropPage(p) ==
    /\ page[p].step = "open"
    /\ DropHandle(page[p].on, p)
    /\ page' = [page EXCEPT ![p] = NoPage]
    /\ UNCHANGED <<mitm, profile, browser, next, args, client, locale>>

-----------------------------------------------------------------------------
(* Rotating the proxy while a challenge on a page is being solved. *)

RotateProxy(p) ==
    /\ page[p].step = "open" /\ page[p].on = browser /\ next = None /\ mitm
    /\ locale' \in Locals
    /\ page' = [page EXCEPT ![p].step = "rotated"]
    /\ UNCHANGED <<launchVars, mitm, profile, browser, next, args, client>>

Reapply(p) ==
    /\ page[p].step = "rotated"
    /\ page' = [page EXCEPT ![p].step = "redressing", ![p].under = locale,
                            ![p].located = page[p].located \/ locale # None,
                            ![p].todo = Dressing(profile, locale)]
    /\ UNCHANGED <<launchVars, mitm, profile, browser, next, args, client, locale>>

\* An override or the reload fails: solve_challenge returns the error and the
\* caller keeps the page as it is.
ReapplyFails(p) ==
    /\ page[p].step = "redressing"
    /\ page' = [page EXCEPT ![p].step = "open", ![p].todo = <<>>,
                            ![p].torn = page[p].todo # <<>>]
    /\ UNCHANGED <<launchVars, mitm, profile, browser, next, args, client, locale>>

-----------------------------------------------------------------------------
(* Documents. *)

Languages(prof, loc) == IF loc = None THEN LanguagesFrom(prof.language) ELSE loc.languages

\* set_user_agent: metadata only where the profile has hints.
UaOverride(prof, loc) ==
    [ua |-> prof.ua, platform |-> prof.platform,
     accept |-> IF loc = None THEN prof.language ELSE loc.accept,
     metadata |-> IF HintsFor(prof) = None THEN None ELSE Metadata(HintsFor(prof))]

\* The header names a Chrome sends when it navigates over HTTP/1.1.
BrowserHeaders == Range(ChromeHeaderNames) \ {"priority"}

\* The document of a page as its server and its scripts see it.  Without an
\* override Chrome says what its command line says; without metadata its hints
\* are those of its own build (None).
Document(p) ==
    LET pg == page[p]
        flags == args[pg.on]
        override == UaOverride(pg.ua.profile, pg.ua.locale)
        emul == ForKind(BrowserKind(client.ua))
    IN [script |-> Script(pg.script.profile, Languages(pg.script.profile, pg.script.locale)),
        ua |-> IF pg.ua # None THEN override.ua ELSE flags.ua,
        accept |-> IF pg.ua # None THEN override.accept ELSE flags.language,
        hints |-> IF pg.ua # None THEN override.metadata ELSE None,
        tz |-> pg.tz, loc |-> pg.loc, screen |-> pg.screen,
        window |-> flags.window, trust |-> flags.trust,
        emulation |-> IF mitm THEN emul ELSE None,
        names |-> IF mitm THEN WireOrder(emul, BrowserHeaders) ELSE <<>>]

\* The pages on which a document can be loaded now: the ones the caller has,
\* and one whose overrides have just been applied again.
Loadable ==
    {p \in Pages : /\ \/ page[p].step = "open"
                      \/ page[p].step = "redressing" /\ page[p].todo = <<>>
                   /\ reader[page[p].on] = "reading"
                   /\ args[page[p].on].proxy = "mitm" => client # None}

Reload(p) ==
    /\ p \in Loadable /\ page[p].step = "redressing"
    /\ page' = [page EXCEPT ![p].step = "open", ![p].torn = FALSE]
    /\ UNCHANGED <<launchVars, mitm, profile, browser, next, args, client, locale>>

(* Mutant: the User-Agent is left to the emulation. *)
HttpRequest_OwnUserAgent(prof, loc) ==
    LET emul == ForKind(BrowserKind(prof.ua))
    IN [ua |-> UserAgent("Macintosh", ChromeMajor, 0, TRUE), hints |-> HintsFor(prof),
        accept |-> IF loc = None THEN prof.language ELSE loc.accept,
        emulation |-> emul, names |-> WireOrder(emul, {"user-agent", "accept-language"})]

\* HttpScraper::fetch sets these over whatever the emulation would send.
HttpRequest(prof, loc) ==
    LET hints == HintsFor(prof)
        emul == ForKind(BrowserKind(prof.ua))
        hintNames == {"sec-ch-ua", "sec-ch-ua-mobile", "sec-ch-ua-platform"}
    IN [ua |-> prof.ua, hints |-> hints,
        accept |-> IF loc = None THEN prof.language ELSE loc.accept,
        emulation |-> emul,
        names |-> WireOrder(emul, {"user-agent", "accept-language"}
                                   \cup IF hints = None THEN {} ELSE hintNames)]

-----------------------------------------------------------------------------

PageStep(p) ==
    \/ OpenPage(p) \/ Attached(p) \/ Dress(p) \/ Dressed(p) \/ OpenFails(p) \/ DropPage(p)
    \/ RotateProxy(p) \/ Reapply(p) \/ ReapplyFails(p) \/ Reload(p)

System(l) == (DropStep(l) \/ ReaderStep(l)) /\ UNCHANGED pageVars

Exits(l) == BrowserExits(l) /\ UNCHANGED pageVars

Next ==
    \/ Build \/ (\E prof \in Profiles : RotateProfileWith(prof))
    \/ LaunchesOn \/ Connects \/ LaunchReturnsError \/ DropScraper
    \/ \E l \in Launches : DropsHandle(l) \/ System(l) \/ Exits(l)
    \/ \E p \in Pages : PageStep(p)

Spec == Init /\ [][Next]_vars

-----------------------------------------------------------------------------
(* Properties. *)

\* A launch that failed, and a browser whose last handle is gone, leave no
\* process (not even one to be waited for), no pipe end but the one the reader
\* task still has to drop, and no directory but one that could not be removed.
NothingLeftBehind ==
    \A l \in Launches : step[l] \in {"failed", "gone"} =>
        /\ proc[l] \in {"none", "reaped"}
        /\ l \in dirs => l \in stuck
        /\ \A h \in held : h[2] = l => h = <<"program", l, "outRead">> /\ reader[l] # "reading"

\* "Kept alive so the profile outlives the process that uses it": a running
\* browser has its directory, and someone who will end it: the launch under
\* way, a handle, or the drop.
ProfileOutlivesBrowser ==
    \A l \in Launches : proc[l] = "running" =>
        /\ l \in dirs
        /\ \/ handles[l] # {} \/ step[l] = "dropping"
           \/ next # None /\ next.launch = l

Chromium(d) == d.ua.chrome # 0

\* navigator, the request headers, the hints, the TLS fingerprint and the
\* window of a document on the scraper's own browser describe one Chrome.
OneBrowser(d) ==
    /\ d.script.ua = d.ua /\ ~d.script.webdriver
    /\ d.hints # None
    /\ \A i \in DOMAIN d.hints.brands :
          LET b == d.hints.brands[i]
              full == d.hints.list[i]
          IN /\ b.brand # Grease => b.version = d.ua.chrome
             /\ full.brand = b.brand /\ full.version[1] = b.version
    /\ Platform(d.ua.os) = d.script.platform /\ PlatformFor(d.ua) = d.hints.platform
    /\ mitm => d.emulation.wire = ChromeWire /\ d.trust = "pin"
    /\ d.screen = d.window

\* Language header, timezone and locale are those of the country last applied,
\* or the profile's and the machine's own if there is none, and the script's
\* languages are the header's.  Excused are what a rotation leaves behind: the
\* languages of a script written under another country (the call at line 545
\* does not write it again), and timezone and locale of a page that was in a
\* known country before it came to an unknown one (the early return at line 379).
OneCountry(pg, d) ==
    \/ pg.torn /\ pg.step = "open"
    \/ /\ d.accept = IF pg.under = None THEN profile.language ELSE pg.under.accept
       /\ pg.under # None => d.tz = pg.under.timezone /\ d.loc = d.accept[1].tag
       /\ ~pg.located => d.tz = None /\ d.loc = None
       /\ pg.opened = pg.under => d.script.languages = LanguagesFrom(d.accept)

\* Whatever rotations and failures came before, a document loaded now on a page
\* of the scraper's own browser describes one Chrome, if its profile is one, and
\* the country the page was last dressed for, as far as OneCountry says.  Not
\* promised: one country to a page dressed by halves in a failed rotation, and
\* anything to pages of a browser the scraper has left.
OneStory ==
    \A p \in Loadable : LET d == Document(p) IN
        page[p].on = browser /\ next = None /\ Chromium(d)
            => OneBrowser(d) /\ OneCountry(page[p], d)

\* solve_challenge, line 545: "Re-apply the (possibly new-country) locale before
\* reloading so the refreshed request's geo signals match the new egress": with
\* no rotation that failed, all of them match.
GeoFollowsEgress ==
    \A p \in Loadable : LET d == Document(p)
                            pg == page[p] IN
        pg.on = browser /\ next = None /\ Chromium(d) /\ ~pg.torn =>
            /\ pg.under = None => d.tz = None /\ d.loc = None
            /\ d.script.languages = LanguagesFrom(d.accept)

\* A session that leaves the browser for plain HTTP keeps its headers, their
\* order and its TLS fingerprint: its requests are what the document's is.
LegsTellOneStory ==
    \A p \in Loadable : LET d == Document(p)
                            r == HttpRequest(profile, None) IN
        page[p].on = browser /\ next = None /\ Chromium(d) /\ mitm
            /\ page[p].under = None /\ ~page[p].torn
            => /\ r.ua = d.ua /\ r.accept = d.accept /\ r.emulation = d.emulation
               /\ r.names = d.names
               /\ Brands(r.hints) = d.hints.brands /\ r.hints.platform = d.hints.platform

\* When a browser ends, by itself or killed, nobody is left who could write to
\* its pipe, so the transport reads end-of-file: "Holding a copy here would
\* stop the parent from ever seeing end-of-file."
EndIsVisible ==
    \A l \in Launches : proc[l] \in {"zombie", "reaped"} /\ step[l] # "spawned" =>
        \A h \in held : ~(h[2] = l /\ h[3] = "outWrite")
=============================================================================
