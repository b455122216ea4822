----------------------------- MODULE CookieJar -----------------------------
(***************************************************************************)
(* The cookies of one session on both legs: the identity's own, which      *)
(* HttpScraper sends from and absorbs into (http_scraper.rs), and the      *)
(* browser's, which are handed over on escalation and exported after every *)
(* cleared page (session.rs, cdp/session.rs).  Beside them runs the jar of *)
(* one browser that had seen every Set-Cookie itself, kept by RFC 6265.    *)
(***************************************************************************)
EXTENDS CookieRules

CONSTANTS
    Labels, Segments,   \* what host names and paths are made of
    Urls,         \* where requests go
    Settings,     \* the Set-Cookie headers servers answer with, and where
    Fractions,    \* half seconds by which the browser's clock is ahead
    MaxNow,       \* bound: the clock
    MaxIssue      \* bound: cookies set over the session

Hosts == [labels : Seq(Labels) \ {<<>>}, dot : BOOLEAN]
Paths == Seq(Segments) \ {<<>>}
SameSite == {"Strict", "Lax", "None"}

(* What an attribute's value is once its text was read. *)
WellFormed(a) ==
    /\ a.key = "domain"   => a.value \in [labels : Seq(Labels), dot : BOOLEAN]
    /\ a.key = "path"     => a.value \in Paths \cup {Absent}
    /\ a.key \in {"max-age", "expires"} => a.value \in Int \cup {Absent}
    /\ a.key = "samesite" => a.value \in SameSite \cup {Absent}

ASSUME UrlAssumption ==
    /\ "" \in Segments /\ Absent \notin Paths
    /\ \A u \in Urls \cup {s.url : s \in Settings} :
          u.secure \in BOOLEAN /\ u.host \in Hosts /\ u.path \in Paths

ASSUME SettingAssumption ==
    \A s \in Settings : /\ s.attributes \in Seq(Range(s.attributes))
                        /\ \A a \in Range(s.attributes) : WellFormed(a)

ASSUME FractionAssumption == Fractions \subseteq {0, 1}

(* A name does not end like an address: a host whose last label is a number, or
   is in brackets, is an address or no host at all. *)
ASSUME AddressAssumption ==
    \A s \in Settings : \A ip \in IpLiterals :
        s.url.host.labels \notin IpLiterals => ip # <<>> /\ Last(s.url.host.labels) # Last(ip)

(* Headers that give an attribute twice are left out: a browser reads the last,
   the code refuses the cookie for any Domain it would refuse. *)
ASSUME OnceAssumption ==
    \A s \in Settings : \A i, j \in DOMAIN s.attributes :
        s.attributes[i].key = s.attributes[j].key => i = j

VARIABLES
    now,
    jar,       \* identity.cookies
    browser,   \* the cookies of the running browser, or Absent
    ideal,     \* history: the one browser's cookies, oldest creation first
    setter,    \* history: cookie value -> the host that set it
    unread,    \* history: the cookies whose lifetime the HTTP leg did not read
    gap        \* history: whether the two legs have been told the same

jarVars == <<now, jar, browser, ideal, setter, unread, gap>>

Domains == [sub : BOOLEAN, labels : Seq(Labels), dot : BOOLEAN]
Setters == {s.url.host : s \in Settings}
Names == {s.name : s \in Settings}
Cookies == [name : Names, value : Nat, domain : Domains, path : Paths,
            expires : Nat \cup {Absent}, secure : BOOLEAN, http_only : BOOLEAN,
            same_site : SameSite \cup {Absent}]
Entries == [name : Names, value : Nat, domain : Domains, path : Paths,
            expires : Nat \cup {-1}, secure : BOOLEAN, httpOnly : BOOLEAN,
            sameSite : SameSite \cup {Absent}]
Keys == [name : Names, domain : Domains, path : Paths]

ASSUME NoBrowserAssumption == Absent \notin Seq(Entries)

Running == browser # Absent

JarTypeOK ==
    /\ now \in Nat /\ jar \in Seq(Cookies) /\ ideal \in Seq(Entries)
    /\ Running => browser \in Seq(Entries)
    /\ setter \in Seq(Setters) /\ unread \subseteq Keys
    /\ gap \in {"none", "browser", "http"}

Issued == Len(setter)

(* A server names a cookie, its value told apart by when it was set. *)
Header(s) == [name |-> s.name, value |-> Issued + 1, attributes |-> s.attributes]

JarInit == /\ now = 0 /\ jar = <<>> /\ browser = Absent /\ ideal = <<>>
           /\ setter = <<>> /\ unread = {} /\ gap = "none"

Tick == /\ now < MaxNow /\ now' = now + 1
        /\ UNCHANGED <<jar, browser, ideal, setter, unread, gap>>

----------------------------------------------------------------------------
(* A browser's own rules (RFC 6265, 5.1.3, 5.1.4, 5.3 and 5.4): external.  *)

RfcDomainMatch(labels, dot, host) == dot = host.dot /\ IsSuffix(labels, host.labels)

Has(header, key) == Given(header, key) # {}
ValueOf(header, key) == LastValue(header, Given(header, key), Absent)

(* A Domain that is not empty, and one that is the host itself. *)
Named(header) == Has(header, "domain") /\ ValueOf(header, "domain").labels # <<>>
Own(header, host) == Named(header) /\ ValueOf(header, "domain") = host

(* Whether the user agent stores the cookie. *)
RfcAccepts(header, host) ==
    LET given == ValueOf(header, "domain") IN
    /\ header.name # Absent
    /\ Named(header) =>
         /\ RfcDomainMatch(given.labels, given.dot, host)
         /\ Own(header, host) \/ (given.labels \notin PublicSuffixes /\ host.labels \notin IpLiterals)

RfcHostOnly(header, host) ==
    ~Named(header) \/ (Own(header, host) /\ host.labels \in PublicSuffixes \cup IpLiterals)

(* The lifetime is given by Expires alone: a date, in seconds, and no Max-Age. *)
ByDate(header) == ValueOf(header, "expires") # Absent /\ ValueOf(header, "max-age") = Absent

(* When the cookie ends, in half seconds: Max-Age counts before Expires, and a
   value that cannot be read counts for nothing.  half is the fraction of the
   browser's clock. *)
RfcExpiry(header, half) ==
    LET age  == ValueOf(header, "max-age")
        date == ValueOf(header, "expires")
    IN IF age # Absent THEN IF age <= 0 THEN 0 ELSE 2 * (now + age) + half
       ELSE IF date # Absent THEN IF date <= 0 THEN 0 ELSE 2 * date
       ELSE -1

(* The cookie it stores. *)
RfcCookie(header, url, half) ==
    LET given == ValueOf(header, "domain")
        host_only == RfcHostOnly(header, url.host)
        path == ValueOf(header, "path")
    IN [name |-> header.name, value |-> header.value,
        domain |-> [sub |-> ~host_only, dot |-> url.host.dot,
                    labels |-> IF host_only THEN url.host.labels ELSE given.labels],
        path |-> IF path # Absent THEN path
                 ELSE IF Len(url.path) = 1 THEN <<"">> ELSE Front(url.path),
        expires |-> RfcExpiry(header, half),
        secure |-> Has(header, "secure"), httpOnly |-> Has(header, "httponly"),
        sameSite |-> ValueOf(header, "samesite")]

Over(entry) == entry.expires >= 0 /\ entry.expires <= 2 * now

Unspent(entries) == Keeping(entries, {i \in DOMAIN entries : ~Over(entries[i])})

(* A cookie replaces its namesake where that one stands: the creation time is
   kept.  An expired one only removes it. *)
RfcStore(cookies, entry) ==
    LET same == {i \in DOMAIN cookies : SameCookie(cookies[i], entry)} IN
    IF Over(entry) THEN Keeping(cookies, DOMAIN cookies \ same)
    ELSE IF same = {} THEN Append(cookies, entry)
    ELSE [i \in DOMAIN cookies |-> IF i \in same THEN entry ELSE cookies[i]]

RfcReceive(cookies, header, url, half) ==
    IF RfcAccepts(header, url.host) THEN RfcStore(cookies, RfcCookie(header, url, half))
    ELSE cookies

RfcSends(entry, url) ==
    LET d == entry.domain
        p == entry.path
    IN /\ ~Over(entry)
       /\ entry.secure => url.secure
       /\ IF d.sub THEN RfcDomainMatch(d.labels, d.dot, url.host)
          ELSE d.labels = url.host.labels /\ d.dot = url.host.dot
       /\ \/ p = url.path
          \/ Last(p) = "" /\ Len(url.path) >= Len(p) /\ IsPrefix(Front(p), url.path)
          \/ Len(url.path) > Len(p) /\ IsPrefix(p, url.path)

----------------------------------------------------------------------------
SetBy(s) == setter' = Append(setter, s.url.host)

Key(c) == [name |-> c.name, domain |-> c.domain, path |-> c.path]

(* parse_set_cookie does not read Expires, a browser does: which cookies have a
   lifetime the session does not know, after the answer was read by a leg. *)
UnreadAfter(header, url, half, http) ==
    LET key == Key(RfcCookie(header, url, half)) IN
    IF ~RfcAccepts(header, url.host) THEN unread
    ELSE IF http /\ ByDate(header) THEN unread \cup {key}
    ELSE unread \ {key}

(* HttpScraper::fetch, answered with a Set-Cookie.  A browser that is running
   does not hear of it; a host with a final dot is another host to a browser. *)
HttpFetch(s) ==
    /\ Issued < MaxIssue /\ SetBy(s)
    /\ jar' = AbsorbCookies(jar, Header(s), s.url.host, s.url.path, now)
    /\ ideal' = RfcReceive(ideal, Header(s), s.url, 0)
    /\ unread' = UnreadAfter(Header(s), s.url, 0, TRUE)
    /\ gap' = IF Running \/ s.url.host.dot THEN "http" ELSE gap
    /\ UNCHANGED <<now, browser>>

(* escalate_for: a browser is launched and handed the identity's cookies. *)
Launch ==
    /\ ~Running
    /\ browser' = Unspent([i \in DOMAIN jar |-> CookieToCdp(jar[i])])
    /\ UNCHANGED <<now, jar, ideal, setter, unread, gap>>

(* Browser::cookies, then set_cookies: the identity's are replaced. *)
Export(cookies) ==
    jar' = SetCookies([i \in DOMAIN cookies |-> CookieFromCdp(cookies[i])], now)

(* clear_on_page: the page is loaded, the server may set a cookie, and the
   browser's cookies are exported. *)
Clear(s, half) ==
    /\ Running /\ Issued < MaxIssue /\ SetBy(s)
    /\ browser' = RfcReceive(browser, Header(s), s.url, half)
    /\ ideal' = RfcReceive(ideal, Header(s), s.url, half)
    /\ unread' = UnreadAfter(Header(s), s.url, half, FALSE)
    /\ Export(Unspent(browser'))
    /\ gap' = IF gap = "browser" THEN "none" ELSE gap
    /\ UNCHANGED now

(* The same, but the solution or the export fails: only the browser knows. *)
ClearFails(s, half) ==
    /\ Running /\ Issued < MaxIssue /\ SetBy(s)
    /\ browser' = RfcReceive(browser, Header(s), s.url, half)
    /\ ideal' = RfcReceive(ideal, Header(s), s.url, half)
    /\ unread' = UnreadAfter(Header(s), s.url, half, FALSE)
    /\ gap' = IF gap = "none" THEN "browser" ELSE gap
    /\ UNCHANGED <<now, jar>>

(* demote_for: the browser goes, and its cookies with it. *)
Demote ==
    /\ Running /\ browser' = Absent
    /\ gap' = IF gap = "browser" THEN "http" ELSE gap
    /\ UNCHANGED <<now, jar, ideal, setter, unread>>

JarNext == \/ Tick \/ Launch \/ Demote
           \/ \E s \in Settings :
                 HttpFetch(s) \/ \E half \in Fractions : Clear(s, half) \/ ClearFails(s, half)

JarSpec == JarInit /\ [][JarNext]_jarVars

----------------------------------------------------------------------------
Tails(labels) == {SubSeq(labels, i, Len(labels)) : i \in DOMAIN labels}

(* No cookie goes where its setter has no say: it goes back to the host that
   set it, or to one that shares with it a domain that can be registered, and
   a Secure one never in the clear; whatever Domain a server asks for, if it
   asks once, and whichever legs the cookie travelled (cookie_applies,
   domain_scope). *)
NeverLeaks ==
    \A url \in Urls :
        \A c \in Range(CookieHeader(jar, url, now)) :
            LET by == setter[c.value].labels IN
            /\ c.secure => url.secure
            /\ \/ by = url.host.labels
               \/ /\ by \notin IpLiterals /\ url.host.labels \notin IpLiterals
                  /\ \E d \in Tails(by) \cap Tails(url.host.labels) : d \notin PublicSuffixes

(* A browser's cookie as the session should hold it: to the whole second. *)
Portable(e) == [name |-> e.name, value |-> e.value, domain |-> e.domain, path |-> e.path,
                expires |-> IF e.expires < 0 THEN Absent ELSE e.expires \div 2,
                secure |-> e.secure, http_only |-> e.httpOnly, same_site |-> e.sameSite]

LiveOf(cookies) == {c \in cookies : ~IsExpired(c, now)}
Held(entries) == LiveOf({Portable(e) : e \in Range(entries)})

(* The cookies whose lifetime both legs could read. *)
Readable(cookies) == {c \in cookies : Key(c) \notin unread}

(* Unless a leg was told something the other was not (gap), the session holds
   the cookies one browser would hold, each with the scope, the flags and the
   lifetime its server gave it, however often they changed legs; and what a
   server deleted does not come back (parse_set_cookie, anchor_max_age,
   absorb_cookies, cookie_to_cdp, cookie_from_cdp, set_cookies).  Excused are
   the cookies an answer over HTTP last set or deleted by Expires alone, which
   the code does not read (NeverKeptTooLong). *)
LegsAgree ==
    /\ gap = "none" => Readable(LiveOf(Range(jar))) = Readable(Held(ideal))
    /\ gap # "http" /\ Running => Readable(Held(browser)) = Readable(Held(ideal))

(* A cookie path with a final slash is matched by the code without it. *)
Slashed(path) == Len(path) > 1 /\ Last(path) = ""

(* The cookies that may be compared on the wire. *)
Comparable(cookies) == {c \in Readable(cookies) : ~Slashed(c.path)}

(* The HTTP leg sends what that browser would send, and sends the cookies with
   longer paths first (cookie_header); final slashes and dots apart, and the
   cookies whose lifetime only a browser reads. *)
SentAsTheBrowserWould ==
    \A url \in Urls :
        LET sent == CookieHeader(jar, url, now) IN
        /\ \A i, j \in DOMAIN sent : i < j => PathLen(sent[i].path) >= PathLen(sent[j].path)
        /\ gap = "none" /\ ~url.host.dot =>
              {c.value : c \in Comparable(Range(sent))}
                = {e.value : e \in {x \in Comparable(Range(ideal)) :
                                       RfcSends(x, url) /\ ~IsExpired(Portable(x), now)}}

----------------------------------------------------------------------------
(* parse_set_cookie on Expires: "A cookie whose expiry we cannot read is
   treated as a session cookie, which errs towards dropping it rather than
   keeping it too long": what the HTTP leg sends, a browser would still send. *)
NeverKeptTooLong ==
    gap = "none" => \A url \in Urls : \A c \in Range(CookieHeader(jar, url, now)) :
        ~url.host.dot /\ ~Slashed(c.path) =>
            \E e \in Range(ideal) : RfcSends(e, url) /\ e.value = c.value

RfcOrder(entries, url) ==
    LongestFirst(Keeping(entries, {i \in DOMAIN entries : RfcSends(entries[i], url)}))

(* identity.rs on cookie_header: "cookies with equal path lengths keep the
   order they were stored in, which is the RFC's earlier-first tiebreak", so
   that a server reading the first of a name reads what the browser sends. *)
FirstOfNameAgrees ==
    gap = "none" /\ unread = {} => \A url \in Urls :
        LET http == CookieHeader(jar, url, now)
            rfc  == RfcOrder(ideal, url)
        IN (http # <<>> /\ rfc # <<>> /\ Len(http) = Len(rfc)
                /\ (\A c \in Range(http) : ~Slashed(c.path))
                /\ ~url.host.dot /\ \A x, y \in Range(http) : x.name = y.name)
             => http[1].value = rfc[1].value
=============================================================================
