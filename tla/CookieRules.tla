---------------------------- MODULE CookieRules ----------------------------
(***************************************************************************)
(* The cookie rules of the HTTP leg (identity.rs) and the two conversions  *)
(* a cookie goes through on its way into and out of the browser            *)
(* (cdp/session.rs).                                                       *)
(*                                                                         *)
(* A host is its labels and whether it was written with a final dot; a     *)
(* path is its segments, "/" being <<"">> and "/a/" <<"a", "">>.  Letter   *)
(* case is left out: the code folds both sides of every comparison.  An    *)
(* expiry is a time in seconds here and in half seconds in the browser,    *)
(* whose float keeps the fraction.                                         *)
(***************************************************************************)
EXTENDS Vectors, FiniteSetsExt, SequencesExt

CONSTANTS IpLiterals,       \* is_ip_literal: labels that parse as an address
          PublicSuffixes,   \* is_public_suffix: what the Public Suffix List says
          Absent            \* an Option's None

ASSUME AbsentAssumption == Absent \notin Int

IsExpired(c, now) == c.expires # Absent /\ c.expires <= now

HostOnly(labels, dot) == [sub |-> FALSE, labels |-> labels, dot |-> dot]
Widened(labels, dot)  == [sub |-> TRUE, labels |-> labels, dot |-> dot]

(* The request's final dot is trimmed, the cookie's is not. *)
DomainMatches(domain, host) ==
    /\ ~domain.dot
    /\ IF domain.sub THEN IsSuffix(domain.labels, host.labels) ELSE domain.labels = host.labels

TrimEnd(path) == SubSeq(path, 1, Max({0} \cup {i \in DOMAIN path : path[i] # ""}))

PathMatches(cookie_path, request_path) == IsPrefix(TrimEnd(cookie_path), request_path)

CookieApplies(c, url) ==
    /\ c.secure => url.secure
    /\ DomainMatches(c.domain, url.host) /\ PathMatches(c.path, url.path)

(* The length of a path whose segments are a character long, or empty. *)
PathLen(path) == Len(path) + Cardinality({i \in DOMAIN path : path[i] # ""})

Applicable(cookies, url, now) ==
    Keeping(cookies, {i \in DOMAIN cookies : /\ ~IsExpired(cookies[i], now)
                                            /\ CookieApplies(cookies[i], url)})

(* Mutant: the cookies go out in the order of the jar. *)
CookieHeader_JarOrder(cookies, url, now) == Applicable(cookies, url, now)

(* Longer paths first. *)
LongestFirst(sent) == SortedBy(sent, [i \in DOMAIN sent |-> -PathLen(sent[i].path)])

CookieHeader(cookies, url, now) == LongestFirst(Applicable(cookies, url, now))

----------------------------------------------------------------------------
(* Set-Cookie.                                                             *)

Refuse == [kind |-> "refuse"]
KeepHost == [kind |-> "host"]

(* Mutant: nobody looks the suffix up. *)
DomainScope_AnySuffix(value, host) ==
    IF value.labels = <<>> THEN KeepHost
    ELSE IF host.labels \in IpLiterals
         THEN IF value = [host EXCEPT !.dot = FALSE] THEN KeepHost ELSE Refuse
    ELSE IF DomainMatches(Widened(value.labels, value.dot), host)
         THEN [kind |-> "widen", domain |-> Widened(value.labels, value.dot)]
    ELSE Refuse

(* domain_scope: steps 4 to 6 of RFC 6265, 5.3. *)
DomainScope(value, host) ==
    IF value.labels = <<>> THEN KeepHost
    ELSE IF host.labels \in IpLiterals \/ value.labels \in PublicSuffixes
         THEN IF value = [host EXCEPT !.dot = FALSE] THEN KeepHost ELSE Refuse
    ELSE IF DomainMatches(Widened(value.labels, value.dot), host)
         THEN [kind |-> "widen", domain |-> Widened(value.labels, value.dot)]
    ELSE Refuse

DefaultPath(path) == IF Len(path) = 1 THEN <<"">> ELSE Front(path)

(* Where a header has an attribute, and the value that was given last. *)
Given(header, key) == {i \in DOMAIN header.attributes : header.attributes[i].key = key}
LastValue(header, places, default) ==
    IF places = {} THEN default ELSE header.attributes[Max(places)].value

(* A nameless header, or one with a Domain that is refused, is no cookie. *)
ScopeAt(header, i, host) == DomainScope(header.attributes[i].value, host)
Widening(header, host) == {i \in Given(header, "domain") : ScopeAt(header, i, host).kind = "widen"}
IsCookie(header, host) ==
    /\ header.name # Absent
    /\ \A i \in Given(header, "domain") : ScopeAt(header, i, host).kind # "refuse"

(* The attributes are read in order, so the last one counts; a Path that is not
   absolute is skipped, and a Max-Age that is no number counts as none.  The
   expiry is still relative: anchor_max_age has the clock. *)
ParseSetCookie(header, host, path) ==
    LET widened  == Widening(header, host)
        absolute == {i \in Given(header, "path") : header.attributes[i].value # Absent}
        max_age  == LastValue(header, Given(header, "max-age"), Absent)
    IN [name |-> header.name, value |-> header.value,
        domain |-> IF widened = {} THEN HostOnly(host.labels, host.dot)
                   ELSE ScopeAt(header, Max(widened), host).domain,
        path |-> LastValue(header, absolute, DefaultPath(path)),
        expires |-> IF max_age = Absent THEN Absent ELSE IF max_age <= 0 THEN 0 ELSE max_age,
        secure |-> Given(header, "secure") # {}, http_only |-> Given(header, "httponly") # {},
        same_site |-> LastValue(header, Given(header, "samesite"), Absent)]

AnchorMaxAge(c, now) ==
    [c EXCEPT !.expires = IF @ = Absent THEN Absent ELSE IF @ = 0 THEN 0 ELSE now + @]

SameCookie(c, d) == c.name = d.name /\ c.domain = d.domain /\ c.path = d.path

(* absorb_cookies, for one header of a response: the namesake goes, and what
   the server just expired is not put in its place. *)
AbsorbCookies(jar, header, host, path, now) ==
    LET cookie == AnchorMaxAge(ParseSetCookie(header, host, path), now)
        others == Keeping(jar, {i \in DOMAIN jar : ~SameCookie(jar[i], cookie)})
    IN IF ~IsCookie(header, host) THEN jar
       ELSE IF IsExpired(cookie, now) THEN others ELSE Append(others, cookie)

(* StealthIdentity::set_cookies *)
SetCookies(cookies, now) == Keeping(cookies, {i \in DOMAIN cookies : ~IsExpired(cookies[i], now)})

----------------------------------------------------------------------------
(* The browser's form: expires in half seconds, -1 for a session cookie.   *)

(* Mutant: what is not a positive time is read as the beginning of time. *)
CookieFromCdp_Epoch(entry) ==
    [name |-> entry.name, value |-> entry.value, domain |-> entry.domain, path |-> entry.path,
     expires |-> IF entry.expires > 0 THEN entry.expires \div 2 ELSE 0,
     secure |-> entry.secure, http_only |-> entry.httpOnly, same_site |-> entry.sameSite]

CookieFromCdp(entry) ==
    [name |-> entry.name, value |-> entry.value, domain |-> entry.domain, path |-> entry.path,
     expires |-> IF entry.expires > 0 THEN entry.expires \div 2 ELSE Absent,
     secure |-> entry.secure, http_only |-> entry.httpOnly, same_site |-> entry.sameSite]

(* The expiry of a session cookie is left out, which the browser reads as -1. *)
CookieToCdp(c) ==
    [name |-> c.name, value |-> c.value, domain |-> c.domain, path |-> c.path,
     expires |-> IF c.expires = Absent THEN -1 ELSE 2 * c.expires,
     secure |-> c.secure, httpOnly |-> c.http_only, sameSite |-> c.same_site]
=============================================================================
