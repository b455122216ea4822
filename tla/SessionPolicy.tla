--------------------------- MODULE SessionPolicy ---------------------------
(***************************************************************************)
(* When a session changes transport: cookies, the clearance among them,    *)
(* and SessionPolicy::decide (identity.rs).  A jar holds at most one       *)
(* cookie per name; domain and path are part of the name here.             *)
(***************************************************************************)
EXTENDS Naturals

CONSTANTS
    Names,       \* cookie names, Clearance among them
    Clearance,   \* cf_clearance
    Values,      \* cookie values
    Margin,      \* clearance_margin, in the unit of the clock
    None         \* no cookie, or no expiry

ASSUME PolicyAssumption == Clearance \in Names /\ Margin \in Nat /\ None \notin Nat

Cookie == [value : Values, expires : Nat \cup {None}]
Jar    == [Names -> Cookie \cup {None}]

ASSUME NoCookieAssumption == None \notin Cookie

IsExpired(cookie, now) == cookie.expires # None /\ cookie.expires <= now

(* remaining saturates at zero and is None for a session cookie. *)
Remaining(cookie, now) ==
    IF cookie.expires = None THEN None
    ELSE IF cookie.expires <= now THEN 0 ELSE cookie.expires - now

(* set_cookies keeps what has not expired. *)
Live(jar, now) ==
    [n \in Names |-> IF jar[n] # None /\ IsExpired(jar[n], now) THEN None ELSE jar[n]]

(* clearance looks for the name, on whatever host: the model has one of it. *)
HoldsClearance(jar, now) == jar[Clearance] # None /\ ~IsExpired(jar[Clearance], now)

(* Mutant: a clearance exactly a margin away from its end is not expiring. *)
Expiring_Strict(jar, now) ==
    /\ Remaining(jar[Clearance], now) # None
    /\ Remaining(jar[Clearance], now) < Margin

(* A held clearance is expiring when its end is no further than the margin. *)
Expiring(jar, now) ==
    /\ Remaining(jar[Clearance], now) # None
    /\ Remaining(jar[Clearance], now) <= Margin

DecideHttp(jar, require, challenged, now) ==
    IF challenged THEN "Escalate"
    ELSE IF HoldsClearance(jar, now)
         THEN IF Expiring(jar, now) THEN "Escalate" ELSE "Stay"
    ELSE IF require THEN "Escalate" ELSE "Stay"

DecideBrowser(jar, require, challenged, now) ==
    IF challenged THEN "Stay"
    ELSE IF HoldsClearance(jar, now)
         THEN IF Expiring(jar, now) THEN "Stay" ELSE "Demote"
    ELSE IF require THEN "Stay" ELSE "Demote"
=============================================================================
