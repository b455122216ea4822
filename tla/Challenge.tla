----------------------------- MODULE Challenge -----------------------------
(***************************************************************************)
(* What a response is taken for and what is done about it: the pure        *)
(* functions of challenge/detect.rs and challenge/mitigation.rs.           *)
(*                                                                         *)
(* A body is the set of marker families found in it (each family is one    *)
(* table of substrings in detect.rs); of the headers only what detection   *)
(* reads is kept.                                                          *)
(***************************************************************************)
EXTENDS Naturals

Markers == {"cloudflare", "rate", "denied", "turnstile", "interstitial", "iuam"}

Kinds == {"None", "IuamV1", "JsChallenge", "Turnstile", "AccessDenied",
          "RateLimited", "Unknown"}

(* limited: status 429.  edge: Server names Cloudflare or cf-ray is there. *)
DetectionInput == [limited   : BOOLEAN,
                   edge      : BOOLEAN,
                   mitigated : {"absent", "challenge", "other"},
                   body      : SUBSET Markers]

(* The rendered DOM carries no status and no headers. *)
FromBody(body) == [limited |-> FALSE, edge |-> FALSE, mitigated |-> "absent", body |-> body]

IsCloudflare(in) == in.edge \/ in.mitigated # "absent" \/ "cloudflare" \in in.body

(* What each family of tests asks for; they are tried in the order below. *)
SaysRateLimited(in)  == in.limited \/ (IsCloudflare(in) /\ "rate" \in in.body)
SaysAccessDenied(in) == IsCloudflare(in) /\ "denied" \in in.body
SaysChallenge(in)    == in.mitigated = "challenge" \/ "interstitial" \in in.body

Detect(in) ==
    IF SaysRateLimited(in) THEN "RateLimited"
    ELSE IF SaysAccessDenied(in) THEN "AccessDenied"
    ELSE IF SaysChallenge(in) THEN IF "turnstile" \in in.body THEN "Turnstile" ELSE "JsChallenge"
    ELSE IF "iuam" \in in.body THEN "IuamV1"
    ELSE "None"

IsChallenge(kind) == kind # "None"

(* MitigationPolicy::decide.  The attempt number that goes with Wait and
   RotateProxy is always attempt + 1. *)
Decide(kind, attempt, max_attempts, can_rotate) ==
    IF kind = "None" THEN "Proceed"
    ELSE IF attempt >= max_attempts THEN "Fail"
    ELSE IF kind # "AccessDenied" THEN "Wait"
    ELSE IF can_rotate THEN "RotateProxy"
    ELSE "Fail"
=============================================================================
