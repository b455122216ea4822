----------------------------- MODULE DomainState -----------------------------
(***************************************************************************)
(* What the scraper remembers of one host (state/model.rs): a value that   *)
(* record turns into the next one.  Clock values are the caller's.         *)
(***************************************************************************)
EXTENDS Naturals

CONSTANTS
    Proxy,      \* the (redacted) egress URLs an attempt can be recorded with
    Times,      \* bound: Unix times an outcome is recorded at
    Cooldown,   \* RATE_LIMIT_COOLDOWN, in the unit of Times
    MaxCount,   \* u32::MAX: where the tallies saturate
    MaxTime,    \* u64::MAX: where cooldown_until saturates
    None

Outcomes == {"Success", "Challenged", "Blocked", "RateLimited"}

DomainStates ==
    [last_outcome   : Outcomes \cup {None},
     last_proxy     : Proxy \cup {None},
     successes      : 0..MaxCount,
     failures       : 0..MaxCount,
     cooldown_until : (0..MaxTime) \cup {None},
     updated_at     : 0..MaxTime]

ASSUME ClockAssumption ==
    /\ MaxCount \in Nat /\ MaxTime \in Nat /\ Cooldown \in Nat
    /\ Times \subseteq 0..MaxTime
ASSUME NoRecordAssumption ==
    None \notin DomainStates /\ None \notin Outcomes /\ None \notin Proxy /\ None \notin Nat

New == [last_outcome |-> None, last_proxy |-> None, successes |-> 0, failures |-> 0,
        cooldown_until |-> None, updated_at |-> 0]

SaturatingAdd(a, b, max) == IF a + b <= max THEN a + b ELSE max

(* Mutant: an outcome other than a success leaves the old window standing. *)
Record_KeepsWindow(s, outcome, proxy, now) ==
    [s EXCEPT !.last_outcome = outcome, !.updated_at = now,
              !.cooldown_until = CASE outcome = "RateLimited" ->
                                        SaturatingAdd(now, Cooldown, MaxTime)
                                   [] outcome = "Blocked" -> @
                                   [] OTHER -> None]

(* record: proxy None keeps the last one; only a rate limit opens a window. *)
Record(s, outcome, proxy, now) ==
    [last_outcome   |-> outcome,
     last_proxy     |-> IF proxy # None THEN proxy ELSE s.last_proxy,
     successes      |-> IF outcome \in {"Success", "Challenged"}
                        THEN SaturatingAdd(s.successes, 1, MaxCount) ELSE s.successes,
     failures       |-> IF outcome \in {"RateLimited", "Blocked"}
                        THEN SaturatingAdd(s.failures, 1, MaxCount) ELSE s.failures,
     cooldown_until |-> IF outcome = "RateLimited"
                        THEN SaturatingAdd(now, Cooldown, MaxTime) ELSE None,
     updated_at     |-> now]

InCooldown(s, now) == s.cooldown_until # None /\ now < s.cooldown_until

(* checked_sub, then only a positive remainder counts. *)
CooldownRemaining(s, now) ==
    IF s.cooldown_until # None /\ s.cooldown_until >= now /\ s.cooldown_until - now > 0
    THEN s.cooldown_until - now ELSE None
=============================================================================
