-------------------------- MODULE MCStealthSession --------------------------
EXTENDS StealthSession

Answer(limited, edge, mitigated, body) ==
    [limited |-> limited, edge |-> edge, mitigated |-> mitigated, body |-> body]

(* Content, content served by Cloudflare with a widget in it, a challenge. *)
MCResponses == {Answer(FALSE, FALSE, "absent", {}),
                Answer(FALSE, TRUE, "absent", {"cloudflare", "turnstile"}),
                Answer(FALSE, TRUE, "challenge", {"turnstile"})}

(* No cookie, or a clearance that is about to run out. *)
MCSavedJars == {EmptyJar,
                [EmptyJar EXCEPT ![Clearance] = [value |-> 1, expires |-> 2]]}

MCValues == 1..MaxIssue
=============================================================================
