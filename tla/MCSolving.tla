----------------------------- MODULE MCSolving -----------------------------
(* Two endpoints, one per locale; the direct connection has none.            *)
EXTENDS Solving

MCLocaleOf == [p \in Proxies |-> IF p = 1 THEN "fr" ELSE "de"]

(* A clear page, a hard block and an interstitial with its widget. *)
MCBodies == {{}, {"cloudflare", "denied"}, {"cloudflare", "interstitial", "turnstile"}}
=============================================================================
