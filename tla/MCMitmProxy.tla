----------------------------- MODULE MCMitmProxy -----------------------------
(* Three hosts for a cache of two, and one host that is refused. *)
EXTENDS MitmProxy
=============================================================================
