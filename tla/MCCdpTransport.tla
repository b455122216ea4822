--------------------------- MODULE MCCdpTransport ---------------------------
(* The finite instance of CdpTransport that TLC explores. *)
EXTENDS CdpTransport, TLC
=============================================================================
