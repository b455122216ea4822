---------------------------- MODULE MCJsonStore ----------------------------
(* The store on two hosts and two threads: enough for a flush of one host to
   be killed or to fail while another host's promise stands, and for two
   threads to want the mutex at once.  Three mutations reach a failed remove
   of a stored record and its retry. *)
EXTENDS JsonStore
=============================================================================
