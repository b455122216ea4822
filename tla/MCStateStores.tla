--------------------------- MODULE MCStateStores ---------------------------
(* Each adapter in turn, chosen in the initial state, with two threads on two
   hosts: two updates of one host meet, and a third call finds the mutex
   poisoned or the database opened again. *)
EXTENDS StateStores
=============================================================================
