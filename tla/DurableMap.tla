----------------------------- MODULE DurableMap -----------------------------
(***************************************************************************)
(* What a file-backed map promises.  The saved copy changes only by        *)
(* becoming the whole current map, so it is always one moment's map and    *)
(* never a mixture; only a power loss takes it back, and only to a copy    *)
(* that was saved before and that the disk may still hold.                 *)
(***************************************************************************)
CONSTANTS Host, Value

VARIABLES up,      \* a process has the map open
          map,     \* its map
          saved,   \* the copy on disk
          older    \* earlier copies a power loss can bring back

vars == <<up, map, saved, older>>

Init == /\ ~up
        /\ map \in [Host -> Value] /\ saved = map /\ older = {}

Open == /\ ~up /\ up' = TRUE
        /\ map' = saved
        /\ UNCHANGED <<saved, older>>

Change == /\ up
          /\ \E h \in Host, v \in Value : map' = [map EXCEPT ![h] = v]
          /\ UNCHANGED <<up, saved, older>>

Save == /\ up
        /\ saved' = map
        /\ older' = older \cup {saved}
        /\ UNCHANGED <<up, map>>

Settle == older' = {} /\ UNCHANGED <<up, map, saved>>

Crash == up /\ up' = FALSE /\ UNCHANGED <<map, saved, older>>

PowerLoss == /\ up' = FALSE
             /\ saved' \in older \cup {saved}
             /\ older' = {}
             /\ UNCHANGED map

Next == Open \/ Change \/ Save \/ Settle \/ Crash \/ PowerLoss

Spec == Init /\ [][Next]_vars
=============================================================================
