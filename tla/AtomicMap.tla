----------------------------- MODULE AtomicMap -----------------------------
(***************************************************************************)
(* What a StateStore that overrides update promises its callers: every     *)
(* call takes effect at one moment between its beginning and its end, or   *)
(* fails and has no effect.                                                *)
(***************************************************************************)
CONSTANTS Host, Threads, None,
          Request,           \* the calls of the port
          Effect(_, _),      \* what a call makes of the stored value
          Answer(_, _)       \* what it answers when it found the stored value

VARIABLES map,     \* host -> the stored value, None when there is none
          call     \* thread -> None, its pending call, or its call and answer

vars == <<map, call>>

Failed == [ok |-> FALSE, found |-> None]
Pending(r) == [request |-> r, done |-> FALSE, answer |-> Failed]
Done(r, a) == [request |-> r, done |-> TRUE, answer |-> a]

Init == map = [h \in Host |-> None] /\ call = [t \in Threads |-> None]

Call(t) == /\ call[t] = None
           /\ \E r \in Request : call' = [call EXCEPT ![t] = Pending(r)]
           /\ UNCHANGED map

TakeEffect(t) ==
    \E r \in Request :
        /\ call[t] = Pending(r)
        /\ map' = [map EXCEPT ![r.host] = Effect(r, @)]
        /\ call' = [call EXCEPT ![t] = Done(r, Answer(r, map[r.host]))]

Fail(t) == \E r \in Request :
              /\ call[t] = Pending(r)
              /\ call' = [call EXCEPT ![t] = Done(r, Failed)]
              /\ UNCHANGED map

Return(t) == /\ call[t] # None /\ call[t].done
             /\ call' = [call EXCEPT ![t] = None]
             /\ UNCHANGED map

(* The process dies: what had taken effect stays, every call is forgotten. *)
Crash == call' = [t \in Threads |-> None] /\ UNCHANGED map

Next == Crash \/ \E t \in Threads : Call(t) \/ TakeEffect(t) \/ Fail(t) \/ Return(t)

Spec == Init /\ [][Next]_vars
=============================================================================
