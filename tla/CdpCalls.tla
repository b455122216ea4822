------------------------------ MODULE CdpCalls ------------------------------
(***************************************************************************)
(* What a task that issues CDP calls is promised, with no ids, pipes or    *)
(* reader: a call ends at most once; an answer is the answer to that very  *)
(* call, is given at most once and never after the connection closed; a    *)
(* call is refused only by a closed connection and times out only if it    *)
(* has no answer.                                                          *)
(***************************************************************************)
EXTENDS Naturals

CONSTANTS Callers, None

VARIABLES busy,     \* which callers are inside a call
          round,    \* how many calls each has begun
          answer,   \* what its call has been resolved with, None before that
          result,   \* what its last call returned, None before it does
          open      \* the connection

vars == <<busy, round, answer, result, open>>

Init ==
    /\ busy   = [c \in Callers |-> FALSE]
    /\ round  = [c \in Callers |-> 0]
    /\ answer = [c \in Callers |-> None]
    /\ result = [c \in Callers |-> None]
    /\ open = TRUE

Begin(c) ==
    /\ ~busy[c]
    /\ busy' = [busy EXCEPT ![c] = TRUE]
    /\ round' = [round EXCEPT ![c] = @ + 1]
    /\ answer' = [answer EXCEPT ![c] = None]
    /\ result' = [result EXCEPT ![c] = None]
    /\ UNCHANGED open

Answer(c, kind) ==
    /\ open /\ busy[c] /\ answer[c] = None
    /\ answer' = [answer EXCEPT ![c] = [kind |-> kind, to |-> <<c, round[c]>>]]
    /\ UNCHANGED <<busy, round, result, open>>

(* The connection closes: the unanswered calls in S are failed with it. *)
Close(S) ==
    /\ open /\ open' = FALSE
    /\ \A c \in S : busy[c] /\ answer[c] = None
    /\ answer' = [c \in Callers |->
                    IF c \in S THEN [kind |-> "closed", to |-> None] ELSE answer[c]]
    /\ UNCHANGED <<busy, round, result>>

End(c, outcome) ==
    /\ busy[c]
    /\ busy' = [busy EXCEPT ![c] = FALSE]
    /\ result' = [result EXCEPT ![c] = outcome]
    /\ UNCHANGED <<round, answer, open>>

ReturnAnswer(c) == answer[c] # None /\ End(c, answer[c])
Refuse(c)       == ~open /\ End(c, [kind |-> "refused", to |-> None])
TimeOut(c)      == answer[c] = None /\ End(c, [kind |-> "timeout", to |-> None])
FailToSend(c)   == End(c, [kind |-> "unsent", to |-> None])
Abandon(c)      == End(c, None)

Next ==
    \/ \E c \in Callers :
          \/ Begin(c) \/ ReturnAnswer(c) \/ Refuse(c) \/ TimeOut(c)
          \/ FailToSend(c) \/ Abandon(c)
          \/ \E kind \in {"result", "cdp_error"} : Answer(c, kind)
    \/ \E S \in SUBSET Callers : Close(S)

Spec == Init /\ [][Next]_vars
=============================================================================
