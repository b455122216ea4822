---------------------------- MODULE CdpTransport ----------------------------
(***************************************************************************)
(* The CDP wire (cdp/transport.rs): tasks share one pair of pipes to the   *)
(* browser.  A call takes a fresh id, registers a oneshot for it, writes   *)
(* one NUL-terminated frame under the writer lock and waits, with a        *)
(* timeout, for the oneshot.  One reader task routes every reply to the    *)
(* oneshot registered under its id and, when the stream ends, fails        *)
(* everything still waiting.  A caller may be dropped at any await.        *)
(*                                                                         *)
(* The browser is external: it reads frames, answers them in any order or  *)
(* never, emits messages nobody asked for, and may exit at any moment.     *)
(***************************************************************************)
EXTENDS Naturals, Sequences

CONSTANTS
    Callers,        \* tasks that issue commands, one at a time each
    Cancellable,    \* the callers whose future may be dropped at an await
    MaxCalls,       \* bound: calls issued over the connection's life
    PipeCapacity,   \* bound: what either pipe holds before its writer blocks
    None            \* no call, an empty oneshot, no outcome yet

(* A call is its caller and the caller's own count of calls: unlike the id,
   it is not something the program computes, so it tells a caller's reply
   from everybody else's whatever ids were given out. *)
Call == Callers \X (1..MaxCalls)
Id   == 1..MaxCalls

Outcome == [kind : {"result", "cdp_error",             \* parse_reply
                    "closed", "refused",               \* close, register
                    "timeout", "unsent"},              \* gave up
            to   : Call \cup {None}]

Replies     == {"result", "cdp_error"}
Message == [kind : Replies, id : Id, to : Call]
             \cup [kind : {"other", "truncated"}, id : {0}, to : {None}]

(* A frame crosses the pipe in two pieces, the second ending in the NUL. *)
Chunk == [to : Call, id : Id, last : BOOLEAN]

(* A reply and the call whose waiter the reader took for it. *)
Routed == [kind : Replies, answers : Call, caller : Call]

ASSUME CallersAssumption == Cancellable \subseteq Callers
ASSUME BoundsAssumption  == MaxCalls \in Nat /\ PipeCapacity \in Nat \ {0}
ASSUME NoneAssumption    == None \notin Call /\ None \notin Outcome
                            /\ None \notin Routed /\ None \notin Callers

VARIABLES
    next_id,      \* AtomicU64: the id the next call takes
    pc,           \* where each caller is in call_in_session
    round,        \* how many calls each caller has begun
    id,           \* the id of each caller's current call
    slot,         \* the caller's oneshot receiver: None until something is sent
    result,       \* what the caller's last call returned
    waiting,      \* Pending.waiting: the call whose oneshot each id resolves
    closed,       \* Pending.closed
    writer,       \* the holder of the writer lock
    toBrowser,    \* chunks written and not yet assembled into a frame
    taken,        \* how many of them the browser has pulled out of the pipe
    work,         \* requests the browser has read and not answered
    fromBrowser,  \* messages in the pipe to the reader task
    browser,      \* "running" or "exited"
    reader,       \* the reader task: "reading", "sending", "ended", "aborted"
    inHand        \* the reply the reader took a waiter for and has not sent

callers == <<pc, round, id, slot, result>>
pending == <<waiting, closed>>
pipes   == <<toBrowser, taken, work, fromBrowser, browser>>
vars    == <<next_id, callers, pending, writer, pipes, reader, inHand>>

CurrentCall(c) == <<c, round[c]>>
InCall(c)      == pc[c] # "idle"
Calling(call)  == InCall(call[1]) /\ round[call[1]] = call[2]

Init ==
    /\ next_id = 1
    /\ pc     = [c \in Callers |-> "idle"]
    /\ round  = [c \in Callers |-> 0]
    /\ id     = [c \in Callers |-> 0]
    /\ slot   = [c \in Callers |-> None]
    /\ result = [c \in Callers |-> None]
    /\ waiting = [i \in Id |-> None]
    /\ closed = FALSE
    /\ writer = None
    /\ toBrowser = <<>> /\ taken = 0 /\ work = {} /\ fromBrowser = <<>>
    /\ browser = "running"
    /\ reader = "reading" /\ inHand = None

-----------------------------------------------------------------------------
(* call_in_session: one task's path through a call.                        *)

Go(c, to) == pc' = [pc EXCEPT ![c] = to]

Return(c, kind, to) ==
    /\ Go(c, "idle")
    /\ result' = [result EXCEPT ![c] = [kind |-> kind, to |-> to]]

(* Mutant: the id is loaded and never advanced. *)
Begin_Reuse(c) ==
    /\ pc[c] = "idle" /\ reader # "aborted"
    /\ round[c] < MaxCalls
    /\ id' = [id EXCEPT ![c] = next_id]
    /\ round' = [round EXCEPT ![c] = @ + 1]
    /\ slot' = [slot EXCEPT ![c] = None]
    /\ result' = [result EXCEPT ![c] = None]
    /\ Go(c, "register")
    /\ UNCHANGED <<next_id, pending, writer, pipes, reader, inHand>>

(* next_id.fetch_add(1), then the request is built. *)
Begin(c) ==
    /\ pc[c] = "idle" /\ reader # "aborted"
    /\ next_id <= MaxCalls
    /\ id' = [id EXCEPT ![c] = next_id]
    /\ next_id' = next_id + 1
    /\ round' = [round EXCEPT ![c] = @ + 1]
    /\ slot' = [slot EXCEPT ![c] = None]
    /\ result' = [result EXCEPT ![c] = None]
    /\ Go(c, "register")
    /\ UNCHANGED <<pending, writer, pipes, reader, inHand>>

(* Mutant: a call registers without looking at closed. *)
Register_Unchecked(c) ==
    /\ pc[c] = "register"
    /\ waiting' = [waiting EXCEPT ![id[c]] = CurrentCall(c)]
    /\ Go(c, "lock")
    /\ UNCHANGED <<next_id, round, id, slot, result, closed, writer, pipes, reader, inHand>>

(* register: refuses once closed is set, both under one lock of pending. *)
Register(c) ==
    /\ pc[c] = "register"
    /\ \/ /\ closed
          /\ Return(c, "refused", None)
          /\ UNCHANGED waiting
       \/ /\ ~closed
          /\ waiting' = [waiting EXCEPT ![id[c]] = CurrentCall(c)]
          /\ Go(c, "lock")
          /\ UNCHANGED result
    /\ UNCHANGED <<next_id, round, id, slot, closed, writer, pipes, reader, inHand>>

(* Mutant: two calls write at once. *)
AcquireWriter_Shared(c) ==
    /\ pc[c] = "lock"
    /\ writer' = c
    /\ Go(c, "head")
    /\ UNCHANGED <<next_id, round, id, slot, result, pending, pipes, reader, inHand>>

(* write_frame: writer.lock().await. *)
AcquireWriter(c) ==
    /\ pc[c] = "lock" /\ writer = None
    /\ writer' = c
    /\ Go(c, "head")
    /\ UNCHANGED <<next_id, round, id, slot, result, pending, pipes, reader, inHand>>

(* write_all puts the frame into the pipe piece by piece, waiting while the
   pipe is full; the piece that ends the frame releases the lock. *)
WriteChunk(c) ==
    /\ pc[c] \in {"head", "tail"}
    /\ browser = "running" /\ Len(toBrowser) - taken < PipeCapacity
    /\ toBrowser' = Append(toBrowser, [to |-> CurrentCall(c), id |-> id[c],
                                       last |-> pc[c] = "tail"])
    /\ Go(c, IF pc[c] = "head" THEN "tail" ELSE "await")
    /\ writer' = IF pc[c] = "head" THEN writer ELSE None
    /\ UNCHANGED <<next_id, round, id, slot, result, pending, taken, work,
                   fromBrowser, browser, reader, inHand>>

(* The browser's end of the pipe is gone: write_all or flush fails. *)
WriteFails(c) ==
    /\ pc[c] \in {"head", "tail"} /\ browser = "exited"
    /\ writer' = None
    /\ Go(c, "unsent")
    /\ UNCHANGED <<next_id, round, id, slot, result, pending, pipes, reader, inHand>>

(* The oneshot resolved: timeout() polls it before its own timer. *)
Receive(c) ==
    /\ pc[c] = "await" /\ slot[c] # None
    /\ Return(c, slot[c].kind, slot[c].to)
    /\ UNCHANGED <<next_id, round, id, slot, pending, writer, pipes, reader, inHand>>

(* Mutant: no bound on the wait for a reply. *)
Expire_Never(c) == FALSE

(* The timer fires on an unresolved oneshot, which is dropped with it. *)
Expire(c) ==
    /\ pc[c] = "await" /\ slot[c] = None
    /\ Go(c, "timeout")
    /\ UNCHANGED <<next_id, round, id, slot, result, pending, writer, pipes,
                   reader, inHand>>

(* Both error paths take the waiter back before returning. *)
TakeBack(c) == waiting' = [waiting EXCEPT ![id[c]] = None]

GiveUp(c) ==
    /\ pc[c] \in {"unsent", "timeout"}
    /\ TakeBack(c)
    /\ Return(c, pc[c], None)
    /\ UNCHANGED <<next_id, round, id, slot, closed, writer, pipes, reader, inHand>>

(* The caller drops its future at one of the three awaits: the writer guard
   goes with it, and nothing removes the waiter. *)
Cancel(c) ==
    /\ c \in Cancellable
    /\ pc[c] \in {"lock", "head", "tail", "await"}
    /\ Go(c, "idle")
    /\ writer' = IF writer = c THEN None ELSE writer
    /\ UNCHANGED <<next_id, round, id, slot, result, pending, pipes, reader, inHand>>

-----------------------------------------------------------------------------
(* read_loop, dispatch and close: the one reader task.                     *)

ReadMessage ==
    /\ reader = "reading" /\ fromBrowser # <<>>
    /\ fromBrowser' = Tail(fromBrowser)

(* A reply is addressed by its id alone; its waiter is removed under the
   lock and resolved after it. *)
Dispatch ==
    /\ ReadMessage
    /\ LET m == Head(fromBrowser)
       IN  /\ m.kind \in Replies /\ waiting[m.id] # None
           /\ inHand' = [kind |-> m.kind, answers |-> m.to, caller |-> waiting[m.id]]
           /\ waiting' = [waiting EXCEPT ![m.id] = None]
    /\ reader' = "sending"
    /\ UNCHANGED <<next_id, callers, closed, writer, toBrowser, taken, work, browser>>

(* A reply nobody waits for is dropped; an event goes to the broadcast
   channel, and what is neither, or is not JSON, nowhere: none of them
   touches a pending call. *)
Ignore ==
    /\ ReadMessage
    /\ LET m == Head(fromBrowser)
       IN  m.kind = "other" \/ (m.kind \in Replies /\ waiting[m.id] = None)
    /\ UNCHANGED <<next_id, callers, pending, writer, toBrowser, taken, work,
                   browser, reader, inHand>>

(* reply.send: lost when the receiver was dropped meanwhile. *)
Send ==
    /\ reader = "sending"
    /\ LET c == inHand.caller[1]
       IN  slot' = IF Calling(inHand.caller) /\ pc[c] # "timeout"
                   THEN [slot EXCEPT ![c] = [kind |-> inHand.kind, to |-> inHand.answers]]
                   ELSE slot
    /\ reader' = "reading" /\ inHand' = None
    /\ UNCHANGED <<next_id, pc, round, id, result, pending, writer, pipes>>

(* close: the reason is recorded and every waiter drained under one lock. *)
Close ==
    /\ closed' = TRUE
    /\ waiting' = [i \in Id |-> None]
    /\ slot' = [c \in Callers |->
                  IF \E i \in Id : waiting[i] # None /\ waiting[i] = CurrentCall(c)
                                   /\ Calling(waiting[i]) /\ pc[c] # "timeout"
                  THEN [kind |-> "closed", to |-> None] ELSE slot[c]]

(* read_until returns 0, a frame without its terminator, or an error. *)
StreamEnds ==
    /\ reader = "reading"
    /\ \/ browser = "exited" /\ fromBrowser = <<>>
       \/ fromBrowser # <<>> /\ Head(fromBrowser).kind = "truncated"
    /\ Close
    /\ reader' = "ended"
    /\ UNCHANGED <<next_id, pc, round, id, result, writer, pipes, inHand>>

ReadFails ==
    /\ reader = "reading"
    /\ Close
    /\ reader' = "ended"
    /\ UNCHANGED <<next_id, pc, round, id, result, writer, pipes, inHand>>

(* Drop for Inner, with the last handle: no call can be in progress, the
   reader is aborted and the browser this transport launched is killed. *)
DropTransport ==
    /\ \A c \in Callers : ~InCall(c)
    /\ reader # "aborted"
    /\ reader' = "aborted" /\ inHand' = None
    /\ browser' = "exited" /\ toBrowser' = <<>> /\ taken' = 0 /\ work' = {}
    /\ UNCHANGED <<next_id, callers, pending, writer, fromBrowser>>

-----------------------------------------------------------------------------
(* The browser, as far as this end of the pipes can tell (external).       *)

WellFormed(frame) == Len(frame) = 2 /\ frame[1].to = frame[2].to

BrowserReads ==
    /\ browser = "running" /\ taken < Len(toBrowser)
    /\ LET chunk == toBrowser[taken + 1]
           frame == SubSeq(toBrowser, 1, taken + 1)
       IN  IF chunk.last
           THEN /\ taken' = 0
                /\ toBrowser' = SubSeq(toBrowser, taken + 2, Len(toBrowser))
                /\ work' = IF WellFormed(frame)
                           THEN work \cup {[id |-> chunk.id, to |-> chunk.to]}
                           ELSE work
           ELSE taken' = taken + 1 /\ UNCHANGED <<toBrowser, work>>
    /\ UNCHANGED <<next_id, callers, pending, writer, fromBrowser, browser,
                   reader, inHand>>

BrowserSends(m) ==
    /\ browser = "running" /\ Len(fromBrowser) < PipeCapacity
    /\ fromBrowser' = Append(fromBrowser, m)
    /\ UNCHANGED <<next_id, callers, pending, writer, toBrowser, taken, browser,
                   reader, inHand>>

BrowserReplies(r, kind) ==
    /\ BrowserSends([kind |-> kind, id |-> r.id, to |-> r.to])
    /\ work' = work \ {r}

(* An event, a message with neither id nor method, bytes that are not JSON. *)
BrowserSpeaks ==
    /\ BrowserSends([kind |-> "other", id |-> 0, to |-> None])
    /\ UNCHANGED work

(* It exits, perhaps in the middle of a message; what it had written stays
   readable, what it had not read is gone. *)
BrowserExits ==
    /\ browser = "running"
    /\ browser' = "exited"
    /\ fromBrowser' \in {fromBrowser,
                         Append(fromBrowser, [kind |-> "truncated", id |-> 0, to |-> None])}
    /\ toBrowser' = <<>> /\ taken' = 0 /\ work' = {}
    /\ UNCHANGED <<next_id, callers, pending, writer, reader, inHand>>

-----------------------------------------------------------------------------
CallerStep(c) ==
    \/ Register(c) \/ AcquireWriter(c) \/ WriteChunk(c) \/ WriteFails(c)
    \/ Receive(c) \/ Expire(c) \/ GiveUp(c)

ReaderStep ==
    \/ Dispatch \/ Ignore \/ Send \/ StreamEnds

Terminated == reader = "aborted" /\ UNCHANGED vars

Next ==
    \/ \E c \in Callers : Begin(c) \/ CallerStep(c) \/ Cancel(c)
    \/ ReaderStep
    \/ ReadFails
    \/ DropTransport
    \/ BrowserReads
    \/ \E r \in work, kind \in Replies : BrowserReplies(r, kind)
    \/ BrowserSpeaks
    \/ BrowserExits
    \/ Terminated

Spec == Init /\ [][Next]_vars

(* Every task the runtime polls makes progress; the writer lock is tokio's
   FIFO mutex, so a waiter that keeps finding it free does get it.  The
   browser is only assumed to drain its pipe: it need not answer. *)
Fairness ==
    /\ \A c \in Callers : WF_vars(CallerStep(c)) /\ SF_vars(AcquireWriter(c))
    /\ WF_vars(ReaderStep)
    /\ WF_vars(BrowserReads)

FairSpec == Spec /\ Fairness

-----------------------------------------------------------------------------
TypeOK ==
    /\ next_id \in 1..(MaxCalls + 1)
    /\ pc \in [Callers -> {"idle", "register", "lock", "head", "tail", "await",
                           "unsent", "timeout"}]
    /\ round \in [Callers -> 0..MaxCalls]
    /\ id \in [Callers -> 0..MaxCalls]
    /\ slot \in [Callers -> Outcome \cup {None}]
    /\ result \in [Callers -> Outcome \cup {None}]
    /\ waiting \in [Id -> Call \cup {None}]
    /\ closed \in BOOLEAN
    /\ writer \in Callers \cup {None}
    /\ toBrowser \in Seq(Chunk) /\ taken \in 0..Len(toBrowser)
    /\ work \subseteq [id : Id, to : Call]
    /\ fromBrowser \in Seq(Message)
    /\ browser \in {"running", "exited"}
    /\ reader \in {"reading", "sending", "ended", "aborted"}
    /\ inHand \in Routed \cup {None}

Registered(c) == pc[c] \in {"lock", "head", "tail", "await"}

(* A call that returns the browser's answer returns the answer to itself,
   whatever order the replies come in and however late: dispatch routes by
   id, and an id is never given to a second call. *)
OwnReply ==
    \A c \in Callers : result[c] # None /\ result[c].kind \in Replies
                        => result[c].to = CurrentCall(c)

(* Whoever is registered and has nothing in its oneshot can still be
   resolved: its waiter is in the map, or the reader has it in hand.  Were it
   in neither place, only the timeout could end the call. *)
NobodyStranded ==
    \A c \in Callers : Registered(c) /\ slot[c] = None =>
        \/ waiting[id[c]] = CurrentCall(c)
        \/ inHand # None /\ inHand.caller = CurrentCall(c)

(* Once the stream has ended nothing waits for a reply that cannot arrive:
   no waiter is left, and a call that had registered holds its error, even
   one still queueing for the writer. *)
ClosedFailsEveryCall ==
    closed => /\ \A i \in Id : waiting[i] = None
              /\ \A c \in Callers : Registered(c) => slot[c] # None

(* A call that has returned left no waiter behind, on any path; the only
   waiters without a caller are those of calls dropped at an await. *)
NoWaiterOutlivesItsCall ==
    \A i \in Id : waiting[i] # None =>
        LET c == waiting[i][1]
        IN  IF waiting[i][2] = round[c]
            THEN InCall(c) \/ (c \in Cancellable /\ result[c] = None)
            ELSE c \in Cancellable

(* call_in_session, dispatch and close together: every call ends with its own
   reply or an error, and leaves nothing behind. *)
RepliesReachTheirCalls ==
    OwnReply /\ NobodyStranded /\ ClosedFailsEveryCall /\ NoWaiterOutlivesItsCall

(* Between two pieces of one frame no other call's bytes enter the pipe,
   unless the call that began the frame was dropped in the middle of it. *)
OnlyCancellationTears ==
    \A i \in 1..(Len(toBrowser) - 1) :
        ~toBrowser[i].last /\ toBrowser[i + 1].to # toBrowser[i].to
            => toBrowser[i].to[1] \in Cancellable

(* "Serialises writes so two concurrent calls cannot interleave bytes within
   a frame" (the writer field of Inner). *)
FramesNeverInterleave ==
    \A i \in 1..(Len(toBrowser) - 1) :
        ~toBrowser[i].last => toBrowser[i + 1].to[1] = toBrowser[i].to[1]

(* Every call ends, with a reply or an error: a lost reply by the timeout, a
   dead browser by close or by the failing write. *)
EveryCallReturns == \A c \in Callers : InCall(c) ~> ~InCall(c)

(* The transport implements the calls of CdpCalls: what the ids, the map, the
   reader's two-step dispatch and the pipes add is invisible to a caller. *)
Calls == INSTANCE CdpCalls WITH
            busy <- [c \in Callers |-> InCall(c)], answer <- slot, open <- ~closed

ImplementsCalls == Calls!Spec
=============================================================================
