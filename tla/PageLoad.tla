------------------------------ MODULE PageLoad ------------------------------
(***************************************************************************)
(* Waiting for a page to load (cdp/session.rs).  Tasks drive the pages of  *)
(* one browser with navigate_and_wait and reload_and_wait: subscribe to    *)
(* the event channel, enable the Page domain if nobody has, send the       *)
(* command, wait for this page's load event or the timeout.                *)
(*                                                                         *)
(* The transport is what CdpCalls promises of it: a call returns its own   *)
(* reply or fails.  Replies and events reach the program over one pipe, in *)
(* order; its reader resolves the former and publishes the latter.  A      *)
(* receiver of the broadcast channel sees the last Capacity events it has  *)
(* not read: its part of the ring is a queue that drops its oldest entry.  *)
(*                                                                         *)
(* A page counts its documents, so that a load tells whose it is.  The     *)
(* program cannot see that count.  The browser need not answer: one that   *)
(* has died is one that does nothing more.                                 *)
(***************************************************************************)
EXTENDS Naturals, Sequences

CONSTANTS
    Tasks,      \* callers of the two operations
    Pages,      \* attached pages
    Capacity,   \* EVENT_CHANNEL_CAPACITY
    MaxCalls,   \* bound: operations begun, by all tasks together
    MaxDocs,    \* bound: documents of one page
    None

ASSUME CapacityAssumption == Capacity \in Nat \ {0}
ASSUME BoundsAssumption == MaxCalls \in Nat /\ MaxDocs \in Nat \ {0}

VARIABLES
    pc,        \* where each task is in its operation
    at,        \* the page it drives
    call,      \* the number of its operation
    queue,     \* events it has yet to receive
    lagged,    \* whether its receiver dropped some
    answered,  \* whether its pending call has its answer
    result,    \* how its last operation ended
    begun,     \* operations begun so far
    enabled,   \* pages whose Page domain the program has recorded as enabled
    lock,      \* the task holding a page's `enabled` mutex
    commands,  \* the pipe to the browser
    wire,      \* the pipe from the browser
    emits,     \* pages whose Page domain is enabled in the browser
    doc,       \* the document each page shows
    loaded,    \* the last document it finished loading
    mine,      \* history: the document a task's command began
    stray      \* history: pages that may load without the task waiting for it

op == <<at, call, begun>>
program == <<pc, op, queue, lagged, answered, result, enabled, lock>>
browser == <<emits, doc, loaded, mine>>
vars == <<program, commands, wire, browser, stray>>

Command(t, m) == [task |-> t, call |-> call[t], method |-> m, page |-> at[t]]
Reply(c)      == [kind |-> "reply", to |-> c]
LoadEvent(p)  == [kind |-> "load", page |-> p, doc |-> doc[p]]

Commands == [task : Tasks, call : 1..MaxCalls, method : {"enable", "load"}, page : Pages]
Loads    == [kind : {"load"}, page : Pages, doc : 0..MaxDocs]
Replies  == [kind : {"reply"}, to : Commands]
Results  == {"failed", "own", "other"}  \* Ok with the load asked for, or with another

ASSUME NoneAssumption == None \notin Tasks \cup Pages \cup Results

TypeOK ==
    /\ pc \in [Tasks -> {"idle", "lock", "enable", "trigger", "load", "wait"}]
    /\ at \in [Tasks -> Pages \cup {None}]
    /\ call \in [Tasks -> 0..MaxCalls]
    /\ begun \in 0..MaxCalls
    /\ queue \in [Tasks -> Seq(Loads)]
    /\ \A t \in Tasks : Len(queue[t]) <= Capacity
    /\ lagged \in [Tasks -> BOOLEAN]
    /\ answered \in [Tasks -> BOOLEAN]
    /\ result \in [Tasks -> Results \cup {None}]
    /\ enabled \subseteq Pages
    /\ lock \in [Pages -> Tasks \cup {None}]
    /\ commands \in Seq(Commands)
    /\ wire \in Seq(Loads \cup Replies)
    /\ emits \subseteq Pages
    /\ doc \in [Pages -> 0..MaxDocs]
    /\ loaded \in [Pages -> 0..MaxDocs]
    /\ mine \in [Tasks -> 0..MaxDocs]
    /\ stray \subseteq Pages

(* A page is attached when its target exists already: its first document   *)
(* (number 1) may still be loading.                                        *)
Init ==
    /\ pc = [t \in Tasks |-> "idle"]
    /\ at = [t \in Tasks |-> None]
    /\ call = [t \in Tasks |-> 0]
    /\ begun = 0
    /\ queue = [t \in Tasks |-> <<>>]
    /\ lagged = [t \in Tasks |-> FALSE]
    /\ answered = [t \in Tasks |-> FALSE]
    /\ result = [t \in Tasks |-> None]
    /\ enabled = {}
    /\ lock = [p \in Pages |-> None]
    /\ commands = <<>>
    /\ wire = <<>>
    /\ emits = {}
    /\ doc = [p \in Pages |-> 1]
    /\ loaded \in [Pages -> {0, 1}]
    /\ mine = [t \in Tasks |-> 0]
    /\ stray = {p \in Pages : loaded[p] = 0}

-----------------------------------------------------------------------------
(* The caller *)

Busy(t) == pc[t] # "idle"

(* watch_load subscribes first.  Two operations on one page at a time see  *)
(* each other's loads: the page is astray.                                 *)
Begin(t, p) ==
    /\ pc[t] = "idle" /\ begun < MaxCalls
    /\ pc' = [pc EXCEPT ![t] = "lock"]
    /\ at' = [at EXCEPT ![t] = p]
    /\ begun' = begun + 1
    /\ call' = [call EXCEPT ![t] = begun']
    /\ result' = [result EXCEPT ![t] = None]
    /\ stray' = IF \E u \in Tasks : Busy(u) /\ at[u] = p THEN stray \cup {p} ELSE stray
    /\ UNCHANGED <<queue, lagged, answered, enabled, lock, commands, wire, browser>>

(* Sending a command and awaiting its reply. *)
Sends(t, m) ==
    /\ pc' = [pc EXCEPT ![t] = m]
    /\ commands' = Append(commands, Command(t, m))

(* The reply is taken out of its channel. *)
Takes(t) == answered' = [answered EXCEPT ![t] = FALSE]

(* The operation returns and its receiver is dropped.  Without success its *)
(* load may still come.                                                    *)
Returns(t, how) ==
    /\ pc' = [pc EXCEPT ![t] = "idle"]
    /\ result' = [result EXCEPT ![t] = how]
    /\ queue' = [queue EXCEPT ![t] = <<>>]
    /\ lagged' = [lagged EXCEPT ![t] = FALSE]
    /\ mine' = [mine EXCEPT ![t] = 0]
    /\ stray' = IF how = "failed" THEN stray \cup {at[t]} ELSE stray

(* The domain is enabled already: the mutex is held for the look only. *)
AlreadyEnabled(t) ==
    /\ pc[t] = "lock" /\ lock[at[t]] = None /\ at[t] \in enabled
    /\ pc' = [pc EXCEPT ![t] = "trigger"]
    /\ UNCHANGED <<op, queue, lagged, answered, result, enabled, lock, commands, wire, browser, stray>>

(* MUTANT: the domain is recorded before the browser has answered. *)
Enable_Eager(t) ==
    /\ pc[t] = "lock" /\ lock[at[t]] = None /\ at[t] \notin enabled
    /\ Sends(t, "enable")
    /\ enabled' = enabled \cup {at[t]}
    /\ UNCHANGED <<op, queue, lagged, answered, result, lock, wire, browser, stray>>

Enable(t) ==
    /\ pc[t] = "lock" /\ lock[at[t]] = None /\ at[t] \notin enabled
    /\ lock' = [lock EXCEPT ![at[t]] = t]
    /\ Sends(t, "enable")
    /\ UNCHANGED <<op, queue, lagged, answered, result, enabled, wire, browser, stray>>

Released(t) == [p \in Pages |-> IF lock[p] = t THEN None ELSE lock[p]]

Enabled(t) ==
    /\ pc[t] = "enable" /\ answered[t]
    /\ enabled' = enabled \cup {at[t]}
    /\ lock' = Released(t)
    /\ pc' = [pc EXCEPT ![t] = "trigger"]
    /\ Takes(t)
    /\ UNCHANGED <<op, queue, lagged, result, commands, wire, browser, stray>>

(* MUTANT: the task subscribes only when its command was accepted. *)
Accepted_Subscribes(t) ==
    /\ pc[t] = "load" /\ answered[t]
    /\ pc' = [pc EXCEPT ![t] = "wait"]
    /\ queue' = [queue EXCEPT ![t] = <<>>]
    /\ Takes(t)
    /\ UNCHANGED <<op, lagged, result, enabled, lock, commands, wire, browser, stray>>

(* Page.navigate or Page.reload. *)
Trigger(t) ==
    /\ pc[t] = "trigger"
    /\ Sends(t, "load")
    /\ UNCHANGED <<op, queue, lagged, answered, result, enabled, lock, wire, browser, stray>>

Accepted(t) ==
    /\ pc[t] = "load" /\ answered[t]
    /\ pc' = [pc EXCEPT ![t] = "wait"]
    /\ Takes(t)
    /\ UNCHANGED <<op, queue, lagged, result, enabled, lock, commands, wire, browser, stray>>

(* Either call fails: refused, reported as failed in its result, timed out *)
(* or cut off with the connection.  The guard is dropped.                  *)
CallFails(t) ==
    /\ pc[t] \in {"enable", "load"} /\ ~answered[t]
    /\ Returns(t, "failed") /\ Takes(t)
    /\ lock' = Released(t)
    /\ UNCHANGED <<op, enabled, commands, wire, emits, doc, loaded>>

(* MUTANT: any page's load will do. *)
IsOwn_Any(t, e) == e.kind = "load"

IsOwn(t, e) == e.page = at[t]

(* LoadWatcher::wait.  A Lagged error changes nothing: the loop goes on    *)
(* with the oldest event that is left.  Closed cannot happen here, since   *)
(* the page that is waited for keeps the sender of the channel alive.      *)
Receive(t) ==
    /\ pc[t] = "wait" /\ queue[t] # <<>>
    /\ LET e == Head(queue[t]) IN
         \/ /\ IsOwn(t, e)
            /\ Returns(t, IF e.doc = mine[t] THEN "own" ELSE "other")
         \/ /\ ~IsOwn(t, e)
            /\ queue' = [queue EXCEPT ![t] = Tail(@)]
            /\ UNCHANGED <<pc, lagged, result, mine, stray>>
    /\ UNCHANGED <<op, answered, enabled, lock, commands, wire, emits, doc, loaded>>

(* The timeout around the wait.  Events may be left in the queue: the wait *)
(* is polled first, but it may have used up its share of the poll.         *)
Expire(t) ==
    /\ pc[t] = "wait"
    /\ Returns(t, "failed")
    /\ UNCHANGED <<op, answered, enabled, lock, commands, wire, emits, doc, loaded>>

-----------------------------------------------------------------------------
(* The reader task of the transport *)

Pending(c) == pc[c.task] = c.method /\ call[c.task] = c.call /\ ~answered[c.task]

ReadReply ==
    /\ wire # <<>> /\ Head(wire).kind = "reply"
    /\ wire' = Tail(wire)
    /\ LET c == Head(wire).to IN
         answered' = [answered EXCEPT ![c.task] = @ \/ Pending(c)]
    /\ UNCHANGED <<pc, op, queue, lagged, result, enabled, lock, commands, browser, stray>>

Full(t) == Len(queue[t]) = Capacity

(* Publishing to every receiver there is; a full one loses its oldest. *)
Publish ==
    /\ wire # <<>> /\ Head(wire).kind = "load"
    /\ wire' = Tail(wire)
    /\ queue' = [t \in Tasks |->
                   IF ~Busy(t) THEN queue[t]
                   ELSE Append(IF Full(t) THEN Tail(queue[t]) ELSE queue[t], Head(wire))]
    /\ lagged' = [t \in Tasks |-> lagged[t] \/ (Busy(t) /\ Full(t))]
    /\ UNCHANGED <<pc, op, answered, result, enabled, lock, commands, browser, stray>>

-----------------------------------------------------------------------------
(* The browser, external *)

HandleEnable ==
    /\ commands # <<>> /\ Head(commands).method = "enable"
    /\ commands' = Tail(commands)
    /\ emits' = emits \cup {Head(commands).page}
    /\ wire' = Append(wire, Reply(Head(commands)))
    /\ UNCHANGED <<program, doc, loaded, mine, stray>>

Navigated(p) == [doc EXCEPT ![p] = @ + 1]

(* The command begins a new document, which ends the load of the old one. *)
HandleLoad ==
    /\ commands # <<>> /\ Head(commands).method = "load"
    /\ LET c == Head(commands) IN
         /\ doc[c.page] < MaxDocs
         /\ doc' = Navigated(c.page)
         /\ mine' = IF Pending(c) THEN [mine EXCEPT ![c.task] = doc'[c.page]] ELSE mine
         /\ wire' = Append(wire, Reply(c))
    /\ commands' = Tail(commands)
    /\ UNCHANGED <<program, emits, loaded, stray>>

(* An error answer, which the caller sees as any other failure: CallFails. *)
Refuse ==
    /\ commands # <<>>
    /\ commands' = Tail(commands)
    /\ UNCHANGED <<program, wire, browser, stray>>

(* The load event is sent only if the domain is enabled. *)
FinishLoad(p) ==
    /\ loaded[p] < doc[p]
    /\ loaded' = [loaded EXCEPT ![p] = doc[p]]
    /\ wire' = IF p \in emits THEN Append(wire, LoadEvent(p)) ELSE wire
    /\ UNCHANGED <<program, commands, emits, doc, mine, stray>>

(* A script or a redirect moves the page on, as an interstitial does. *)
PageMoves(p) ==
    /\ doc[p] < MaxDocs
    /\ doc' = Navigated(p)
    /\ stray' = stray \cup {p}
    /\ UNCHANGED <<program, commands, wire, emits, loaded, mine>>

-----------------------------------------------------------------------------
Reader == ReadReply \/ Publish

Locks(t) == AlreadyEnabled(t) \/ Enable(t)

Proceeds(t) == Enabled(t) \/ Trigger(t) \/ Accepted(t) \/ CallFails(t) \/ Receive(t) \/ Expire(t)

Browser ==
    \/ HandleEnable
    \/ HandleLoad
    \/ Refuse
    \/ \E p \in Pages : FinishLoad(p) \/ PageMoves(p)

(* The history is at its bound. *)
Terminated ==
    /\ begun = MaxCalls /\ \A t \in Tasks : ~Busy(t)
    /\ UNCHANGED vars

Next ==
    \/ \E t \in Tasks : (\E p \in Pages : Begin(t, p)) \/ Locks(t) \/ Proceeds(t)
    \/ Reader
    \/ Browser
    \/ Terminated

Spec == Init /\ [][Next]_vars

-----------------------------------------------------------------------------
(* A page recorded as enabled is enabled in the browser: nobody who finds  *)
(* the record navigates while the enable is still under way                *)
(* (Page::enable_domain).                                                  *)
RecordedIsEnabled == enabled \subseteq emits

(* At most one task at a time enables the domain of a page, and none once  *)
(* it is recorded (Page::enable_domain).                                   *)
EnabledOnce ==
    \A t, u \in Tasks :
        pc[t] = "enable" => /\ at[t] \notin enabled
                            /\ pc[u] = "enable" /\ at[u] = at[t] => u = t

Carries(s, p) == \E i \in 1..Len(s) : s[i].kind = "load" /\ s[i].page = p

(* No load is missed: when the document a task asked for has loaded, the   *)
(* event is on its way or in the task's receiver, unless that receiver     *)
(* lagged (Page::watch_load, enable_domain and LoadWatcher::wait together). *)
NoMissedLoad ==
    \A t \in Tasks :
        pc[t] \in {"load", "wait"} /\ mine[t] # 0 /\ loaded[at[t]] >= mine[t] /\ ~lagged[t]
            => Carries(wire, at[t]) \/ Carries(queue[t], at[t])

(* A wait that returns Ok has seen the load of the document its own        *)
(* command began, on a page that no one else moves and that no earlier     *)
(* operation left loading (LoadWatcher::wait).                             *)
LoadIsOwn ==
    \A t \in Tasks :
        result[t] = "other" => at[t] \in stray

(* A page's mutex is held only by a task whose enable call is pending on   *)
(* that page, so a call that fails or times out never leaves the others    *)
(* waiting for good (Page::enable_domain).                                 *)
GuardHasItsCall ==
    \A p \in Pages : lock[p] # None => pc[lock[p]] = "enable" /\ at[lock[p]] = p

(* Page::enable_domain: enabled once, recorded truthfully, and never left     *)
(* locked by a call that failed.                                             *)
EnablingIsSafe == RecordedIsEnabled /\ EnabledOnce /\ GuardHasItsCall

=============================================================================
