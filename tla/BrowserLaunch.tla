--------------------------- MODULE BrowserLaunch ---------------------------
(***************************************************************************)
(* The life of a launched browser (cdp/launch.rs and the ownership side of *)
(* cdp/transport.rs): the profile directory, the two CDP pipes and the     *)
(* process are acquired one after the other, any step may fail, and what   *)
(* was acquired is given back in the order Rust drops it.  Once connected, *)
(* the transport owns the browser and every handle, the scraper's and each *)
(* page's, keeps the transport alive.                                      *)
(*                                                                         *)
(* A pipe end is open while anyone holds it: the program, the Command that *)
(* maps it into the child, or the child.                                   *)
(***************************************************************************)
EXTENDS Naturals, FiniteSets

CONSTANTS
    Launches,     \* bound: the browsers ever launched
    Handles       \* bound: the handles onto one transport alive at once

VARIABLES
    step,      \* launch -> where launch, connect or the drop has got to
    held,      \* the open pipe ends, as <<holder, launch, end>>
    dirs,      \* the launches whose profile directory exists
    stuck,     \* those whose directory could not be removed
    proc,      \* launch -> its child process
    reader,    \* launch -> the transport's reader task
    handles    \* launch -> the handles that share its transport

launchVars == <<step, held, dirs, stuck, proc, reader, handles>>

Steps == {"idle", "found", "profile", "piped", "mapped", "spawned", "launched",
          "connected", "dropping", "killing", "waiting", "failed", "gone"}

LaunchTypeOK ==
    /\ step \in [Launches -> Steps]
    /\ held \subseteq {"program", "command", "child"} \X Launches
                         \X {"inRead", "inWrite", "outRead", "outWrite"}
    /\ dirs \subseteq Launches /\ stuck \subseteq dirs
    /\ proc \in [Launches -> {"none", "running", "zombie", "reaped"}]
    /\ reader \in [Launches -> {"none", "reading", "ended", "aborted"}]
    /\ handles \in [Launches -> SUBSET Handles]

LaunchInit ==
    /\ step = [l \in Launches |-> "idle"]
    /\ held = {} /\ dirs = {} /\ stuck = {}
    /\ proc = [l \in Launches |-> "none"]
    /\ reader = [l \in Launches |-> "none"]
    /\ handles = [l \in Launches |-> {}]

Ends(holder, l, ends) == {<<holder, l, e>> : e \in ends}

HeldBy(holder, l) == {h \in held : h[1] = holder /\ h[2] = l}

Goes(l, from, to) == step[l] = from /\ step' = [step EXCEPT ![l] = to]

FindChrome(l) ==
    /\ Goes(l, "idle", "found")
    /\ UNCHANGED <<held, dirs, stuck, proc, reader, handles>>

CreateProfile(l) ==
    /\ Goes(l, "found", "profile")
    /\ dirs' = dirs \cup {l}
    /\ UNCHANGED <<held, stuck, proc, reader, handles>>

CreatePipes(l) ==
    /\ Goes(l, "profile", "piped")
    /\ held' = held \cup Ends("program", l, {"inRead", "inWrite", "outRead", "outWrite"})
    /\ UNCHANGED <<dirs, stuck, proc, reader, handles>>

\* The child's ends move into the Command.
MapDescriptors(l) ==
    /\ Goes(l, "piped", "mapped")
    /\ held' = (held \ Ends("program", l, {"inRead", "outWrite"}))
                 \cup Ends("command", l, {"inRead", "outWrite"})
    /\ UNCHANGED <<dirs, stuck, proc, reader, handles>>

\* The other descriptors of the program close on exec.
Spawn(l) ==
    /\ Goes(l, "mapped", "spawned")
    /\ proc' = [proc EXCEPT ![l] = "running"]
    /\ held' = held \cup Ends("child", l, {"inRead", "outWrite"})
    /\ UNCHANGED <<dirs, stuck, reader, handles>>

(* Mutant: launch keeps the Command, and with it the child's ends. *)
Launched_KeepsCommand(l) ==
    /\ Goes(l, "spawned", "launched")
    /\ UNCHANGED <<held, dirs, stuck, proc, reader, handles>>

\* launch returns: the Command is dropped.
Launched(l) ==
    /\ Goes(l, "spawned", "launched")
    /\ held' = held \ HeldBy("command", l)
    /\ UNCHANGED <<dirs, stuck, proc, reader, handles>>

\* Removing the directory is best effort.
Removed(l) == \/ dirs' = dirs \ {l} /\ UNCHANGED stuck
              \/ l \in dirs /\ stuck' = stuck \cup {l} /\ UNCHANGED dirs

(* Mutant: a launch that fails leaves the directory to the system. *)
LaunchFails_Leaves(l) ==
    /\ step[l] \in {"idle", "found", "profile", "piped", "mapped"}
    /\ step' = [step EXCEPT ![l] = "failed"]
    /\ held' = {h \in held : h[2] # l}
    /\ UNCHANGED <<dirs, stuck, proc, reader, handles>>

\* Any step before the process exists: its locals are dropped with it.
LaunchFails(l) ==
    /\ step[l] \in {"idle", "found", "profile", "piped", "mapped"}
    /\ step' = [step EXCEPT ![l] = "failed"]
    /\ held' = {h \in held : h[2] # l}
    /\ Removed(l)
    /\ UNCHANGED <<proc, reader, handles>>

\* take_pipes and from_pipes: the transport adopts the ends and starts to read.
Connect(l, h) ==
    /\ Goes(l, "launched", "connected")
    /\ reader' = [reader EXCEPT ![l] = "reading"]
    /\ handles' = [handles EXCEPT ![l] = {h}]
    /\ UNCHANGED <<held, dirs, stuck, proc>>

\* A pipe cannot be adopted, or there is no runtime: the browser is dropped.
ConnectFails(l) ==
    /\ Goes(l, "launched", "dropping")
    /\ held' = held \ HeldBy("program", l)
    /\ UNCHANGED <<dirs, stuck, proc, reader, handles>>

CloneHandle(l, h) ==
    /\ handles[l] # {} /\ h \notin handles[l]
    /\ handles' = [handles EXCEPT ![l] = @ \cup {h}]
    /\ UNCHANGED <<step, held, dirs, stuck, proc, reader>>

\* The last handle drops Inner: the reader is aborted and the writer closed.
DropHandle(l, h) ==
    /\ h \in handles[l]
    /\ handles' = [handles EXCEPT ![l] = @ \ {h}]
    /\ IF handles[l] = {h}
       THEN /\ Goes(l, "connected", "dropping")
            /\ reader' = [reader EXCEPT ![l] = IF @ = "reading" THEN "aborted" ELSE @]
            /\ held' = held \ Ends("program", l, {"inWrite"})
       ELSE UNCHANGED <<step, reader, held>>
    /\ UNCHANGED <<dirs, stuck, proc>>

\* The process is terminated at once; it stays a zombie until it is waited for.
Ended(l) == /\ proc' = [proc EXCEPT ![l] = IF @ = "running" THEN "zombie" ELSE @]
            /\ held' = held \ HeldBy("child", l)

(* Mutant: the profile is dropped before the browser is killed. *)
Kill_ProfileFirst(l) ==
    /\ Goes(l, "dropping", IF l \in dirs THEN "dropping" ELSE "killing")
    /\ IF l \in dirs THEN dirs' = dirs \ {l} /\ UNCHANGED <<proc, held>>
       ELSE Ended(l) /\ UNCHANGED dirs
    /\ UNCHANGED <<stuck, reader, handles>>

Kill(l) ==
    /\ Goes(l, "dropping", "killing")
    /\ Ended(l)
    /\ UNCHANGED <<dirs, stuck, reader, handles>>

Wait(l) ==
    /\ Goes(l, "killing", "waiting") /\ proc[l] = "zombie"
    /\ proc' = [proc EXCEPT ![l] = "reaped"]
    /\ UNCHANGED <<held, dirs, stuck, reader, handles>>

\* The fields are dropped after LaunchedBrowser::drop, the profile last.
RemoveProfile(l) ==
    /\ Goes(l, "waiting", "gone")
    /\ Removed(l)
    /\ UNCHANGED <<held, proc, reader, handles>>

\* The aborted task is dropped, and with it its end of the pipe.
ReaderStops(l) ==
    /\ reader[l] = "aborted" /\ <<"program", l, "outRead">> \in held
    /\ held' = held \ Ends("program", l, {"outRead"})
    /\ UNCHANGED <<step, dirs, stuck, proc, reader, handles>>

\* read_loop sees end-of-file only when nobody holds the write end, and ends.
ReadsEof(l) ==
    /\ reader[l] = "reading"
    /\ \A h \in held : ~(h[2] = l /\ h[3] = "outWrite")
    /\ reader' = [reader EXCEPT ![l] = "ended"]
    /\ held' = held \ Ends("program", l, {"outRead"})
    /\ UNCHANGED <<step, dirs, stuck, proc, handles>>

\* The browser crashes or is closed by hand.
BrowserExits(l) ==
    /\ proc[l] = "running"
    /\ Ended(l)
    /\ UNCHANGED <<step, dirs, stuck, reader, handles>>

LaunchStep(l) ==
    \/ FindChrome(l) \/ CreateProfile(l) \/ CreatePipes(l) \/ MapDescriptors(l)
    \/ Spawn(l) \/ Launched(l) \/ LaunchFails(l) \/ ConnectFails(l)

DropStep(l) == Kill(l) \/ Wait(l) \/ RemoveProfile(l)

ReaderStep(l) == ReadsEof(l) \/ ReaderStops(l)
=============================================================================
