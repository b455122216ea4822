------------------------------ MODULE JsonStore ------------------------------
(***************************************************************************)
(* JsonStateStore (state/json_store.rs): one process's threads share a map *)
(* of host records under a mutex; each mutation rewrites the whole file    *)
(* while it holds the mutex: create a temporary, write it, sync it, rename *)
(* it over the target.  Any of these can fail, the process can die and the *)
(* power can go between any two of them.                                   *)
(***************************************************************************)
EXTENDS DomainState

CONSTANTS
    Host,       \* the hosts recorded
    Threads,    \* threads sharing the store
    MaxOps,     \* bound: mutations begun over all runs of the process
    Unknown,    \* no promise is outstanding for the host
    Torn        \* a file that is not a whole JSON array

Map   == [Host -> DomainStates \cup {None}]
Empty == [h \in Host |-> None]

(* What a caller asks for: put of a new record, remove, or update with a
   closure that records an outcome, or panics. *)
Ops == [kind : {"put", "remove", "panic"}, host : Host]
         \cup [kind : {"update"}, host : Host, outcome : Outcomes,
               proxy : Proxy \cup {None}, now : Times]

(* A temporary: the map it is a copy of, whether all of it was written, and
   whether it was synced. *)
Temporary == [map : Map, whole : BOOLEAN, synced : BOOLEAN]

ASSUME StoreAssumption ==
    /\ MaxOps \in Nat
    /\ None \notin Threads /\ None \notin Temporary
    /\ Unknown \notin DomainStates \cup {None}
    /\ Torn \notin Map

VARIABLES
    up,      \* the process is running with the store open
    mem,     \* inner: the guarded map
    lock,    \* who holds the mutex
    pc,      \* where each thread is in its call
    op,      \* what each thread was asked to do
    tmp,     \* the temporary of each thread's last flush, its name never used again
    file,    \* what path names: a map (a missing file is the empty one) or Torn
    older,   \* what path may still name on disk, the directory being unsynced
    acked,   \* ghost: what each host's last mutation promised by returning Ok
    ops      \* mutations begun

vars == <<up, mem, lock, pc, op, tmp, file, older, acked, ops>>

Init ==
    /\ up = FALSE
    /\ mem = Empty
    /\ lock = None
    /\ pc  = [t \in Threads |-> "idle"]
    /\ op  = [t \in Threads |-> None]
    /\ tmp = [t \in Threads |-> None]
    /\ file = Empty /\ older = {}
    /\ acked = [h \in Host |-> Unknown]
    /\ ops = 0

Go(t, to) == pc' = [pc EXCEPT ![t] = to]

(* open: load fails on a file that does not parse. *)
Open ==
    /\ ~up /\ file # Torn
    /\ up' = TRUE /\ mem' = file
    /\ UNCHANGED <<lock, pc, op, tmp, file, older, acked, ops>>

Call(t, o) ==
    /\ up /\ pc[t] = "idle" /\ ops < MaxOps
    /\ op' = [op EXCEPT ![t] = o]
    /\ Go(t, "lock")
    /\ ops' = ops + 1
    /\ UNCHANGED <<up, mem, lock, tmp, file, older, acked>>

-----------------------------------------------------------------------------
(* Mutant: the map is changed and flushed without holding the mutex. *)
Lock_Shared(t) ==
    /\ pc[t] = "lock"
    /\ lock' = t
    /\ Go(t, "change")
    /\ UNCHANGED <<up, mem, op, tmp, file, older, acked, ops>>

Lock(t) ==
    /\ pc[t] = "lock" /\ lock = None
    /\ lock' = t
    /\ Go(t, "change")
    /\ UNCHANGED <<up, mem, op, tmp, file, older, acked, ops>>

(* The guard is dropped on return, and on the unwinding of a panic; the
   poison a panic leaves is ignored by lock(). *)
Return(t) == lock' = None /\ Go(t, "idle")

Promise(h, v) == acked' = [acked EXCEPT ![h] = v]

(* What the closure or the caller makes of the host's record. *)
Changed(o) ==
    CASE o.kind = "put"    -> New
      [] o.kind = "remove" -> None
      [] o.kind = "update" ->
            Record(IF mem[o.host] = None THEN New ELSE mem[o.host],
                   o.outcome, o.proxy, o.now)

(* put, update and remove up to the flush: the map changes in memory first. *)
Change(t) ==
    /\ pc[t] = "change" /\ op[t].kind # "panic"
    /\ op[t].kind = "remove" => mem[op[t].host] # None
    /\ mem' = [mem EXCEPT ![op[t].host] = Changed(op[t])]
    /\ Promise(op[t].host, Unknown)
    /\ Go(t, "create")
    /\ UNCHANGED <<up, lock, op, tmp, file, older, ops>>

(* remove of a host the map does not hold: Ok, and nothing is written. *)
RemoveAbsent(t) ==
    /\ pc[t] = "change" /\ op[t].kind = "remove" /\ mem[op[t].host] = None
    /\ Promise(op[t].host, None)
    /\ Return(t)
    /\ UNCHANGED <<up, mem, op, tmp, file, older, ops>>

ClosurePanics(t) ==
    /\ pc[t] = "change" /\ op[t].kind = "panic"
    /\ Return(t)
    /\ UNCHANGED <<up, mem, op, tmp, file, older, acked, ops>>

-----------------------------------------------------------------------------
(* flush: the map is encoded before the temporary is created. *)
CreateTemp(t) ==
    /\ pc[t] = "create"
    /\ tmp' = [tmp EXCEPT ![t] = [map |-> mem, whole |-> FALSE, synced |-> FALSE]]
    /\ Go(t, "write")
    /\ UNCHANGED <<up, mem, lock, op, file, older, acked, ops>>

WriteTemp(t) ==
    /\ pc[t] = "write"
    /\ tmp' = [tmp EXCEPT ![t].whole = TRUE]
    /\ Go(t, "sync")
    /\ UNCHANGED <<up, mem, lock, op, file, older, acked, ops>>

(* Mutant: the temporary is not synced before it is renamed. *)
SyncTemp_Skipped(t) ==
    /\ pc[t] = "sync"
    /\ Go(t, "rename")
    /\ UNCHANGED <<up, mem, lock, op, tmp, file, older, acked, ops>>

SyncTemp(t) ==
    /\ pc[t] = "sync"
    /\ tmp' = [tmp EXCEPT ![t].synced = TRUE]
    /\ Go(t, "rename")
    /\ UNCHANGED <<up, mem, lock, op, file, older, acked, ops>>

(* The rename is atomic for every process; on disk the directory may name
   the old file a while longer.  Data that was not synced may not be there. *)
Rename(t) ==
    /\ pc[t] = "rename"
    /\ file' = IF tmp[t].whole THEN tmp[t].map ELSE Torn
    /\ older' = older \cup {file} \cup (IF tmp[t].synced THEN {} ELSE {Torn})
    /\ tmp' = [tmp EXCEPT ![t] = None]
    /\ Promise(op[t].host, mem[op[t].host])
    /\ Return(t)
    /\ UNCHANGED <<up, mem, op, ops>>

(* create, write_all, sync_all or rename fails. *)
StepFails(t) ==
    /\ pc[t] \in {"create", "write", "sync", "rename"}
    /\ Go(t, "cleanup")
    /\ UNCHANGED <<up, mem, lock, op, tmp, file, older, acked, ops>>

(* remove_file, its own error ignored, so the temporary may stay; then Err:
   the map keeps the change the file does not have. *)
CleanUp(t) ==
    /\ pc[t] = "cleanup"
    /\ tmp' \in {tmp, [tmp EXCEPT ![t] = None]}
    /\ Return(t)
    /\ UNCHANGED <<up, mem, op, file, older, acked, ops>>

-----------------------------------------------------------------------------
(* The process dies: its threads and their mutex are gone, the directory is
   as they left it (a stray temporary is never read again). *)
Stop ==
    /\ up' = FALSE /\ lock' = None
    /\ pc' = [t \in Threads |-> "idle"]
    /\ tmp' = [t \in Threads |-> None]
    /\ UNCHANGED <<mem, op, ops>>

Crash == up /\ Stop /\ UNCHANGED <<file, older, acked>>

(* The documented exception: what the directory had not got on disk is
   lost, so a promise made since then is void. *)
PowerLoss ==
    /\ older # {}
    /\ Stop
    /\ file' \in older \cup {file} /\ older' = {}
    /\ acked' = [h \in Host |-> Unknown]

(* The operating system writes the directory. *)
DirectorySettles ==
    /\ older # {} /\ older' = {}
    /\ UNCHANGED <<up, mem, lock, pc, op, tmp, file, acked, ops>>

(* Nothing is left to ask for. *)
Terminated ==
    /\ ops = MaxOps /\ up /\ \A t \in Threads : pc[t] = "idle"
    /\ UNCHANGED vars

FlushStep(t) ==
    CreateTemp(t) \/ WriteTemp(t) \/ SyncTemp(t) \/ Rename(t) \/ StepFails(t) \/ CleanUp(t)

Next ==
    \/ Open
    \/ \E t \in Threads : \/ \E o \in Ops : Call(t, o)
                          \/ Lock(t)
                          \/ Change(t) \/ RemoveAbsent(t) \/ ClosurePanics(t)
                          \/ FlushStep(t)
    \/ Crash \/ PowerLoss \/ DirectorySettles
    \/ Terminated

Spec == Init /\ [][Next]_vars

-----------------------------------------------------------------------------
TypeOK ==
    /\ up \in BOOLEAN
    /\ mem \in Map
    /\ lock \in Threads \cup {None}
    /\ pc \in [Threads -> {"idle", "lock", "change", "create", "write", "sync",
                           "rename", "cleanup"}]
    /\ op \in [Threads -> Ops \cup {None}]
    /\ tmp \in [Threads -> Temporary \cup {None}]
    /\ file \in Map \cup {Torn} /\ older \subseteq Map \cup {Torn}
    /\ acked \in [Host -> DomainStates \cup {None, Unknown}]
    /\ ops \in 0..MaxOps

(* "a crash at any point leaves either the previous complete file or the new
   one - never a partial record": whatever died, and whenever, the next open
   finds a file that loads. *)
FileAlwaysLoads == file # Torn /\ Torn \notin older

(* A put or update that returned Ok is in the file, until the host is changed
   again or power is lost, whatever other threads' flushes do, fail at or are
   killed in. *)
AckedIsDurable ==
    \A h \in Host : acked[h] \notin {None, Unknown} => file # Torn /\ file[h] = acked[h]

(* "The removal is durable too, not just in-memory" (the reopen test): a
   remove that returned Ok left no record in the file. *)
RemovalIsDurable ==
    \A h \in Host : acked[h] = None => file # Torn /\ file[h] = None

(* A back-off window is open exactly if the host's last outcome was a rate
   limit, in memory and in whatever a crash or a power loss leaves. *)
WindowTellsLastOutcome ==
    \A m \in ({mem, file} \cup older) \ {Torn} : \A h \in Host :
        m[h] # None => (m[h].cooldown_until # None <=> m[h].last_outcome = "RateLimited")

(* Every record that is in memory or can be read back is within the widths of
   its fields, saturated where it would have overflowed, and its window tells
   its last outcome (DomainState::record). *)
RecordsAreSound ==
    /\ \A m \in ({mem, file} \cup older) \ {Torn} : m \in Map
    /\ WindowTellsLastOutcome

(* The file is always one moment's whole map: see DurableMap. *)
Durable == INSTANCE DurableMap WITH Value <- DomainStates \cup {None},
                                    map <- mem, saved <- file
ImplementsDurableMap == Durable!Spec
=============================================================================
