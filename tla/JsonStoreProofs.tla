-------------------------- MODULE JsonStoreProofs --------------------------
(***************************************************************************)
(* The file-backed store for any hosts, threads, clocks and number of      *)
(* mutations: what returned Ok is on disk, and what is on disk loads.      *)
(***************************************************************************)
EXTENDS JsonStore, TLAPS

(* The mutex is held exactly by the thread between lock() and its return,
   and only a running process has threads in a call. *)
MutexHeld ==
    \A t \in Threads : /\ pc[t] \notin {"idle", "lock"} <=> lock = t
                       /\ pc[t] # "idle" => up /\ op[t] \in Ops
                       /\ pc[t] \notin {"idle", "lock", "change"} => op[t].kind # "panic"

(* The temporary is a copy of the map as it still is, whole and synced by the
   time it is renamed. *)
TemporaryIsMap ==
    \A t \in Threads :
        /\ pc[t] \in {"write", "sync", "rename"} => tmp[t] # None /\ tmp[t].map = mem
        /\ pc[t] \in {"sync", "rename"} => tmp[t].whole
        /\ pc[t] = "rename" => tmp[t].synced

(* What was promised is in memory too, or the next flush would undo it. *)
AckedInMemory ==
    up => \A h \in Host : acked[h] \notin {None, Unknown} => mem[h] = acked[h]

(* A map in which every window belongs to a rate limit. *)
WindowsAgree(m) ==
    \A h \in Host : m[h] # None => (m[h].cooldown_until # None <=> m[h].last_outcome = "RateLimited")

Inv ==
    /\ TypeOK
    /\ MutexHeld
    /\ TemporaryIsMap
    /\ FileAlwaysLoads
    /\ AckedInMemory
    /\ AckedIsDurable
    /\ WindowTellsLastOutcome

-----------------------------------------------------------------------------
(* A window is open at a moment exactly if some of it remains: the two ways a
   caller can ask about the back-off agree at every boundary. *)
THEOREM CooldownAgrees ==
    ASSUME NEW s \in DomainStates, NEW now \in 0..MaxTime
    PROVE  InCooldown(s, now) <=> CooldownRemaining(s, now) # None
<1>1. s.cooldown_until = None \/ s.cooldown_until \in 0..MaxTime
  BY DEF DomainStates
<1>2. CASE s.cooldown_until = None
  BY <1>2 DEF InCooldown, CooldownRemaining
<1>3. CASE s.cooldown_until \in 0..MaxTime
  <2>1. None \notin Nat /\ MaxTime \in Nat
    BY NoRecordAssumption, ClockAssumption
  <2>2. s.cooldown_until # None /\ s.cooldown_until \in Nat /\ now \in Nat
    BY <1>3, <2>1
  <2>3. s.cooldown_until - now > 0 => s.cooldown_until - now \in Nat
    BY <2>2
  <2> QED
    BY <2>1, <2>2, <2>3 DEF InCooldown, CooldownRemaining
<1> QED
  BY <1>1, <1>2, <1>3

(* record makes a record of a record, whatever is recorded. *)
LEMMA RecordType ==
    ASSUME NEW s \in DomainStates, NEW outcome \in Outcomes,
           NEW proxy \in Proxy \cup {None}, NEW now \in Times
    PROVE  /\ Record(s, outcome, proxy, now) \in DomainStates
           /\ Record(s, outcome, proxy, now).cooldown_until # None
                <=> Record(s, outcome, proxy, now).last_outcome = "RateLimited"
<1> USE ClockAssumption, NoRecordAssumption
<1>0. now \in 0..MaxTime
  OBVIOUS
<1>1. SaturatingAdd(now, Cooldown, MaxTime) \in 0..MaxTime
  BY <1>0 DEF SaturatingAdd
<1>2. /\ s.last_proxy \in Proxy \cup {None}
      /\ s.successes \in 0..MaxCount /\ s.failures \in 0..MaxCount
  BY DEF DomainStates
<1>3. /\ SaturatingAdd(s.successes, 1, MaxCount) \in 0..MaxCount
      /\ SaturatingAdd(s.failures, 1, MaxCount) \in 0..MaxCount
  BY <1>2 DEF SaturatingAdd
<1>4. SaturatingAdd(now, Cooldown, MaxTime) # None
  BY <1>1
<1> QED
  BY <1>0, <1>1, <1>2, <1>3, <1>4 DEF Record, DomainStates

(* The record a host starts from. *)
LEMMA NewType == New \in DomainStates
BY ClockAssumption DEF New, DomainStates

(* What Change writes for a host. *)
LEMMA ChangedType ==
    ASSUME TypeOK, WindowsAgree(mem), NEW o \in Ops, o.kind # "panic"
    PROVE  /\ o.host \in Host /\ Changed(o) \in DomainStates \cup {None}
           /\ Changed(o) # None => (Changed(o).cooldown_until # None
                                      <=> Changed(o).last_outcome = "RateLimited")
<1> USE NoRecordAssumption, NewType
<1>1. o.host \in Host /\ o.kind \in {"put", "remove", "update"}
  BY DEF Ops
<1>2. CASE o.kind = "put"
  <2>1. Changed(o) = New
    BY <1>2 DEF Changed
  <2>2. New.cooldown_until = None /\ New.last_outcome = None
    BY DEF New
  <2> QED
    BY <1>1, <2>1, <2>2 DEF Outcomes
<1>3. CASE o.kind = "remove"
  <2>1. Changed(o) = None
    BY <1>3 DEF Changed
  <2> QED
    BY <1>1, <2>1
<1>4. CASE o.kind = "update"
  <2>1. o.outcome \in Outcomes /\ o.proxy \in Proxy \cup {None} /\ o.now \in Times
    BY <1>4 DEF Ops
  <2> DEFINE before == IF mem[o.host] = None THEN New ELSE mem[o.host]
  <2>2. before \in DomainStates
    BY <1>1 DEF TypeOK, Map
  <2>3. Changed(o) = Record(before, o.outcome, o.proxy, o.now)
    BY <1>4 DEF Changed
  <2> HIDE DEF before
  <2> QED
    BY <1>1, <2>1, <2>2, <2>3, RecordType
<1> QED
  BY <1>1, <1>2, <1>3, <1>4

-----------------------------------------------------------------------------
(* Steps that change neither the map nor what is on disk. *)
LEMMA DiskFrame ==
    ASSUME Inv, UNCHANGED <<up, mem, file, older, acked>>
    PROVE  FileAlwaysLoads' /\ AckedInMemory' /\ AckedIsDurable' /\ WindowTellsLastOutcome'
BY DEF Inv, FileAlwaysLoads, AckedInMemory, AckedIsDurable, WindowTellsLastOutcome

(* Every step keeps every variable in its type. *)
LEMMA TypeStep ==
    ASSUME Inv, [Next]_vars
    PROVE  TypeOK'
<1> USE NoRecordAssumption, StoreAssumption DEF Inv
<1>1. CASE Open
  BY <1>1 DEF Open, TypeOK
<1>2. ASSUME NEW t \in Threads, NEW o \in Ops, Call(t, o) PROVE TypeOK'
  BY <1>2 DEF Call, Go, TypeOK
<1>3. ASSUME NEW t \in Threads, Lock(t) PROVE TypeOK'
  BY <1>3 DEF Lock, Go, TypeOK
<1>4. ASSUME NEW t \in Threads, Change(t) PROVE TypeOK'
  <2>1. op[t] \in Ops /\ op[t].kind # "panic" /\ WindowsAgree(mem)
    <3>1. mem # Torn
      BY DEF TypeOK, Map
    <3> QED
      BY <1>4, <3>1 DEF Change, MutexHeld, WindowTellsLastOutcome, WindowsAgree
  <2>2. op[t].host \in Host /\ Changed(op[t]) \in DomainStates \cup {None}
    BY <2>1, ChangedType
  <2>3. mem' \in Map
    BY <1>4, <2>2 DEF Change, TypeOK, Map
  <2>4. acked' \in [Host -> DomainStates \cup {None, Unknown}]
    BY <1>4, <2>2 DEF Change, Promise, TypeOK
  <2> QED
    BY <1>4, <2>3, <2>4 DEF Change, Go, TypeOK
<1>5. ASSUME NEW t \in Threads, RemoveAbsent(t) \/ ClosurePanics(t) PROVE TypeOK'
  BY <1>5 DEF RemoveAbsent, ClosurePanics, Promise, Return, Go, TypeOK
<1>6. ASSUME NEW t \in Threads, CreateTemp(t) PROVE TypeOK'
  <2>1. [map |-> mem, whole |-> FALSE, synced |-> FALSE] \in Temporary
    BY DEF TypeOK, Temporary
  <2> QED
    BY <1>6, <2>1 DEF CreateTemp, Go, TypeOK
<1>7. ASSUME NEW t \in Threads, WriteTemp(t) \/ SyncTemp(t) PROVE TypeOK'
  <2>1. tmp[t] \in Temporary
    BY <1>7 DEF WriteTemp, SyncTemp, TypeOK, TemporaryIsMap
  <2>2. /\ [tmp[t] EXCEPT !.whole = TRUE] \in Temporary
        /\ [tmp[t] EXCEPT !.synced = TRUE] \in Temporary
    BY <2>1 DEF Temporary
  <2>3. tmp' \in [Threads -> Temporary \cup {None}]
    BY <1>7, <2>2 DEF WriteTemp, SyncTemp, TypeOK
  <2> QED
    BY <1>7, <2>3 DEF WriteTemp, SyncTemp, Go, TypeOK
<1>8. ASSUME NEW t \in Threads, Rename(t) PROVE TypeOK'
  <2>1. tmp[t].map = mem /\ tmp[t].whole /\ tmp[t].synced /\ op[t] \in Ops
    BY <1>8 DEF Rename, TemporaryIsMap, MutexHeld
  <2>2. op[t].host \in Host
    BY <2>1 DEF Ops
  <2>3. file' = mem /\ older' = older \cup {file}
    BY <1>8, <2>1 DEF Rename
  <2>4. acked' \in [Host -> DomainStates \cup {None, Unknown}]
    BY <1>8, <2>2 DEF Rename, Promise, TypeOK, Map
  <2> QED
    BY <1>8, <2>3, <2>4 DEF Rename, Return, Go, TypeOK
<1>9. ASSUME NEW t \in Threads, StepFails(t) \/ CleanUp(t) PROVE TypeOK'
  BY <1>9 DEF StepFails, CleanUp, Return, Go, TypeOK
<1>10. CASE Crash \/ PowerLoss
  BY <1>10 DEF Crash, PowerLoss, Stop, TypeOK
<1>11. CASE DirectorySettles
  BY <1>11 DEF DirectorySettles, TypeOK
<1>12. CASE UNCHANGED vars
  BY <1>12 DEF vars, TypeOK
<1> QED
  BY <1>1, <1>2, <1>3, <1>4, <1>5, <1>6, <1>7, <1>8, <1>9, <1>10, <1>11, <1>12
     DEF Next, FlushStep, Terminated

(* The mutex is passed from thread to thread and given up on every way out of
   a call, the panic included. *)
LEMMA MutexStep ==
    ASSUME Inv, [Next]_vars
    PROVE  MutexHeld'
<1> USE NoRecordAssumption, StoreAssumption DEF Inv
<1>1. CASE Open \/ DirectorySettles \/ UNCHANGED vars
  BY <1>1 DEF Open, DirectorySettles, vars, MutexHeld
<1>2. ASSUME NEW t \in Threads, NEW o \in Ops, Call(t, o) PROVE MutexHeld'
  BY <1>2 DEF Call, Go, TypeOK, MutexHeld
<1>3. ASSUME NEW t \in Threads,
             Lock(t) \/ Change(t) \/ CreateTemp(t) \/ WriteTemp(t) \/ SyncTemp(t) \/ StepFails(t)
      PROVE  MutexHeld'
  BY <1>3 DEF Lock, Change, CreateTemp, WriteTemp, SyncTemp, StepFails, Go, TypeOK, MutexHeld
<1>4. ASSUME NEW t \in Threads, RemoveAbsent(t) \/ ClosurePanics(t) \/ Rename(t) \/ CleanUp(t)
      PROVE  MutexHeld'
  BY <1>4 DEF RemoveAbsent, ClosurePanics, Rename, CleanUp, Return, Go, TypeOK, MutexHeld
<1>5. CASE Crash \/ PowerLoss
  BY <1>5 DEF Crash, PowerLoss, Stop, MutexHeld
<1> QED
  BY <1>1, <1>2, <1>3, <1>4, <1>5 DEF Next, FlushStep, Terminated

(* Only the holder of the mutex changes the map, and none of its flushes is
   under way when it does: a flush's temporary stays a copy of the map. *)
LEMMA TemporaryStep ==
    ASSUME Inv, [Next]_vars
    PROVE  TemporaryIsMap'
<1> USE NoRecordAssumption, StoreAssumption DEF Inv
<1>1. CASE Open
  BY <1>1 DEF Open, TypeOK, MutexHeld, TemporaryIsMap
<1>2. ASSUME NEW t \in Threads, NEW o \in Ops, Call(t, o) PROVE TemporaryIsMap'
  BY <1>2 DEF Call, Go, TypeOK, TemporaryIsMap
<1>3. ASSUME NEW t \in Threads, Lock(t) \/ StepFails(t) \/ RemoveAbsent(t) \/ ClosurePanics(t)
      PROVE  TemporaryIsMap'
  BY <1>3 DEF Lock, StepFails, RemoveAbsent, ClosurePanics, Return, Go, TypeOK,
              TemporaryIsMap
<1>4. ASSUME NEW t \in Threads, Change(t) PROVE TemporaryIsMap'
  <2>1. \A u \in Threads : u # t => pc[u] \in {"idle", "lock"}
    BY <1>4 DEF Change, MutexHeld, TypeOK
  <2> QED
    BY <1>4, <2>1 DEF Change, Go, TypeOK, TemporaryIsMap
<1>5. ASSUME NEW t \in Threads, CreateTemp(t) PROVE TemporaryIsMap'
  <2>1. [map |-> mem, whole |-> FALSE, synced |-> FALSE] \in Temporary
    BY DEF TypeOK, Temporary
  <2> QED
    BY <1>5, <2>1 DEF CreateTemp, Go, TypeOK, TemporaryIsMap
<1>6. ASSUME NEW t \in Threads, WriteTemp(t) \/ SyncTemp(t) PROVE TemporaryIsMap'
  <2>1. tmp[t] \in Temporary /\ tmp[t].map = mem
    BY <1>6 DEF WriteTemp, SyncTemp, TypeOK, TemporaryIsMap
  <2>2. CASE WriteTemp(t)
    <3>1. tmp'[t] = [tmp[t] EXCEPT !.whole = TRUE]
      BY <2>2 DEF WriteTemp, TypeOK
    <3>2. tmp'[t] \in Temporary /\ tmp'[t].map = mem /\ tmp'[t].whole
      BY <2>1, <3>1 DEF Temporary
    <3>3. pc'[t] = "sync" /\ mem' = mem
          /\ \A u \in Threads : u # t => pc'[u] = pc[u] /\ tmp'[u] = tmp[u]
      BY <2>2 DEF WriteTemp, Go, TypeOK
    <3> QED
      BY <3>2, <3>3 DEF TemporaryIsMap
  <2>3. CASE SyncTemp(t)
    <3>1. tmp'[t] = [tmp[t] EXCEPT !.synced = TRUE] /\ tmp[t].whole
      BY <2>3 DEF SyncTemp, TypeOK, TemporaryIsMap
    <3>2. tmp'[t] \in Temporary /\ tmp'[t].map = mem /\ tmp'[t].whole /\ tmp'[t].synced
      BY <2>1, <3>1 DEF Temporary
    <3>3. pc'[t] = "rename" /\ mem' = mem
          /\ \A u \in Threads : u # t => pc'[u] = pc[u] /\ tmp'[u] = tmp[u]
      BY <2>3 DEF SyncTemp, Go, TypeOK
    <3> QED
      BY <3>2, <3>3 DEF TemporaryIsMap
  <2> QED
    BY <1>6, <2>2, <2>3
<1>7. ASSUME NEW t \in Threads, Rename(t) \/ CleanUp(t) PROVE TemporaryIsMap'
  BY <1>7 DEF Rename, CleanUp, Return, Go, TypeOK, TemporaryIsMap
<1>8. CASE Crash \/ PowerLoss
  BY <1>8 DEF Crash, PowerLoss, Stop, TemporaryIsMap
<1>9. CASE DirectorySettles \/ UNCHANGED vars
  BY <1>9 DEF DirectorySettles, vars, TemporaryIsMap
<1> QED
  BY <1>1, <1>2, <1>3, <1>4, <1>5, <1>6, <1>7, <1>8, <1>9 DEF Next, FlushStep, Terminated


(* What is on disk and what was promised. *)
LEMMA DiskStep ==
    ASSUME Inv, [Next]_vars
    PROVE  FileAlwaysLoads' /\ AckedInMemory' /\ AckedIsDurable' /\ WindowTellsLastOutcome'
<1> DEFINE Goal == FileAlwaysLoads' /\ AckedInMemory' /\ AckedIsDurable' /\ WindowTellsLastOutcome'
<1> USE NoRecordAssumption, StoreAssumption
<1>w. /\ mem # Torn /\ WindowsAgree(mem)
      /\ file # Torn /\ WindowsAgree(file)
      /\ Torn \notin older /\ \A m \in older : WindowsAgree(m)
  <2>1. mem # Torn /\ file # Torn /\ Torn \notin older
    BY DEF Inv, TypeOK, FileAlwaysLoads
  <2> QED
    BY <2>1 DEF Inv, WindowTellsLastOutcome, WindowsAgree
<1>1. CASE Open
  <2>1. FileAlwaysLoads' /\ AckedInMemory' /\ AckedIsDurable'
    BY <1>1 DEF Open, Inv, FileAlwaysLoads, AckedInMemory, AckedIsDurable
  <2>2. WindowTellsLastOutcome'
    BY <1>1, <1>w DEF Open, WindowTellsLastOutcome, WindowsAgree
  <2> QED
    BY <2>1, <2>2
<1>2. ASSUME NEW t \in Threads, Change(t) PROVE Goal
  <2>1. op[t] \in Ops /\ op[t].kind # "panic" /\ TypeOK
    BY <1>2 DEF Inv, Change, MutexHeld
  <2> DEFINE h == op[t].host
  <2>2. /\ h \in Host
        /\ Changed(op[t]) # None => (Changed(op[t]).cooldown_until # None
                                       <=> Changed(op[t]).last_outcome = "RateLimited")
    BY <1>w, <2>1, ChangedType
  <2>3. /\ mem'[h] = Changed(op[t]) /\ acked'[h] = Unknown
        /\ \A g \in Host : g # h => mem'[g] = mem[g] /\ acked'[g] = acked[g]
        /\ UNCHANGED <<up, file, older>>
    BY <1>2, <2>1, <2>2 DEF Change, Promise, TypeOK, Map
  <2> HIDE DEF h
  <2>4. WindowsAgree(mem')
    <3>1. ASSUME NEW g \in Host, mem'[g] # None
          PROVE  mem'[g].cooldown_until # None <=> mem'[g].last_outcome = "RateLimited"
      <4>1. CASE g = h
        BY <2>2, <2>3, <3>1, <4>1
      <4>2. CASE g # h
        BY <1>w, <2>3, <3>1, <4>2 DEF WindowsAgree
      <4> QED
        BY <4>1, <4>2
    <3> QED
      BY <3>1 DEF WindowsAgree
  <2>5. FileAlwaysLoads' /\ AckedInMemory' /\ AckedIsDurable'
    BY <2>2, <2>3 DEF Inv, FileAlwaysLoads, AckedInMemory, AckedIsDurable
  <2>6. WindowTellsLastOutcome'
    BY <1>w, <2>3, <2>4 DEF WindowTellsLastOutcome, WindowsAgree
  <2> QED
    BY <2>5, <2>6
<1>3. ASSUME NEW t \in Threads, RemoveAbsent(t) PROVE Goal
  <2>1. \A h \in Host : acked'[h] \notin {None, Unknown} => acked'[h] = acked[h]
    BY <1>3 DEF RemoveAbsent, Promise, Inv, TypeOK
  <2>2. UNCHANGED <<up, mem, file, older>>
    BY <1>3 DEF RemoveAbsent
  <2>3. FileAlwaysLoads' /\ AckedInMemory' /\ AckedIsDurable'
    BY <2>1, <2>2 DEF Inv, FileAlwaysLoads, AckedInMemory, AckedIsDurable
  <2>4. WindowTellsLastOutcome'
    BY <2>2 DEF Inv, WindowTellsLastOutcome
  <2> QED
    BY <2>3, <2>4
<1>4. ASSUME NEW t \in Threads, Rename(t) PROVE Goal
  <2>1. tmp[t].map = mem /\ tmp[t].whole /\ tmp[t].synced /\ op[t] \in Ops /\ up
    BY <1>4 DEF Rename, Inv, TemporaryIsMap, MutexHeld
  <2>2. op[t].host \in Host
    BY <2>1 DEF Ops
  <2>3. file' = mem /\ older' = older \cup {file} /\ mem' = mem /\ up' = up
    BY <1>4, <2>1 DEF Rename
  <2>4. /\ acked'[op[t].host] = mem[op[t].host]
        /\ \A g \in Host : g # op[t].host => acked'[g] = acked[g]
    BY <1>4, <2>2 DEF Rename, Promise, Inv, TypeOK
  <2>5. \A g \in Host : acked'[g] \notin {None, Unknown} => mem[g] = acked'[g]
    BY <2>1, <2>4 DEF Inv, AckedInMemory
  <2>6. FileAlwaysLoads' /\ AckedInMemory' /\ AckedIsDurable'
    BY <1>w, <2>3, <2>5 DEF FileAlwaysLoads, AckedInMemory, AckedIsDurable
  <2>7. WindowTellsLastOutcome'
    BY <1>w, <2>3 DEF WindowTellsLastOutcome, WindowsAgree
  <2> QED
    BY <2>6, <2>7
<1>5. CASE Crash \/ PowerLoss
  <2>1. /\ ~up' /\ mem' = mem /\ file' \in older \cup {file} /\ older' \subseteq older
        /\ \A h \in Host : acked'[h] = Unknown \/ (acked'[h] = acked[h] /\ file' = file)
    BY <1>5 DEF Crash, PowerLoss, Stop
  <2>2. FileAlwaysLoads' /\ AckedInMemory' /\ AckedIsDurable'
    BY <1>w, <2>1 DEF Inv, FileAlwaysLoads, AckedInMemory, AckedIsDurable
  <2>3. WindowTellsLastOutcome'
    BY <1>w, <2>1 DEF WindowTellsLastOutcome, WindowsAgree
  <2> QED
    BY <2>2, <2>3
<1>6. CASE DirectorySettles
  <2>1. UNCHANGED <<up, mem, file, acked>> /\ older' = {}
    BY <1>6 DEF DirectorySettles
  <2> QED
    BY <1>w, <2>1 DEF Inv, FileAlwaysLoads, AckedInMemory, AckedIsDurable,
                      WindowTellsLastOutcome, WindowsAgree
<1>7. ASSUME NEW t \in Threads,
             \/ \E o \in Ops : Call(t, o)
             \/ Lock(t) \/ ClosurePanics(t) \/ CreateTemp(t) \/ WriteTemp(t) \/ SyncTemp(t)
             \/ StepFails(t) \/ CleanUp(t)
      PROVE  Goal
  BY <1>7, DiskFrame DEF Call, Lock, ClosurePanics, CreateTemp, WriteTemp, SyncTemp,
                         StepFails, CleanUp
<1>8. CASE UNCHANGED vars
  BY <1>8, DiskFrame DEF vars
<1> QED
  BY <1>1, <1>2, <1>3, <1>4, <1>5, <1>6, <1>7, <1>8 DEF Next, FlushStep, Terminated

(* The store before its first open. *)
LEMMA InitInv ==
    ASSUME Init PROVE Inv
<1> USE NoRecordAssumption, StoreAssumption
<1>1. mem \in Map /\ file \in Map
  BY DEF Init, Empty, Map
<1>2. TypeOK
  <2>1. ops \in 0..MaxOps
    BY DEF Init
  <2>2. /\ pc \in [Threads -> {"idle", "lock", "change", "create", "write", "sync",
                               "rename", "cleanup"}]
        /\ op \in [Threads -> Ops \cup {None}]
        /\ tmp \in [Threads -> Temporary \cup {None}]
        /\ acked \in [Host -> DomainStates \cup {None, Unknown}]
    BY DEF Init
  <2> QED
    BY <1>1, <2>1, <2>2 DEF Init, TypeOK
<1>3. MutexHeld /\ TemporaryIsMap
  BY DEF Init, MutexHeld, TemporaryIsMap
<1>4. FileAlwaysLoads /\ AckedInMemory /\ AckedIsDurable
  BY <1>1 DEF Init, FileAlwaysLoads, AckedInMemory, AckedIsDurable
<1>5. WindowTellsLastOutcome
  BY DEF Init, Empty, WindowTellsLastOutcome
<1> QED
  BY <1>2, <1>3, <1>4, <1>5 DEF Inv

(* Inv is an invariant of the store. *)
THEOREM Invariance == Spec => []Inv
<1>1. Init => Inv
  BY InitInv
<1>2. Inv /\ [Next]_vars => Inv'
  <2>1. SUFFICES ASSUME Inv, [Next]_vars PROVE Inv'
    OBVIOUS
  <2> QED
    BY <2>1, TypeStep, MutexStep, TemporaryStep, DiskStep DEF Inv
<1> QED
  BY <1>1, <1>2, PTL DEF Spec

(* Every variable keeps its type: the tallies saturate within u32. *)
THEOREM TypeCorrect == Spec => []TypeOK
<1>1. Inv => TypeOK
  BY DEF Inv
<1> QED
  BY <1>1, Invariance, PTL

(* Whatever step of a flush a crash, a failure or a power loss interrupts, the
   file and everything a power loss can bring back are whole. *)
THEOREM CrashLeavesWholeFile == Spec => []FileAlwaysLoads
<1>1. Inv => FileAlwaysLoads
  BY DEF Inv
<1> QED
  BY <1>1, Invariance, PTL

(* A put or update that returned Ok stays in the file until its host is
   changed again, however many other threads flush, fail or die. *)
THEOREM OkMeansDurable == Spec => []AckedIsDurable
<1>1. Inv => AckedIsDurable
  BY DEF Inv
<1> QED
  BY <1>1, Invariance, PTL

(* In memory and on disk a back-off window is the last outcome's. *)
THEOREM WindowsAreCurrent == Spec => []WindowTellsLastOutcome
<1>1. Inv => WindowTellsLastOutcome
  BY DEF Inv
<1> QED
  BY <1>1, Invariance, PTL

-----------------------------------------------------------------------------
(* Every step of the store is a step of the durable map or a stutter. *)
LEMMA StepRefines ==
    ASSUME Inv, [Next]_vars
    PROVE  [Durable!Next]_(Durable!vars)
<1> USE NoRecordAssumption, StoreAssumption
<1>1. CASE Open
  <2>1. Durable!Open
    BY <1>1 DEF Open, Durable!Open
  <2> QED
    BY <2>1 DEF Durable!Next
<1>2. ASSUME NEW t \in Threads, Change(t) PROVE Durable!Next
  <2>1. up /\ op[t] \in Ops /\ op[t].kind # "panic" /\ TypeOK /\ WindowsAgree(mem)
    <3>1. mem # Torn
      BY DEF Inv, TypeOK
    <3> QED
      BY <1>2, <3>1 DEF Inv, Change, MutexHeld, WindowTellsLastOutcome, WindowsAgree
  <2>2. op[t].host \in Host /\ Changed(op[t]) \in DomainStates \cup {None}
    BY <2>1, ChangedType
  <2>3. Durable!Change
    BY <1>2, <2>1, <2>2 DEF Change, Durable!Change
  <2> QED
    BY <2>3 DEF Durable!Next
<1>3. ASSUME NEW t \in Threads, Rename(t) PROVE Durable!Next
  <2>1. tmp[t].map = mem /\ tmp[t].whole /\ tmp[t].synced /\ up
    BY <1>3 DEF Rename, Inv, TemporaryIsMap, MutexHeld
  <2>2. Durable!Save
    BY <1>3, <2>1 DEF Rename, Durable!Save
  <2> QED
    BY <2>2 DEF Durable!Next
<1>4. CASE Crash
  <2>1. Durable!Crash
    BY <1>4 DEF Crash, Stop, Durable!Crash
  <2> QED
    BY <2>1 DEF Durable!Next
<1>5. CASE PowerLoss
  <2>1. Durable!PowerLoss
    BY <1>5 DEF PowerLoss, Stop, Durable!PowerLoss
  <2> QED
    BY <2>1 DEF Durable!Next
<1>6. CASE DirectorySettles
  <2>1. Durable!Settle
    BY <1>6 DEF DirectorySettles, Durable!Settle
  <2> QED
    BY <2>1 DEF Durable!Next
<1>7. ASSUME NEW t \in Threads,
             \/ \E o \in Ops : Call(t, o)
             \/ Lock(t) \/ RemoveAbsent(t) \/ ClosurePanics(t) \/ CreateTemp(t)
             \/ WriteTemp(t) \/ SyncTemp(t) \/ StepFails(t) \/ CleanUp(t)
      PROVE  UNCHANGED Durable!vars
  BY <1>7 DEF Call, Lock, RemoveAbsent, ClosurePanics, CreateTemp, WriteTemp, SyncTemp,
              StepFails, CleanUp, Durable!vars
<1>8. CASE UNCHANGED vars
  BY <1>8 DEF vars, Durable!vars
<1> QED
  BY <1>1, <1>2, <1>3, <1>4, <1>5, <1>6, <1>7, <1>8 DEF Next, FlushStep, Terminated

(* For any hosts and threads the file is, at every moment, one whole map that
   the store held: flush never writes a mixture or an outdated copy. *)
THEOREM StoreImplementsDurableMap == Spec => ImplementsDurableMap
<1>1. Init => Durable!Init
  BY DEF Init, Empty, Durable!Init
<1>2. Inv /\ [Next]_vars => [Durable!Next]_(Durable!vars)
  BY StepRefines
<1> QED
  BY <1>1, <1>2, Invariance, PTL DEF Spec, ImplementsDurableMap, Durable!Spec

-----------------------------------------------------------------------------
(* Records stay within their widths and their windows tell the last outcome,
   in memory and in every file that may come back (DomainState::record). *)
THEOREM RecordsStaySound == Spec => []RecordsAreSound
<1>1. Inv => RecordsAreSound
  <2> SUFFICES ASSUME Inv, NEW m \in ({mem, file} \cup older) \ {Torn} PROVE m \in Map
    BY DEF Inv, RecordsAreSound
  <2> QED
    BY DEF Inv, TypeOK
<1> QED
  BY <1>1, Invariance, PTL
=============================================================================
