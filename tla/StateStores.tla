---------------------------- MODULE StateStores ----------------------------
(***************************************************************************)
(* The StateStore port (state/store.rs) and the adapters behind it other   *)
(* than the JSON one: a store of the caller's that inherits the port's     *)
(* default update, the in-memory map behind a mutex, and the redb database *)
(* with its one write transaction at a time.  A DomainState is abstracted  *)
(* to the number of outcomes recorded in it.                               *)
(***************************************************************************)
EXTENDS Naturals

CONSTANTS Host, Threads,
          MaxCount,     \* bound: where the tally of a record stops growing
          None

ASSUME CountAssumption == MaxCount \in Nat \ {0}

Adapter == {"inherited", "memory", "redb"}
Value == 0..MaxCount
New == 0        \* DomainState::new: nothing recorded
Request == [op : {"get", "remove", "update"}, host : Host, state : {New}]
               \cup [op : {"put"}, host : Host, state : Value]
Stored == Value \cup {None}
Answers == [ok : BOOLEAN, found : Stored]
Views == [request : Request, done : BOOLEAN, answer : Answers]

ASSUME NoneAssumption ==
    None \notin Nat /\ None \notin Threads /\ None \notin Request /\ None \notin Views

VARIABLES
    adapter,    \* the adapter the scraper was built with
    table,      \* host -> what a read finds: the map, or the last commit
    holder,     \* the thread in the mutex, or in the write transaction
    poisoned,   \* a closure panicked with the mutex held
    open,       \* the process has the store open
    pc, req,    \* where each thread is, and the call it makes
    base,       \* what its call read of its host
    answer      \* what its call returns

vars == <<adapter, table, holder, poisoned, open, pc, req, base, answer>>

TypeOK ==
    /\ adapter \in Adapter /\ poisoned \in BOOLEAN /\ open \in BOOLEAN
    /\ table \in [Host -> Stored]
    /\ holder \in Threads \cup {None}
    /\ pc \in [Threads -> {"idle", "called", "held", "ready", "done"}]
    /\ req \in [Threads -> Request \cup {None}]
    /\ base \in [Threads -> Stored]
    /\ answer \in [Threads -> Answers]

(* The closure's record: an absent host starts from DomainState::new. *)
Recorded(v) == IF v = None THEN New + 1 ELSE IF v < MaxCount THEN v + 1 ELSE v

Effect(r, v) == CASE r.op = "get"    -> v
                  [] r.op = "put"    -> r.state
                  [] r.op = "remove" -> None
                  [] r.op = "update" -> Recorded(v)

Answer(r, v) == [ok |-> TRUE, found |-> CASE r.op = "get"    -> v
                                          [] r.op = "update" -> Recorded(v)
                                          [] OTHER           -> None]
Failed == [ok |-> FALSE, found |-> None]

Init == /\ adapter \in Adapter /\ open = (adapter # "redb")
        /\ table = [h \in Host |-> None]
        /\ holder = None /\ poisoned = FALSE
        /\ pc = [t \in Threads |-> "idle"]
        /\ req = [t \in Threads |-> None]
        /\ base = [t \in Threads |-> None] /\ answer = [t \in Threads |-> Failed]

Call(t) == /\ open /\ pc[t] = "idle"
           /\ pc' = [pc EXCEPT ![t] = "called"]
           /\ \E r \in Request : req' = [req EXCEPT ![t] = r]
           /\ UNCHANGED <<adapter, table, holder, poisoned, open, base, answer>>

Ends(t, a) == /\ pc' = [pc EXCEPT ![t] = "done"]
              /\ answer' = [answer EXCEPT ![t] = a]

Released(t) == IF holder = t THEN None ELSE holder

(* lock().expect(..): the mutex, unless a panic poisoned it. *)
Lock(t) == /\ adapter = "memory" /\ pc[t] = "called" /\ holder = None /\ poisoned = FALSE
           /\ holder' = t
           /\ pc' = [pc EXCEPT ![t] = "held"]
           /\ UNCHANGED <<adapter, table, poisoned, open, req, base, answer>>

LockPoisoned(t) == /\ adapter = "memory" /\ pc[t] = "called" /\ holder = None /\ poisoned
                   /\ Ends(t, Failed)
                   /\ UNCHANGED <<adapter, table, holder, poisoned, open, req, base>>

(* begin_write waits for the transaction before it. *)
BeginWrite(t) == /\ adapter = "redb" /\ pc[t] = "called" /\ req[t].op # "get" /\ holder = None
                 /\ holder' = t
                 /\ pc' = [pc EXCEPT ![t] = "held"]
                 /\ UNCHANGED <<adapter, table, poisoned, open, req, base, answer>>

(* Mutant: each call locks for itself, so an update reads before it locks. *)
ReadsUnlocked_Update(t) ==
    /\ pc[t] = "called"
    /\ \/ adapter = "inherited"
       \/ adapter = "redb" /\ req[t].op = "get"
       \/ adapter = "memory" /\ req[t].op = "update"

(* The inherited update begins with a get of its own; a redb get reads the
   last commit, whatever transaction is open. *)
ReadsUnlocked(t) == /\ pc[t] = "called"
                    /\ \/ adapter = "inherited"
                       \/ adapter = "redb" /\ req[t].op = "get"

Read(t) == /\ pc[t] = "held" \/ ReadsUnlocked(t)
           /\ base' = [base EXCEPT ![t] = table[req[t].host]]
           /\ IF req[t].op = "get"
              THEN Ends(t, Answer(req[t], table[req[t].host])) /\ holder' = Released(t)
              ELSE pc' = [pc EXCEPT ![t] = "ready"] /\ UNCHANGED <<answer, holder>>
           /\ UNCHANGED <<adapter, table, poisoned, open, req>>

(* put, insert or remove and the commit: the one moment others can see. *)
Publish(t) == /\ pc[t] = "ready"
              /\ table' = [table EXCEPT ![req[t].host] = Effect(req[t], base[t])]
              /\ Ends(t, Answer(req[t], base[t]))
              /\ holder' = Released(t)
              /\ UNCHANGED <<adapter, poisoned, open, req, base>>

(* The caller's closure panics: the guard poisons the mutex on its way out,
   the transaction is dropped without a commit. *)
ClosurePanics(t) == /\ pc[t] = "ready" /\ req[t].op = "update"
                    /\ poisoned' = (poisoned \/ adapter = "memory")
                    /\ holder' = Released(t)
                    /\ Ends(t, Failed)
                    /\ UNCHANGED <<adapter, table, open, req, base>>

(* Every redb step returns its error, which drops the transaction; a store of
   the caller's may fail likewise.  Nothing in the map fails. *)
StepFails(t) == /\ adapter # "memory" /\ pc[t] \in {"called", "held", "ready"}
                /\ holder' = Released(t)
                /\ Ends(t, Failed)
                /\ UNCHANGED <<adapter, table, poisoned, open, req, base>>

Return(t) == /\ pc[t] = "done"
             /\ pc' = [pc EXCEPT ![t] = "idle"]
             /\ req' = [req EXCEPT ![t] = None]
             /\ base' = [base EXCEPT ![t] = None]
             /\ answer' = [answer EXCEPT ![t] = Failed]
             /\ UNCHANGED <<adapter, table, holder, poisoned, open>>

(* The process dies with the database open: what was not committed is gone. *)
Crash == /\ adapter = "redb" /\ open
         /\ open' = FALSE /\ holder' = None
         /\ pc' = [t \in Threads |-> "idle"]
         /\ req' = [t \in Threads |-> None]
         /\ base' = [t \in Threads |-> None]
         /\ answer' = [t \in Threads |-> Failed]
         /\ UNCHANGED <<adapter, table, poisoned>>

(* Database::create, then a commit that only makes sure the table exists. *)
Open == /\ adapter = "redb" /\ ~open
        /\ open' = TRUE
        /\ UNCHANGED <<adapter, table, holder, poisoned, pc, req, base, answer>>

Step(t) == \/ Call(t) \/ Lock(t) \/ LockPoisoned(t) \/ BeginWrite(t) \/ Read(t)
           \/ Publish(t) \/ ClosurePanics(t) \/ StepFails(t) \/ Return(t)

Next == Crash \/ Open \/ \E t \in Threads : Step(t)

Spec == Init /\ [][Next]_vars

----------------------------------------------------------------------------
(* The mutex or the write transaction has the thread it should have. *)
HolderIsInside ==
    \A t \in Threads :
        (adapter # "inherited" /\ pc[t] \in {"held", "ready"}) => holder = t

(* An update in a built-in adapter writes over exactly what it read: nobody
   has written the host since (InMemoryStateStore::update under its one guard,
   RedbStateStore::update in one transaction). *)
UpdateSeesLatest ==
    \A t \in Threads :
        (adapter # "inherited" /\ pc[t] = "ready") => base[t] = table[req[t].host]

(* What a caller sees of its call. *)
Seen(t) == IF pc[t] = "idle" THEN None
           ELSE [request |-> req[t], done |-> pc[t] = "done",
                 answer |-> IF pc[t] = "done" THEN answer[t] ELSE Failed]

Atomic == INSTANCE AtomicMap WITH map <- table, call <- [t \in Threads |-> Seen(t)]

(* The built-in adapters are atomic maps: whatever threads interleave, fail,
   panic or die, every call takes effect once, at one moment, on what was
   stored then, or fails and changes nothing.  The inherited update is not. *)
ImplementsAtomicMap ==
    /\ Atomic!Init
    /\ [][adapter # "inherited" => Atomic!Next]_(Atomic!vars)
=============================================================================
