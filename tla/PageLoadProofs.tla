--------------------------- MODULE PageLoadProofs ---------------------------
(***************************************************************************)
(* Enabling a domain, not missing a load and not taking another's, for any *)
(* number of tasks and pages, any channel capacity and any browser.        *)
(***************************************************************************)
EXTENDS PageLoad, SequenceTheorems, TLAPS

(* The mutex of a page and the pending enable call determine each other. *)
GuardIsTheCall ==
    /\ GuardHasItsCall
    /\ \A t \in Tasks : pc[t] = "enable" => lock[at[t]] = t /\ at[t] \notin enabled

(* A command carries the operation it was sent in: one with the number of  *)
(* a task's current operation is for the page that operation drives.       *)
Carried(c) == c.call <= begun /\ (c.call = call[c.task] => c.page = at[c.task])

CarriedRight ==
    /\ \A i \in 1..Len(commands) : Carried(commands[i])
    /\ \A i \in 1..Len(wire) : wire[i].kind = "reply" =>
          /\ Carried(wire[i].to)
          /\ wire[i].to.method = "enable" => wire[i].to.page \in emits

(* What a task may rely on at each point of its operation. *)
PointFacts ==
    \A t \in Tasks :
        /\ pc[t] # "idle" => at[t] \in Pages /\ call[t] >= 1
        /\ pc[t] = "enable" /\ answered[t] => at[t] \in emits
        /\ answered[t] => pc[t] \in {"enable", "load"}
        /\ pc[t] \in {"trigger", "load", "wait"} => at[t] \in enabled
        /\ mine[t] # 0 => pc[t] \in {"load", "wait"}
        /\ call[t] <= begun

LoadsInOrder == \A p \in Pages : loaded[p] <= doc[p]

IInv ==
    /\ TypeOK
    /\ GuardIsTheCall
    /\ CarriedRight
    /\ PointFacts
    /\ LoadsInOrder
    /\ RecordedIsEnabled
    /\ NoMissedLoad

-----------------------------------------------------------------------------
(* What appending to a sequence does to its type, length and elements. *)
LEMMA AppendFacts ==
    ASSUME NEW V, NEW s \in Seq(V), NEW e \in V
    PROVE  /\ Append(s, e) \in Seq(V)
           /\ Len(s) \in Nat /\ Len(Append(s, e)) = Len(s) + 1
           /\ \A i \in 1..Len(s) : Append(s, e)[i] = s[i]
           /\ Append(s, e)[Len(s) + 1] = e
OBVIOUS

(* What taking the head off a sequence does to them. *)
LEMMA TailFacts ==
    ASSUME NEW V, NEW s \in Seq(V), s # <<>>
    PROVE  /\ Tail(s) \in Seq(V) /\ Head(s) \in V
           /\ Len(s) \in Nat /\ Len(s) >= 1 /\ Len(Tail(s)) = Len(s) - 1
           /\ \A i \in 1..Len(Tail(s)) : i + 1 \in 1..Len(s) /\ Tail(s)[i] = s[i + 1]
           /\ Head(s) = s[1]
OBVIOUS

(* Appending keeps what a sequence carries and adds what is appended. *)
LEMMA CarriesAppend ==
    ASSUME NEW V, NEW s \in Seq(V), NEW e \in V, NEW p
    PROVE  /\ Carries(s, p) => Carries(Append(s, e), p)
           /\ e.kind = "load" /\ e.page = p => Carries(Append(s, e), p)
<1>1. Carries(s, p) => Carries(Append(s, e), p)
  <2> SUFFICES ASSUME Carries(s, p) PROVE Carries(Append(s, e), p)
    OBVIOUS
  <2>1. PICK i \in 1..Len(s) : s[i].kind = "load" /\ s[i].page = p
    BY DEF Carries
  <2>2. i \in 1..Len(Append(s, e)) /\ Append(s, e)[i] = s[i]
    BY AppendFacts
  <2> QED BY <2>1, <2>2 DEF Carries
<1>2. e.kind = "load" /\ e.page = p => Carries(Append(s, e), p)
  <2>1. Len(s) + 1 \in 1..Len(Append(s, e)) /\ Append(s, e)[Len(s) + 1] = e
    BY AppendFacts
  <2> QED BY <2>1 DEF Carries
<1> QED BY <1>1, <1>2

(* Taking the head loses no load but the head's. *)
LEMMA CarriesTail ==
    ASSUME NEW V, NEW s \in Seq(V), s # <<>>, NEW p, Carries(s, p)
    PROVE  Carries(Tail(s), p) \/ (Head(s).kind = "load" /\ Head(s).page = p)
<1>1. PICK i \in 1..Len(s) : s[i].kind = "load" /\ s[i].page = p
  BY DEF Carries
<1>2. CASE i = 1
  BY <1>1, <1>2, TailFacts
<1>3. CASE i # 1
  <2>1. i - 1 \in 1..Len(Tail(s)) /\ (i - 1) + 1 = i
    BY <1>3, TailFacts
  <2>2. Tail(s)[i - 1] = s[i]
    BY <2>1, TailFacts
  <2> QED BY <1>1, <2>1, <2>2 DEF Carries
<1> QED BY <1>2, <1>3

(* The commands and messages a task or the browser appends. *)
LEMMA MessageTypes ==
    ASSUME TypeOK
    PROVE  /\ \A c \in Commands : Reply(c) \in Loads \cup Replies
           /\ \A p \in Pages : LoadEvent(p) \in Loads \cup Replies
           /\ \A c \in Commands : Reply(c).kind = "reply" /\ Reply(c).to = c
           /\ \A p \in Pages : LoadEvent(p).kind = "load" /\ LoadEvent(p).page = p
BY DEF TypeOK, Reply, Replies, LoadEvent, Loads

-----------------------------------------------------------------------------
(* In the first state no task is busy and both pipes are empty. *)
LEMMA InitIInv == Init => IInv
<1> SUFFICES ASSUME Init PROVE IInv
  OBVIOUS
<1> USE DEF Init
<1>1. TypeOK
  <2>1. \A t \in Tasks : Len(queue[t]) = 0
    OBVIOUS
  <2>2. queue \in [Tasks -> Seq(Loads)] /\ commands \in Seq(Commands) /\ wire \in Seq(Loads \cup Replies)
    OBVIOUS
  <2>3. 0 <= Capacity /\ 0 \in 0..MaxCalls /\ {0, 1} \subseteq 0..MaxDocs
    BY CapacityAssumption, BoundsAssumption
  <2> QED BY <2>1, <2>2, <2>3 DEF TypeOK
<1>2. GuardIsTheCall
  BY DEF GuardIsTheCall, GuardHasItsCall
<1>3. CarriedRight
  BY DEF CarriedRight
<1>4. PointFacts
  <2>1. \A t \in Tasks : pc[t] = "idle" /\ call[t] = 0 /\ mine[t] = 0 /\ ~answered[t]
    OBVIOUS
  <2>2. 0 <= begun
    OBVIOUS
  <2> HIDE DEF Init
  <2> QED BY <2>1, <2>2 DEF PointFacts
<1>5. LoadsInOrder
  BY DEF LoadsInOrder
<1> QED BY <1>1, <1>2, <1>3, <1>4, <1>5 DEF IInv, RecordedIsEnabled, NoMissedLoad

(* A command is sent only from within an operation. *)
LEMMA SendsTypes ==
    ASSUME TypeOK, PointFacts, NEW t \in Tasks, pc[t] # "idle", NEW m \in {"enable", "load"}
    PROVE  /\ Command(t, m) \in Commands
           /\ Append(commands, Command(t, m)) \in Seq(Commands)
<1>1. call[t] \in 1..MaxCalls /\ at[t] \in Pages
  BY BoundsAssumption DEF TypeOK, PointFacts
<1>2. Command(t, m) \in Commands
  BY <1>1 DEF Command, Commands
<1> QED BY <1>2, AppendFacts DEF TypeOK

(* Types.  The actions fall into groups by what they write. *)
LEMMA StepTypes ==
    ASSUME TypeOK, PointFacts, Next
    PROVE  TypeOK'
<1> USE DEF op, program, browser, vars
<1>1. ASSUME NEW t \in Tasks, NEW p \in Pages, Begin(t, p) PROVE TypeOK'
  <2>1. begun' \in 0..MaxCalls /\ stray' \subseteq Pages
    BY <1>1, BoundsAssumption DEF Begin, TypeOK
  <2> QED BY <1>1, <2>1 DEF Begin, TypeOK
<1>2. ASSUME NEW t \in Tasks, AlreadyEnabled(t) PROVE TypeOK'
  BY <1>2 DEF AlreadyEnabled, TypeOK
<1>3. ASSUME NEW t \in Tasks, Enable(t) PROVE TypeOK'
  <2>1. at[t] \in Pages /\ commands' \in Seq(Commands)
    BY <1>3, SendsTypes DEF Enable, Sends, PointFacts
  <2> QED BY <1>3, <2>1 DEF Enable, Sends, TypeOK
<1>4. ASSUME NEW t \in Tasks, Enabled(t) PROVE TypeOK'
  <2>1. at[t] \in Pages
    BY <1>4 DEF Enabled, PointFacts
  <2>2. lock' \in [Pages -> Tasks \cup {None}]
    BY <1>4 DEF Enabled, Released, TypeOK
  <2> QED BY <1>4, <2>1, <2>2 DEF Enabled, Takes, TypeOK
<1>5. ASSUME NEW t \in Tasks, Trigger(t) PROVE TypeOK'
  <2>1. commands' \in Seq(Commands)
    BY <1>5, SendsTypes DEF Trigger, Sends
  <2> QED BY <1>5, <2>1 DEF Trigger, Sends, TypeOK
<1>6. ASSUME NEW t \in Tasks, Accepted(t) PROVE TypeOK'
  BY <1>6 DEF Accepted, Takes, TypeOK
<1>7. ASSUME NEW t \in Tasks, NEW how \in Results, pc[t] # "idle", Returns(t, how)
      PROVE  /\ pc' \in [Tasks -> {"idle", "lock", "enable", "trigger", "load", "wait"}]
             /\ queue' \in [Tasks -> Seq(Loads)]
             /\ \A u \in Tasks : Len(queue'[u]) <= Capacity
             /\ lagged' \in [Tasks -> BOOLEAN]
             /\ result' \in [Tasks -> Results \cup {None}]
             /\ mine' \in [Tasks -> 0..MaxDocs]
             /\ stray' \subseteq Pages
  <2>1. queue' \in [Tasks -> Seq(Loads)] /\ \A u \in Tasks : Len(queue'[u]) <= Capacity
    <3>1. <<>> \in Seq(Loads) /\ Len(<<>>) <= Capacity
      BY CapacityAssumption
    <3> QED BY <1>7, <3>1 DEF Returns, TypeOK
  <2>2. mine' \in [Tasks -> 0..MaxDocs] /\ stray' \subseteq Pages
    BY <1>7, BoundsAssumption DEF Returns, TypeOK, PointFacts
  <2> QED BY <1>7, <2>1, <2>2 DEF Returns, TypeOK
<1>8. ASSUME NEW t \in Tasks, CallFails(t) PROVE TypeOK'
  <2>1. Returns(t, "failed") /\ pc[t] # "idle" /\ "failed" \in Results
    BY <1>8 DEF CallFails, Results
  <2>2. lock' \in [Pages -> Tasks \cup {None}] /\ answered' \in [Tasks -> BOOLEAN]
    BY <1>8 DEF CallFails, Released, Takes, TypeOK
  <2> QED BY <1>7, <1>8, <2>1, <2>2 DEF CallFails, TypeOK
<1>9. ASSUME NEW t \in Tasks, Receive(t) PROVE TypeOK'
  <2>1. CASE IsOwn(t, Head(queue[t])) /\ Returns(t, IF Head(queue[t]).doc = mine[t] THEN "own" ELSE "other")
    <3>1. (IF Head(queue[t]).doc = mine[t] THEN "own" ELSE "other") \in Results /\ pc[t] # "idle"
      BY <1>9 DEF Receive, Results
    <3> QED BY <1>7, <1>9, <2>1, <3>1 DEF Receive, TypeOK
  <2>2. CASE queue' = [queue EXCEPT ![t] = Tail(@)] /\ UNCHANGED <<pc, lagged, result, mine, stray>>
    <3>1. queue[t] \in Seq(Loads) /\ queue[t] # <<>> /\ Len(queue[t]) <= Capacity
      BY <1>9 DEF Receive, TypeOK
    <3>2. Tail(queue[t]) \in Seq(Loads) /\ Len(Tail(queue[t])) <= Capacity
      BY <3>1, TailFacts, CapacityAssumption
    <3> QED BY <1>9, <2>2, <3>2 DEF Receive, TypeOK
  <2> QED BY <1>9, <2>1, <2>2 DEF Receive
<1>10. ASSUME NEW t \in Tasks, Expire(t) PROVE TypeOK'
  <2>1. Returns(t, "failed") /\ pc[t] # "idle" /\ "failed" \in Results
    BY <1>10 DEF Expire, Results
  <2> QED BY <1>7, <1>10, <2>1 DEF Expire, TypeOK
<1>11. CASE ReadReply
  <2>1. wire' \in Seq(Loads \cup Replies)
    BY <1>11, TailFacts DEF ReadReply, TypeOK
  <2>2. answered' \in [Tasks -> BOOLEAN]
    BY <1>11 DEF ReadReply, TypeOK, Pending
  <2> QED BY <1>11, <2>1, <2>2 DEF ReadReply, TypeOK
<1>12. CASE Publish
  <2>1. wire' \in Seq(Loads \cup Replies) /\ Head(wire) \in Loads
    BY <1>12, TailFacts DEF Publish, TypeOK, Loads, Replies
  <2>2. ASSUME NEW t \in Tasks PROVE queue'[t] \in Seq(Loads) /\ Len(queue'[t]) <= Capacity
    <3>1. queue[t] \in Seq(Loads) /\ Len(queue[t]) <= Capacity /\ Len(queue[t]) \in Nat
      BY DEF TypeOK
    <3>2. CASE ~Busy(t)
      BY <1>12, <3>1, <3>2 DEF Publish
    <3>3. CASE Busy(t) /\ Full(t)
      <4>1. queue[t] # <<>>
        BY <3>1, <3>3, CapacityAssumption DEF Full
      <4>2. Tail(queue[t]) \in Seq(Loads) /\ Len(Tail(queue[t])) = Len(queue[t]) - 1
        BY <3>1, <4>1, TailFacts
      <4>3. queue'[t] = Append(Tail(queue[t]), Head(wire))
        BY <1>12, <3>3 DEF Publish
      <4> QED BY <2>1, <3>1, <4>2, <4>3, AppendFacts
    <3>4. CASE Busy(t) /\ ~Full(t)
      <4>1. queue'[t] = Append(queue[t], Head(wire))
        BY <1>12, <3>4 DEF Publish
      <4>2. Len(queue[t]) + 1 <= Capacity
        BY <3>1, <3>4, CapacityAssumption DEF Full
      <4> QED BY <2>1, <3>1, <4>1, <4>2, AppendFacts
    <3> QED BY <3>2, <3>3, <3>4
  <2>3. queue' \in [Tasks -> Seq(Loads)]
    BY <1>12, <2>2 DEF Publish
  <2>4. lagged' \in [Tasks -> BOOLEAN]
    BY <1>12 DEF Publish, TypeOK, Busy, Full
  <2> QED BY <1>12, <2>1, <2>2, <2>3, <2>4 DEF Publish, TypeOK
<1>13. CASE HandleEnable \/ HandleLoad \/ Refuse
  <2>0. commands' = Tail(commands) /\ commands # <<>> /\ commands \in Seq(Commands)
    BY <1>13 DEF HandleEnable, HandleLoad, Refuse, TypeOK
  <2>1. commands' \in Seq(Commands) /\ Head(commands) \in Commands
    BY <2>0, TailFacts
  <2>2. Append(wire, Reply(Head(commands))) \in Seq(Loads \cup Replies)
    BY <2>1, MessageTypes, AppendFacts DEF TypeOK
  <2>3. Head(commands).page \in Pages /\ Head(commands).task \in Tasks
    BY <2>1 DEF Commands
  <2>4. CASE HandleEnable
    BY <2>1, <2>2, <2>3, <2>4 DEF HandleEnable, TypeOK
  <2>5. CASE HandleLoad
    <3>1. doc' \in [Pages -> 0..MaxDocs]
      BY <2>3, <2>5, BoundsAssumption DEF HandleLoad, Navigated, TypeOK
    <3>2. mine' \in [Tasks -> 0..MaxDocs]
      BY <2>3, <2>5, <3>1 DEF HandleLoad, TypeOK
    <3> QED BY <2>1, <2>2, <2>5, <3>1, <3>2 DEF HandleLoad, TypeOK
  <2>6. CASE Refuse
    BY <2>1, <2>6 DEF Refuse, TypeOK
  <2> QED BY <1>13, <2>4, <2>5, <2>6
<1>14. ASSUME NEW p \in Pages, FinishLoad(p) PROVE TypeOK'
  <2>1. wire' \in Seq(Loads \cup Replies)
    BY <1>14, MessageTypes, AppendFacts DEF FinishLoad, TypeOK
  <2> QED BY <1>14, <2>1 DEF FinishLoad, TypeOK
<1>15. ASSUME NEW p \in Pages, PageMoves(p) PROVE TypeOK'
  BY <1>15, BoundsAssumption DEF PageMoves, Navigated, TypeOK
<1>16. CASE Terminated
  BY <1>16 DEF Terminated, TypeOK
<1> QED BY <1>1, <1>2, <1>3, <1>4, <1>5, <1>6, <1>8, <1>9, <1>10, <1>11, <1>12, <1>13, <1>14,
           <1>15, <1>16 DEF Next, Locks, Proceeds, Reader, Browser

(* The reader and the browser leave the tasks where they are. *)
LEMMA OthersLeaveTasks ==
    ASSUME Reader \/ Browser \/ Terminated
    PROVE  UNCHANGED <<pc, at, call, begun, enabled, lock>>
BY DEF Reader, ReadReply, Publish, Browser, HandleEnable, HandleLoad, Refuse, FinishLoad, PageMoves,
       Terminated, op, program, browser, vars

(* Whoever holds a mutex is enabling that page, and conversely. *)
LEMMA StepGuard ==
    ASSUME TypeOK, GuardIsTheCall, PointFacts, Next
    PROVE  GuardIsTheCall'
<1> USE NoneAssumption DEF GuardIsTheCall, GuardHasItsCall, TypeOK, op
<1>1. ASSUME NEW t \in Tasks, NEW p \in Pages, Begin(t, p) PROVE GuardIsTheCall'
  BY <1>1 DEF Begin
<1>2. ASSUME NEW t \in Tasks, AlreadyEnabled(t) \/ Trigger(t) \/ Accepted(t) PROVE GuardIsTheCall'
  BY <1>2 DEF AlreadyEnabled, Trigger, Accepted, Sends
<1>3. ASSUME NEW t \in Tasks, Enable(t) PROVE GuardIsTheCall'
  BY <1>3 DEF Enable, Sends, PointFacts
<1>4. ASSUME NEW t \in Tasks, Enabled(t) PROVE GuardIsTheCall'
  BY <1>4 DEF Enabled, Released, PointFacts
<1>5. ASSUME NEW t \in Tasks, CallFails(t) PROVE GuardIsTheCall'
  BY <1>5 DEF CallFails, Returns, Released, PointFacts
<1>6. ASSUME NEW t \in Tasks, Receive(t) \/ Expire(t) PROVE GuardIsTheCall'
  BY <1>6 DEF Receive, Expire, Returns
<1>7. CASE Reader \/ Browser \/ Terminated
  BY <1>7, OthersLeaveTasks
<1> QED BY <1>1, <1>2, <1>3, <1>4, <1>5, <1>6, <1>7 DEF Next, Locks, Proceeds

(* A command in flight, and the reply to it, stay with their operation: a  *)
(* task's next operation has a number that no command carries yet.         *)
LEMMA StepCarried ==
    ASSUME TypeOK, CarriedRight, PointFacts, Next
    PROVE  CarriedRight'
<1> DEFINE Fine(m, pages) == m.kind = "reply" =>
             Carried(m.to) /\ (m.to.method = "enable" => m.to.page \in pages)
<1>a. /\ commands \in Seq(Commands) /\ wire \in Seq(Loads \cup Replies)
      /\ begun \in Nat /\ call \in [Tasks -> Nat] /\ at \in [Tasks -> Pages \cup {None}]
      /\ \A i \in 1..Len(commands) : Carried(commands[i]) /\ commands[i] \in Commands
      /\ \A i \in 1..Len(wire) : Fine(wire[i], emits) /\ wire[i] \in Loads \cup Replies
  BY BoundsAssumption DEF TypeOK, CarriedRight
<1>1. ASSUME NEW t \in Tasks, NEW p \in Pages, Begin(t, p) PROVE CarriedRight'
  <2>1. ASSUME NEW c \in Commands, Carried(c) PROVE Carried(c)'
    <3>1. c.call \in Nat /\ c.task \in Tasks
      BY BoundsAssumption DEF Commands
    <3>2. begun' = begun + 1 /\ call' = [call EXCEPT ![t] = begun + 1] /\ at' = [at EXCEPT ![t] = p]
      BY <1>1 DEF Begin
    <3> QED BY <1>a, <2>1, <3>1, <3>2 DEF Carried
  <2>2. \A i \in 1..Len(wire) : wire[i].kind = "reply" => wire[i].to \in Commands
    BY <1>a DEF Loads, Replies
  <2>3. UNCHANGED <<commands, wire, emits>>
    BY <1>1 DEF Begin, browser
  <2> QED BY <1>a, <2>1, <2>2, <2>3 DEF CarriedRight
<1>2. ASSUME NEW t \in Tasks, NEW m \in {"enable", "load"}, pc[t] # "idle", Sends(t, m),
             UNCHANGED <<op, wire, emits>>
      PROVE  CarriedRight'
  <2>1. Carried(Command(t, m)) /\ Command(t, m) \in Commands
    BY <1>2, SendsTypes DEF Carried, Command, PointFacts
  <2>2. \A i \in 1..Len(commands') : Carried(commands'[i])
    <3>1. commands' = Append(commands, Command(t, m))
      BY <1>2 DEF Sends
    <3> QED BY <1>a, <2>1, <3>1, AppendFacts
  <2>3. \A c : Carried(c)' = Carried(c)
    BY <1>2 DEF Carried, op
  <2> QED BY <1>a, <1>2, <2>2, <2>3 DEF CarriedRight
<1>3. ASSUME UNCHANGED <<op, commands, wire, emits>> PROVE CarriedRight'
  <2>1. \A c : Carried(c)' = Carried(c)
    BY <1>3 DEF Carried, op
  <2> QED BY <1>a, <1>3, <2>1 DEF CarriedRight
<1>4. ASSUME NEW t \in Tasks, Enable(t) \/ Trigger(t) PROVE CarriedRight'
  BY <1>2, <1>4 DEF Enable, Trigger, browser
<1>5. ASSUME NEW t \in Tasks,
             \/ AlreadyEnabled(t) \/ Enabled(t) \/ Accepted(t) \/ CallFails(t) \/ Receive(t) \/ Expire(t)
      PROVE  CarriedRight'
  BY <1>3, <1>5 DEF AlreadyEnabled, Enabled, Accepted, CallFails, Receive, Expire, browser
<1>6. CASE Reader
  <2>1. wire # <<>> /\ wire' = Tail(wire) /\ UNCHANGED <<op, commands, emits>>
    BY <1>6 DEF Reader, ReadReply, Publish, browser
  <2>2. \A i \in 1..Len(wire') : Fine(wire'[i], emits)
    BY <1>a, <2>1, TailFacts
  <2>3. \A c : Carried(c)' = Carried(c)
    BY <2>1 DEF Carried, op
  <2> QED BY <1>a, <2>1, <2>2, <2>3 DEF CarriedRight
<1>7. CASE HandleEnable \/ HandleLoad \/ Refuse
  <2>1. /\ commands # <<>> /\ commands' = Tail(commands) /\ emits \subseteq emits' /\ UNCHANGED op
        /\ wire' = wire \/ /\ wire' = Append(wire, Reply(Head(commands)))
                           /\ Head(commands).method = "enable" => Head(commands).page \in emits'
    BY <1>7 DEF HandleEnable, HandleLoad, Refuse, program, browser
  <2>2. \A c : Carried(c)' = Carried(c)
    BY <2>1 DEF Carried, op
  <2>3. Head(commands) \in Commands /\ Carried(Head(commands))
    BY <1>a, <2>1, TailFacts
  <2>4. \A i \in 1..Len(commands') : Carried(commands'[i])
    BY <1>a, <2>1, TailFacts
  <2>5. \A i \in 1..Len(wire') : Fine(wire'[i], emits')
    <3>1. \A i \in 1..Len(wire) : Fine(wire[i], emits')
      BY <1>a, <2>1
    <3>2. CASE wire' = wire
      BY <3>1, <3>2
    <3>3. CASE wire' # wire
      <4>1. Reply(Head(commands)) \in Loads \cup Replies /\ Reply(Head(commands)).to = Head(commands)
        BY <2>3, MessageTypes
      <4>2. Fine(Reply(Head(commands)), emits')
        BY <2>1, <2>3, <3>3, <4>1
      <4> HIDE DEF Fine
      <4>3. wire' = Append(wire, Reply(Head(commands)))
        BY <2>1, <3>3
      <4> QED BY <1>a, <3>1, <4>1, <4>2, <4>3, AppendFacts
    <3> QED BY <3>2, <3>3
  <2> QED BY <2>2, <2>4, <2>5 DEF CarriedRight
<1>8. ASSUME NEW p \in Pages, FinishLoad(p) PROVE CarriedRight'
  <2>1. UNCHANGED <<op, commands, emits>> /\ (wire' = wire \/ wire' = Append(wire, LoadEvent(p)))
    BY <1>8 DEF FinishLoad, program
  <2>2. \A c : Carried(c)' = Carried(c)
    BY <2>1 DEF Carried, op
  <2>3. LoadEvent(p) \in Loads \cup Replies /\ Fine(LoadEvent(p), emits)
    BY MessageTypes
  <2>4. \A i \in 1..Len(wire') : Fine(wire'[i], emits)
    <3> HIDE DEF Fine
    <3> QED BY <1>a, <2>1, <2>3, AppendFacts
  <2> QED BY <1>a, <2>1, <2>2, <2>4 DEF CarriedRight
<1>9. CASE Terminated \/ \E p \in Pages : PageMoves(p)
  BY <1>3, <1>9 DEF Terminated, PageMoves, program, browser, vars
<1> QED BY <1>1, <1>4, <1>5, <1>6, <1>7, <1>8, <1>9 DEF Next, Locks, Proceeds, Browser

(* What a task may rely on where it is. *)
LEMMA StepPoints ==
    ASSUME TypeOK, GuardIsTheCall, CarriedRight, PointFacts, RecordedIsEnabled, Next
    PROVE  PointFacts'
<1> USE DEF op, program, browser
<1>a. begun \in Nat /\ call \in [Tasks -> Nat]
  BY BoundsAssumption DEF TypeOK
<1>1. ASSUME NEW t \in Tasks, NEW p \in Pages, Begin(t, p) PROVE PointFacts'
  BY <1>1, <1>a DEF Begin, PointFacts, TypeOK
<1>2. ASSUME NEW t \in Tasks, AlreadyEnabled(t) PROVE PointFacts'
  BY <1>2 DEF AlreadyEnabled, PointFacts, TypeOK
<1>3. ASSUME NEW t \in Tasks, Enable(t) PROVE PointFacts'
  BY <1>3 DEF Enable, Sends, PointFacts, TypeOK
<1>4. ASSUME NEW t \in Tasks, Enabled(t) PROVE PointFacts'
  BY <1>4 DEF Enabled, Takes, PointFacts, TypeOK
<1>5. ASSUME NEW t \in Tasks, Trigger(t) PROVE PointFacts'
  BY <1>5 DEF Trigger, Sends, PointFacts, TypeOK
<1>6. ASSUME NEW t \in Tasks, Accepted(t) PROVE PointFacts'
  BY <1>6 DEF Accepted, Takes, PointFacts, TypeOK
<1>7. ASSUME NEW t \in Tasks, CallFails(t) PROVE PointFacts'
  BY <1>7 DEF CallFails, Returns, Takes, PointFacts, TypeOK
<1>8. ASSUME NEW t \in Tasks, Receive(t) PROVE PointFacts'
  BY <1>8 DEF Receive, Returns, PointFacts, TypeOK
<1>9. ASSUME NEW t \in Tasks, Expire(t) PROVE PointFacts'
  BY <1>9 DEF Expire, Returns, PointFacts, TypeOK
<1>10. CASE ReadReply
  <2>1. wire \in Seq(Loads \cup Replies) /\ wire # <<>>
    BY <1>10 DEF ReadReply, TypeOK
  <2>2. Head(wire) \in Loads \cup Replies /\ 1 \in 1..Len(wire) /\ wire[1] = Head(wire)
    BY <2>1, TailFacts
  <2> DEFINE c == Head(wire).to
  <2>3. c \in Commands /\ c.task \in Tasks /\ Carried(c) /\ (c.method = "enable" => c.page \in emits)
    BY <1>10, <2>2 DEF ReadReply, CarriedRight, Loads, Replies, Commands
  <2> HIDE DEF c
  <2>4. \A t \in Tasks : answered'[t] => answered[t] \/ (t = c.task /\ Pending(c))
    BY <1>10, <2>3 DEF ReadReply, TypeOK, Pending, c
  <2>5. \A t \in Tasks : pc[t] = "enable" /\ answered'[t] => at[t] \in emits
    BY <2>3, <2>4 DEF Pending, Carried, PointFacts
  <2>6. \A t \in Tasks : answered'[t] => pc[t] \in {"enable", "load"}
    BY <2>3, <2>4 DEF Pending, PointFacts, Commands
  <2>7. UNCHANGED <<pc, op, enabled, emits, mine>>
    BY <1>10 DEF ReadReply
  <2> QED BY <2>5, <2>6, <2>7 DEF PointFacts
<1>11. CASE Publish
  BY <1>11 DEF Publish, PointFacts
<1>12. CASE HandleEnable
  BY <1>12 DEF HandleEnable, PointFacts
<1>13. CASE HandleLoad
  <2>1. commands \in Seq(Commands) /\ commands # <<>>
    BY <1>13 DEF HandleLoad, TypeOK
  <2>0. Head(commands) \in Commands
    BY <2>1, TailFacts
  <2>2. Head(commands).task \in Tasks /\ Head(commands).method = "load"
    BY <1>13, <2>0 DEF HandleLoad, Commands
  <2>3. \A t \in Tasks : mine'[t] # 0 => pc[t] \in {"load", "wait"}
    BY <1>13, <2>2 DEF HandleLoad, Pending, PointFacts, TypeOK
  <2> QED BY <1>13, <2>3 DEF HandleLoad, PointFacts
<1>14. CASE Refuse \/ Terminated \/ \E p \in Pages : FinishLoad(p) \/ PageMoves(p)
  BY <1>14 DEF Refuse, Terminated, FinishLoad, PageMoves, PointFacts, vars
<1> QED BY <1>1, <1>2, <1>3, <1>4, <1>5, <1>6, <1>7, <1>8, <1>9, <1>10, <1>11, <1>12, <1>13, <1>14
        DEF Next, Locks, Proceeds, Reader, Browser

(* A load is of a document the page has had. *)
LEMMA StepLoads ==
    ASSUME TypeOK, LoadsInOrder, Next
    PROVE  LoadsInOrder'
<1> USE DEF op, program, browser
<1>a. doc \in [Pages -> Nat] /\ loaded \in [Pages -> Nat]
  BY BoundsAssumption DEF TypeOK
<1>1. ASSUME UNCHANGED <<doc, loaded>> PROVE LoadsInOrder'
  BY <1>1 DEF LoadsInOrder
<1>2. ASSUME NEW t \in Tasks, (\E p \in Pages : Begin(t, p)) \/ Locks(t) \/ Proceeds(t)
      PROVE  LoadsInOrder'
  BY <1>1, <1>2 DEF Begin, Locks, AlreadyEnabled, Enable, Proceeds, Enabled, Trigger, Accepted,
                    CallFails, Receive, Expire
<1>3. CASE Reader \/ HandleEnable \/ Refuse \/ Terminated
  BY <1>1, <1>3 DEF Reader, ReadReply, Publish, HandleEnable, Refuse, Terminated, vars
<1>4. CASE HandleLoad
  BY <1>a, <1>4 DEF HandleLoad, Navigated, LoadsInOrder
<1>5. ASSUME NEW p \in Pages, FinishLoad(p) PROVE LoadsInOrder'
  BY <1>a, <1>5 DEF FinishLoad, LoadsInOrder
<1>6. ASSUME NEW p \in Pages, PageMoves(p) PROVE LoadsInOrder'
  BY <1>a, <1>6 DEF PageMoves, Navigated, LoadsInOrder
<1> QED BY <1>2, <1>3, <1>4, <1>5, <1>6 DEF Next, Browser

(* A page is recorded only on the browser's word. *)
LEMMA StepRecorded ==
    ASSUME PointFacts, RecordedIsEnabled, Next
    PROVE  RecordedIsEnabled'
<1> USE DEF op, program, browser, RecordedIsEnabled
<1>1. ASSUME NEW t \in Tasks, Enabled(t) PROVE RecordedIsEnabled'
  BY <1>1 DEF Enabled, PointFacts
<1>2. CASE HandleEnable
  BY <1>2 DEF HandleEnable
<1>3. ASSUME UNCHANGED <<enabled, emits>> PROVE RecordedIsEnabled'
  BY <1>3
<1>4. ASSUME NEW t \in Tasks,
             \/ \E p \in Pages : Begin(t, p)
             \/ Locks(t) \/ Trigger(t) \/ Accepted(t) \/ CallFails(t) \/ Receive(t) \/ Expire(t)
      PROVE  RecordedIsEnabled'
  BY <1>3, <1>4 DEF Begin, Locks, AlreadyEnabled, Enable, Trigger, Accepted, CallFails, Receive, Expire
<1>5. CASE Reader \/ HandleLoad \/ Refuse \/ Terminated \/ \E p \in Pages : FinishLoad(p) \/ PageMoves(p)
  BY <1>3, <1>5 DEF Reader, ReadReply, Publish, HandleLoad, Refuse, FinishLoad, PageMoves,
                    Terminated, vars
<1> QED BY <1>1, <1>2, <1>4, <1>5 DEF Next, Proceeds, Browser

(* No step loses a load a task is waiting for. *)
LEMMA StepMissed ==
    ASSUME TypeOK, CarriedRight, PointFacts, LoadsInOrder, RecordedIsEnabled, NoMissedLoad, Next
    PROVE  NoMissedLoad'
<1> USE DEF op, program, browser
<1> DEFINE Due(t) == pc[t] \in {"load", "wait"} /\ mine[t] # 0 /\ loaded[at[t]] >= mine[t] /\ ~lagged[t]
           Safe(t) == Carries(wire, at[t]) \/ Carries(queue[t], at[t])
<1>a. \A t \in Tasks : Due(t) => Safe(t)
  BY DEF NoMissedLoad
<1>b. SUFFICES \A t \in Tasks : Due(t)' => Safe(t)'
  BY DEF NoMissedLoad
<1>c. /\ wire \in Seq(Loads \cup Replies) /\ commands \in Seq(Commands)
      /\ queue \in [Tasks -> Seq(Loads)] /\ mine \in [Tasks -> Nat]
      /\ doc \in [Pages -> Nat] /\ loaded \in [Pages -> Nat]
      /\ \A t \in Tasks : pc[t] # "idle" => at[t] \in Pages
  BY BoundsAssumption DEF TypeOK, PointFacts
<1>1. ASSUME NEW t \in Tasks, NEW p \in Pages, Begin(t, p) PROVE \A u \in Tasks : Due(u)' => Safe(u)'
  BY <1>a, <1>1 DEF Begin, TypeOK
<1>2. ASSUME NEW t \in Tasks, AlreadyEnabled(t) \/ Enable(t) \/ Enabled(t)
      PROVE  \A u \in Tasks : Due(u)' => Safe(u)'
  BY <1>a, <1>2 DEF AlreadyEnabled, Enable, Enabled, Sends, TypeOK
<1>3. ASSUME NEW t \in Tasks, Trigger(t) PROVE \A u \in Tasks : Due(u)' => Safe(u)'
  BY <1>a, <1>3 DEF Trigger, Sends, TypeOK, PointFacts
<1>4. ASSUME NEW t \in Tasks, Accepted(t) PROVE \A u \in Tasks : Due(u)' => Safe(u)'
  BY <1>a, <1>4 DEF Accepted, TypeOK
<1>5. ASSUME NEW t \in Tasks, CallFails(t) \/ Expire(t) PROVE \A u \in Tasks : Due(u)' => Safe(u)'
  BY <1>a, <1>5 DEF CallFails, Expire, Returns, TypeOK
<1>6. ASSUME NEW t \in Tasks, Receive(t) PROVE \A u \in Tasks : Due(u)' => Safe(u)'
  <2>1. CASE pc'[t] = "idle"
    BY <1>a, <1>6, <2>1 DEF Receive, Returns, TypeOK
  <2>2. CASE pc'[t] # "idle"
    <3>1. /\ queue[t] # <<>> /\ queue' = [queue EXCEPT ![t] = Tail(@)] /\ Head(queue[t]).page # at[t]
          /\ UNCHANGED <<pc, at, mine, loaded, lagged, wire>>
      BY <1>6, <2>2 DEF Receive, Returns, IsOwn, TypeOK
    <3>2. Carries(queue[t], at[t]) => Carries(Tail(queue[t]), at[t])
      BY <1>c, <3>1, CarriesTail
    <3> QED BY <1>a, <1>c, <3>1, <3>2
  <2> QED BY <2>1, <2>2
<1>7. CASE ReadReply
  <2>1. \A p : Carries(wire, p) => Carries(wire', p)
    BY <1>c, <1>7, CarriesTail DEF ReadReply
  <2> QED BY <1>a, <1>7, <2>1 DEF ReadReply
<1>8. CASE Publish
  <2> SUFFICES ASSUME NEW t \in Tasks, Due(t)' PROVE Safe(t)'
    OBVIOUS
  <2>1. Head(wire) \in Loads /\ Head(wire).kind = "load" /\ wire # <<>> /\ wire' = Tail(wire)
    <3>1. Head(wire) \in Loads \cup Replies
      BY <1>8, <1>c, TailFacts DEF Publish
    <3> QED BY <1>8, <3>1 DEF Publish, Loads, Replies
  <2>2. UNCHANGED <<pc, at, mine, loaded>> /\ ~lagged[t] /\ Busy(t) /\ ~Full(t)
    BY <1>8 DEF Publish, TypeOK, Busy
  <2>3. queue'[t] = Append(queue[t], Head(wire)) /\ queue[t] \in Seq(Loads)
    BY <1>8, <1>c, <2>2 DEF Publish
  <2>4. CASE Carries(queue[t], at[t])
    BY <2>1, <2>2, <2>3, <2>4, CarriesAppend
  <2>5. CASE Carries(wire, at[t])
    <3>1. Carries(Tail(wire), at[t]) \/ Head(wire).page = at[t]
      BY <1>c, <2>1, <2>5, CarriesTail
    <3> QED BY <2>1, <2>2, <2>3, <3>1, CarriesAppend
  <2> QED BY <1>a, <2>2, <2>4, <2>5
<1>9. ASSUME NEW m \in Loads \cup Replies, wire' = Append(wire, m) \/ wire' = wire
      PROVE  \A p : Carries(wire, p) => Carries(wire', p)
  BY <1>9, <1>c, CarriesAppend
<1>10. CASE HandleEnable \/ HandleLoad \/ Refuse
  <2>1. commands # <<>> /\ (wire' = Append(wire, Reply(Head(commands))) \/ wire' = wire)
    BY <1>10 DEF HandleEnable, HandleLoad, Refuse
  <2>2. Head(commands) \in Commands /\ 1 \in 1..Len(commands) /\ commands[1] = Head(commands)
    BY <1>c, <2>1, TailFacts
  <2>3. \A p : Carries(wire, p) => Carries(wire', p)
    BY <1>9, <2>1, <2>2, MessageTypes
  <2>4. CASE HandleEnable \/ Refuse
    BY <1>a, <2>3, <2>4 DEF HandleEnable, Refuse
  <2>5. CASE HandleLoad
    <3> DEFINE c == Head(commands)
    <3>1. c.task \in Tasks /\ c.page \in Pages /\ Carried(c)
      BY <2>2 DEF Commands, CarriedRight
    <3>2. ASSUME NEW t \in Tasks, mine'[t] # mine[t] PROVE mine'[t] = doc[at[t]] + 1 /\ at[t] \in Pages
      <4>1. t = c.task /\ Pending(c) /\ mine'[t] = doc'[c.page]
        BY <1>c, <2>5, <3>1, <3>2 DEF HandleLoad
      <4>2. at[t] = c.page
        BY <3>1, <4>1 DEF Carried, Pending
      <4> QED BY <1>c, <2>5, <3>1, <4>1, <4>2 DEF HandleLoad, Navigated
    <3>3. \A t \in Tasks : Due(t)' => Due(t)
      BY <1>c, <2>5, <3>2 DEF HandleLoad, LoadsInOrder
    <3>4. UNCHANGED <<at, queue>>
      BY <2>5 DEF HandleLoad
    <3> QED BY <1>a, <2>3, <3>3, <3>4
  <2> QED BY <1>10, <2>4, <2>5
<1>11. ASSUME NEW p \in Pages, FinishLoad(p) PROVE \A u \in Tasks : Due(u)' => Safe(u)'
  <2>1. LoadEvent(p) \in Loads \cup Replies /\ LoadEvent(p).kind = "load" /\ LoadEvent(p).page = p
    BY MessageTypes
  <2>2. \A q : Carries(wire, q) => Carries(wire', q)
    BY <1>9, <1>11, <2>1 DEF FinishLoad
  <2> SUFFICES ASSUME NEW u \in Tasks, Due(u)' PROVE Safe(u)'
    OBVIOUS
  <2>3. UNCHANGED <<pc, at, queue, lagged, mine>>
    BY <1>11 DEF FinishLoad
  <2>4. CASE at[u] = p
    <3>1. p \in emits
      BY <2>3, <2>4 DEF PointFacts, RecordedIsEnabled
    <3>2. wire' = Append(wire, LoadEvent(p))
      BY <1>11, <3>1 DEF FinishLoad
    <3>3. Carries(wire', p)
      BY <1>c, <2>1, <3>2, CarriesAppend
    <3> QED BY <2>3, <2>4, <3>3
  <2>5. CASE at[u] # p
    BY <1>a, <1>c, <1>11, <2>2, <2>3, <2>5 DEF FinishLoad
  <2> QED BY <2>4, <2>5
<1>12. CASE Terminated \/ \E p \in Pages : PageMoves(p)
  BY <1>a, <1>12 DEF Terminated, PageMoves, vars
<1> QED BY <1>1, <1>2, <1>3, <1>4, <1>5, <1>6, <1>7, <1>8, <1>10, <1>11, <1>12
        DEF Next, Locks, Proceeds, Reader, Browser

(* Every step preserves the invariant. *)
LEMMA NextIInv == IInv /\ [Next]_vars => IInv'
<1> SUFFICES ASSUME IInv, [Next]_vars PROVE IInv'
  OBVIOUS
<1>1. CASE Next
  BY <1>1, StepTypes, StepGuard, StepCarried, StepPoints, StepLoads, StepRecorded, StepMissed DEF IInv
<1>2. CASE UNCHANGED vars
  <2> USE <1>2 DEF vars, program, op, browser, IInv
  <2>1. TypeOK'
    BY DEF TypeOK
  <2>2. GuardIsTheCall'
    BY DEF GuardIsTheCall, GuardHasItsCall
  <2>3. CarriedRight'
    BY DEF CarriedRight, Carried
  <2>4. PointFacts' /\ LoadsInOrder' /\ RecordedIsEnabled'
    BY DEF PointFacts, LoadsInOrder, RecordedIsEnabled
  <2>5. NoMissedLoad'
    BY DEF NoMissedLoad, Carries
  <2> QED BY <2>1, <2>2, <2>3, <2>4, <2>5
<1> QED BY <1>1, <1>2

(* The invariant holds in every state, whatever the tasks and the browser  *)
(* do and however late the answers come.                                   *)
THEOREM Invariance == Spec => []IInv
BY InitIInv, NextIInv, PTL DEF Spec

(* The types are right: in particular no receiver holds more events than   *)
(* the channel keeps for it (CdpTransport::events).                        *)
THEOREM TypeCorrect == Spec => []TypeOK
<1>1. IInv => TypeOK
  BY DEF IInv
<1> QED BY <1>1, Invariance, PTL

(* A page the program has recorded as enabled is enabled in the browser    *)
(* (Page::enable_domain).                                                  *)
THEOREM RecordIsTrue == Spec => []RecordedIsEnabled
<1>1. IInv => RecordedIsEnabled
  BY DEF IInv
<1> QED BY <1>1, Invariance, PTL

(* The mutex of a page is never left behind by a call that failed or timed *)
(* out (Page::enable_domain).                                              *)
THEOREM GuardIsReleased == Spec => []GuardHasItsCall
<1>1. IInv => GuardHasItsCall
  BY DEF IInv, GuardIsTheCall
<1> QED BY <1>1, Invariance, PTL

(* One task at a time enables a page's domain, and none once it is         *)
(* recorded (Page::enable_domain).                                         *)
THEOREM OneEnables == Spec => []EnabledOnce
<1>1. IInv => EnabledOnce
  BY DEF IInv, GuardIsTheCall, EnabledOnce
<1> QED BY <1>1, Invariance, PTL

(* A load that a task asked for is never missed unless the channel drops   *)
(* it for lack of room (Page::watch_load, LoadWatcher::wait).              *)
THEOREM LoadsAreSeen == Spec => []NoMissedLoad
<1>1. IInv => NoMissedLoad
  BY DEF IInv
<1> QED BY <1>1, Invariance, PTL


(* Page::enable_domain for any tasks and pages: enabled once, recorded         *)
(* truthfully, never left locked.                                            *)
THEOREM EnablingStaysSafe == Spec => []EnablingIsSafe
BY RecordIsTrue, OneEnables, GuardIsReleased, PTL DEF EnablingIsSafe

-----------------------------------------------------------------------------
(* A page that is not astray.  It has one driver at a time, which is the   *)
(* only one to have begun a document since the last one loaded.            *)

Drives(t, p) == pc[t] # "idle" /\ at[t] = p

LoadOf(m, p)  == m.kind = "load" /\ m.page = p
AsksFor(c, p) == c.method = "load" /\ c.page = p

OneDriver(p) == \A t, u \in Tasks : Drives(t, p) /\ Drives(u, p) => t = u

(* The one command to load the page is its driver's, who waits for the     *)
(* answer and has begun no document yet.                                   *)
CommandFacts(p) ==
    \A i \in 1..Len(commands) : AsksFor(commands[i], p) =>
        /\ Pending(commands[i]) /\ mine[commands[i].task] = 0
        /\ \A j \in 1..Len(commands) : AsksFor(commands[j], p) => i = j

(* An answer to it comes after the document was begun. *)
ReplyFacts(p) ==
    \A i \in 1..Len(wire) :
        LET c == wire[i].to
        IN wire[i].kind = "reply" /\ AsksFor(c, p) /\ c.call = call[c.task]
             => pc[c.task] = "idle" \/ (pc[c.task] \in {"load", "wait"} /\ mine[c.task] # 0)

(* The one load event of the page is that of the document its driver began, *)
(* on the wire or in the driver's receiver, and nothing is loading.          *)
EventFacts(p) ==
    \A i \in 1..Len(wire) : LoadOf(wire[i], p) =>
        /\ \E t \in Tasks : Drives(t, p) /\ mine[t] = wire[i].doc /\ mine[t] # 0
        /\ loaded[p] = doc[p]
        /\ \A j \in 1..Len(wire) : LoadOf(wire[j], p) => i = j

QueueFacts(p) ==
    \A t \in Tasks : Drives(t, p) =>
        \A i \in 1..Len(queue[t]) : queue[t][i].page = p =>
            /\ queue[t][i].doc = mine[t] /\ mine[t] # 0
            /\ loaded[p] = doc[p] /\ ~Carries(wire, p)

DocFacts(p) ==
    /\ \A t \in Tasks : Drives(t, p) /\ mine[t] # 0 => mine[t] = doc[p]
    /\ loaded[p] # doc[p] => \E t \in Tasks : Drives(t, p) /\ mine[t] # 0

Settled(p) ==
    /\ OneDriver(p) /\ CommandFacts(p) /\ ReplyFacts(p) /\ EventFacts(p) /\ QueueFacts(p) /\ DocFacts(p)

OwnInv ==
    /\ \A p \in Pages : p \notin stray => Settled(p)
    /\ \A p \in Pages : doc[p] >= 1
    /\ \A t \in Tasks : pc[t] = "idle" => queue[t] = <<>>
    /\ LoadIsOwn

(* The first document of a page that is not astray has loaded already. *)
LEMMA InitOwn == Init => OwnInv
<1> SUFFICES ASSUME Init PROVE OwnInv
  OBVIOUS
<1>1. \A t \in Tasks : pc[t] = "idle" /\ queue[t] = <<>> /\ result[t] = None
  BY DEF Init
<1>2. \A p \in Pages : doc[p] = 1 /\ (p \notin stray => loaded[p] = doc[p])
  BY DEF Init
<1>3. Len(commands) = 0 /\ Len(wire) = 0
  BY DEF Init
<1>4. LoadIsOwn
  BY <1>1, NoneAssumption DEF LoadIsOwn, Results
<1>5. ASSUME NEW p \in Pages, p \notin stray PROVE Settled(p)
  BY <1>1, <1>2, <1>3, <1>5 DEF Settled, OneDriver, CommandFacts, ReplyFacts, EventFacts, QueueFacts,
     DocFacts, Drives
<1> QED
  BY <1>1, <1>2, <1>4, <1>5 DEF OwnInv

(* A command or an answer for the page and the current operation of a task *)
(* is that of a task at the page.                                          *)
LEMMA AtItsPage ==
    ASSUME CarriedRight, NEW p
    PROVE  /\ \A i \in 1..Len(commands) : commands[i].page = p /\ commands[i].call = call[commands[i].task]
                => at[commands[i].task] = p
           /\ \A i \in 1..Len(wire) : wire[i].kind = "reply" /\ wire[i].to.page = p
                  /\ wire[i].to.call = call[wire[i].to.task] => at[wire[i].to.task] = p
BY DEF CarriedRight, Carried

(* The types of what is in flight. *)
LEMMA InFlight ==
    ASSUME TypeOK, CarriedRight
    PROVE  /\ commands \in Seq(Commands) /\ begun \in Nat /\ call \in [Tasks -> Nat]
           /\ \A i \in 1..Len(commands) : commands[i].task \in Tasks
           /\ \A i \in 1..Len(wire) : wire[i].kind = "reply" =>
                 wire[i].to.task \in Tasks /\ wire[i].to.call \in Nat /\ wire[i].to.call <= begun
<1>1. commands \in Seq(Commands) /\ wire \in Seq(Loads \cup Replies)
      /\ begun \in Nat /\ call \in [Tasks -> Nat]
  BY BoundsAssumption DEF TypeOK
<1>2. ASSUME NEW i \in 1..Len(commands) PROVE commands[i].task \in Tasks
  <2>1. commands[i] \in Commands
    BY <1>1
  <2> QED
    BY <2>1 DEF Commands
<1>3. ASSUME NEW i \in 1..Len(wire), wire[i].kind = "reply"
      PROVE  wire[i].to.task \in Tasks /\ wire[i].to.call \in Nat /\ wire[i].to.call <= begun
  <2>1. wire[i] \in Loads \cup Replies
    BY <1>1
  <2>2. wire[i].to \in Commands
    BY <1>3, <2>1 DEF Loads, Replies
  <2>3. wire[i].to.task \in Tasks /\ wire[i].to.call \in Nat
    BY <2>2, BoundsAssumption DEF Commands
  <2> QED
    BY <1>3, <2>3 DEF CarriedRight, Carried
<1> QED
  BY <1>1, <1>2, <1>3

(* A step of a task that drives another page before and after it, or none. *)
LEMMA Elsewhere ==
    ASSUME TypeOK, CarriedRight, PointFacts, NEW p \in Pages, Settled(p), NEW t \in Tasks,
           ~Drives(t, p), ~Drives(t, p)',
           \A u \in Tasks \ {t} : /\ pc'[u] = pc[u] /\ at'[u] = at[u] /\ call'[u] = call[u]
                                  /\ queue'[u] = queue[u] /\ mine'[u] = mine[u]
                                  /\ answered'[u] = answered[u],
           call'[t] = call[t] \/ call'[t] > begun,
           pc[t] # "idle" \/ pc'[t] = "idle" \/ call'[t] > begun,
           UNCHANGED <<wire, doc, loaded>>,
           \/ commands' = commands
           \/ \E c \in Commands : commands' = Append(commands, c) /\ ~AsksFor(c, p)
    PROVE  Settled(p)'
<1>0. OneDriver(p) /\ CommandFacts(p) /\ ReplyFacts(p) /\ EventFacts(p) /\ QueueFacts(p) /\ DocFacts(p)
  BY DEF Settled
<1>t. /\ commands \in Seq(Commands) /\ begun \in Nat /\ call \in [Tasks -> Nat]
      /\ \A i \in 1..Len(commands) : commands[i].task \in Tasks
      /\ \A i \in 1..Len(wire) : wire[i].kind = "reply" =>
            wire[i].to.task \in Tasks /\ wire[i].to.call \in Nat /\ wire[i].to.call <= begun
  BY InFlight
<1>1. \A u \in Tasks : /\ Drives(u, p)' <=> Drives(u, p)
                       /\ Drives(u, p) => u # t
  BY DEF Drives
<1>2. OneDriver(p)'
  BY <1>0, <1>1 DEF OneDriver
<1>3. CommandFacts(p)'
  <2>1. ASSUME NEW i \in 1..Len(commands), AsksFor(commands[i], p)
        PROVE  Pending(commands[i])' /\ mine'[commands[i].task] = 0
    <3> DEFINE u == commands[i].task
    <3>1. Pending(commands[i]) /\ mine[u] = 0 /\ u \in Tasks
      BY <1>0, <1>t, <2>1 DEF CommandFacts
    <3>2. Drives(u, p)
      BY <2>1, <3>1, AtItsPage DEF Pending, AsksFor, Drives
    <3>3. u # t
      BY <1>1, <3>1, <3>2
    <3> QED
      BY <3>1, <3>3 DEF Pending
  <2>2. CASE commands' = commands
    BY <1>0, <2>1, <2>2 DEF CommandFacts
  <2>3. ASSUME NEW c \in Commands, commands' = Append(commands, c), ~AsksFor(c, p) PROVE CommandFacts(p)'
    <3>1. \A i \in 1..Len(commands') : AsksFor(commands'[i], p) => i \in 1..Len(commands) /\ commands'[i] = commands[i]
      BY <1>t, <2>3, AppendFacts
    <3> QED
      BY <1>0, <2>1, <3>1 DEF CommandFacts
  <2> QED
    BY <2>2, <2>3
<1>4. ReplyFacts(p)'
  <2> SUFFICES ASSUME NEW i \in 1..Len(wire), wire[i].kind = "reply", AsksFor(wire[i].to, p),
                      wire[i].to.call = call'[wire[i].to.task]
               PROVE  \/ pc'[wire[i].to.task] = "idle"
                      \/ pc'[wire[i].to.task] \in {"load", "wait"} /\ mine'[wire[i].to.task] # 0
    BY DEF ReplyFacts
  <2> DEFINE u == wire[i].to.task
  <2>1. u \in Tasks /\ wire[i].to.call \in Nat /\ wire[i].to.call <= begun
    BY <1>t
  <2>2. CASE u # t
    BY <1>0, <2>1, <2>2 DEF ReplyFacts
  <2>3. CASE u = t
    <3>1. call'[t] = call[t] /\ ~(call'[t] > begun)
      BY <1>t, <2>1, <2>3
    <3>2. at[t] = p
      BY <2>3, <3>1, AtItsPage DEF AsksFor
    <3>3. pc[t] = "idle"
      BY <3>2 DEF Drives
    <3> QED
      BY <2>3, <3>1, <3>3
  <2> QED
    BY <2>2, <2>3
<1>5. EventFacts(p)'
  BY <1>0, <1>1 DEF EventFacts
<1>6. QueueFacts(p)'
  BY <1>0, <1>1 DEF QueueFacts, Carries
<1>7. DocFacts(p)'
  BY <1>0, <1>1 DEF DocFacts
<1> QED
  BY <1>2, <1>3, <1>4, <1>5, <1>6, <1>7 DEF Settled

(* Nobody but its driver has asked the browser to load the page. *)
LEMMA DriverAsks ==
    ASSUME TypeOK, CarriedRight, NEW p \in Pages, CommandFacts(p),
           NEW i \in 1..Len(commands), AsksFor(commands[i], p)
    PROVE  /\ commands[i].task \in Tasks /\ Drives(commands[i].task, p)
           /\ pc[commands[i].task] = "load" /\ ~answered[commands[i].task]
           /\ mine[commands[i].task] = 0
<1>1. commands[i].task \in Tasks
  BY InFlight
<1>2. Pending(commands[i]) /\ mine[commands[i].task] = 0
  BY DEF CommandFacts
<1>3. at[commands[i].task] = p
  BY <1>2, AtItsPage DEF Pending, AsksFor
<1> QED
  BY <1>1, <1>2, <1>3 DEF Pending, AsksFor, Drives

(* An operation begins on a page that has come to rest. *)
LEMMA BeginOwn ==
    ASSUME TypeOK, CarriedRight, PointFacts, NEW p \in Pages, Settled(p), NEW t \in Tasks,
           pc[t] = "idle" => queue[t] = <<>>, Begin(t, p), p \notin stray'
    PROVE  Settled(p)'
<1>0. OneDriver(p) /\ CommandFacts(p) /\ ReplyFacts(p) /\ EventFacts(p) /\ QueueFacts(p) /\ DocFacts(p)
  BY DEF Settled
<1>1. /\ pc[t] = "idle" /\ pc' = [pc EXCEPT ![t] = "lock"] /\ at' = [at EXCEPT ![t] = p]
      /\ call' = [call EXCEPT ![t] = begun + 1]
      /\ UNCHANGED <<queue, answered, commands, wire, doc, loaded, mine>>
  BY DEF Begin, browser
<1>2. \A u \in Tasks : ~Drives(u, p)
  BY DEF Begin, Drives, Busy
<1>3. mine[t] = 0 /\ queue[t] = <<>>
  BY <1>1 DEF PointFacts
<1>4. \A u \in Tasks : Drives(u, p)' <=> u = t
  BY <1>1, <1>2 DEF Drives, TypeOK
<1>5. OneDriver(p)'
  BY <1>4 DEF OneDriver
<1>6. CommandFacts(p)'
  <2>1. \A i \in 1..Len(commands) : ~AsksFor(commands[i], p)
    BY <1>0, <1>2, DriverAsks
  <2> QED
    BY <1>1, <2>1 DEF CommandFacts
<1>7. ReplyFacts(p)'
  <2> SUFFICES ASSUME NEW i \in 1..Len(wire), wire[i].kind = "reply", AsksFor(wire[i].to, p),
                      wire[i].to.call = call'[wire[i].to.task]
               PROVE  \/ pc'[wire[i].to.task] = "idle"
                      \/ pc'[wire[i].to.task] \in {"load", "wait"} /\ mine'[wire[i].to.task] # 0
    BY <1>1 DEF ReplyFacts
  <2>1. /\ wire[i].to.task \in Tasks /\ wire[i].to.call \in Nat /\ wire[i].to.call <= begun
        /\ begun \in Nat /\ call \in [Tasks -> Nat]
    BY InFlight
  <2>2. wire[i].to.task # t
    BY <1>1, <2>1
  <2> QED
    BY <1>0, <1>1, <2>1, <2>2 DEF ReplyFacts, TypeOK
<1>8. EventFacts(p)'
  BY <1>0, <1>1, <1>2 DEF EventFacts
<1>9. QueueFacts(p)'
  <2>1. Len(queue'[t]) = 0
    BY <1>1, <1>3
  <2> QED
    BY <1>4, <2>1 DEF QueueFacts
<1>10. DocFacts(p)'
  BY <1>0, <1>1, <1>2, <1>3, <1>4 DEF DocFacts
<1> QED
  BY <1>5, <1>6, <1>7, <1>8, <1>9, <1>10 DEF Settled

(* A step of the driver that neither begins nor ends its operation, asks   *)
(* for no load and has no request for one under way.                       *)
LEMMA DriverKeeps ==
    ASSUME TypeOK, CarriedRight, PointFacts, NEW p \in Pages, Settled(p), NEW t \in Tasks,
           Drives(t, p), Drives(t, p)',
           \A u \in Tasks \ {t} : /\ pc'[u] = pc[u] /\ queue'[u] = queue[u]
                                  /\ answered'[u] = answered[u],
           pc[t] # "load" \/ answered[t],
           pc[t] \in {"load", "wait"} => pc'[t] \in {"load", "wait"},
           \A i \in 1..Len(queue'[t]) : \E j \in 1..Len(queue[t]) : queue'[t][i] = queue[t][j],
           UNCHANGED <<at, call, mine, wire, doc, loaded>>,
           \/ commands' = commands
           \/ \E c \in Commands : commands' = Append(commands, c) /\ ~AsksFor(c, p)
    PROVE  Settled(p)'
<1>0. OneDriver(p) /\ CommandFacts(p) /\ ReplyFacts(p) /\ EventFacts(p) /\ QueueFacts(p) /\ DocFacts(p)
  BY DEF Settled
<1>1. \A u \in Tasks : (Drives(u, p)' <=> u = t) /\ (Drives(u, p) <=> u = t)
  BY <1>0 DEF Drives, OneDriver
<1>2. OneDriver(p)'
  BY <1>1 DEF OneDriver
<1>3. CommandFacts(p)'
  <2>1. \A i \in 1..Len(commands) : ~AsksFor(commands[i], p)
    BY <1>0, <1>1, DriverAsks
  <2>2. \A i \in 1..Len(commands') : ~AsksFor(commands'[i], p)
    BY <2>1, AppendFacts, InFlight
  <2> QED
    BY <2>2 DEF CommandFacts
<1>4. ReplyFacts(p)'
  <2> SUFFICES ASSUME NEW i \in 1..Len(wire), wire[i].kind = "reply", AsksFor(wire[i].to, p),
                      wire[i].to.call = call[wire[i].to.task]
               PROVE  \/ pc'[wire[i].to.task] = "idle"
                      \/ pc'[wire[i].to.task] \in {"load", "wait"} /\ mine[wire[i].to.task] # 0
    BY DEF ReplyFacts
  <2>1. wire[i].to.task \in Tasks
    BY InFlight
  <2>2. \/ pc[wire[i].to.task] = "idle"
        \/ pc[wire[i].to.task] \in {"load", "wait"} /\ mine[wire[i].to.task] # 0
    BY <1>0 DEF ReplyFacts
  <2> QED
    BY <2>1, <2>2 DEF Drives
<1>5. EventFacts(p)'
  BY <1>0, <1>1 DEF EventFacts
<1>6. QueueFacts(p)'
  BY <1>0, <1>1 DEF QueueFacts, Carries
<1>7. DocFacts(p)'
  BY <1>0, <1>1 DEF DocFacts
<1> QED
  BY <1>2, <1>3, <1>4, <1>5, <1>6, <1>7 DEF Settled

(* The driver asks for a load; nobody has asked for one yet. *)
LEMMA TriggerOwn ==
    ASSUME TypeOK, CarriedRight, PointFacts, NEW p \in Pages, Settled(p), NEW t \in Tasks,
           at[t] = p, Trigger(t)
    PROVE  Settled(p)'
<1>0. OneDriver(p) /\ CommandFacts(p) /\ ReplyFacts(p) /\ EventFacts(p) /\ QueueFacts(p) /\ DocFacts(p)
  BY DEF Settled
<1>c. PICK c \in Commands : c = Command(t, "load")
  BY SendsTypes DEF Trigger
<1>1. /\ pc[t] = "trigger" /\ pc' = [pc EXCEPT ![t] = "load"] /\ commands' = Append(commands, c)
      /\ UNCHANGED <<at, call, queue, answered, wire, doc, loaded, mine>>
  BY <1>c DEF Trigger, Sends, browser, op
<1>2. Drives(t, p) /\ Drives(t, p)'
  BY <1>1 DEF Drives, TypeOK
<1>3. \A u \in Tasks : (Drives(u, p)' <=> u = t) /\ (Drives(u, p) <=> u = t)
  BY <1>0, <1>1, <1>2 DEF Drives, OneDriver, TypeOK
<1>4. mine[t] = 0 /\ ~answered[t]
  BY <1>1 DEF PointFacts
<1>5. OneDriver(p)'
  BY <1>3 DEF OneDriver
<1>6. CommandFacts(p)'
  <2>1. \A i \in 1..Len(commands) : ~AsksFor(commands[i], p)
    BY <1>0, <1>1, <1>3, DriverAsks
  <2>2. c.task = t /\ c.call = call[t] /\ c.method = "load"
    BY <1>c DEF Command
  <2>3. Pending(c)'
    BY <1>1, <1>4, <2>2 DEF Pending, TypeOK
  <2>4. \A i \in 1..Len(commands') : AsksFor(commands'[i], p) => i = Len(commands) + 1 /\ commands'[i] = c
    BY <1>1, <2>1, AppendFacts, InFlight
  <2> QED
    <3>1. ASSUME NEW i \in 1..Len(commands'), AsksFor(commands'[i], p)
          PROVE  (Pending(commands[i]) /\ mine[commands[i].task] = 0)'
      BY <1>1, <1>4, <2>2, <2>3, <2>4, <3>1 DEF Pending
    <3> QED
      BY <2>4, <3>1 DEF CommandFacts
<1>7. ReplyFacts(p)'
  <2> SUFFICES ASSUME NEW i \in 1..Len(wire), wire[i].kind = "reply", AsksFor(wire[i].to, p),
                      wire[i].to.call = call[wire[i].to.task]
               PROVE  \/ pc'[wire[i].to.task] = "idle"
                      \/ pc'[wire[i].to.task] \in {"load", "wait"} /\ mine[wire[i].to.task] # 0
    BY <1>1 DEF ReplyFacts
  <2>1. wire[i].to.task \in Tasks
    BY InFlight
  <2>2. \/ pc[wire[i].to.task] = "idle"
        \/ pc[wire[i].to.task] \in {"load", "wait"} /\ mine[wire[i].to.task] # 0
    BY <1>0 DEF ReplyFacts
  <2> QED
    BY <1>1, <2>1, <2>2 DEF TypeOK
<1>8. EventFacts(p)'
  BY <1>0, <1>1, <1>3 DEF EventFacts
<1>9. QueueFacts(p)'
  BY <1>0, <1>1, <1>3 DEF QueueFacts, Carries
<1>10. DocFacts(p)'
  BY <1>0, <1>1, <1>3 DEF DocFacts
<1> QED
  BY <1>5, <1>6, <1>7, <1>8, <1>9, <1>10 DEF Settled

(* The driver has its load: the page is at rest again. *)
LEMMA ReceiveOwn ==
    ASSUME TypeOK, CarriedRight, PointFacts, NEW p \in Pages, Settled(p), NEW t \in Tasks,
           at[t] = p, Receive(t), IsOwn(t, Head(queue[t])), pc'[t] = "idle"
    PROVE  Head(queue[t]).doc = mine[t] /\ Settled(p)'
<1>0. OneDriver(p) /\ CommandFacts(p) /\ ReplyFacts(p) /\ EventFacts(p) /\ QueueFacts(p) /\ DocFacts(p)
  BY DEF Settled
<1>1. /\ pc[t] = "wait" /\ queue[t] # <<>> /\ Head(queue[t]).page = p
      /\ pc' = [pc EXCEPT ![t] = "idle"] /\ mine' = [mine EXCEPT ![t] = 0]
      /\ UNCHANGED <<at, call, answered, commands, wire, doc, loaded>>
  BY DEF Receive, Returns, IsOwn, op, TypeOK
<1>2. \A u \in Tasks : Drives(u, p) <=> u = t
  BY <1>0, <1>1 DEF OneDriver, Drives
<1>3. \A u \in Tasks : ~Drives(u, p)'
  BY <1>1, <1>2 DEF Drives, TypeOK
<1>4. Head(queue[t]).doc = mine[t] /\ loaded[p] = doc[p] /\ ~Carries(wire, p)
  <2>1. queue[t] \in Seq(Loads)
    BY DEF TypeOK
  <2>2. 1 \in 1..Len(queue[t]) /\ queue[t][1] = Head(queue[t])
    BY <1>1, <2>1, TailFacts
  <2> QED
    BY <1>0, <1>1, <1>2, <2>2 DEF QueueFacts
<1>5. CommandFacts(p)'
  <2>1. \A i \in 1..Len(commands) : ~AsksFor(commands[i], p)
    BY <1>0, <1>1, <1>2, DriverAsks
  <2> QED
    BY <1>1, <2>1 DEF CommandFacts
<1>6. ReplyFacts(p)'
  <2> SUFFICES ASSUME NEW i \in 1..Len(wire), wire[i].kind = "reply", AsksFor(wire[i].to, p),
                      wire[i].to.call = call[wire[i].to.task]
               PROVE  \/ pc'[wire[i].to.task] = "idle"
                      \/ pc'[wire[i].to.task] \in {"load", "wait"} /\ mine'[wire[i].to.task] # 0
    BY <1>1 DEF ReplyFacts
  <2>1. wire[i].to.task \in Tasks
    BY InFlight
  <2>2. \/ pc[wire[i].to.task] = "idle"
        \/ pc[wire[i].to.task] \in {"load", "wait"} /\ mine[wire[i].to.task] # 0
    BY <1>0 DEF ReplyFacts
  <2> QED
    BY <1>1, <2>1, <2>2 DEF TypeOK
<1>7. EventFacts(p)'
  BY <1>1, <1>4 DEF EventFacts, Carries, LoadOf
<1>8. OneDriver(p)' /\ QueueFacts(p)' /\ DocFacts(p)'
  BY <1>1, <1>3, <1>4 DEF OneDriver, QueueFacts, DocFacts
<1> QED
  BY <1>4, <1>5, <1>6, <1>7, <1>8 DEF Settled

(* The reader resolves a call: the answer to a load comes when no command  *)
(* for the page is left.                                                   *)
LEMMA ReadReplyOwn ==
    ASSUME TypeOK, CarriedRight, PointFacts, NEW p \in Pages, Settled(p), ReadReply
    PROVE  Settled(p)'
<1>0. OneDriver(p) /\ CommandFacts(p) /\ ReplyFacts(p) /\ EventFacts(p) /\ QueueFacts(p) /\ DocFacts(p)
  BY DEF Settled
<1>1. /\ wire \in Seq(Loads \cup Replies) /\ wire # <<>> /\ Head(wire).kind = "reply" /\ wire' = Tail(wire)
      /\ UNCHANGED <<pc, at, call, queue, commands, doc, loaded, mine>>
  BY DEF ReadReply, TypeOK, browser, op
<1>2. /\ 1 \in 1..Len(wire) /\ wire[1] = Head(wire)
      /\ \A i \in 1..Len(wire') : i + 1 \in 1..Len(wire) /\ wire'[i] = wire[i + 1]
  BY <1>1, TailFacts
<1>3. \A u \in Tasks : Drives(u, p)' <=> Drives(u, p)
  BY <1>1 DEF Drives
<1>4. CommandFacts(p)'
  <2>1. ASSUME NEW i \in 1..Len(commands), AsksFor(commands[i], p)
        PROVE  ~answered'[commands[i].task]
    <3> DEFINE u == commands[i].task
               c == Head(wire).to
    <3>1. u \in Tasks /\ Drives(u, p) /\ pc[u] = "load" /\ ~answered[u] /\ mine[u] = 0
      BY <1>0, <2>1, DriverAsks
    <3>2. c.task \in Tasks /\ answered' = [answered EXCEPT ![c.task] = @ \/ Pending(c)]
      BY <1>1, <1>2, InFlight DEF ReadReply
    <3>3. ~(c.task = u /\ Pending(c))
      <4> SUFFICES ASSUME c.task = u, Pending(c) PROVE FALSE
        OBVIOUS
      <4>1. c.call = call[u] /\ c.method = "load"
        BY <3>1 DEF Pending
      <4>2. c.page = p
        BY <1>1, <1>2, <3>1, <4>1 DEF CarriedRight, Carried, Drives
      <4> QED
        BY <1>0, <1>1, <1>2, <3>1, <4>1, <4>2 DEF ReplyFacts, AsksFor
    <3> HIDE DEF u, c
    <3>4. answered \in [Tasks -> BOOLEAN]
      BY DEF TypeOK
    <3> QED
      BY <3>1, <3>2, <3>3, <3>4 DEF u
  <2>2. ASSUME NEW i \in 1..Len(commands), AsksFor(commands[i], p)
        PROVE  (Pending(commands[i]) /\ mine[commands[i].task] = 0)'
    BY <1>0, <1>1, <2>1, <2>2 DEF Pending, CommandFacts
  <2> QED
    BY <1>0, <1>1, <2>2 DEF CommandFacts
<1>5. ReplyFacts(p)'
  BY <1>0, <1>1, <1>2 DEF ReplyFacts
<1>6. EventFacts(p)'
  <2>1. \A i, j \in 1..Len(wire') : i + 1 = j + 1 => i = j
    OBVIOUS
  <2> QED
    BY <1>0, <1>1, <1>2, <1>3, <2>1 DEF EventFacts
<1>7. ~Carries(wire, p) => ~Carries(wire', p)
  BY <1>2 DEF Carries
<1>8. OneDriver(p)' /\ QueueFacts(p)' /\ DocFacts(p)'
  BY <1>0, <1>1, <1>3, <1>7 DEF OneDriver, QueueFacts, DocFacts
<1> QED
  BY <1>4, <1>5, <1>6, <1>8 DEF Settled

(* The reader publishes an event: the page's own goes to its driver, and   *)
(* no other is left behind it.                                             *)
LEMMA PublishOwn ==
    ASSUME TypeOK, CarriedRight, PointFacts, NEW p \in Pages, Settled(p), Publish
    PROVE  Settled(p)'
<1>0. OneDriver(p) /\ CommandFacts(p) /\ ReplyFacts(p) /\ EventFacts(p) /\ QueueFacts(p) /\ DocFacts(p)
  BY DEF Settled
<1>1. /\ wire \in Seq(Loads \cup Replies) /\ wire # <<>> /\ Head(wire).kind = "load" /\ wire' = Tail(wire)
      /\ UNCHANGED <<pc, at, call, answered, commands, doc, loaded, mine>>
  BY DEF Publish, TypeOK, browser, op
<1>2. /\ 1 \in 1..Len(wire) /\ wire[1] = Head(wire)
      /\ \A i \in 1..Len(wire') : i \in Nat /\ i >= 1 /\ i + 1 \in 1..Len(wire) /\ wire'[i] = wire[i + 1]
      /\ Head(wire) \in Loads
  <2>1. Head(wire) \in Loads \cup Replies
    BY <1>1, TailFacts
  <2> QED
    BY <1>1, <2>1, TailFacts DEF Loads, Replies
<1>3. \A u \in Tasks : Drives(u, p)' <=> Drives(u, p)
  BY <1>1 DEF Drives
<1>4. CommandFacts(p)'
  BY <1>0, <1>1 DEF CommandFacts, Pending
<1>5. ReplyFacts(p)'
  BY <1>0, <1>1, <1>2 DEF ReplyFacts
<1>6. EventFacts(p)'
  <2>1. \A i, j \in 1..Len(wire') : i + 1 = j + 1 => i = j
    OBVIOUS
  <2> QED
    BY <1>0, <1>1, <1>2, <1>3, <2>1 DEF EventFacts
<1>7. QueueFacts(p)'
  <2> SUFFICES ASSUME NEW t \in Tasks, Drives(t, p), NEW i \in 1..Len(queue'[t]), queue'[t][i].page = p
               PROVE  /\ queue'[t][i].doc = mine[t] /\ mine[t] # 0
                      /\ loaded[p] = doc[p] /\ ~Carries(wire', p)
    BY <1>1, <1>3 DEF QueueFacts
  <2>1. \/ queue'[t][i] = Head(wire)
        \/ \E j \in 1..Len(queue[t]) : queue'[t][i] = queue[t][j]
    <3>1. queue[t] \in Seq(Loads) /\ Busy(t)
      BY DEF TypeOK, Drives, Busy
    <3>2. CASE Full(t)
      <4>1. queue[t] # <<>>
        BY <3>1, <3>2, CapacityAssumption DEF Full
      <4>2. queue'[t] = Append(Tail(queue[t]), Head(wire))
        BY <3>1, <3>2 DEF Publish
      <4>3. /\ Tail(queue[t]) \in Seq(Loads)
            /\ \A j \in 1..Len(Tail(queue[t])) : j + 1 \in 1..Len(queue[t]) /\ Tail(queue[t])[j] = queue[t][j + 1]
        BY <3>1, <4>1, TailFacts
      <4> QED
        BY <1>2, <4>2, <4>3, AppendFacts
    <3>3. CASE ~Full(t)
      <4>1. queue'[t] = Append(queue[t], Head(wire))
        BY <3>1, <3>3 DEF Publish
      <4> QED
        BY <1>2, <3>1, <4>1, AppendFacts
    <3> QED
      BY <3>2, <3>3
  <2>2. CASE queue'[t][i] = Head(wire)
    <3>1. LoadOf(wire[1], p)
      BY <1>1, <1>2, <2>2 DEF LoadOf
    <3>2. PICK u \in Tasks : Drives(u, p) /\ mine[u] = Head(wire).doc /\ mine[u] # 0
      BY <1>0, <1>2, <3>1 DEF EventFacts
    <3>3. u = t
      BY <1>0, <3>2 DEF OneDriver
    <3>4. loaded[p] = doc[p] /\ \A j \in 1..Len(wire) : LoadOf(wire[j], p) => 1 = j
      BY <1>0, <1>2, <3>1 DEF EventFacts
    <3>5. ~Carries(wire', p)
      <4>1. ASSUME NEW j \in 1..Len(wire'), LoadOf(wire'[j], p) PROVE FALSE
        <5>1. j \in Nat /\ j >= 1 /\ j + 1 \in 1..Len(wire) /\ LoadOf(wire[j + 1], p)
          BY <1>2, <4>1
        <5>2. 1 = j + 1
          BY <3>4, <5>1
        <5> QED
          BY <5>1, <5>2
      <4> QED
        BY <4>1 DEF Carries, LoadOf
    <3> QED
      BY <2>2, <3>2, <3>3, <3>4, <3>5
  <2>3. ASSUME NEW j \in 1..Len(queue[t]), queue'[t][i] = queue[t][j]
        PROVE  /\ queue'[t][i].doc = mine[t] /\ mine[t] # 0
               /\ loaded[p] = doc[p] /\ ~Carries(wire', p)
    BY <1>0, <1>2, <2>3 DEF QueueFacts, Carries
  <2> QED
    BY <2>1, <2>2, <2>3
<1>8. OneDriver(p)' /\ DocFacts(p)'
  BY <1>0, <1>1, <1>3 DEF OneDriver, DocFacts
<1> QED
  BY <1>4, <1>5, <1>6, <1>7, <1>8 DEF Settled

(* The browser takes a command that does not load the page, or refuses one. *)
LEMMA CommandTaken ==
    ASSUME TypeOK, CarriedRight, NEW p \in Pages, Settled(p),
           commands # <<>>, commands' = Tail(commands),
           UNCHANGED <<pc, at, call, queue, answered, loaded>>,
           doc'[p] = doc[p], \A u \in Tasks : Drives(u, p) => mine'[u] = mine[u],
           \A u \in Tasks : mine[u] # 0 => mine'[u] # 0,
           \/ wire' = wire
           \/ \E m \in Replies : wire' = Append(wire, m) /\ ~AsksFor(m.to, p)
    PROVE  Settled(p)'
<1>0. OneDriver(p) /\ CommandFacts(p) /\ ReplyFacts(p) /\ EventFacts(p) /\ QueueFacts(p) /\ DocFacts(p)
  BY DEF Settled
<1>1. \A i \in 1..Len(commands') : i \in Nat /\ i + 1 \in 1..Len(commands) /\ commands'[i] = commands[i + 1]
  BY TailFacts, InFlight
<1>2. \A i \in 1..Len(wire') :
         \/ i \in 1..Len(wire) /\ wire'[i] = wire[i]
         \/ wire'[i].kind = "reply" /\ ~AsksFor(wire'[i].to, p)
  <2>1. wire \in Seq(Loads \cup Replies)
    BY DEF TypeOK
  <2>2. ASSUME NEW m \in Replies, wire' = Append(wire, m), ~AsksFor(m.to, p)
        PROVE  \A i \in 1..Len(wire') :
                 \/ i \in 1..Len(wire) /\ wire'[i] = wire[i]
                 \/ wire'[i].kind = "reply" /\ ~AsksFor(wire'[i].to, p)
    <3>1. m.kind = "reply" /\ m \in Loads \cup Replies
      BY DEF Replies
    <3> QED
      BY <2>1, <2>2, <3>1, AppendFacts
  <2> QED
    BY <2>2
<1>3. \A u \in Tasks : Drives(u, p)' <=> Drives(u, p)
  BY DEF Drives
<1>4. CommandFacts(p)'
  <2>1. ASSUME NEW i \in 1..Len(commands), AsksFor(commands[i], p)
        PROVE  mine'[commands[i].task] = 0
    BY <1>0, <2>1, DriverAsks
  <2>2. \A i, j \in 1..Len(commands') : i + 1 = j + 1 => i = j
    OBVIOUS
  <2> QED
    BY <1>0, <1>1, <2>1, <2>2 DEF CommandFacts, Pending
<1>5. ReplyFacts(p)'
  BY <1>0, <1>2, InFlight DEF ReplyFacts
<1>6. EventFacts(p)'
  BY <1>0, <1>2, <1>3 DEF EventFacts, LoadOf
<1>7. ~Carries(wire, p) => ~Carries(wire', p)
  BY <1>2 DEF Carries
<1>8. OneDriver(p)' /\ QueueFacts(p)' /\ DocFacts(p)'
  BY <1>0, <1>3, <1>7 DEF OneDriver, QueueFacts, DocFacts
<1> QED
  BY <1>4, <1>5, <1>6, <1>8 DEF Settled

(* The browser begins the document the driver asked for: it is the page's  *)
(* newest, and no event of an older one is left.                           *)
LEMMA HandleLoadOwn ==
    ASSUME TypeOK, CarriedRight, PointFacts, NEW p \in Pages, Settled(p), doc[p] >= 1,
           HandleLoad, Head(commands).page = p
    PROVE  Settled(p)'
<1>0. OneDriver(p) /\ CommandFacts(p) /\ ReplyFacts(p) /\ EventFacts(p) /\ QueueFacts(p) /\ DocFacts(p)
  BY DEF Settled
<1>c. PICK c \in Commands : c = Head(commands) /\ c = commands[1] /\ 1 \in 1..Len(commands)
  <2>1. commands # <<>> /\ commands \in Seq(Commands)
    BY DEF HandleLoad, TypeOK
  <2>2. Head(commands) \in Commands /\ Head(commands) = commands[1] /\ 1 \in 1..Len(commands)
    BY <2>1, TailFacts
  <2> QED
    BY <2>2
<1> DEFINE t == c.task
<1>1. /\ commands # <<>> /\ commands' = Tail(commands) /\ wire' = Append(wire, Reply(c))
      /\ doc' = [doc EXCEPT ![p] = @ + 1]
      /\ UNCHANGED <<pc, at, call, queue, answered, loaded>>
      /\ AsksFor(commands[1], p) /\ AsksFor(c, p)
  BY <1>c DEF HandleLoad, Navigated, program, op, AsksFor
<1>2. t \in Tasks /\ Drives(t, p) /\ pc[t] = "load" /\ mine[t] = 0 /\ Pending(c)
  BY <1>0, <1>c, <1>1, DriverAsks DEF CommandFacts
<1>3. /\ mine' = [mine EXCEPT ![t] = doc[p] + 1] /\ doc[p] \in Nat /\ doc[p] + 1 # 0
      /\ doc'[p] = doc[p] + 1
  <2>1. doc[p] \in Nat /\ doc \in [Pages -> Nat]
    BY BoundsAssumption DEF TypeOK
  <2>2. doc'[p] = doc[p] + 1
    BY <1>1, <2>1
  <2>3. mine' = [mine EXCEPT ![c.task] = doc'[c.page]]
    BY <1>c, <1>2 DEF HandleLoad
  <2> QED
    BY <1>1, <2>1, <2>2, <2>3 DEF AsksFor
<1>4. \A u \in Tasks : (Drives(u, p) <=> u = t) /\ (Drives(u, p)' <=> u = t)
  BY <1>0, <1>1, <1>2 DEF OneDriver, Drives
<1> HIDE DEF t
<1>5. mine'[t] = doc'[p] /\ mine'[t] # 0
  BY <1>2, <1>3 DEF TypeOK
<1>6. \A i \in 1..Len(wire) : ~LoadOf(wire[i], p)
  BY <1>0, <1>2, <1>4 DEF EventFacts
<1>7. \A i \in 1..Len(wire') :
         \/ i \in 1..Len(wire) /\ wire'[i] = wire[i]
         \/ wire'[i] = Reply(c)
  BY <1>1, MessageTypes, AppendFacts DEF TypeOK
<1>8. Reply(c).kind = "reply" /\ Reply(c).to = c
  BY DEF Reply
<1>9. OneDriver(p)'
  BY <1>4 DEF OneDriver
<1>10. CommandFacts(p)'
  <2>1. \A i \in 1..Len(commands') : ~AsksFor(commands'[i], p)
    <3>1. ASSUME NEW i \in 1..Len(commands'), AsksFor(commands'[i], p) PROVE FALSE
      <4>1. i \in Nat /\ i >= 1 /\ i + 1 \in 1..Len(commands) /\ commands'[i] = commands[i + 1]
        BY <1>1, InFlight, TailFacts
      <4>2. 1 = i + 1
        BY <1>0, <1>c, <1>1, <3>1, <4>1 DEF CommandFacts
      <4> QED
        BY <4>1, <4>2
    <3> QED
      BY <3>1
  <2> QED
    BY <2>1 DEF CommandFacts
<1>11. ReplyFacts(p)'
  <2> SUFFICES ASSUME NEW i \in 1..Len(wire'), wire'[i].kind = "reply", AsksFor(wire'[i].to, p),
                      wire'[i].to.call = call[wire'[i].to.task]
               PROVE  \/ pc[wire'[i].to.task] = "idle"
                      \/ pc[wire'[i].to.task] \in {"load", "wait"} /\ mine'[wire'[i].to.task] # 0
    BY <1>1 DEF ReplyFacts
  <2>1. CASE wire'[i] = Reply(c)
    BY <1>2, <1>5, <1>8, <2>1 DEF t
  <2>2. CASE i \in 1..Len(wire) /\ wire'[i] = wire[i]
    <3>1. wire[i].to.task \in Tasks
      BY <2>2, InFlight
    <3>2. \/ pc[wire[i].to.task] = "idle"
          \/ pc[wire[i].to.task] \in {"load", "wait"} /\ mine[wire[i].to.task] # 0
      BY <1>0, <2>2 DEF ReplyFacts
    <3>3. mine[wire[i].to.task] # 0 => mine'[wire[i].to.task] # 0
      BY <1>3, <1>2, <3>1 DEF TypeOK
    <3> QED
      BY <2>2, <3>2, <3>3
  <2> QED
    BY <1>7, <2>1, <2>2
<1>12. EventFacts(p)'
  <2>1. \A i \in 1..Len(wire') : ~LoadOf(wire'[i], p)
    BY <1>6, <1>7, <1>8 DEF LoadOf
  <2> QED
    BY <2>1 DEF EventFacts
<1>13. QueueFacts(p)'
  BY <1>0, <1>1, <1>2, <1>4 DEF QueueFacts
<1>14. DocFacts(p)'
  BY <1>2, <1>4, <1>5 DEF DocFacts
<1> QED
  BY <1>9, <1>10, <1>11, <1>12, <1>13, <1>14 DEF Settled

(* The page finishes loading: it was its driver's document that loaded, and *)
(* no other event of the page is on its way.                                *)
LEMMA FinishOwn ==
    ASSUME TypeOK, CarriedRight, PointFacts, NEW p \in Pages, Settled(p), NEW q \in Pages, FinishLoad(q)
    PROVE  Settled(p)'
<1>0. OneDriver(p) /\ CommandFacts(p) /\ ReplyFacts(p) /\ EventFacts(p) /\ QueueFacts(p) /\ DocFacts(p)
  BY DEF Settled
<1>m. PICK m \in Loads : m = LoadEvent(q)
  BY DEF LoadEvent, Loads, TypeOK
<1>1. /\ UNCHANGED <<pc, at, call, queue, answered, commands, doc, mine>>
      /\ wire' = wire \/ wire' = Append(wire, m)
      /\ loaded' = [loaded EXCEPT ![q] = doc[q]] /\ loaded[q] < doc[q]
      /\ m.kind = "load" /\ m.page = q /\ m.doc = doc[q]
  BY <1>m DEF FinishLoad, program, op, LoadEvent
<1>2. \A u \in Tasks : Drives(u, p)' <=> Drives(u, p)
  BY <1>1 DEF Drives
<1>3. \A i \in 1..Len(wire') :
         \/ i \in 1..Len(wire) /\ wire'[i] = wire[i]
         \/ i = Len(wire) + 1 /\ wire'[i] = m
  BY <1>1, AppendFacts DEF TypeOK
<1>4. OneDriver(p)' /\ CommandFacts(p)'
  BY <1>0, <1>1, <1>2 DEF OneDriver, CommandFacts, Pending
<1>5. ReplyFacts(p)'
  BY <1>0, <1>1, <1>3 DEF ReplyFacts
<1>6. CASE q # p
  <2>1. loaded'[p] = loaded[p]
    BY <1>1, <1>6 DEF TypeOK
  <2>2. \A i \in 1..Len(wire') : LoadOf(wire'[i], p) => i \in 1..Len(wire) /\ wire'[i] = wire[i]
    BY <1>1, <1>3, <1>6 DEF LoadOf
  <2>3. EventFacts(p)'
    BY <1>0, <1>1, <1>2, <2>1, <2>2 DEF EventFacts
  <2>4. ~Carries(wire, p) => ~Carries(wire', p)
    BY <2>2 DEF Carries, LoadOf
  <2>5. QueueFacts(p)' /\ DocFacts(p)'
    BY <1>0, <1>1, <1>2, <2>1, <2>4 DEF QueueFacts, DocFacts
  <2> QED
    BY <1>4, <1>5, <2>3, <2>5 DEF Settled
<1>7. CASE q = p
  <2>1. loaded'[p] = doc[p] /\ loaded[p] # doc[p]
    <3>1. loaded \in [Pages -> Nat] /\ doc \in [Pages -> Nat]
      BY BoundsAssumption DEF TypeOK
    <3> QED
      BY <1>1, <1>7, <3>1
  <2>2. PICK t \in Tasks : Drives(t, p) /\ mine[t] # 0 /\ mine[t] = doc[p]
    BY <1>0, <2>1 DEF DocFacts
  <2>3. \A i \in 1..Len(wire') : LoadOf(wire'[i], p) => i = Len(wire) + 1 /\ wire'[i] = m
    BY <1>0, <1>3, <2>1 DEF EventFacts
  <2>4. EventFacts(p)'
    BY <1>1, <1>2, <1>7, <2>1, <2>2, <2>3 DEF EventFacts
  <2>5. QueueFacts(p)'
    BY <1>0, <1>1, <1>2, <2>1 DEF QueueFacts
  <2>6. DocFacts(p)'
    BY <1>0, <1>1, <1>2, <2>1 DEF DocFacts
  <2> QED
    BY <1>4, <1>5, <2>4, <2>5, <2>6 DEF Settled
<1> QED
  BY <1>6, <1>7

(* A step of a task leaves every page settled that is not astray after it. *)
LEMMA TaskStepOwn ==
    ASSUME TypeOK, CarriedRight, PointFacts, OwnInv, NEW p \in Pages, p \notin stray', Settled(p),
           NEW t \in Tasks, (\E q \in Pages : Begin(t, q)) \/ Locks(t) \/ Proceeds(t)
    PROVE  Settled(p)'
<1> USE DEF op, browser
<1>1. ASSUME NEW q \in Pages, Begin(t, q) PROVE Settled(p)'
  <2>1. CASE q = p
    BY <1>1, <2>1, BeginOwn DEF OwnInv
  <2>2. CASE q # p
    <3>1. ~Drives(t, p) /\ ~Drives(t, p)'
      BY <1>1, <2>2 DEF Begin, Drives, TypeOK
    <3>2. /\ \A u \in Tasks \ {t} : /\ pc'[u] = pc[u] /\ at'[u] = at[u] /\ call'[u] = call[u]
                                    /\ queue'[u] = queue[u] /\ mine'[u] = mine[u]
                                    /\ answered'[u] = answered[u]
          /\ UNCHANGED <<wire, doc, loaded, commands>>
      BY <1>1 DEF Begin, TypeOK
    <3>3. call'[t] > begun
      BY <1>1, BoundsAssumption DEF Begin, TypeOK
    <3> QED
      BY <3>1, <3>2, <3>3, Elsewhere
  <2> QED
    BY <2>1, <2>2
<1>2. CASE AlreadyEnabled(t) \/ Enable(t) \/ Enabled(t) \/ Trigger(t) \/ Accepted(t)
  <2>1. /\ pc[t] # "idle" /\ pc'[t] # "idle" /\ (pc[t] # "load" \/ answered[t])
        /\ pc[t] \in {"load", "wait"} => pc'[t] \in {"load", "wait"}
        /\ \A u \in Tasks \ {t} : pc'[u] = pc[u] /\ answered'[u] = answered[u]
        /\ UNCHANGED <<at, call, queue, mine, wire, doc, loaded>>
    BY <1>2 DEF AlreadyEnabled, Enable, Enabled, Trigger, Accepted, Sends, Takes, TypeOK
  <2>2. CASE at[t] = p /\ Trigger(t)
    BY <2>2, TriggerOwn
  <2>3. CASE ~(at[t] = p /\ Trigger(t))
    <3>1. \/ commands' = commands
          \/ \E c \in Commands : commands' = Append(commands, c) /\ ~AsksFor(c, p)
      <4>1. CASE Enable(t) \/ Trigger(t)
        <5>1. PICK m \in {"enable", "load"} :
                 commands' = Append(commands, Command(t, m)) /\ (m = "load" => Trigger(t))
          BY <4>1 DEF Enable, Trigger, Sends
        <5>2. Command(t, m) \in Commands
          BY <2>1, SendsTypes
        <5>3. ~AsksFor(Command(t, m), p)
          BY <2>3, <5>1 DEF AsksFor, Command
        <5> QED
          BY <5>1, <5>2, <5>3
      <4>2. CASE ~(Enable(t) \/ Trigger(t))
        BY <1>2, <4>2 DEF AlreadyEnabled, Enabled, Accepted
      <4> QED
        BY <4>1, <4>2
    <3>2. CASE at[t] = p
      <4>1. Drives(t, p) /\ Drives(t, p)'
        BY <2>1, <3>2 DEF Drives
      <4> QED
        BY <2>1, <3>1, <4>1, DriverKeeps
    <3>3. CASE at[t] # p
      <4>1. ~Drives(t, p) /\ ~Drives(t, p)'
        BY <2>1, <3>3 DEF Drives
      <4> QED
        BY <2>1, <3>1, <4>1, Elsewhere
    <3> QED
      BY <3>2, <3>3
  <2> QED
    BY <2>2, <2>3
<1>3. CASE CallFails(t) \/ Expire(t)
  <2>1. /\ pc[t] # "idle" /\ pc'[t] = "idle" /\ at[t] \in stray'
        /\ \A u \in Tasks \ {t} : /\ pc'[u] = pc[u] /\ queue'[u] = queue[u] /\ mine'[u] = mine[u]
                                  /\ answered'[u] = answered[u]
        /\ UNCHANGED <<at, call, wire, doc, loaded, commands>>
    BY <1>3 DEF CallFails, Expire, Returns, Takes, TypeOK
  <2>2. ~Drives(t, p) /\ ~Drives(t, p)'
    BY <2>1 DEF Drives
  <2> QED
    BY <2>1, <2>2, Elsewhere
<1>4. CASE Receive(t)
  <2>1. /\ pc[t] = "wait" /\ queue[t] # <<>> /\ queue[t] \in Seq(Loads)
        /\ \A u \in Tasks \ {t} : /\ pc'[u] = pc[u] /\ queue'[u] = queue[u] /\ mine'[u] = mine[u]
                                  /\ answered'[u] = answered[u]
        /\ UNCHANGED <<at, call, wire, doc, loaded, commands, answered>>
    BY <1>4 DEF Receive, Returns, TypeOK
  <2>2. \/ IsOwn(t, Head(queue[t])) /\ pc'[t] = "idle"
        \/ pc' = pc /\ mine' = mine /\ queue'[t] = Tail(queue[t])
    BY <1>4 DEF Receive, Returns, TypeOK
  <2>3. CASE at[t] # p
    <3>1. ~Drives(t, p) /\ ~Drives(t, p)'
      BY <2>1, <2>3 DEF Drives
    <3> QED
      BY <2>1, <3>1, Elsewhere
  <2>4. CASE at[t] = p /\ IsOwn(t, Head(queue[t])) /\ pc'[t] = "idle"
    BY <1>4, <2>4, ReceiveOwn
  <2>5. CASE at[t] = p /\ pc' = pc /\ mine' = mine /\ queue'[t] = Tail(queue[t])
    <3>1. Drives(t, p) /\ Drives(t, p)'
      BY <2>1, <2>5 DEF Drives
    <3>2. \A i \in 1..Len(queue'[t]) : \E j \in 1..Len(queue[t]) : queue'[t][i] = queue[t][j]
      BY <2>1, <2>5, TailFacts
    <3> QED
      BY <2>1, <2>5, <3>1, <3>2, DriverKeeps
  <2> QED
    BY <2>2, <2>3, <2>4, <2>5
<1> QED
  BY <1>1, <1>2, <1>3, <1>4 DEF Locks, Proceeds

(* So does a step of the reader or of the browser. *)
LEMMA OtherStepOwn ==
    ASSUME TypeOK, CarriedRight, PointFacts, OwnInv, NEW p \in Pages, p \notin stray', Settled(p),
           Reader \/ Browser \/ Terminated
    PROVE  Settled(p)'
<1> USE DEF op, browser, program
<1>1. CASE Reader
  BY <1>1, ReadReplyOwn, PublishOwn DEF Reader
<1>2. ASSUME NEW q \in Pages, FinishLoad(q) PROVE Settled(p)'
  BY <1>2, FinishOwn
<1>3. CASE HandleEnable \/ Refuse
  <2>0. Head(commands) \in Commands
    BY <1>3, TailFacts DEF HandleEnable, Refuse, TypeOK
  <2>1. /\ commands # <<>> /\ commands' = Tail(commands)
        /\ UNCHANGED <<pc, at, call, queue, answered, doc, loaded, mine>>
        /\ wire' = wire \/ (wire' = Append(wire, Reply(Head(commands))) /\ Head(commands).method = "enable")
    BY <1>3 DEF HandleEnable, Refuse
  <2>2. Head(commands).method = "enable" =>
          Reply(Head(commands)) \in Replies /\ ~AsksFor(Reply(Head(commands)).to, p)
    BY <2>0 DEF Reply, Replies, AsksFor
  <2> QED
    BY <2>1, <2>2, CommandTaken
<1>4. CASE HandleLoad
  <2>1. CASE Head(commands).page = p
    BY <1>4, <2>1, HandleLoadOwn DEF OwnInv
  <2>2. CASE Head(commands).page # p
    <3>1. commands # <<>> /\ commands \in Seq(Commands)
      BY <1>4 DEF HandleLoad, TypeOK
    <3>c. PICK c \in Commands : c = Head(commands) /\ c = commands[1] /\ 1 \in 1..Len(commands)
      BY <3>1, TailFacts
    <3>2. /\ commands' = Tail(commands) /\ wire' = Append(wire, Reply(c))
          /\ UNCHANGED <<pc, at, call, queue, answered, loaded>>
          /\ doc' = [doc EXCEPT ![c.page] = @ + 1]
          /\ mine' = IF Pending(c) THEN [mine EXCEPT ![c.task] = doc'[c.page]] ELSE mine
      BY <1>4, <3>c DEF HandleLoad, Navigated
    <3>3. c.task \in Tasks /\ c.page \in Pages /\ c.page # p /\ doc \in [Pages -> Nat]
      <4>1. c.task \in Tasks /\ c.page \in Pages
        BY DEF Commands
      <4>2. c.page # p
        BY <2>2, <3>c
      <4>3. doc \in [Pages -> Nat]
        BY BoundsAssumption DEF TypeOK
      <4> QED
        BY <4>1, <4>2, <4>3
    <3>4. doc'[p] = doc[p] /\ doc'[c.page] # 0
      BY <3>2, <3>3
    <3>5. Pending(c) => ~Drives(c.task, p)
      <4>1. Carried(c)
        BY <3>c DEF CarriedRight
      <4> QED
        BY <3>3, <4>1 DEF Carried, Pending, Drives
    <3>6. /\ \A u \in Tasks : Drives(u, p) => mine'[u] = mine[u]
          /\ \A u \in Tasks : mine[u] # 0 => mine'[u] # 0
      BY <3>2, <3>3, <3>4, <3>5 DEF TypeOK
    <3>7. Reply(c) \in Replies /\ ~AsksFor(Reply(c).to, p)
      BY <3>3 DEF Reply, Replies, AsksFor
    <3> QED
      BY <3>1, <3>2, <3>4, <3>6, <3>7, CommandTaken
  <2> QED
    BY <2>1, <2>2
<1>5. ASSUME NEW q \in Pages, PageMoves(q) PROVE Settled(p)'
  <2>1. /\ UNCHANGED <<pc, at, call, queue, answered, commands, wire, loaded, mine>>
        /\ doc'[p] = doc[p]
    BY <1>5 DEF PageMoves, Navigated, TypeOK
  <2> QED
    BY <2>1 DEF Settled, OneDriver, CommandFacts, ReplyFacts, EventFacts, QueueFacts, DocFacts,
       Drives, Pending, Carries
<1>6. CASE Terminated
  BY <1>6 DEF Terminated, vars, Settled, OneDriver, CommandFacts, ReplyFacts, EventFacts, QueueFacts,
     DocFacts, Drives, Pending, Carries
<1> QED
  BY <1>1, <1>2, <1>3, <1>4, <1>5, <1>6 DEF Browser

(* Results, documents and receivers: an operation that returned another    *)
(* load than its own was on a page that is astray.                         *)
LEMMA ReturnsOwn ==
    ASSUME TypeOK, CarriedRight, PointFacts, OwnInv, Next
    PROVE  /\ stray \subseteq stray' /\ \A p \in Pages : doc'[p] >= 1
           /\ \A t \in Tasks : pc'[t] = "idle" => queue'[t] = <<>>
           /\ LoadIsOwn'
<1> USE DEF op, browser, program
<1>0. /\ doc \in [Pages -> Nat] /\ \A p \in Pages : doc[p] >= 1
      /\ \A t \in Tasks : pc[t] = "idle" => queue[t] = <<>>
      /\ \A t \in Tasks : result[t] = "other" => at[t] \in stray
  BY BoundsAssumption DEF OwnInv, TypeOK, LoadIsOwn
<1>1. ASSUME NEW t \in Tasks, NEW p \in Pages, Begin(t, p)
      PROVE  /\ stray \subseteq stray' /\ \A q \in Pages : doc'[q] >= 1
             /\ \A u \in Tasks : pc'[u] = "idle" => queue'[u] = <<>>
             /\ \A u \in Tasks : result'[u] = "other" => at'[u] \in stray'
  BY <1>0, <1>1, NoneAssumption DEF Begin, TypeOK, Results
<1>2. ASSUME NEW t \in Tasks, Locks(t) \/ Enabled(t) \/ Trigger(t) \/ Accepted(t)
      PROVE  /\ stray \subseteq stray' /\ \A q \in Pages : doc'[q] >= 1
             /\ \A u \in Tasks : pc'[u] = "idle" => queue'[u] = <<>>
             /\ \A u \in Tasks : result'[u] = "other" => at'[u] \in stray'
  BY <1>0, <1>2 DEF Locks, AlreadyEnabled, Enable, Enabled, Trigger, Accepted, Sends, TypeOK
<1>3. ASSUME NEW t \in Tasks, CallFails(t) \/ Expire(t)
      PROVE  /\ stray \subseteq stray' /\ \A q \in Pages : doc'[q] >= 1
             /\ \A u \in Tasks : pc'[u] = "idle" => queue'[u] = <<>>
             /\ \A u \in Tasks : result'[u] = "other" => at'[u] \in stray'
  BY <1>0, <1>3 DEF CallFails, Expire, Returns, TypeOK
<1>4. ASSUME NEW t \in Tasks, Receive(t)
      PROVE  /\ stray \subseteq stray' /\ \A q \in Pages : doc'[q] >= 1
             /\ \A u \in Tasks : pc'[u] = "idle" => queue'[u] = <<>>
             /\ \A u \in Tasks : result'[u] = "other" => at'[u] \in stray'
  <2>1. CASE IsOwn(t, Head(queue[t])) /\ Returns(t, IF Head(queue[t]).doc = mine[t] THEN "own" ELSE "other")
    <3>1. at[t] \in Pages /\ pc'[t] = "idle"
      BY <1>4, <2>1 DEF Receive, Returns, PointFacts, TypeOK
    <3>2. at[t] \notin stray => Head(queue[t]).doc = mine[t]
      BY <1>4, <2>1, <3>1, ReceiveOwn DEF OwnInv
    <3>3. /\ result' = [result EXCEPT ![t] = IF Head(queue[t]).doc = mine[t] THEN "own" ELSE "other"]
          /\ stray' = stray /\ at' = at /\ doc' = doc
          /\ pc' = [pc EXCEPT ![t] = "idle"] /\ queue' = [queue EXCEPT ![t] = <<>>]
      BY <1>4, <2>1 DEF Receive, Returns
    <3> QED
      BY <1>0, <3>2, <3>3 DEF TypeOK
  <2>2. CASE queue' = [queue EXCEPT ![t] = Tail(@)] /\ UNCHANGED <<pc, lagged, result, mine, stray>>
    BY <1>0, <1>4, <2>2 DEF Receive, TypeOK
  <2> QED
    BY <1>4, <2>1, <2>2 DEF Receive
<1>5. CASE Reader
  <2>1. /\ UNCHANGED <<pc, at, doc, result, stray>>
        /\ \A t \in Tasks : pc[t] = "idle" => queue'[t] = queue[t]
    BY <1>5 DEF Reader, ReadReply, Publish, Busy
  <2> QED
    BY <1>0, <2>1 DEF LoadIsOwn
<1>6. CASE HandleLoad
  <2>1. Head(commands) \in Commands
    BY <1>6, TailFacts DEF HandleLoad, TypeOK
  <2>2. Head(commands).page \in Pages
    BY <2>1 DEF Commands
  <2> QED
    <3>1. UNCHANGED <<pc, at, queue, result, stray>> /\ doc' = [doc EXCEPT ![Head(commands).page] = @ + 1]
      BY <1>6 DEF HandleLoad, Navigated
    <3> QED
      BY <1>0, <2>2, <3>1 DEF LoadIsOwn
<1>7. CASE HandleEnable \/ Refuse \/ Terminated \/ \E p \in Pages : FinishLoad(p) \/ PageMoves(p)
  <2>1. /\ UNCHANGED <<pc, at, queue, result>> /\ stray \subseteq stray'
        /\ doc' = doc \/ \E p \in Pages : doc' = [doc EXCEPT ![p] = @ + 1]
    BY <1>7 DEF HandleEnable, Refuse, Terminated, FinishLoad, PageMoves, Navigated, vars
  <2> QED
    BY <1>0, <2>1 DEF LoadIsOwn
<1> QED
  BY <1>1, <1>2, <1>3, <1>4, <1>5, <1>6, <1>7 DEF Next, Proceeds, Browser, LoadIsOwn

(* LoadWatcher::wait, for any tasks, pages and capacity: an operation that  *)
(* returns Ok has seen the load of the document its own command began, on a *)
(* page that nobody else moves and no earlier operation left loading.       *)
THEOREM WaitsSeeTheirOwn == Spec => []LoadIsOwn
<1>1. ASSUME IInv, OwnInv, [Next]_vars PROVE OwnInv'
  <2>0. TypeOK /\ CarriedRight /\ PointFacts
    BY <1>1 DEF IInv
  <2>1. CASE Next
    <3>1. /\ stray \subseteq stray' /\ \A p \in Pages : doc'[p] >= 1
          /\ \A t \in Tasks : pc'[t] = "idle" => queue'[t] = <<>>
          /\ LoadIsOwn'
      BY <1>1, <2>0, <2>1, ReturnsOwn
    <3>2. ASSUME NEW p \in Pages, p \notin stray' PROVE Settled(p)'
      <4>1. Settled(p)
        BY <1>1, <3>1, <3>2 DEF OwnInv
      <4> QED
        BY <1>1, <2>0, <2>1, <3>2, <4>1, TaskStepOwn, OtherStepOwn DEF Next
    <3> QED
      BY <3>1, <3>2 DEF OwnInv
  <2>2. CASE UNCHANGED vars
    BY <1>1, <2>2 DEF OwnInv, LoadIsOwn, vars, program, op, browser, Settled, OneDriver, CommandFacts,
       ReplyFacts, EventFacts, QueueFacts, DocFacts, Drives, Pending, Carries
  <2> QED
    BY <1>1, <2>1, <2>2
<1>2. OwnInv => LoadIsOwn
  BY DEF OwnInv
<1> QED
  BY InitOwn, Invariance, <1>1, <1>2, PTL DEF Spec
=============================================================================
