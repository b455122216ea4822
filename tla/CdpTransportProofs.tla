------------------------- MODULE CdpTransportProofs -------------------------
(***************************************************************************)
(* The transport's safety properties for every set of callers, every bound *)
(* on calls and every pipe capacity.  Inv is the inductive invariant; its  *)
(* parts are below, each with the reason it is needed.                     *)
(***************************************************************************)
EXTENDS CdpTransport, TLAPS

(* Where the pair of an id and the call it was given to can be found. *)
Carries(i, x) ==
    \/ waiting[i] = x
    \/ \E c \in Callers : id[c] = i /\ CurrentCall(c) = x
    \/ \E k \in 1..Len(toBrowser) : toBrowser[k].id = i /\ toBrowser[k].to = x
    \/ \E r \in work : r.id = i /\ r.to = x
    \/ \E k \in 1..Len(fromBrowser) :
          /\ fromBrowser[k].kind \in Replies
          /\ fromBrowser[k].id = i /\ fromBrowser[k].to = x

(* An id names one call wherever it is, so routing by id is routing by call. *)
IdsAgree == \A i \in Id : \A x, y \in Call : Carries(i, x) /\ Carries(i, y) => x = y

(* What is carried was issued, and a call in progress is carried under its
   own id only: a call that takes back its id takes back its waiter. *)
Issued ==
    \A i \in Id : \A x \in Call : Carries(i, x) =>
        /\ i < next_id
        /\ x[2] <= round[x[1]]
        /\ x[2] = round[x[1]] => id[x[1]] = i

(* A call in progress has an id and a number and has not returned. *)
Numbered ==
    \A c \in Callers :
        /\ round[c] < next_id
        /\ InCall(c) => id[c] \in Id /\ round[c] # 0 /\ result[c] = None

(* The reader has a waiter in hand exactly between its two steps, and the
   answer with it is the answer to the call that waiter belongs to. *)
InHandAgrees ==
    /\ reader = "sending" <=> inHand # None
    /\ inHand # None => /\ inHand.answers = inHand.caller
                        /\ inHand.caller[2] <= round[inHand.caller[1]]

(* Somebody still holds the sending half of c's oneshot. *)
Resolvable(c) ==
    \/ \E i \in Id : waiting[i] = CurrentCall(c)
    \/ inHand # None /\ inHand.caller = CurrentCall(c)

(* A oneshot is sent to once: while a sending half exists nothing was sent,
   there is one such half, and a call that has not registered has none. *)
OneSender ==
    /\ \A c \in Callers : InCall(c) /\ Resolvable(c) => slot[c] = None
    /\ \A c \in Callers : InCall(c) /\ inHand # None /\ inHand.caller = CurrentCall(c)
                             => \A i \in Id : waiting[i] # CurrentCall(c)
    /\ \A c \in Callers : pc[c] = "register" => slot[c] = None /\ ~Resolvable(c)
    /\ \A c \in Callers : pc[c] = "timeout" => slot[c] = None

(* What is in a oneshot is the answer to the call that reads it. *)
SlotOwn == \A c \in Callers : slot[c] # None /\ slot[c].kind \in Replies
                                 => slot[c].to = CurrentCall(c)

(* Only the reader task closes, and it closes once, as its last step. *)
ReaderCloses == /\ closed => reader \in {"ended", "aborted"}
                /\ reader = "ended" => closed

(* The lock is held by whoever is writing. *)
WriterHolds == \A c \in Callers : pc[c] \in {"head", "tail"} <=> writer = c

(* An unfinished frame at the end of the stream is being finished, or was
   begun by a call that can be dropped. *)
OpenFrame ==
    LET n == Len(toBrowser)
    IN  n > 0 /\ ~toBrowser[n].last /\ toBrowser[n].to[1] \notin Cancellable =>
            /\ pc[toBrowser[n].to[1]] = "tail"
            /\ toBrowser[n].to = CurrentCall(toBrowser[n].to[1])

(* What an exited browser had not read is gone, so no frame stays open. *)
PipeGone == browser = "exited" => toBrowser = <<>>

Inv ==
    /\ TypeOK
    /\ IdsAgree /\ Issued
    /\ Numbered
    /\ InHandAgrees
    /\ OneSender
    /\ SlotOwn
    /\ ReaderCloses
    /\ WriterHolds
    /\ OpenFrame /\ PipeGone
    /\ OwnReply
    /\ NobodyStranded
    /\ ClosedFailsEveryCall
    /\ NoWaiterOutlivesItsCall
    /\ OnlyCancellationTears

-----------------------------------------------------------------------------
(* The current call of a task inside a call is a call. *)
LEMMA CurrentCallType ==
    ASSUME TypeOK, Numbered, NEW c \in Callers, InCall(c)
    PROVE  CurrentCall(c) \in Call /\ id[c] \in Id
BY BoundsAssumption DEF TypeOK, Numbered, CurrentCall, Call, Id

(* Every step keeps every variable in its type: the ids and the call numbers
   stay within the bound because a call takes one of each. *)
LEMMA TypeStep ==
    ASSUME TypeOK, Numbered, InHandAgrees, [Next]_vars
    PROVE  TypeOK'
<1> USE BoundsAssumption, NoneAssumption
<1>1. ASSUME NEW c \in Callers, Begin(c) PROVE TypeOK'
  <2>1. round[c] + 1 \in 0..MaxCalls
    BY <1>1 DEF TypeOK, Numbered, Begin
  <2> QED
    BY <1>1, <2>1 DEF TypeOK, Begin, Go, pending, pipes
<1>2. ASSUME NEW c \in Callers, Register(c) PROVE TypeOK'
  <2>1. CurrentCall(c) \in Call /\ id[c] \in Id
    BY <1>2, CurrentCallType DEF Register, InCall
  <2>2. [kind |-> "refused", to |-> None] \in Outcome
    BY DEF Outcome
  <2>3. waiting' \in [Id -> Call \cup {None}]
    BY <1>2, <2>1 DEF TypeOK, Register
  <2>4. result' \in [Callers -> Outcome \cup {None}]
    BY <1>2, <2>2 DEF TypeOK, Register, Return
  <2>5. pc' \in [Callers -> {"idle", "register", "lock", "head", "tail", "await",
                            "unsent", "timeout"}]
    BY <1>2 DEF TypeOK, Register, Go, Return
  <2> QED
    BY <1>2, <2>3, <2>4, <2>5 DEF TypeOK, Register, pipes
<1>3. ASSUME NEW c \in Callers, AcquireWriter(c) PROVE TypeOK'
  BY <1>3 DEF TypeOK, AcquireWriter, Go, pending, pipes
<1>4. ASSUME NEW c \in Callers, WriteChunk(c) PROVE TypeOK'
  <2>1. CurrentCall(c) \in Call /\ id[c] \in Id
    BY <1>4, CurrentCallType DEF WriteChunk, InCall
  <2>2. [to |-> CurrentCall(c), id |-> id[c], last |-> pc[c] = "tail"] \in Chunk
    BY <2>1 DEF Chunk
  <2>3. toBrowser' \in Seq(Chunk) /\ Len(toBrowser') = Len(toBrowser) + 1
    BY <1>4, <2>2 DEF TypeOK, WriteChunk
  <2> QED
    BY <1>4, <2>3 DEF TypeOK, WriteChunk, Go, pending
<1>5. ASSUME NEW c \in Callers, WriteFails(c) PROVE TypeOK'
  BY <1>5 DEF TypeOK, WriteFails, Go, pending, pipes
<1>6. ASSUME NEW c \in Callers, Receive(c) PROVE TypeOK'
  <2>1. [kind |-> slot[c].kind, to |-> slot[c].to] \in Outcome
    BY <1>6 DEF TypeOK, Receive, Outcome
  <2> QED
    BY <1>6, <2>1 DEF TypeOK, Receive, Return, Go, pending, pipes
<1>7. ASSUME NEW c \in Callers, Expire(c) PROVE TypeOK'
  BY <1>7 DEF TypeOK, Expire, Go, pending, pipes
<1>8. ASSUME NEW c \in Callers, GiveUp(c) PROVE TypeOK'
  <2>1. [kind |-> pc[c], to |-> None] \in Outcome
    BY <1>8 DEF GiveUp, Outcome
  <2> QED
    BY <1>8, <2>1 DEF TypeOK, GiveUp, TakeBack, Return, Go, pipes
<1>9. ASSUME NEW c \in Callers, Cancel(c) PROVE TypeOK'
  BY <1>9 DEF TypeOK, Cancel, Go, pending, pipes
<1>10. CASE Dispatch
  <2>1. /\ Head(fromBrowser) \in Message /\ Tail(fromBrowser) \in Seq(Message)
    BY <1>10 DEF TypeOK, Dispatch, ReadMessage
  <2>2. Head(fromBrowser).id \in Id /\ Head(fromBrowser).to \in Call
    BY <1>10, <2>1 DEF Message, Dispatch, Replies
  <2>3. inHand' \in Routed
    BY <1>10, <2>2 DEF TypeOK, Dispatch, Routed
  <2> QED
    BY <1>10, <2>1, <2>2, <2>3 DEF TypeOK, Dispatch, ReadMessage, callers
<1>11. CASE Ignore
  <2>1. Tail(fromBrowser) \in Seq(Message)
    BY <1>11 DEF TypeOK, Ignore, ReadMessage
  <2> QED
    BY <1>11, <2>1 DEF TypeOK, Ignore, ReadMessage, callers, pending
<1>12. CASE Send
  <2>1. inHand \in Routed
    BY <1>12 DEF TypeOK, Send, InHandAgrees
  <2>2. [kind |-> inHand.kind, to |-> inHand.answers] \in Outcome
    BY <2>1 DEF Outcome, Replies, Routed
  <2> QED
    BY <1>12, <2>1, <2>2 DEF TypeOK, Send, pending, pipes
<1>13. ASSUME Close PROVE /\ slot' \in [Callers -> Outcome \cup {None}]
                         /\ waiting' \in [Id -> Call \cup {None}]
                         /\ closed' \in BOOLEAN
  <2>1. [kind |-> "closed", to |-> None] \in Outcome
    BY DEF Outcome
  <2> QED
    BY <1>13, <2>1 DEF TypeOK, Close
<1>14. CASE StreamEnds
  BY <1>13, <1>14 DEF TypeOK, StreamEnds, pipes
<1>15. CASE ReadFails
  BY <1>13, <1>15 DEF TypeOK, ReadFails, pipes
<1>16. CASE DropTransport
  BY <1>16 DEF TypeOK, DropTransport, callers, pending
<1>17. CASE BrowserReads
  <2>1. toBrowser[taken + 1] \in Chunk
    BY <1>17 DEF TypeOK, BrowserReads
  <2>2. CASE toBrowser[taken + 1].last
    <3>1. /\ SubSeq(toBrowser, taken + 2, Len(toBrowser)) \in Seq(Chunk)
          /\ 0 \in 0..Len(SubSeq(toBrowser, taken + 2, Len(toBrowser)))
      BY <1>17 DEF TypeOK, BrowserReads
    <3>2. [id |-> toBrowser[taken + 1].id, to |-> toBrowser[taken + 1].to]
             \in [id : Id, to : Call]
      BY <2>1 DEF Chunk
    <3>3. toBrowser' \in Seq(Chunk) /\ taken' \in 0..Len(toBrowser')
      BY <1>17, <2>2, <3>1 DEF BrowserReads
    <3>4. work' \subseteq [id : Id, to : Call]
      BY <1>17, <2>2, <3>2 DEF TypeOK, BrowserReads
    <3> QED
      BY <1>17, <3>3, <3>4 DEF TypeOK, BrowserReads, callers, pending
  <2>3. CASE ~toBrowser[taken + 1].last
    BY <1>17, <2>3 DEF TypeOK, BrowserReads, callers, pending
  <2> QED
    BY <2>2, <2>3
<1>18. ASSUME NEW m \in Message, BrowserSends(m), work' \subseteq work PROVE TypeOK'
  <2>1. Append(fromBrowser, m) \in Seq(Message)
    BY DEF TypeOK
  <2> QED
    BY <1>18, <2>1 DEF TypeOK, BrowserSends, callers, pending
<1>19. ASSUME NEW r \in work, NEW kind \in Replies, BrowserReplies(r, kind) PROVE TypeOK'
  <2>1. [kind |-> kind, id |-> r.id, to |-> r.to] \in Message
    BY <1>19 DEF TypeOK, Message
  <2> QED
    BY <1>18, <1>19, <2>1 DEF BrowserReplies
<1>20. CASE BrowserSpeaks
  <2>1. [kind |-> "other", id |-> 0, to |-> None] \in Message
    BY DEF Message
  <2> QED
    BY <1>18, <1>20, <2>1 DEF BrowserSpeaks
<1>21. CASE BrowserExits
  <2>1. [kind |-> "truncated", id |-> 0, to |-> None] \in Message
    BY DEF Message
  <2>2. Append(fromBrowser, [kind |-> "truncated", id |-> 0, to |-> None]) \in Seq(Message)
    BY <2>1 DEF TypeOK
  <2>3. fromBrowser' \in Seq(Message)
    BY <1>21, <2>2 DEF TypeOK, BrowserExits
  <2> QED
    BY <1>21, <2>3 DEF TypeOK, BrowserExits, callers, pending
<1>22. CASE UNCHANGED vars
  BY <1>22 DEF TypeOK, vars, callers, pending, pipes
<1> QED
  BY <1>1, <1>2, <1>3, <1>4, <1>5, <1>6, <1>7, <1>8, <1>9, <1>10, <1>11, <1>12,
     <1>14, <1>15, <1>16, <1>17, <1>19, <1>20, <1>21, <1>22
     DEF Next, CallerStep, ReaderStep, Terminated

-----------------------------------------------------------------------------
(* What is left of a sequence after its first n elements. *)
LEMMA SubSeqTail ==
    ASSUME NEW S, NEW s \in Seq(S), NEW n \in Nat, n <= Len(s),
           NEW t, t = SubSeq(s, n + 1, Len(s))
    PROVE  /\ t \in Seq(S) /\ Len(t) = Len(s) - n
           /\ \A k \in 1..Len(t) : k + n \in 1..Len(s) /\ t[k] = s[k + n]
<1>1. t \in Seq(S)
  OBVIOUS
<1>2. Len(t) = Len(s) - n
  OBVIOUS
<1>3. \A k \in 1..Len(t) : k + n \in 1..Len(s)
  BY <1>2
<1>4. \A k \in 1..Len(t) : t[k] = s[n + 1 + k - 1]
  BY <1>2
<1> QED
  BY <1>1, <1>2, <1>3, <1>4

(* If each place an id and a call can be found holds only pairs that were
   somewhere before the step, the step brought no new pair. *)
LEMMA NoNewPair ==
    ASSUME TypeOK, id' = id, round' = round, next_id' = next_id,
           \A i \in Id : waiting'[i] # None => Carries(i, waiting'[i]),
           \A k \in 1..Len(toBrowser') : Carries(toBrowser'[k].id, toBrowser'[k].to),
           \A r \in work' : Carries(r.id, r.to),
           \A k \in 1..Len(fromBrowser') : fromBrowser'[k].kind \in Replies
                                => Carries(fromBrowser'[k].id, fromBrowser'[k].to),
           IdsAgree, Issued
    PROVE  IdsAgree' /\ Issued'
<1>1. ASSUME NEW i \in Id, NEW x \in Call, Carries(i, x)'
      PROVE  Carries(i, x)
  <2>1. CASE waiting'[i] = x
    BY <2>1, NoneAssumption
  <2>2. ASSUME NEW c \in Callers, id'[c] = i, CurrentCall(c)' = x PROVE Carries(i, x)
    BY <2>2 DEF Carries, CurrentCall
  <2>3. ASSUME NEW k \in 1..Len(toBrowser'), toBrowser'[k].id = i, toBrowser'[k].to = x
        PROVE  Carries(i, x)
    BY <2>3
  <2>4. ASSUME NEW r \in work', r.id = i, r.to = x PROVE Carries(i, x)
    BY <2>4
  <2>5. ASSUME NEW k \in 1..Len(fromBrowser'), fromBrowser'[k].kind \in Replies,
               fromBrowser'[k].id = i, fromBrowser'[k].to = x
        PROVE  Carries(i, x)
    BY <2>5
  <2> QED
    BY <1>1, <2>1, <2>2, <2>3, <2>4, <2>5 DEF Carries
<1>2. IdsAgree'
  BY <1>1 DEF IdsAgree
<1>3. Issued'
  BY <1>1 DEF Issued
<1> QED
  BY <1>2, <1>3

(* What the places hold before a step is, by definition, carried. *)
LEMMA CarriedPlaces ==
    ASSUME TypeOK
    PROVE  /\ \A i \in Id : waiting[i] # None => Carries(i, waiting[i])
           /\ \A c \in Callers : Carries(id[c], CurrentCall(c))
           /\ \A k \in 1..Len(toBrowser) : Carries(toBrowser[k].id, toBrowser[k].to)
           /\ \A r \in work : Carries(r.id, r.to)
           /\ \A k \in 1..Len(fromBrowser) : fromBrowser[k].kind \in Replies
                                => Carries(fromBrowser[k].id, fromBrowser[k].to)
BY DEF Carries

(* Ids keep naming one call each: only Begin makes a pair, and its id is
   fresh; every other step moves pairs from place to place or drops them. *)
LEMMA PairsStep ==
    ASSUME TypeOK, Numbered, IdsAgree, Issued, [Next]_vars
    PROVE  IdsAgree' /\ Issued'
<1> USE BoundsAssumption, NoneAssumption
<1>c. /\ \A i \in Id : waiting[i] # None => Carries(i, waiting[i])
      /\ \A c \in Callers : Carries(id[c], CurrentCall(c))
      /\ \A k \in 1..Len(toBrowser) : Carries(toBrowser[k].id, toBrowser[k].to)
      /\ \A r \in work : Carries(r.id, r.to)
      /\ \A k \in 1..Len(fromBrowser) : fromBrowser[k].kind \in Replies
                                => Carries(fromBrowser[k].id, fromBrowser[k].to)
  BY CarriedPlaces
<1>1. ASSUME NEW c \in Callers, Begin(c) PROVE IdsAgree' /\ Issued'
  <2>1. /\ next_id \in Id /\ next_id' = next_id + 1
        /\ id' = [id EXCEPT ![c] = next_id]
        /\ round' = [round EXCEPT ![c] = round[c] + 1]
        /\ UNCHANGED <<waiting, toBrowser, work, fromBrowser>>
    BY <1>1 DEF Begin, pending, pipes, TypeOK, Id
  <2>2. ASSUME NEW i \in Id, NEW x \in Call, Carries(i, x)'
        PROVE  Carries(i, x) \/ (i = next_id /\ x = <<c, round[c] + 1>>)
    <3>1. ASSUME NEW d \in Callers, id'[d] = i, CurrentCall(d)' = x
          PROVE  Carries(i, x) \/ (i = next_id /\ x = <<c, round[c] + 1>>)
      <4>1. CASE d = c
        BY <2>1, <3>1, <4>1 DEF CurrentCall, TypeOK
      <4>2. CASE d # c
        BY <2>1, <3>1, <4>2 DEF CurrentCall, TypeOK, Carries
      <4> QED
        BY <4>1, <4>2
    <3> QED
      BY <2>1, <2>2, <3>1 DEF Carries
  <2>3. ASSUME NEW i \in Id, NEW x \in Call, Carries(i, x)
        PROVE  i # next_id /\ x # <<c, round[c] + 1>>
    BY <2>1, <2>3 DEF Issued, TypeOK, Id, Call
  <2>4. IdsAgree'
    BY <2>2, <2>3 DEF IdsAgree
  <2>5. ASSUME NEW i \in Id, NEW x \in Call, Carries(i, x)'
        PROVE  i < next_id' /\ x[2] <= round'[x[1]] /\ (x[2] = round'[x[1]] => id'[x[1]] = i)
    <3>1. CASE Carries(i, x)
      <4>1. x[1] \in Callers /\ x[2] \in 1..MaxCalls /\ x = <<x[1], x[2]>>
        BY DEF Call
      <4>2. i < next_id /\ x[2] <= round[x[1]] /\ (x[2] = round[x[1]] => id[x[1]] = i)
        BY <3>1 DEF Issued
      <4>3. CASE x[1] = c
        BY <2>1, <4>1, <4>2, <4>3 DEF TypeOK, Id
      <4>4. CASE x[1] # c
        BY <2>1, <4>1, <4>2, <4>4 DEF TypeOK, Id
      <4> QED
        BY <4>3, <4>4
    <3>2. CASE i = next_id /\ x = <<c, round[c] + 1>>
      BY <2>1, <3>2 DEF TypeOK, Id
    <3> QED
      BY <2>2, <2>5, <3>1, <3>2
  <2>6. Issued'
    BY <2>5 DEF Issued
  <2> QED
    BY <2>4, <2>6
<1>2. ASSUME NEW c \in Callers, Register(c) PROVE IdsAgree' /\ Issued'
  <2>1. id[c] \in Id
    BY <1>2, CurrentCallType DEF Register, InCall
  <2>2. \A i \in Id : waiting'[i] # None => Carries(i, waiting'[i])
    BY <1>2, <1>c, <2>1 DEF Register, TypeOK
  <2> QED
    BY <1>2, <1>c, <2>2, NoNewPair DEF Register, pipes
<1>3. ASSUME NEW c \in Callers, WriteChunk(c) PROVE IdsAgree' /\ Issued'
  <2>1. \A k \in 1..Len(toBrowser') : Carries(toBrowser'[k].id, toBrowser'[k].to)
    <3> DEFINE chunk == [to |-> CurrentCall(c), id |-> id[c], last |-> pc[c] = "tail"]
    <3>1. CurrentCall(c) \in Call /\ id[c] \in Id
      BY <1>3, CurrentCallType DEF WriteChunk, InCall
    <3>2. chunk \in Chunk /\ chunk.id = id[c] /\ chunk.to = CurrentCall(c)
      BY <3>1 DEF Chunk
    <3> HIDE DEF chunk
    <3>3. toBrowser' = Append(toBrowser, chunk)
      BY <1>3 DEF WriteChunk, chunk
    <3>4. ASSUME NEW k \in 1..Len(toBrowser')
          PROVE  Carries(toBrowser'[k].id, toBrowser'[k].to)
      <4>1. CASE k = Len(toBrowser) + 1
        BY <1>c, <3>2, <3>3, <4>1 DEF TypeOK
      <4>2. CASE k \in 1..Len(toBrowser)
        BY <1>c, <3>2, <3>3, <4>2 DEF TypeOK
      <4> QED
        BY <3>2, <3>3, <4>1, <4>2 DEF TypeOK
    <3> QED
      BY <3>4
  <2> QED
    BY <1>3, <1>c, <2>1, NoNewPair DEF WriteChunk, pending
<1>4. ASSUME NEW c \in Callers, GiveUp(c) PROVE IdsAgree' /\ Issued'
  <2>1. \A i \in Id : waiting'[i] # None => Carries(i, waiting'[i])
    BY <1>4, <1>c DEF GiveUp, TakeBack, TypeOK
  <2> QED
    BY <1>4, <1>c, <2>1, NoNewPair DEF GiveUp, pipes
<1>5. ASSUME ReadMessage
      PROVE  \A k \in 1..Len(fromBrowser') : fromBrowser'[k].kind \in Replies
                => Carries(fromBrowser'[k].id, fromBrowser'[k].to)
  <2>1. ASSUME NEW k \in 1..Len(fromBrowser')
        PROVE  k + 1 \in 1..Len(fromBrowser) /\ fromBrowser'[k] = fromBrowser[k + 1]
    BY <1>5, <2>1 DEF ReadMessage, TypeOK
  <2> QED
    BY <1>c, <2>1
<1>6. CASE Dispatch
  <2>1. \A i \in Id : waiting'[i] # None => Carries(i, waiting'[i])
    BY <1>6, <1>c DEF Dispatch, TypeOK
  <2> QED
    BY <1>6, <1>c, <1>5, <2>1, NoNewPair DEF Dispatch, callers
<1>7. CASE Ignore
  BY <1>7, <1>c, <1>5, NoNewPair DEF Ignore, callers, pending
<1>8. CASE StreamEnds \/ ReadFails
  <2>1. \A i \in Id : waiting'[i] = None
    BY <1>8 DEF StreamEnds, ReadFails, Close
  <2> QED
    BY <1>8, <1>c, <2>1, NoNewPair DEF StreamEnds, ReadFails, pipes
<1>9. CASE DropTransport
  BY <1>9, <1>c, NoNewPair DEF DropTransport, callers, pending
<1>10. CASE BrowserReads
  <2>1. CASE toBrowser[taken + 1].last
    <3>1. /\ toBrowser' = SubSeq(toBrowser, (taken + 1) + 1, Len(toBrowser))
          /\ taken + 1 \in Nat /\ taken + 1 <= Len(toBrowser)
          /\ work' \subseteq work \cup
                {[id |-> toBrowser[taken + 1].id, to |-> toBrowser[taken + 1].to]}
      BY <1>10, <2>1 DEF BrowserReads, TypeOK
    <3>a. toBrowser \in Seq(Chunk) /\ taken + 1 \in 1..Len(toBrowser)
      BY <3>1 DEF TypeOK
    <3>2. \A k \in 1..Len(toBrowser') :
             /\ k + (taken + 1) \in 1..Len(toBrowser)
             /\ toBrowser'[k] = toBrowser[k + (taken + 1)]
      BY <3>1, <3>a, SubSeqTail
    <3>b. Carries(toBrowser[taken + 1].id, toBrowser[taken + 1].to)
      BY <1>c, <3>a
    <3>3. \A r \in work' : Carries(r.id, r.to)
      BY <1>c, <3>1, <3>b
    <3>4. \A k \in 1..Len(toBrowser') : Carries(toBrowser'[k].id, toBrowser'[k].to)
      BY <1>c, <3>2
    <3> QED
      BY <1>10, <1>c, <3>3, <3>4, NoNewPair DEF BrowserReads, callers, pending
  <2>2. CASE ~toBrowser[taken + 1].last
    BY <1>10, <1>c, <2>2, NoNewPair DEF BrowserReads, callers, pending
  <2> QED
    BY <2>1, <2>2
<1>11. ASSUME NEW m \in Message, fromBrowser' = Append(fromBrowser, m),
              m.kind \in Replies => Carries(m.id, m.to)
       PROVE  \A k \in 1..Len(fromBrowser') : fromBrowser'[k].kind \in Replies
                => Carries(fromBrowser'[k].id, fromBrowser'[k].to)
  <2>1. ASSUME NEW k \in 1..Len(fromBrowser')
        PROVE  \/ k \in 1..Len(fromBrowser) /\ fromBrowser'[k] = fromBrowser[k]
               \/ fromBrowser'[k] = m
    BY <1>11, <2>1 DEF TypeOK
  <2> QED
    BY <1>c, <1>11, <2>1
<1>12. ASSUME NEW r \in work, NEW kind \in Replies, BrowserReplies(r, kind)
       PROVE  IdsAgree' /\ Issued'
  <2> DEFINE m == [kind |-> kind, id |-> r.id, to |-> r.to]
  <2>1. m \in Message /\ m.id = r.id /\ m.to = r.to
    BY <1>12 DEF TypeOK, Message
  <2>2. fromBrowser' = Append(fromBrowser, m)
    BY <1>12 DEF BrowserReplies, BrowserSends
  <2> HIDE DEF m
  <2>3. \A k \in 1..Len(fromBrowser') : fromBrowser'[k].kind \in Replies
                => Carries(fromBrowser'[k].id, fromBrowser'[k].to)
    BY <1>c, <1>11, <2>1, <2>2
  <2> QED
    BY <1>12, <1>c, <2>3, NoNewPair DEF BrowserReplies, BrowserSends, callers, pending
<1>13. ASSUME NEW kind \in {"other", "truncated"},
              fromBrowser' = Append(fromBrowser, [kind |-> kind, id |-> 0, to |-> None])
       PROVE  \A k \in 1..Len(fromBrowser') : fromBrowser'[k].kind \in Replies
                => Carries(fromBrowser'[k].id, fromBrowser'[k].to)
  <2> DEFINE m == [kind |-> kind, id |-> 0, to |-> None]
  <2>1. m \in Message /\ m.kind \notin Replies
    BY DEF Message, Replies
  <2> HIDE DEF m
  <2> QED
    BY <1>11, <1>13, <2>1 DEF m
<1>14. CASE BrowserSpeaks
  <2>1. \A k \in 1..Len(fromBrowser') : fromBrowser'[k].kind \in Replies
                => Carries(fromBrowser'[k].id, fromBrowser'[k].to)
    BY <1>13, <1>14 DEF BrowserSpeaks, BrowserSends
  <2> QED
    BY <1>14, <1>c, <2>1, NoNewPair DEF BrowserSpeaks, BrowserSends, callers, pending
<1>15. CASE BrowserExits
  <2>1. \A k \in 1..Len(fromBrowser') : fromBrowser'[k].kind \in Replies
                => Carries(fromBrowser'[k].id, fromBrowser'[k].to)
    BY <1>c, <1>13, <1>15 DEF BrowserExits
  <2> QED
    BY <1>15, <1>c, <2>1, NoNewPair DEF BrowserExits, callers, pending
<1>16. ASSUME NEW c \in Callers,
              AcquireWriter(c) \/ WriteFails(c) \/ Receive(c) \/ Expire(c) \/ Cancel(c)
       PROVE  IdsAgree' /\ Issued'
  BY <1>16, <1>c, NoNewPair
     DEF AcquireWriter, WriteFails, Receive, Expire, Cancel, pending, pipes
<1>17. CASE Send \/ UNCHANGED vars
  BY <1>17, <1>c, NoNewPair DEF Send, vars, callers, pending, pipes
<1> QED
  BY <1>1, <1>2, <1>3, <1>4, <1>6, <1>7, <1>8, <1>9, <1>10, <1>12, <1>14, <1>15,
     <1>16, <1>17 DEF Next, CallerStep, ReaderStep, Terminated

-----------------------------------------------------------------------------
(* The steps' effect on who is where: calls numbered, the reader's hand, who
   closes, who writes. *)
LEMMA ControlStep ==
    ASSUME TypeOK, Numbered, IdsAgree, InHandAgrees, ReaderCloses, WriterHolds, Issued,
           [Next]_vars
    PROVE  Numbered' /\ InHandAgrees' /\ ReaderCloses' /\ WriterHolds'
<1> USE BoundsAssumption, NoneAssumption
<1>1. ASSUME NEW c \in Callers, Begin(c)
      PROVE  Numbered' /\ InHandAgrees' /\ ReaderCloses' /\ WriterHolds'
  <2>1. Numbered'
    BY <1>1 DEF Begin, Go, Numbered, InCall, TypeOK, Id
  <2>2. InHandAgrees'
    <3>1. inHand # None => inHand.caller[1] \in Callers /\ inHand.caller[2] \in Nat
      BY DEF TypeOK, Routed, Call
    <3>2. /\ UNCHANGED <<reader, inHand>>
          /\ \A d \in Callers : round'[d] \in Nat /\ round[d] <= round'[d]
      BY <1>1 DEF Begin, TypeOK
    <3>3. \A d \in Callers : round[d] \in Nat
      BY DEF TypeOK
    <3> QED
      BY <3>1, <3>2, <3>3 DEF InHandAgrees
  <2>3. ReaderCloses' /\ WriterHolds'
    BY <1>1 DEF Begin, Go, ReaderCloses, WriterHolds, TypeOK, pending
  <2> QED
    BY <2>1, <2>2, <2>3
<1>2. ASSUME NEW c \in Callers, Register(c) \/ Receive(c) \/ Expire(c) \/ GiveUp(c)
      PROVE  Numbered' /\ InHandAgrees' /\ ReaderCloses' /\ WriterHolds'
  <2>1. /\ UNCHANGED <<next_id, round, id, inHand, reader, closed, writer>>
        /\ \A d \in Callers : d # c => pc'[d] = pc[d] /\ result'[d] = result[d]
        /\ InCall(c) /\ (InCall(c)' => result'[c] = result[c])
        /\ pc[c] \notin {"head", "tail"} /\ pc'[c] \notin {"head", "tail"}
    BY <1>2 DEF Register, Receive, Expire, GiveUp, Return, Go, InCall, TypeOK, pending
  <2>2. Numbered'
    BY <2>1 DEF Numbered, InCall
  <2>3. InHandAgrees' /\ ReaderCloses'
    BY <2>1 DEF InHandAgrees, ReaderCloses
  <2>4. WriterHolds'
    BY <2>1 DEF WriterHolds
  <2> QED
    BY <2>2, <2>3, <2>4
<1>3. ASSUME NEW c \in Callers,
             AcquireWriter(c) \/ WriteChunk(c) \/ WriteFails(c) \/ Cancel(c)
      PROVE  Numbered' /\ InHandAgrees' /\ ReaderCloses' /\ WriterHolds'
  <2>1. /\ UNCHANGED <<next_id, round, id, inHand, reader, closed, result>>
        /\ \A d \in Callers : d # c => pc'[d] = pc[d]
        /\ InCall(c)
    BY <1>3 DEF AcquireWriter, WriteChunk, WriteFails, Cancel, Go, InCall, TypeOK, pending
  <2>2. Numbered' /\ InHandAgrees' /\ ReaderCloses'
    BY <2>1 DEF Numbered, InCall, InHandAgrees, ReaderCloses
  <2>3. WriterHolds'
    BY <1>3 DEF AcquireWriter, WriteChunk, WriteFails, Cancel, Go, WriterHolds, TypeOK
  <2> QED
    BY <2>2, <2>3
<1>4. CASE Dispatch
  <2>1. Numbered' /\ ReaderCloses' /\ WriterHolds'
    BY <1>4 DEF Dispatch, ReadMessage, Numbered, InCall, ReaderCloses, WriterHolds, callers
  <2> DEFINE m == Head(fromBrowser)
  <2>2. m \in Message /\ m.kind \in Replies /\ m = fromBrowser[1] /\ 1 \in 1..Len(fromBrowser)
    BY <1>4 DEF Dispatch, ReadMessage, TypeOK
  <2>3. m.id \in Id /\ m.to \in Call
    BY <2>2 DEF Message, Replies
  <2>4. waiting[m.id] \in Call
    BY <1>4, <2>3 DEF Dispatch, TypeOK
  <2>5. Carries(m.id, m.to) /\ Carries(m.id, waiting[m.id])
    BY <2>2, <2>3, <2>4, CarriedPlaces
  <2>6. m.to = waiting[m.id] /\ waiting[m.id][2] <= round[waiting[m.id][1]]
    BY <2>3, <2>4, <2>5 DEF IdsAgree, Issued
  <2>7. /\ inHand' = [kind |-> m.kind, answers |-> m.to, caller |-> waiting[m.id]]
        /\ reader' = "sending" /\ round' = round
    BY <1>4 DEF Dispatch, callers
  <2>8. inHand' \in Routed
    BY <2>2, <2>3, <2>4, <2>7 DEF Routed
  <2>9. inHand' # None
    BY <2>8
  <2> QED
    BY <2>1, <2>6, <2>7, <2>9 DEF InHandAgrees
<1>5. CASE Ignore
  BY <1>5 DEF Ignore, ReadMessage, Numbered, InCall, InHandAgrees, ReaderCloses, WriterHolds,
              callers, pending
<1>6. CASE Send
  BY <1>6 DEF Send, Numbered, InCall, InHandAgrees, ReaderCloses, WriterHolds, pending
<1>7. CASE StreamEnds \/ ReadFails
  BY <1>7 DEF StreamEnds, ReadFails, Close, Numbered, InCall, InHandAgrees, ReaderCloses,
              WriterHolds
<1>8. CASE DropTransport
  BY <1>8 DEF DropTransport, Numbered, InCall, InHandAgrees, ReaderCloses, WriterHolds,
              callers, pending
<1>9. CASE BrowserReads
  BY <1>9 DEF BrowserReads, Numbered, InCall, InHandAgrees, ReaderCloses, WriterHolds,
              callers, pending
<1>10. ASSUME NEW m, BrowserSends(m)
       PROVE  Numbered' /\ InHandAgrees' /\ ReaderCloses' /\ WriterHolds'
  BY <1>10 DEF BrowserSends, Numbered, InCall, InHandAgrees, ReaderCloses, WriterHolds,
               callers, pending
<1>11. CASE BrowserExits \/ UNCHANGED vars
  BY <1>11 DEF BrowserExits, vars, Numbered, InCall, InHandAgrees, ReaderCloses, WriterHolds,
               callers, pending
<1> QED
  BY <1>1, <1>2, <1>3, <1>4, <1>5, <1>6, <1>7, <1>8, <1>9, <1>10, <1>11
     DEF Next, CallerStep, ReaderStep, BrowserReplies, BrowserSpeaks, Terminated

-----------------------------------------------------------------------------
(* Nothing enters the pipe once the browser is gone. *)
LEMMA PipeStep ==
    ASSUME TypeOK, PipeGone, [Next]_vars
    PROVE  PipeGone'
<1>1. ASSUME NEW c \in Callers, Begin(c) \/ CallerStep(c) \/ Cancel(c) PROVE PipeGone'
  BY <1>1 DEF Begin, CallerStep, Register, AcquireWriter, WriteChunk, WriteFails, Receive,
              Expire, GiveUp, Cancel, PipeGone, pipes
<1>2. CASE ReaderStep \/ ReadFails \/ DropTransport
  BY <1>2 DEF ReaderStep, Dispatch, Ignore, ReadMessage, Send, StreamEnds, ReadFails,
              DropTransport, PipeGone, pipes
<1>3. CASE BrowserReads \/ BrowserExits
  BY <1>3 DEF BrowserReads, BrowserExits, PipeGone
<1>4. ASSUME NEW m, BrowserSends(m) PROVE PipeGone'
  BY <1>4 DEF BrowserSends, PipeGone
<1>5. CASE UNCHANGED vars
  BY <1>5 DEF vars, pipes, PipeGone
<1> QED
  BY <1>1, <1>2, <1>3, <1>4, <1>5 DEF Next, BrowserReplies, BrowserSpeaks, Terminated

(* The byte stream: whoever appends holds the writer lock, so the frame it
   finds unfinished is its own, or a dropped call's. *)
LEMMA FramesStep ==
    ASSUME TypeOK, Numbered, WriterHolds, OpenFrame, PipeGone, OnlyCancellationTears,
           [Next]_vars
    PROVE  OpenFrame' /\ OnlyCancellationTears'
<1> USE BoundsAssumption, NoneAssumption
<1> DEFINE n == Len(toBrowser)
<1>n. /\ n \in Nat /\ toBrowser \in Seq(Chunk)
      /\ \A k \in 1..n : /\ toBrowser[k].to[1] \in Callers /\ toBrowser[k].last \in BOOLEAN
                         /\ toBrowser[k].to \in Call
  <2>1. n \in Nat /\ toBrowser \in Seq(Chunk) /\ \A k \in 1..n : toBrowser[k] \in Chunk
    BY DEF TypeOK
  <2> QED
    BY <2>1 DEF Chunk, Call
<1>1. ASSUME NEW c \in Callers, WriteChunk(c) PROVE OpenFrame' /\ OnlyCancellationTears'
  <2> DEFINE chunk == [to |-> CurrentCall(c), id |-> id[c], last |-> pc[c] = "tail"]
  <2>1. CurrentCall(c) \in Call /\ id[c] \in Id
    BY <1>1, CurrentCallType DEF WriteChunk, InCall
  <2>2. /\ chunk \in Chunk /\ chunk.to = CurrentCall(c) /\ chunk.to[1] = c
        /\ chunk.last <=> pc[c] = "tail"
    BY <2>1 DEF Chunk, CurrentCall
  <2>3. toBrowser' = Append(toBrowser, chunk)
    BY <1>1 DEF WriteChunk
  <2> HIDE DEF chunk
  <2>4. /\ Len(toBrowser') = n + 1 /\ toBrowser'[n + 1] = chunk
        /\ \A k \in 1..n : toBrowser'[k] = toBrowser[k]
    BY <1>n, <2>2, <2>3
  <2>5. CurrentCall(c)' = CurrentCall(c) /\ pc[c] \in {"head", "tail"}
    BY <1>1 DEF WriteChunk, CurrentCall
  <2>6. OpenFrame'
    <3>1. pc[c] = "head" => pc'[c] = "tail"
      BY <1>1 DEF WriteChunk, Go, TypeOK
    <3> QED
      BY <1>n, <2>2, <2>4, <2>5, <3>1 DEF OpenFrame
  <2>7. ASSUME n > 0, ~toBrowser[n].last, toBrowser[n].to[1] \notin Cancellable
        PROVE  toBrowser[n].to = chunk.to
    <3> DEFINE d == toBrowser[n].to[1]
    <3>1. d \in Callers /\ pc[d] = "tail" /\ toBrowser[n].to = CurrentCall(d)
      BY <1>n, <2>7 DEF OpenFrame
    <3>2. writer = d /\ writer = c
      BY <2>5, <3>1 DEF WriterHolds
    <3> QED
      BY <2>2, <3>1, <3>2
  <2>8. ASSUME NEW k \in 1..(Len(toBrowser') - 1), ~toBrowser'[k].last,
               toBrowser'[k + 1].to # toBrowser'[k].to
        PROVE  toBrowser'[k].to[1] \in Cancellable
    <3>1. CASE k = n
      BY <1>n, <2>4, <2>7, <2>8, <3>1
    <3>2. CASE k \in 1..(n - 1)
      <4>1. toBrowser'[k] = toBrowser[k] /\ toBrowser'[k + 1] = toBrowser[k + 1]
        BY <1>n, <2>4, <3>2
      <4> QED
        BY <2>8, <3>2, <4>1 DEF OnlyCancellationTears
    <3> QED
      BY <1>n, <2>4, <3>1, <3>2
  <2>9. OnlyCancellationTears'
    BY <2>8 DEF OnlyCancellationTears
  <2> QED
    BY <2>6, <2>9
<1>2. ASSUME UNCHANGED <<toBrowser, round>>,
             \A c \in Callers : pc[c] = "tail" /\ c \notin Cancellable => pc'[c] = "tail"
      PROVE  OpenFrame' /\ OnlyCancellationTears'
  BY <1>2, <1>n DEF OpenFrame, OnlyCancellationTears, CurrentCall
<1>3. ASSUME NEW c \in Callers, Begin(c) PROVE OpenFrame' /\ OnlyCancellationTears'
  <2>1. /\ UNCHANGED toBrowser /\ pc[c] = "idle"
        /\ \A d \in Callers : d # c => pc'[d] = pc[d] /\ round'[d] = round[d]
    BY <1>3 DEF Begin, Go, TypeOK, pipes
  <2>2. OnlyCancellationTears'
    BY <2>1 DEF OnlyCancellationTears
  <2>3. OpenFrame'
    BY <1>n, <2>1 DEF OpenFrame, CurrentCall
  <2> QED
    BY <2>2, <2>3
<1>4. ASSUME toBrowser' = <<>> PROVE OpenFrame' /\ OnlyCancellationTears'
  BY <1>4 DEF OpenFrame, OnlyCancellationTears
<1>5. ASSUME NEW c \in Callers, WriteFails(c) PROVE OpenFrame' /\ OnlyCancellationTears'
  <2>1. browser = "exited" /\ UNCHANGED toBrowser
    BY <1>5 DEF WriteFails, pipes
  <2> QED
    BY <1>4, <2>1 DEF PipeGone
<1>6. ASSUME NEW c \in Callers,
             Register(c) \/ AcquireWriter(c) \/ Receive(c) \/ Expire(c) \/ GiveUp(c) \/ Cancel(c)
      PROVE  OpenFrame' /\ OnlyCancellationTears'
  BY <1>2, <1>6 DEF Register, AcquireWriter, Receive, Expire, GiveUp, Cancel, Return, Go,
                    TypeOK, pipes
<1>7. CASE Dispatch \/ Ignore \/ Send \/ StreamEnds \/ ReadFails \/ UNCHANGED vars
  BY <1>2, <1>7 DEF Dispatch, Ignore, Send, StreamEnds, ReadFails, vars, callers, pipes
<1>8. CASE DropTransport \/ BrowserExits
  BY <1>4, <1>8 DEF DropTransport, BrowserExits
<1>9. ASSUME NEW m, BrowserSends(m) PROVE OpenFrame' /\ OnlyCancellationTears'
  BY <1>2, <1>9 DEF BrowserSends, callers
<1>10. CASE BrowserReads
  <2>1. CASE toBrowser[taken + 1].last
    <3> DEFINE cut == taken + 1
    <3>1. /\ toBrowser' = SubSeq(toBrowser, cut + 1, n) /\ cut \in Nat /\ cut <= n
          /\ UNCHANGED <<pc, round>>
      BY <1>10, <2>1 DEF BrowserReads, TypeOK, callers
    <3> HIDE DEF cut
    <3>2. /\ toBrowser' \in Seq(Chunk) /\ Len(toBrowser') = n - cut
          /\ \A k \in 1..Len(toBrowser') : k + cut \in 1..n /\ toBrowser'[k] = toBrowser[k + cut]
      BY <1>n, <3>1, SubSeqTail
    <3>3. OpenFrame'
      <4>1. n - cut > 0 => toBrowser'[n - cut] = toBrowser[n]
        BY <1>n, <3>1, <3>2
      <4>2. CASE n - cut > 0
        <5>a. Len(toBrowser') = n - cut
          BY <3>2
        <5>b. n > 0
          BY <1>n, <3>1, <4>2
        <5>1. Len(toBrowser') > 0 /\ n > 0 /\ toBrowser'[Len(toBrowser')] = toBrowser[n]
          BY <4>1, <4>2, <5>a, <5>b
        <5>2. toBrowser[n].to[1] \in Callers
          BY <1>n, <5>1
        <5> QED
          BY <3>1, <5>1, <5>2 DEF OpenFrame, CurrentCall
      <4>3. CASE ~(n - cut > 0)
        BY <3>2, <4>3 DEF OpenFrame
      <4> QED
        BY <4>2, <4>3
    <3>4. ASSUME NEW k \in 1..(Len(toBrowser') - 1)
          PROVE  /\ k + cut \in 1..(n - 1) /\ toBrowser'[k] = toBrowser[k + cut]
                 /\ toBrowser'[k + 1] = toBrowser[(k + cut) + 1]
      <4>1. /\ n \in Nat /\ cut \in Nat /\ k \in Nat
            /\ k \in 1..Len(toBrowser') /\ k + 1 \in 1..Len(toBrowser')
        BY <1>n, <3>1, <3>2, <3>4
      <4>2. toBrowser'[k] = toBrowser[k + cut] /\ toBrowser'[k + 1] = toBrowser[(k + 1) + cut]
        BY <3>2, <4>1
      <4>3. (k + 1) + cut = (k + cut) + 1
        BY <4>1
      <4>4. k + cut \in 1..n /\ (k + 1) + cut \in 1..n
        BY <3>2, <4>1
      <4>5. k + cut \in 1..(n - 1)
        BY <4>1, <4>3, <4>4
      <4> QED
        BY <4>2, <4>3, <4>5
    <3>5. OnlyCancellationTears'
      BY <3>4 DEF OnlyCancellationTears
    <3> QED
      BY <3>3, <3>5
  <2>2. CASE ~toBrowser[taken + 1].last
    BY <1>2, <1>10, <2>2 DEF BrowserReads, callers
  <2> QED
    BY <2>1, <2>2
<1> QED
  BY <1>1, <1>3, <1>5, <1>6, <1>7, <1>8, <1>9, <1>10
     DEF Next, CallerStep, ReaderStep, BrowserReplies, BrowserSpeaks, Terminated

-----------------------------------------------------------------------------
(* A call in progress waits under its own id, no two share an id, and the
   call a task makes next waits under none. *)
LEMMA OwnWaiter ==
    ASSUME TypeOK, Numbered, IdsAgree, Issued
    PROVE  /\ \A c \in Callers, i \in Id :
                 InCall(c) /\ waiting[i] = CurrentCall(c) => i = id[c]
           /\ \A c, d \in Callers : InCall(c) /\ InCall(d) /\ id[c] = id[d] => c = d
           /\ next_id <= MaxCalls =>
                 \A c \in Callers, i \in Id : waiting[i] # <<c, round[c] + 1>>
<1> USE BoundsAssumption, NoneAssumption
<1>1. ASSUME NEW c \in Callers, NEW i \in Id, InCall(c), waiting[i] = CurrentCall(c)
      PROVE  i = id[c]
  <2>1. CurrentCall(c) \in Call /\ Carries(i, CurrentCall(c))
    BY <1>1, CurrentCallType, CarriedPlaces
  <2> QED
    BY <2>1 DEF Issued, CurrentCall
<1>2. ASSUME NEW c \in Callers, NEW d \in Callers, InCall(c), InCall(d), id[c] = id[d]
      PROVE  c = d
  <2>1. /\ CurrentCall(c) \in Call /\ CurrentCall(d) \in Call /\ id[c] \in Id
        /\ Carries(id[c], CurrentCall(c)) /\ Carries(id[c], CurrentCall(d))
    BY <1>2, CurrentCallType, CarriedPlaces
  <2>2. CurrentCall(c) = CurrentCall(d)
    BY <2>1 DEF IdsAgree
  <2> QED
    BY <2>2 DEF CurrentCall
<1>3. ASSUME NEW c \in Callers, NEW i \in Id, next_id <= MaxCalls,
             waiting[i] = <<c, round[c] + 1>>
      PROVE  FALSE
  <2>1. waiting[i] \in Call
    BY <1>3 DEF TypeOK, Numbered, Call
  <2>2. Carries(i, waiting[i])
    BY <2>1, CarriedPlaces
  <2>3. waiting[i][2] <= round[waiting[i][1]]
    BY <2>1, <2>2 DEF Issued
  <2>4. waiting[i][1] = c /\ waiting[i][2] = round[c] + 1 /\ round[c] \in Nat
    BY <1>3 DEF TypeOK
  <2> QED
    BY <2>3, <2>4
<1> QED
  BY <1>1, <1>2, <1>3

(* The life of a oneshot, from registration to return. *)
Shots == OneSender /\ SlotOwn /\ OwnReply /\ NobodyStranded /\ ClosedFailsEveryCall
           /\ NoWaiterOutlivesItsCall

(* Steps that move a call along without touching a oneshot. *)
LEMMA ShotsFrame ==
    ASSUME TypeOK, Shots,
           UNCHANGED <<round, id, slot, result, waiting, closed, inHand>>,
           \A c \in Callers :
              \/ pc'[c] = pc[c]
              \/ /\ InCall(c) /\ InCall(c)' /\ pc'[c] # "register"
                 /\ Registered(c)' => Registered(c)
                 /\ pc'[c] = "timeout" => slot[c] = None
    PROVE  Shots'
<1> USE BoundsAssumption, NoneAssumption
<1>1. \A c \in Callers : /\ InCall(c)' <=> InCall(c)
                         /\ Registered(c)' => Registered(c)
                         /\ pc'[c] = "register" => pc[c] = "register"
                         /\ pc'[c] = "timeout" => pc[c] = "timeout" \/ slot[c] = None
  BY DEF InCall, Registered
<1>2. \A c \in Callers : CurrentCall(c)' = CurrentCall(c) /\ (Resolvable(c)' <=> Resolvable(c))
  BY DEF CurrentCall, Resolvable
<1>3. OneSender'
  BY <1>1, <1>2 DEF Shots, OneSender
<1>4. SlotOwn' /\ OwnReply'
  BY <1>2 DEF Shots, SlotOwn, OwnReply
<1>5. NobodyStranded'
  BY <1>1, <1>2 DEF Shots, NobodyStranded
<1>6. ClosedFailsEveryCall'
  BY <1>1 DEF Shots, ClosedFailsEveryCall
<1>7. NoWaiterOutlivesItsCall'
  <2>1. \A i \in Id : waiting[i] # None => waiting[i][1] \in Callers
    BY DEF TypeOK, Call
  <2> QED
    BY <1>1, <2>1 DEF Shots, NoWaiterOutlivesItsCall
<1> QED
  BY <1>3, <1>4, <1>5, <1>6, <1>7 DEF Shots

(* While no call begins, a waiter that stays, or is put there by a call in
   progress, keeps its caller, if a task leaves a call only with no waiter
   left for it or by being dropped. *)
LEMMA WaitersKept ==
    ASSUME TypeOK, NoWaiterOutlivesItsCall, round' = round,
           \A i \in Id : waiting'[i] # None =>
              \/ waiting'[i] = waiting[i]
              \/ \E c \in Callers : waiting'[i] = CurrentCall(c) /\ InCall(c)',
           \A c \in Callers : InCall(c) =>
              \/ InCall(c)'
              \/ c \in Cancellable /\ result'[c] = None
              \/ \A i \in Id : waiting'[i] # CurrentCall(c),
           \A c \in Callers : result[c] = None /\ ~InCall(c) => result'[c] = None
    PROVE  NoWaiterOutlivesItsCall'
<1>1. ASSUME NEW i \in Id, waiting'[i] # None, NEW c \in Callers,
             waiting'[i] = CurrentCall(c), InCall(c)'
      PROVE  waiting'[i][2] = round'[waiting'[i][1]] /\ pc'[waiting'[i][1]] # "idle"
  <2>1. waiting'[i][1] = c /\ waiting'[i][2] = round[c]
    BY <1>1 DEF CurrentCall
  <2> QED
    BY <1>1, <2>1 DEF InCall
<1>2. ASSUME NEW i \in Id, waiting'[i] # None, waiting'[i] = waiting[i]
      PROVE  IF waiting'[i][2] = round'[waiting'[i][1]]
             THEN \/ pc'[waiting'[i][1]] # "idle"
                  \/ waiting'[i][1] \in Cancellable /\ result'[waiting'[i][1]] = None
             ELSE waiting'[i][1] \in Cancellable
  <2>0. waiting[i] \in Callers \X (1..MaxCalls)
    BY <1>2 DEF TypeOK, Call
  <2>1. PICK c \in Callers, n \in 1..MaxCalls : waiting[i] = <<c, n>>
    BY <2>0
  <2>2. waiting'[i][1] = c /\ waiting'[i][2] = n /\ waiting[i][1] = c /\ waiting[i][2] = n
    BY <1>2, <2>1
  <2>3. CASE n = round[c]
    <3>1. InCall(c) \/ (c \in Cancellable /\ result[c] = None)
      BY <1>2, <2>2, <2>3 DEF NoWaiterOutlivesItsCall
    <3>2. waiting'[i] = CurrentCall(c)
      BY <1>2, <2>1, <2>3 DEF CurrentCall
    <3>3. InCall(c)' \/ (c \in Cancellable /\ result'[c] = None)
      BY <3>1, <3>2
    <3> QED
      BY <2>2, <2>3, <3>3 DEF InCall
  <2>4. CASE n # round[c]
    BY <1>2, <2>2, <2>4 DEF NoWaiterOutlivesItsCall
  <2> QED
    BY <2>3, <2>4
<1>3. ASSUME NEW i \in Id, waiting'[i] # None
      PROVE  IF waiting'[i][2] = round'[waiting'[i][1]]
             THEN \/ pc'[waiting'[i][1]] # "idle"
                  \/ waiting'[i][1] \in Cancellable /\ result'[waiting'[i][1]] = None
             ELSE waiting'[i][1] \in Cancellable
  BY <1>1, <1>2, <1>3
<1> QED
  BY <1>3 DEF NoWaiterOutlivesItsCall, InCall

(* Every step keeps the oneshots in order. *)
LEMMA ShotsStep ==
    ASSUME TypeOK, Numbered, IdsAgree, Issued, InHandAgrees, ReaderCloses, Shots, [Next]_vars
    PROVE  Shots'
<1> USE BoundsAssumption, NoneAssumption
<1>o. /\ \A c \in Callers, i \in Id : InCall(c) /\ waiting[i] = CurrentCall(c) => i = id[c]
      /\ \A c, d \in Callers : InCall(c) /\ InCall(d) /\ id[c] = id[d] => c = d
      /\ next_id <= MaxCalls => \A c \in Callers, i \in Id : waiting[i] # <<c, round[c] + 1>>
  BY OwnWaiter
<1>w. \A i \in Id : waiting[i] # None =>
         waiting[i] = <<waiting[i][1], waiting[i][2]>> /\ waiting[i][1] \in Callers
  BY DEF TypeOK, Call
<1>h. inHand # None => /\ inHand \in Routed /\ inHand.caller[1] \in Callers
                       /\ inHand.caller = <<inHand.caller[1], inHand.caller[2]>>
  BY DEF TypeOK, Routed, Call
<1>1. ASSUME NEW c \in Callers, Begin(c) PROVE Shots'
  <2>1. /\ UNCHANGED <<waiting, closed, inHand>> /\ next_id <= MaxCalls /\ pc[c] = "idle"
        /\ pc'[c] = "register" /\ slot'[c] = None /\ result'[c] = None
        /\ round[c] \in Nat /\ round'[c] = round[c] + 1
        /\ \A d \in Callers : d # c => /\ pc'[d] = pc[d] /\ slot'[d] = slot[d]
                                       /\ result'[d] = result[d] /\ round'[d] = round[d]
                                       /\ id'[d] = id[d]
    BY <1>1 DEF Begin, Go, TypeOK, pending
  <2>2. \A d \in Callers : d # c => CurrentCall(d)' = CurrentCall(d)
                                    /\ (Resolvable(d)' <=> Resolvable(d))
    BY <2>1 DEF CurrentCall, Resolvable
  <2>3. CurrentCall(c)' = <<c, round[c] + 1>>
    BY <2>1 DEF CurrentCall
  <2>4. ~Resolvable(c)'
    <3>1. inHand # None => inHand.caller # <<c, round[c] + 1>>
      BY <1>h, <2>1 DEF InHandAgrees
    <3> QED
      BY <1>o, <2>1, <2>3, <3>1 DEF Resolvable
  <2>5. OneSender'
    BY <2>1, <2>2, <2>4 DEF Shots, OneSender, InCall, Resolvable
  <2>6. SlotOwn' /\ OwnReply'
    BY <2>1, <2>2 DEF Shots, SlotOwn, OwnReply
  <2>7. NobodyStranded' /\ ClosedFailsEveryCall'
    BY <2>1, <2>2 DEF Shots, NobodyStranded, ClosedFailsEveryCall, Registered
  <2>8. NoWaiterOutlivesItsCall'
    <3>1. ASSUME NEW i \in Id, waiting[i] # None, waiting[i][1] = c
          PROVE  waiting[i][2] # round'[c] /\ c \in Cancellable
      BY <1>o, <1>w, <2>1, <3>1 DEF Shots, NoWaiterOutlivesItsCall, InCall
    <3> QED
      BY <1>w, <2>1, <3>1 DEF Shots, NoWaiterOutlivesItsCall, InCall
  <2> QED
    BY <2>5, <2>6, <2>7, <2>8 DEF Shots
<1>2. ASSUME NEW c \in Callers, Register(c) PROVE Shots'
  <2>1. /\ UNCHANGED <<round, id, slot, closed, inHand>> /\ pc[c] = "register" /\ InCall(c)
        /\ \A d \in Callers : d # c => pc'[d] = pc[d] /\ result'[d] = result[d]
        /\ id[c] \in Id /\ CurrentCall(c) \in Call
    BY <1>2, CurrentCallType DEF Register, Return, Go, InCall, TypeOK
  <2>2. \A d \in Callers : CurrentCall(d)' = CurrentCall(d)
    BY <2>1 DEF CurrentCall
  <2>3. slot[c] = None /\ ~Resolvable(c)
    BY <2>1 DEF Shots, OneSender
  <2>4. CASE closed
    <3>1. UNCHANGED waiting /\ pc'[c] = "idle" /\ result'[c].kind = "refused"
      BY <1>2, <2>4 DEF Register, Return, Go, TypeOK
    <3>2. \A d \in Callers : Resolvable(d)' <=> Resolvable(d)
      BY <2>1, <2>2, <3>1 DEF Resolvable
    <3>3. OneSender'
      BY <2>1, <2>2, <3>1, <3>2 DEF Shots, OneSender, InCall
    <3>4. SlotOwn' /\ OwnReply'
      BY <2>1, <2>2, <3>1 DEF Shots, SlotOwn, OwnReply, Replies
    <3>5. NobodyStranded' /\ ClosedFailsEveryCall'
      BY <2>1, <2>2, <3>1 DEF Shots, NobodyStranded, ClosedFailsEveryCall, Registered
    <3>6. NoWaiterOutlivesItsCall'
      BY <2>4, <3>1 DEF Shots, NoWaiterOutlivesItsCall, ClosedFailsEveryCall
    <3> QED
      BY <3>3, <3>4, <3>5, <3>6 DEF Shots
  <2>5. CASE ~closed
    <3>1. /\ waiting' = [waiting EXCEPT ![id[c]] = CurrentCall(c)]
          /\ pc'[c] = "lock" /\ result' = result
      BY <1>2, <2>5 DEF Register, Go, TypeOK
    <3>2. /\ waiting'[id[c]] = CurrentCall(c)
          /\ \A i \in Id : i # id[c] => waiting'[i] = waiting[i]
      BY <2>1, <3>1 DEF TypeOK
    <3>3. \A d \in Callers : d # c => /\ CurrentCall(d) # CurrentCall(c)
                                      /\ Resolvable(d)' => Resolvable(d)
      BY <2>1, <2>2, <3>2 DEF Resolvable, CurrentCall
    <3>4. OneSender'
      <4>1. ASSUME NEW d \in Callers, InCall(d)', Resolvable(d)' PROVE slot'[d] = None
        BY <2>1, <2>3, <3>3, <4>1 DEF Shots, OneSender, InCall
      <4>2. ASSUME NEW d \in Callers, InCall(d)', inHand' # None, inHand'.caller = CurrentCall(d)',
                   NEW i \in Id
            PROVE  waiting'[i] # CurrentCall(d)'
        <5>1. d # c
          BY <2>1, <2>2, <2>3, <4>2 DEF Resolvable
        <5> QED
          BY <2>1, <2>2, <3>2, <3>3, <4>2, <5>1 DEF Shots, OneSender, InCall
      <4>3. ASSUME NEW d \in Callers, pc'[d] = "register"
            PROVE  slot'[d] = None /\ ~Resolvable(d)'
        BY <2>1, <3>1, <3>3, <4>3 DEF Shots, OneSender
      <4>4. ASSUME NEW d \in Callers, pc'[d] = "timeout" PROVE slot'[d] = None
        BY <2>1, <3>1, <4>4 DEF Shots, OneSender
      <4> QED
        BY <4>1, <4>2, <4>3, <4>4 DEF OneSender
    <3>5. SlotOwn' /\ OwnReply'
      BY <2>1, <2>2, <3>1 DEF Shots, SlotOwn, OwnReply
    <3>6. NobodyStranded'
      <4>1. ASSUME NEW d \in Callers, Registered(d)', slot'[d] = None, d # c
            PROVE  waiting[id[d]] = CurrentCall(d) => waiting'[id[d]] = CurrentCall(d)'
        <5>1. InCall(d) /\ id[d] \in Id /\ id[d] # id[c]
          BY <1>o, <2>1, <4>1, CurrentCallType DEF Registered, InCall
        <5> QED
          BY <2>2, <3>2, <5>1
      <4> QED
        BY <2>1, <2>2, <3>2, <4>1 DEF Shots, NobodyStranded, Registered
    <3>7. ClosedFailsEveryCall'
      BY <2>1, <2>5 DEF ClosedFailsEveryCall
    <3>8. NoWaiterOutlivesItsCall'
      <4>1. \A d \in Callers : InCall(d)' <=> InCall(d)
        BY <2>1, <3>1 DEF InCall
      <4>2. \A i \in Id : waiting'[i] = waiting[i] \/ waiting'[i] = CurrentCall(c)
        BY <3>2
      <4> QED
        BY <2>1, <3>1, <4>1, <4>2, WaitersKept DEF Shots
    <3> QED
      BY <3>4, <3>5, <3>6, <3>7, <3>8 DEF Shots
  <2> QED
    BY <2>4, <2>5
<1>3. ASSUME NEW c \in Callers, Receive(c) \/ Cancel(c) PROVE Shots'
  <2>1. /\ UNCHANGED <<round, id, slot, waiting, closed, inHand>> /\ InCall(c) /\ pc'[c] = "idle"
        /\ \A d \in Callers : d # c => pc'[d] = pc[d] /\ result'[d] = result[d]
    BY <1>3 DEF Receive, Cancel, Return, Go, InCall, TypeOK, pending
  <2>2. \A d \in Callers : CurrentCall(d)' = CurrentCall(d) /\ (Resolvable(d)' <=> Resolvable(d))
    BY <2>1 DEF CurrentCall, Resolvable
  <2>3. OneSender' /\ SlotOwn'
    BY <2>1, <2>2 DEF Shots, OneSender, SlotOwn, InCall
  <2>4. NobodyStranded' /\ ClosedFailsEveryCall'
    BY <2>1, <2>2 DEF Shots, NobodyStranded, ClosedFailsEveryCall, Registered
  <2>5. CASE Receive(c)
    <3>1. slot[c] # None /\ result'[c] = [kind |-> slot[c].kind, to |-> slot[c].to]
      BY <2>5 DEF Receive, Return, TypeOK
    <3>2. OwnReply'
      BY <2>1, <2>2, <3>1 DEF Shots, OwnReply, SlotOwn
    <3>3. \A i \in Id : waiting[i] # CurrentCall(c)
      BY <2>1, <3>1 DEF Shots, OneSender, Resolvable
    <3>4. NoWaiterOutlivesItsCall'
      BY <2>1, <3>3, WaitersKept DEF Shots, InCall
    <3> QED
      BY <2>3, <2>4, <3>2, <3>4 DEF Shots
  <2>6. CASE Cancel(c)
    <3>1. result' = result /\ c \in Cancellable /\ result[c] = None
      BY <2>1, <2>6 DEF Cancel, Numbered
    <3>2. OwnReply'
      BY <2>2, <3>1 DEF Shots, OwnReply
    <3>3. NoWaiterOutlivesItsCall'
      BY <2>1, <3>1, WaitersKept DEF Shots, InCall
    <3> QED
      BY <2>3, <2>4, <3>2, <3>3 DEF Shots
  <2> QED
    BY <1>3, <2>5, <2>6
<1>4. ASSUME NEW c \in Callers, GiveUp(c) PROVE Shots'
  <2>1. /\ UNCHANGED <<round, id, slot, closed, inHand>> /\ InCall(c) /\ pc'[c] = "idle"
        /\ \A d \in Callers : d # c => pc'[d] = pc[d] /\ result'[d] = result[d]
        /\ result'[c].kind \notin Replies
    BY <1>4 DEF GiveUp, Return, Go, InCall, TypeOK, Replies
  <2>2. id[c] \in Id /\ CurrentCall(c) \in Call
    BY <2>1, CurrentCallType
  <2>3. /\ waiting'[id[c]] = None
        /\ \A i \in Id : i # id[c] => waiting'[i] = waiting[i]
    BY <1>4, <2>2 DEF GiveUp, TakeBack, TypeOK
  <2>n. \A d \in Callers : InCall(d) => CurrentCall(d) # None
    BY CurrentCallType
  <2>4. \A d \in Callers : CurrentCall(d)' = CurrentCall(d)
    BY <2>1 DEF CurrentCall
  <2>5. \A d \in Callers : InCall(d) /\ Resolvable(d)' => Resolvable(d)
    BY <2>1, <2>3, <2>4, <2>n DEF Resolvable
  <2>6. OneSender'
    <3>1. ASSUME NEW d \in Callers, InCall(d)', inHand' # None,
                 inHand'.caller = CurrentCall(d)', NEW i \in Id
          PROVE  waiting'[i] # CurrentCall(d)'
      BY <2>1, <2>3, <2>4, <2>n, <3>1 DEF Shots, OneSender, InCall
    <3> QED
      BY <2>1, <2>5, <3>1 DEF Shots, OneSender, InCall
  <2>7. SlotOwn' /\ OwnReply'
    BY <2>1, <2>4 DEF Shots, SlotOwn, OwnReply
  <2>8. NobodyStranded'
    <3>1. ASSUME NEW d \in Callers, Registered(d)'
          PROVE  Registered(d) /\ id[d] \in Id /\ id[d] # id[c]
      BY <1>o, <2>1, <3>1, CurrentCallType DEF Registered, InCall
    <3> QED
      BY <2>1, <2>3, <2>4, <3>1 DEF Shots, NobodyStranded
  <2>9. ClosedFailsEveryCall'
    BY <2>1, <2>3 DEF Shots, ClosedFailsEveryCall, Registered
  <2>10. NoWaiterOutlivesItsCall'
    <3>1. \A i \in Id : waiting'[i] # CurrentCall(c)
      BY <1>o, <2>1, <2>2, <2>3
    <3> QED
      BY <2>1, <2>3, <3>1, WaitersKept DEF Shots, InCall
  <2> QED
    BY <2>6, <2>7, <2>8, <2>9, <2>10 DEF Shots
<1>5. CASE Dispatch
  <2> DEFINE i == Head(fromBrowser).id
  <2>1. /\ UNCHANGED <<pc, round, id, slot, result, closed>> /\ reader = "reading"
        /\ waiting[i] # None /\ inHand' # None /\ inHand'.caller = waiting[i]
        /\ waiting' = [waiting EXCEPT ![i] = None]
    <3>1. inHand' = [kind |-> Head(fromBrowser).kind, answers |-> Head(fromBrowser).to,
                     caller |-> waiting[i]]
      BY <1>5 DEF Dispatch
    <3>2. inHand' # None
      <4>1. Head(fromBrowser) \in Message /\ Head(fromBrowser).kind \in Replies
        BY <1>5 DEF Dispatch, ReadMessage, TypeOK
      <4>2. i \in Id /\ Head(fromBrowser).to \in Call
        BY <4>1 DEF Message, Replies
      <4> QED
        BY <1>5, <3>1, <4>1, <4>2 DEF Dispatch, Routed, TypeOK
    <3> QED
      BY <1>5, <3>1, <3>2 DEF Dispatch, ReadMessage, callers
  <2>2. i \in Id
    <3>1. Head(fromBrowser) \in Message /\ Head(fromBrowser).kind \in Replies
      BY <1>5 DEF Dispatch, ReadMessage, TypeOK
    <3> QED
      BY <3>1 DEF Message, Replies
  <2> HIDE DEF i
  <2>3. waiting'[i] = None /\ \A j \in Id : j # i => waiting'[j] = waiting[j]
    BY <2>1, <2>2 DEF TypeOK
  <2>4. inHand = None /\ ~closed
    BY <2>1 DEF InHandAgrees, ReaderCloses
  <2>n. \A d \in Callers : InCall(d) => CurrentCall(d) # None
    BY CurrentCallType
  <2>5. \A d \in Callers : CurrentCall(d)' = CurrentCall(d)
    BY <2>1 DEF CurrentCall
  <2>6. \A d \in Callers : InCall(d) /\ Resolvable(d)' => Resolvable(d)
    BY <2>1, <2>2, <2>3, <2>4, <2>5, <2>n DEF Resolvable
  <2>7. OneSender'
    <3>1. ASSUME NEW d \in Callers, InCall(d)', inHand'.caller = CurrentCall(d)', NEW j \in Id
          PROVE  waiting'[j] # CurrentCall(d)'
      <4>1. InCall(d) /\ i = id[d]
        BY <1>o, <2>1, <2>2, <2>5, <3>1 DEF InCall
      <4> QED
        BY <1>o, <2>3, <2>5, <2>n, <4>1
    <3> QED
      BY <2>1, <2>6, <3>1 DEF Shots, OneSender, InCall
  <2>8. SlotOwn' /\ OwnReply'
    BY <2>1, <2>5 DEF Shots, SlotOwn, OwnReply
  <2>9. NobodyStranded'
    <3>1. ASSUME NEW d \in Callers, Registered(d)', slot'[d] = None
          PROVE  waiting'[id[d]] = CurrentCall(d) \/ inHand'.caller = CurrentCall(d)
      <4>1. Registered(d) /\ slot[d] = None /\ id[d] \in Id
        BY <2>1, <3>1, CurrentCallType DEF Registered, InCall
      <4>2. waiting[id[d]] = CurrentCall(d)
        BY <2>4, <4>1 DEF Shots, NobodyStranded
      <4> QED
        BY <2>1, <2>3, <4>1, <4>2
    <3> QED
      BY <2>1, <2>5, <3>1 DEF NobodyStranded
  <2>10. ClosedFailsEveryCall'
    BY <2>1, <2>4 DEF ClosedFailsEveryCall
  <2>11. NoWaiterOutlivesItsCall'
    BY <2>1, <2>3, WaitersKept DEF Shots, InCall
  <2> QED
    BY <2>7, <2>8, <2>9, <2>10, <2>11 DEF Shots
<1>6. CASE Send
  <2> DEFINE c == inHand.caller[1]
             sent == [kind |-> inHand.kind, to |-> inHand.answers]
             hit  == Calling(inHand.caller) /\ pc[c] # "timeout"
  <2>1. /\ UNCHANGED <<pc, round, id, result, waiting, closed>> /\ reader = "sending"
        /\ inHand' = None /\ slot' = IF hit THEN [slot EXCEPT ![c] = sent] ELSE slot
    BY <1>6 DEF Send, pending
  <2>2. /\ inHand # None /\ ~closed /\ inHand.answers = inHand.caller
        /\ c \in Callers /\ inHand.caller = <<c, inHand.caller[2]>>
    BY <1>h, <2>1 DEF InHandAgrees, ReaderCloses
  <2>3. sent # None /\ sent.to = inHand.caller
    <3>1. sent \in Outcome
      BY <1>h, <2>2 DEF Routed, Outcome, Replies
    <3> QED
      BY <2>2, <3>1
  <2>4. hit => inHand.caller = CurrentCall(c) /\ InCall(c)
    BY <2>2 DEF Calling, CurrentCall
  <2>5. \A d \in Callers : inHand.caller = CurrentCall(d) => d = c /\ inHand.caller[2] = round[d]
    BY <2>2 DEF CurrentCall
  <2>6. \A d \in Callers : slot'[d] = IF hit /\ d = c THEN sent ELSE slot[d]
    BY <2>1, <2>2 DEF TypeOK
  <2>7. \A d \in Callers : CurrentCall(d)' = CurrentCall(d)
    BY <2>1 DEF CurrentCall
  <2>8. \A d \in Callers : Resolvable(d)' => \E i \in Id : waiting[i] = CurrentCall(d)
    BY <2>1, <2>7 DEF Resolvable
  <2>9. hit => pc[c] # "timeout" /\ pc[c] # "register"
    BY <2>2, <2>4 DEF Shots, OneSender, Resolvable
  <2> HIDE DEF hit, sent, c
  <2>10. OneSender'
    <3>1. ASSUME NEW d \in Callers, InCall(d), Resolvable(d)' PROVE slot'[d] = None
      <4>1. ~(hit /\ d = c)
        BY <2>2, <2>4, <2>8, <3>1 DEF Shots, OneSender
      <4> QED
        BY <2>6, <2>8, <3>1, <4>1 DEF Shots, OneSender, Resolvable
    <3>2. ASSUME NEW d \in Callers, pc[d] = "register" PROVE slot'[d] = None /\ ~Resolvable(d)'
      BY <2>6, <2>8, <2>9, <3>2 DEF Shots, OneSender, Resolvable
    <3>3. ASSUME NEW d \in Callers, pc[d] = "timeout" PROVE slot'[d] = None
      BY <2>6, <2>9, <3>3 DEF Shots, OneSender
    <3> QED
      BY <2>1, <3>1, <3>2, <3>3 DEF OneSender, InCall
  <2>11. SlotOwn' /\ OwnReply'
    BY <2>1, <2>3, <2>4, <2>6, <2>7 DEF Shots, SlotOwn, OwnReply
  <2>12. NobodyStranded'
    <3>1. ASSUME NEW d \in Callers, Registered(d), slot'[d] = None
          PROVE  waiting[id[d]] = CurrentCall(d)
      <4>1. slot[d] = None /\ ~(hit /\ d = c)
        BY <2>3, <2>6, <3>1
      <4>2. inHand.caller # CurrentCall(d)
        <5>1. ASSUME inHand.caller = CurrentCall(d) PROVE hit /\ d = c
          BY <2>5, <3>1, <5>1 DEF hit, c, Calling, Registered, InCall
        <5> QED
          BY <4>1, <5>1
      <4> QED
        BY <3>1, <4>1, <4>2 DEF Shots, NobodyStranded
    <3> QED
      BY <2>1, <2>7, <3>1 DEF NobodyStranded, Registered
  <2>13. ClosedFailsEveryCall'
    BY <2>1, <2>2 DEF ClosedFailsEveryCall
  <2>14. NoWaiterOutlivesItsCall'
    BY <2>1, WaitersKept DEF Shots, InCall
  <2> QED
    BY <2>10, <2>11, <2>12, <2>13, <2>14 DEF Shots
<1>7. ASSUME reader = "reading", Close, UNCHANGED <<pc, round, id, result, inHand>> PROVE Shots'
  <2>1. inHand = None /\ inHand' = None
    BY <1>7 DEF InHandAgrees
  <2>2. \A i \in Id : waiting'[i] = None
    BY <1>7 DEF Close
  <2> DEFINE fails == [kind |-> "closed", to |-> None]
             told(d) == \E i \in Id : waiting[i] # None /\ waiting[i] = CurrentCall(d)
                                     /\ Calling(waiting[i]) /\ pc[d] # "timeout"
  <2>3. \A d \in Callers : slot'[d] = IF told(d) THEN fails ELSE slot[d]
    BY <1>7 DEF Close
  <2>4. fails # None /\ fails.kind \notin Replies
    <3>1. fails \in Outcome
      BY DEF Outcome
    <3> QED
      BY <3>1 DEF Replies
  <2>5. \A d \in Callers : told(d) => InCall(d) /\ pc[d] # "timeout" /\ Resolvable(d)
    BY DEF Calling, Resolvable, CurrentCall
  <2>6. ASSUME NEW d \in Callers, Registered(d) PROVE slot'[d] # None
    <3>1. CASE slot[d] = None
      <4>1. InCall(d) /\ pc[d] # "timeout" /\ id[d] \in Id /\ CurrentCall(d) \in Call
        BY <2>6, CurrentCallType DEF Registered, InCall
      <4>2. waiting[id[d]] = CurrentCall(d)
        BY <2>1, <2>6, <3>1 DEF Shots, NobodyStranded
      <4>3. Calling(CurrentCall(d))
        BY <4>1 DEF Calling, CurrentCall
      <4>4. told(d)
        BY <4>1, <4>2, <4>3
      <4> QED
        BY <2>3, <2>4, <4>4
    <3>2. CASE slot[d] # None
      BY <2>3, <2>4, <3>2
    <3> QED
      BY <3>1, <3>2
  <2> HIDE DEF fails, told
  <2>7. \A d \in Callers : CurrentCall(d)' = CurrentCall(d)
    BY <1>7 DEF CurrentCall
  <2>8. \A d \in Callers : InCall(d) => ~Resolvable(d)'
    BY <2>1, <2>2, <2>7, CurrentCallType DEF Resolvable
  <2>9. OneSender'
    <3>1. ASSUME NEW d \in Callers, pc[d] = "register" PROVE slot'[d] = None
      BY <2>3, <2>5, <3>1 DEF Shots, OneSender
    <3>2. ASSUME NEW d \in Callers, pc[d] = "timeout" PROVE slot'[d] = None
      BY <2>3, <2>5, <3>2 DEF Shots, OneSender
    <3> QED
      BY <1>7, <2>1, <2>8, <3>1, <3>2 DEF OneSender, InCall
  <2>10. SlotOwn' /\ OwnReply'
    BY <1>7, <2>3, <2>4, <2>7 DEF Shots, SlotOwn, OwnReply
  <2>11. NobodyStranded' /\ ClosedFailsEveryCall' /\ NoWaiterOutlivesItsCall'
    BY <1>7, <2>2, <2>6 DEF NobodyStranded, ClosedFailsEveryCall, NoWaiterOutlivesItsCall, Registered
  <2> QED
    BY <2>9, <2>10, <2>11 DEF Shots
<1>8. CASE StreamEnds \/ ReadFails
  BY <1>7, <1>8 DEF StreamEnds, ReadFails
<1>9. CASE DropTransport
  <2>1. /\ UNCHANGED <<pc, round, id, slot, result, waiting, closed>>
        /\ \A c \in Callers : pc[c] = "idle"
    BY <1>9 DEF DropTransport, InCall, callers, pending
  <2>2. \A d \in Callers : CurrentCall(d)' = CurrentCall(d)
    BY <2>1 DEF CurrentCall
  <2>3. OneSender' /\ NobodyStranded'
    BY <2>1 DEF OneSender, NobodyStranded, InCall, Registered
  <2>4. SlotOwn' /\ OwnReply'
    BY <2>1, <2>2 DEF Shots, SlotOwn, OwnReply
  <2>5. ClosedFailsEveryCall'
    BY <2>1 DEF Shots, ClosedFailsEveryCall, Registered
  <2>6. NoWaiterOutlivesItsCall'
    BY <2>1, WaitersKept DEF Shots, InCall
  <2> QED
    BY <2>3, <2>4, <2>5, <2>6 DEF Shots
<1>10. ASSUME NEW c \in Callers,
              AcquireWriter(c) \/ WriteChunk(c) \/ WriteFails(c) \/ Expire(c)
       PROVE  Shots'
  <2>1. /\ UNCHANGED <<round, id, slot, result, waiting, closed, inHand>>
        /\ \A d \in Callers : d # c => pc'[d] = pc[d]
        /\ pc[c] \in {"lock", "head", "tail", "await"}
        /\ pc'[c] \in {"head", "tail", "await", "unsent", "timeout"}
        /\ pc'[c] = "timeout" => slot[c] = None
    BY <1>10 DEF AcquireWriter, WriteChunk, WriteFails, Expire, Go, TypeOK, pending
  <2>2. InCall(c) /\ InCall(c)' /\ Registered(c)
    BY <2>1 DEF InCall, Registered
  <2> QED
    BY <2>1, <2>2, ShotsFrame
<1>11. CASE Ignore \/ BrowserReads \/ BrowserExits \/ UNCHANGED vars
  BY <1>11, ShotsFrame DEF Ignore, BrowserReads, BrowserExits, vars, callers, pending
<1>12. ASSUME NEW m, BrowserSends(m) PROVE Shots'
  BY <1>12, ShotsFrame DEF BrowserSends, callers, pending
<1> QED
  BY <1>1, <1>2, <1>3, <1>4, <1>5, <1>6, <1>8, <1>9, <1>10, <1>11, <1>12
     DEF Next, CallerStep, ReaderStep, BrowserReplies, BrowserSpeaks, Terminated


-----------------------------------------------------------------------------
(* The initial state: nothing is carried anywhere and nobody is calling. *)
LEMMA InitInv ==
    ASSUME Init PROVE Inv
<1> USE BoundsAssumption, NoneAssumption
<1>1. TypeOK
  <2>1. toBrowser \in Seq(Chunk) /\ fromBrowser \in Seq(Message) /\ taken \in 0..Len(toBrowser)
    BY DEF Init
  <2>2. next_id \in 1..(MaxCalls + 1) /\ work \subseteq [id : Id, to : Call]
    BY DEF Init
  <2>3. /\ round \in [Callers -> 0..MaxCalls] /\ id \in [Callers -> 0..MaxCalls]
        /\ waiting \in [Id -> Call \cup {None}]
    BY DEF Init
  <2> QED
    BY <2>1, <2>2, <2>3 DEF Init, TypeOK
<1>2. \A i \in Id : \A x \in Call : ~Carries(i, x)
  BY DEF Init, Carries, Id
<1>3. IdsAgree /\ Issued
  BY <1>2 DEF IdsAgree, Issued
<1>4. Numbered /\ InHandAgrees /\ ReaderCloses /\ WriterHolds
  BY DEF Init, Numbered, InHandAgrees, ReaderCloses, WriterHolds, InCall
<1>5. OneSender /\ SlotOwn /\ OwnReply /\ NobodyStranded
  BY DEF Init, OneSender, SlotOwn, OwnReply, NobodyStranded, InCall, Registered
<1>6. ClosedFailsEveryCall /\ NoWaiterOutlivesItsCall
  BY DEF Init, ClosedFailsEveryCall, NoWaiterOutlivesItsCall
<1>7. OpenFrame /\ PipeGone /\ OnlyCancellationTears
  BY DEF Init, OpenFrame, PipeGone, OnlyCancellationTears
<1> QED
  BY <1>1, <1>3, <1>4, <1>5, <1>6, <1>7 DEF Inv

(* Every step, from the lemmas about the parts. *)
LEMMA InvStep ==
    ASSUME Inv, [Next]_vars PROVE Inv'
<1> USE DEF Inv
<1>1. TypeOK'
  BY TypeStep
<1>2. IdsAgree' /\ Issued'
  BY PairsStep
<1>3. Numbered' /\ InHandAgrees' /\ ReaderCloses' /\ WriterHolds'
  BY ControlStep
<1>4. PipeGone' /\ OpenFrame' /\ OnlyCancellationTears'
  BY PipeStep, FramesStep
<1>5. Shots'
  BY ShotsStep DEF Shots
<1> QED
  BY <1>1, <1>2, <1>3, <1>4, <1>5 DEF Shots

(* Inv is an invariant of the transport: the initial state satisfies it and
   every step of a caller, the reader task or the browser keeps it. *)
THEOREM Invariance == Spec => []Inv
<1>1. Init => Inv
  BY InitInv
<1>2. Inv /\ [Next]_vars => Inv'
  BY InvStep
<1> QED
  BY <1>1, <1>2, PTL DEF Spec

(* Every variable keeps its type: in particular ids stay positive and below
   the counter, which is never reset (next_id.fetch_add). *)
THEOREM TypeCorrect == Spec => []TypeOK
<1>1. Inv => TypeOK
  BY DEF Inv
<1> QED
  BY <1>1, Invariance, PTL

(* However many tasks share the pipe, and in whatever order and however late
   the browser answers, dispatch hands each call the reply to itself. *)
THEOREM RepliesAreOwn == Spec => []OwnReply
<1>1. Inv => OwnReply
  BY DEF Inv
<1> QED
  BY <1>1, Invariance, PTL

(* No interleaving of register, dispatch, close and the error paths loses the
   sending half of a registered call's oneshot; after close none is awaited. *)
THEOREM NoCallIsStranded == Spec => [](NobodyStranded /\ ClosedFailsEveryCall)
<1>1. Inv => NobodyStranded /\ ClosedFailsEveryCall
  BY DEF Inv
<1> QED
  BY <1>1, Invariance, PTL

(* The map of waiters does not grow with calls that returned: take_waiter on
   the two error paths, dispatch and close between them remove every one. *)
THEOREM WaitersAreReclaimed == Spec => []NoWaiterOutlivesItsCall
<1>1. Inv => NoWaiterOutlivesItsCall
  BY DEF Inv
<1> QED
  BY <1>1, Invariance, PTL

(* The writer lock keeps frames whole for every pipe capacity, except for a
   frame whose own call was dropped while writing it. *)
THEOREM FramesAreWhole == Spec => []OnlyCancellationTears
<1>1. Inv => OnlyCancellationTears
  BY DEF Inv
<1> QED
  BY <1>1, Invariance, PTL


-----------------------------------------------------------------------------
(* A caller that leaves its call with outcome o, and nothing else the callers
   can see, ends it in the abstract specification. *)
LEMMA EndsCall ==
    ASSUME TypeOK, NEW c \in Callers, NEW o, InCall(c), Go(c, "idle"),
           result' = [result EXCEPT ![c] = o], UNCHANGED <<round, slot, closed>>
    PROVE  Calls!End(c, o)
<1>1. [d \in Callers |-> InCall(d)]' = [[d \in Callers |-> InCall(d)] EXCEPT ![c] = FALSE]
  BY DEF Go, InCall, TypeOK
<1> QED
  BY <1>1 DEF Calls!End

(* A step that changes nothing the callers can see is a stutter. *)
LEMMA Hidden ==
    ASSUME UNCHANGED <<round, slot, result, closed>>,
           \A c \in Callers : InCall(c)' <=> InCall(c)
    PROVE  UNCHANGED Calls!vars
<1>1. [d \in Callers |-> InCall(d)]' = [d \in Callers |-> InCall(d)]
  BY DEF InCall
<1> QED
  BY <1>1 DEF Calls!vars

(* Every step of the transport is a step of the abstract calls or a stutter. *)
LEMMA StepRefines ==
    ASSUME Inv, [Next]_vars
    PROVE  [Calls!Next]_(Calls!vars)
<1> USE BoundsAssumption, NoneAssumption
<1>t. TypeOK /\ Numbered
  BY DEF Inv
<1>1. ASSUME NEW c \in Callers, Begin(c) PROVE Calls!Next
  <2>1. [d \in Callers |-> InCall(d)]' = [[d \in Callers |-> InCall(d)] EXCEPT ![c] = TRUE]
    BY <1>1, <1>t DEF Begin, Go, InCall, TypeOK
  <2>2. Calls!Begin(c)
    BY <1>1, <2>1 DEF Calls!Begin, Begin, InCall, pending
  <2> QED
    BY <2>2 DEF Calls!Next
<1>2. ASSUME NEW c \in Callers, Register(c) PROVE [Calls!Next]_(Calls!vars)
  <2>1. CASE closed
    <3>1. /\ Go(c, "idle") /\ InCall(c) /\ UNCHANGED <<round, slot, closed>>
          /\ result' = [result EXCEPT ![c] = [kind |-> "refused", to |-> None]]
      BY <1>2, <2>1 DEF Register, Return, InCall
    <3>2. Calls!Refuse(c)
      BY <1>t, <2>1, <3>1, EndsCall DEF Calls!Refuse
    <3> QED
      BY <3>2 DEF Calls!Next
  <2>2. CASE ~closed
    <3>1. UNCHANGED <<round, slot, result, closed>> /\ pc[c] = "register" /\ pc'[c] = "lock"
          /\ \A d \in Callers : d # c => pc'[d] = pc[d]
      BY <1>2, <1>t, <2>2 DEF Register, Go, TypeOK
    <3> QED
      BY <3>1, Hidden DEF InCall
  <2> QED
    BY <2>1, <2>2
<1>3. ASSUME NEW c \in Callers, AcquireWriter(c) \/ WriteChunk(c) \/ WriteFails(c) \/ Expire(c)
      PROVE  UNCHANGED Calls!vars
  <2>1. /\ UNCHANGED <<round, slot, result, closed>>
        /\ pc[c] # "idle" /\ pc'[c] # "idle" /\ \A d \in Callers : d # c => pc'[d] = pc[d]
    BY <1>3, <1>t DEF AcquireWriter, WriteChunk, WriteFails, Expire, Go, TypeOK, pending
  <2> QED
    BY <2>1, Hidden DEF InCall
<1>4. ASSUME NEW c \in Callers, Receive(c) PROVE Calls!Next
  <2>1. /\ Go(c, "idle") /\ InCall(c) /\ UNCHANGED <<round, slot, closed>> /\ slot[c] # None
        /\ result' = [result EXCEPT ![c] = [kind |-> slot[c].kind, to |-> slot[c].to]]
    BY <1>4 DEF Receive, Return, InCall, pending
  <2>2. slot[c] = [kind |-> slot[c].kind, to |-> slot[c].to]
    BY <1>t, <2>1 DEF TypeOK, Outcome
  <2>3. Calls!ReturnAnswer(c)
    BY <1>t, <2>1, <2>2, EndsCall DEF Calls!ReturnAnswer
  <2> QED
    BY <2>3 DEF Calls!Next
<1>5. ASSUME NEW c \in Callers, GiveUp(c) PROVE Calls!Next
  <2>1. /\ Go(c, "idle") /\ InCall(c) /\ UNCHANGED <<round, slot, closed>>
        /\ pc[c] \in {"unsent", "timeout"}
        /\ result' = [result EXCEPT ![c] = [kind |-> pc[c], to |-> None]]
    BY <1>5 DEF GiveUp, Return, InCall
  <2>2. Calls!End(c, [kind |-> pc[c], to |-> None])
    BY <1>t, <2>1, EndsCall
  <2>3. pc[c] = "timeout" => slot[c] = None
    BY DEF Inv, OneSender
  <2>4. CASE pc[c] = "timeout"
    <3>1. Calls!TimeOut(c)
      BY <2>2, <2>3, <2>4 DEF Calls!TimeOut
    <3> QED
      BY <3>1 DEF Calls!Next
  <2>5. CASE pc[c] = "unsent"
    <3>1. Calls!FailToSend(c)
      BY <2>2, <2>5 DEF Calls!FailToSend
    <3> QED
      BY <3>1 DEF Calls!Next
  <2> QED
    BY <2>1, <2>4, <2>5
<1>6. ASSUME NEW c \in Callers, Cancel(c) PROVE Calls!Next
  <2>1. Go(c, "idle") /\ InCall(c) /\ UNCHANGED <<round, slot, closed, result>>
    BY <1>6 DEF Cancel, InCall, pending
  <2>2. result[c] = None
    BY <1>t, <2>1 DEF Numbered
  <2>3. result' = [result EXCEPT ![c] = None]
    BY <1>t, <2>1, <2>2 DEF TypeOK
  <2>4. Calls!Abandon(c)
    BY <1>t, <2>1, <2>3, EndsCall DEF Calls!Abandon
  <2> QED
    BY <2>4 DEF Calls!Next
<1>7. CASE Send
  <2> DEFINE c == inHand.caller[1]
             hit == Calling(inHand.caller) /\ pc[c] # "timeout"
  <2>1. /\ UNCHANGED <<pc, round, result, closed>> /\ reader = "sending"
        /\ slot' = IF hit THEN [slot EXCEPT ![c] = [kind |-> inHand.kind, to |-> inHand.answers]]
                          ELSE slot
    BY <1>7 DEF Send, pending
  <2>2. [d \in Callers |-> InCall(d)]' = [d \in Callers |-> InCall(d)]
    BY <2>1 DEF InCall
  <2>3. CASE hit
    <3>1. inHand # None /\ ~closed /\ inHand.answers = inHand.caller
      BY <2>1 DEF Inv, InHandAgrees, ReaderCloses
    <3>2. inHand \in Routed
      BY <1>t, <3>1 DEF TypeOK
    <3>3. c \in Callers /\ inHand.caller = <<c, round[c]>> /\ InCall(c)
      BY <2>3, <3>2 DEF Routed, Call, Calling
    <3>4. slot[c] = None
      BY <3>1, <3>3 DEF Inv, OneSender, Resolvable, CurrentCall
    <3>5. inHand.kind \in {"result", "cdp_error"}
      BY <3>2 DEF Routed, Replies
    <3>6. slot' = [slot EXCEPT ![c] = [kind |-> inHand.kind, to |-> <<c, round[c]>>]]
      BY <2>1, <2>3, <3>1, <3>3
    <3>7. Calls!Answer(c, inHand.kind)
      BY <2>1, <2>2, <3>1, <3>3, <3>4, <3>6 DEF Calls!Answer
    <3> QED
      BY <3>3, <3>5, <3>7 DEF Calls!Next
  <2>4. CASE ~hit
    BY <2>1, <2>4, Hidden DEF InCall
  <2> QED
    BY <2>3, <2>4
<1>8. ASSUME reader = "reading", Close, UNCHANGED <<pc, round, id, result, inHand>>
      PROVE  Calls!Next
  <2> DEFINE S == {d \in Callers :
                     \E i \in Id : waiting[i] # None /\ waiting[i] = CurrentCall(d)
                                   /\ Calling(waiting[i]) /\ pc[d] # "timeout"}
  <2>1. ~closed /\ closed'
    BY <1>8 DEF Inv, ReaderCloses, Close
  <2>2. \A d \in S : InCall(d) /\ slot[d] = None
    <3>1. \A d \in S : InCall(d) /\ Resolvable(d)
      BY DEF Calling, CurrentCall, Resolvable
    <3> QED
      BY <3>1 DEF Inv, OneSender
  <2>3. slot' = [d \in Callers |-> IF d \in S THEN [kind |-> "closed", to |-> None] ELSE slot[d]]
    BY <1>8 DEF Close
  <2>4. [d \in Callers |-> InCall(d)]' = [d \in Callers |-> InCall(d)]
    BY <1>8 DEF InCall
  <2>5. S \in SUBSET Callers
    OBVIOUS
  <2> HIDE DEF S
  <2>6. Calls!Close(S)
    BY <1>8, <2>1, <2>2, <2>3, <2>4, <2>5 DEF Calls!Close
  <2> QED
    BY <2>5, <2>6 DEF Calls!Next
<1>9. CASE StreamEnds \/ ReadFails
  BY <1>8, <1>9 DEF StreamEnds, ReadFails
<1>10. CASE Dispatch \/ Ignore \/ DropTransport \/ BrowserReads \/ BrowserExits \/ UNCHANGED vars
  BY <1>10, Hidden DEF Dispatch, Ignore, DropTransport, BrowserReads, BrowserExits, vars,
                       callers, pending, InCall
<1>11. ASSUME NEW m, BrowserSends(m) PROVE UNCHANGED Calls!vars
  BY <1>11, Hidden DEF BrowserSends, callers, pending, InCall
<1> QED
  BY <1>1, <1>2, <1>3, <1>4, <1>5, <1>6, <1>7, <1>9, <1>10, <1>11
     DEF Next, CallerStep, ReaderStep, BrowserReplies, BrowserSpeaks, Terminated

(* For every number of callers, calls and pipe slots the transport implements
   CdpCalls: a caller sees a reply to its own call at most once, never after
   the connection closed, or an error it is entitled to. *)
THEOREM TransportImplementsCalls == Spec => ImplementsCalls
<1>1. Init => Calls!Init
  <2>1. ASSUME Init
        PROVE  [d \in Callers |-> InCall(d)] = [d \in Callers |-> FALSE]
    BY <2>1 DEF Init, InCall
  <2> QED
    BY <2>1 DEF Init, Calls!Init
<1>2. Inv /\ [Next]_vars => [Calls!Next]_(Calls!vars)
  BY StepRefines
<1> QED
  BY <1>1, <1>2, Invariance, PTL DEF Spec, ImplementsCalls, Calls!Spec

-----------------------------------------------------------------------------
(* Every call ends with its own reply or an error and leaves nothing behind:
   call_in_session, dispatch and close, for any callers and calls. *)
THEOREM RepliesArrive == Spec => []RepliesReachTheirCalls
<1>1. Inv => RepliesReachTheirCalls
  BY DEF Inv, RepliesReachTheirCalls
<1> QED
  BY <1>1, Invariance, PTL
=============================================================================
