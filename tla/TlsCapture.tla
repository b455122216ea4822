----------------------------- MODULE TlsCapture -----------------------------
(***************************************************************************)
(* CapturingStream (tls_capture.rs): the stream under the TLS acceptor of  *)
(* each MITM tunnel, which copies the first record out of the bytes as     *)
(* they are read and hands it to the observer, once.  Bytes are what the   *)
(* peer sent; how many a read returns is the socket's choice.              *)
(***************************************************************************)
EXTENDS Naturals, Sequences

CONSTANTS
    Tunnels,
    Wires,        \* the byte streams a peer may send
    ReadSizes,    \* bound: how many bytes one read may return
    MaxCapture,   \* MAX_CAPTURE_BYTES
    NoHello

RecordHeaderLen == 5

ASSUME CaptureAssumption ==
    /\ MaxCapture \in Nat /\ MaxCapture >= RecordHeaderLen
    /\ ReadSizes \subseteq Nat \ {0}
    /\ Wires \subseteq Seq(0..255)
    /\ NoHello \notin Seq(0..255)

VARIABLES
    wire,       \* tunnel -> all the bytes its peer sends
    pos,        \* tunnel -> how many of them the acceptor has read
    observer,   \* whether the proxy was started with an observer
    buf, done,  \* tunnel -> Capture
    captured    \* RecordingObserver: the (tunnel, hello) pairs, oldest first

captureVars == <<wire, pos, observer, buf, done, captured>>

CaptureTypeOK ==
    /\ wire \in [Tunnels -> Wires]
    /\ pos \in [Tunnels -> Nat]
    /\ observer \in BOOLEAN
    /\ buf \in [Tunnels -> Seq(0..255)]
    /\ done \in [Tunnels -> BOOLEAN]
    /\ captured \in Seq([host : Tunnels, hello : Seq(0..255)])

(* The whole first record, header included, as its header declares it. *)
Total(b) == 256 * b[4] + b[5] + RecordHeaderLen

Smaller(a, b) == IF a < b THEN a ELSE b

CaptureInit == /\ wire \in [Tunnels -> Wires] /\ observer \in BOOLEAN
        /\ pos = [t \in Tunnels |-> 0]
        /\ buf = [t \in Tunnels |-> <<>>] /\ done = [t \in Tunnels |-> FALSE]
        /\ captured = <<>>

(* Mutant: a record is waited for however long it says it is. *)
Hello_Uncapped(b) ==
    IF Len(b) >= RecordHeaderLen /\ Len(b) >= Total(b)
    THEN SubSeq(b, 1, Total(b)) ELSE NoHello

(* Mutant: what is handed over is all that was read, not one record. *)
Hello_Whole(b) ==
    IF Len(b) >= RecordHeaderLen /\ (Len(b) >= Total(b) \/ Len(b) >= MaxCapture)
    THEN b ELSE NoHello

(* Capture::push, once the fresh bytes are in the buffer: the record when it
   is complete, or what there is of it when the cap is reached. *)
Hello(b) ==
    IF Len(b) >= RecordHeaderLen /\ (Len(b) >= Total(b) \/ Len(b) >= MaxCapture)
    THEN SubSeq(b, 1, Smaller(Total(b), Len(b))) ELSE NoHello

Buffered(t, fresh) == buf[t] \o fresh

Push(t, fresh) ==
    LET b == Buffered(t, fresh) IN
    /\ buf' = [buf EXCEPT ![t] = b]
    /\ done' = [done EXCEPT ![t] = Hello(b) # NoHello]
    /\ captured' = IF Hello(b) = NoHello THEN captured
                   ELSE Append(captured, [host |-> t, hello |-> Hello(b)])

Teed(t) == observer /\ ~done[t]

(* poll_read returns bytes, n of them or all that are left: they go to the
   acceptor as they are, and to the capture when there is an observer that has
   not been called yet. *)
PollRead(t) ==
    \E n \in ReadSizes :
        LET end == Smaller(pos[t] + n, Len(wire[t])) IN
        /\ pos[t] < Len(wire[t])
        /\ pos' = [pos EXCEPT ![t] = end]
        /\ IF Teed(t) THEN Push(t, SubSeq(wire[t], pos[t] + 1, end))
                      ELSE UNCHANGED <<buf, done, captured>>
        /\ UNCHANGED <<wire, observer>>

CaptureNext == \E t \in Tunnels : PollRead(t)

CaptureSpec == CaptureInit /\ [][CaptureNext]_captureVars

----------------------------------------------------------------------------
First(t, n) == SubSeq(wire[t], 1, n)

(* However the peer's bytes were cut into reads, what the observer was given
   is the tunnel's first record and nothing behind it; a record longer than
   the cap is given as far as it had been read, and never less than the cap. *)
CapturedIsFirstRecord ==
    \A i \in 1..Len(captured) :
        LET t == captured[i].host
            n == Len(captured[i].hello)
        IN /\ observer
           /\ n <= pos[t]
           /\ captured[i].hello = First(t, n)
           /\ n <= Total(wire[t])
           /\ n < Total(wire[t]) => n >= MaxCapture

(* The observer is called at most once per tunnel, and has been as soon as the
   acceptor has read the whole first record. *)
ObservedOnce ==
    /\ \A i, j \in 1..Len(captured) : captured[i].host = captured[j].host => i = j
    /\ \A t \in Tunnels :
          (observer /\ pos[t] >= RecordHeaderLen /\ pos[t] >= Total(wire[t]))
              => \E i \in 1..Len(captured) : captured[i].host = t

(* What the observer is given, and when. *)
ObservedIsFirstRecord == CapturedIsFirstRecord /\ ObservedOnce

(* The capture never holds more than the cap and the read that reached it,
   whatever length the peer declares and then keeps sending. *)
BufferIsBounded ==
    \A t \in Tunnels : \/ Len(buf[t]) < MaxCapture
                       \/ \E n \in ReadSizes : Len(buf[t]) < MaxCapture + n
=============================================================================
