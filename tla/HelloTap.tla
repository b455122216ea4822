------------------------------ MODULE HelloTap ------------------------------
(***************************************************************************)
(* The fingerprint observatory: the hello a browser sends, as the tunnel's *)
(* CapturingStream cut it out of the stream, as ClientHello::parse reads   *)
(* it, and as JA4 sums it up (RecordingObserver, LogJa4Observer).          *)
(***************************************************************************)
EXTENDS TlsCapture, HelloEncoding

CONSTANT Sent   \* of each wire: its bytes, who sent it, the hello and what it is sent
                \* with, and how it reads

(* Who sends what: a whole hello in one record, whatever is behind it; one with
   half a cipher suite; the first of the records a hello was cut into; a record
   that is not there to its end; and what is no hello. *)
SendsHello(s, hello) == WellFormed(s.hello, s.aside) /\ IsPrefix(Record(hello), s.bytes)
SendsWhole(s) ==
    s.reads = NoError /\ s.aside.stray = <<>> /\ SendsHello(s, Encode(s.hello, s.aside))
SendsStray(s) ==
    s.reads = "Malformed" /\ Len(s.aside.stray) = 1 /\ SendsHello(s, Encode(s.hello, s.aside))
SendsInPieces(s) ==
    /\ s.reads = "Truncated"
    /\ \E n \in 0..(Len(Encode(s.hello, s.aside)) - 1) :
          SendsHello(s, SubSeq(Encode(s.hello, s.aside), 1, n))
HangsUp(s) ==
    /\ s.reads = "Truncated" /\ s.bytes # <<>> /\ s.bytes[1] = ContentTypeHandshake
    /\ Len(s.bytes) >= RecordHeaderLen => Len(s.bytes) < Total(s.bytes)
SendsOther(s) ==
    /\ s.reads = "NotClientHello" /\ s.bytes # <<>>
    /\ \/ s.bytes[1] \notin {ContentTypeHandshake, HandshakeTypeClientHello}
       \/ /\ s.bytes[1] = ContentTypeHandshake
          /\ Len(s.bytes) > RecordHeaderLen /\ s.bytes[6] # HandshakeTypeClientHello
          /\ RecordHeaderLen < Total(s.bytes) /\ Total(s.bytes) <= Len(s.bytes)

ASSUME SentAssumption ==
    /\ Wires = {s.bytes : s \in Sent}
    /\ \A s \in Sent : SendsWhole(s) \/ SendsStray(s) \/ HangsUp(s) \/ SendsInPieces(s) \/ SendsOther(s)

(* What tells a browser: the highest version it speaks, the protocol it prefers,
   whether it names the host, how many extensions it sends, and, GREASE aside,
   which cipher suites and which extensions, in whatever order, and which
   signature algorithms in which. *)
Times(list, v) == Cardinality({i \in DOMAIN list : list[i] = v})
SameOffer(g, h) ==
    /\ HighestVersion(g) = HighestVersion(h) /\ AlpnCode(g) = AlpnCode(h)
    /\ ServerName \in Range(g.extensions) <=> ServerName \in Range(h.extensions)
    /\ Count(Greaseless(g.extensions)) = Count(Greaseless(h.extensions))
    /\ \A v \in Range(g.cipher_suites) \cup Range(h.cipher_suites) :
          IsGrease(v) \/ Times(g.cipher_suites, v) = Times(h.cipher_suites, v)
    /\ \A v \in Range(g.extensions) \cup Range(h.extensions) :
          IsGrease(v) \/ v \in {ServerName, Alpn} \/ Times(g.extensions, v) = Times(h.extensions, v)
    /\ Greaseless(g.signature_algorithms) = Greaseless(h.signature_algorithms)

ASSUME BrowserAssumption ==
    \A r, s \in {s \in Sent : s.reads = NoError} :
        /\ HighestVersion(r.hello) \in {2, 768, 769, 770, 771, 772}
        /\ r.browser = s.browser <=> SameOffer(r.hello, s.hello)

(* RecordingObserver::latest_ja4 and LogJa4Observer::observe. *)
Ja4Of(bytes) ==
    LET p == Parse(bytes) IN
    IF p.err # NoError THEN NoHello ELSE FromClientHello(p.hello, "t")

LatestJa4 == IF captured = <<>> THEN NoHello ELSE Ja4Of(Last(captured).hello)

Sender(i) == CHOOSE s \in Sent : s.bytes = wire[captured[i].host]

(* How what was captured must read: as what was sent, unless the cap cut a
   record short. *)
Reads(i) ==
    LET bytes == wire[captured[i].host] IN
    IF bytes[1] = ContentTypeHandshake /\ Len(captured[i].hello) < Total(bytes) THEN "Truncated"
    ELSE Sender(i).reads

(* What was captured reads as what the browser put into its hello, with or
   without the record around it, and a hello that is cut short, by a record
   boundary or by the cap, is refused as truncated rather than half read. *)
ParsedIsSent ==
    \A i \in 1..Len(captured) :
        LET bytes == captured[i].hello
            read  == Parse(bytes)
        IN /\ read.err = Reads(i)
           /\ read.err = NoError =>
                 /\ read.hello = Sender(i).hello
                 /\ Parse(SubSeq(bytes, RecordHeaderLen + 1, Len(bytes))) = read

(* Two captured hellos have the same JA4 exactly when the same browser sent
   them: not its random GREASE, nor the order it shuffles its extensions into,
   nor the host it asks for shows, and no two browsers are taken for one. *)
Ja4NamesTheBrowser ==
    LET whole == {k \in 1..Len(captured) : Reads(k) = NoError}
        named == {<<Ja4Of(captured[k].hello), Sender(k).browser>> : k \in whole}
    IN \A x, y \in named : x[1] = y[1] <=> x[2] = y[2]
=============================================================================
