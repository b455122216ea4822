-------------------------------- MODULE Ja4 --------------------------------
(***************************************************************************)
(* Ja4::from_client_hello (ja4/fingerprint.rs).  Text is a sequence of     *)
(* ASCII codes where the code looks into it, and the value it renders      *)
(* everywhere else; a truncated SHA-256 is its input (no two lists are     *)
(* taken to collide), and EmptyHash for an empty one.                      *)
(***************************************************************************)
EXTENDS ClientHello, Vectors, FiniteSetsExt, SequencesExt

CONSTANTS MaxTwoDigitCount,   \* MAX_TWO_DIGIT_COUNT
          EmptyHash           \* EMPTY_HASH

Word == {v \in Nat : v < 65536}   \* u16

ASSUME Ja4Assumption ==
    /\ MaxTwoDigitCount \in Nat
    /\ EmptyHash \notin Seq(Seq(Word))

(* Both bytes equal and ending in 0xa (RFC 8701). *)
IsGrease(v) == v \div 256 = v % 256 /\ v % 16 = 10

Greaseless(list) == Keeping(list, {i \in DOMAIN list : ~IsGrease(list[i])})

(* What supported_versions advertises highest; the legacy version without it. *)
HighestVersion(h) ==
    LET versions == Range(Greaseless(h.supported_versions)) IN
    IF versions = {} THEN h.legacy_version ELSE Max(versions)

VersionCode(h) ==
    LET v == HighestVersion(h) IN
    CASE v = 772 -> "13" [] v = 771 -> "12" [] v = 770 -> "11" [] v = 769 -> "10"
      [] v = 768 -> "s3" [] v = 2 -> "s2" [] OTHER -> "00"

IsAsciiAlphanumeric(c) == c \in (48..57) \cup (65..90) \cup (97..122)

HexDigit(d) == IF d < 10 THEN 48 + d ELSE 87 + d

(* First and last character of the first protocol offered that has any, or
   the outer hex digits of the two when either is not alphanumeric. *)
AlpnCode(h) ==
    LET offered == {i \in DOMAIN h.alpn : h.alpn[i] # <<>>}
        head == Head(h.alpn[Min(offered)])
        tail == Last(h.alpn[Min(offered)])
    IN IF offered = {} THEN <<48, 48>>
       ELSE IF IsAsciiAlphanumeric(head) /\ IsAsciiAlphanumeric(tail) THEN <<head, tail>>
       ELSE <<HexDigit(head \div 16), HexDigit(tail % 16)>>

Count(list) == IF Len(list) < MaxTwoDigitCount THEN Len(list) ELSE MaxTwoDigitCount

Ascending(list) == SortedBy(list, list)

TruncatedHash(parts) == IF \A i \in DOMAIN parts : parts[i] = <<>> THEN EmptyHash ELSE parts

(* Counted in a, these two are left out of c: they vary with the request. *)
Unrequested(extensions) ==
    Keeping(extensions, {i \in DOMAIN extensions : extensions[i] \notin {ServerName, Alpn}})

(* Mutant: the extensions are hashed in wire order. *)
Hashed_AsSent(extensions) == Unrequested(extensions)

Hashed(extensions) == Ascending(Unrequested(extensions))

FromClientHello(h, transport) ==
    LET ciphers    == Greaseless(h.cipher_suites)
        extensions == Greaseless(h.extensions)
    IN [a |-> [transport |-> transport, version |-> VersionCode(h),
               sni |-> ServerName \in Range(h.extensions),
               ciphers |-> Count(ciphers), extensions |-> Count(extensions),
               alpn |-> AlpnCode(h)],
        b |-> TruncatedHash(<<Ascending(ciphers)>>),
        c |-> TruncatedHash(<<Hashed(extensions), Greaseless(h.signature_algorithms)>>)]
=============================================================================
