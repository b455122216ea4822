--------------------------- MODULE HelloEncoding ---------------------------
(***************************************************************************)
(* What a browser puts on the wire: the encoding of a client hello, by     *)
(* RFC 8446, 4.1.2 and 4.2, RFC 6066, 3 and RFC 7301, 3.1, and not by the  *)
(* parser.  A vector is its bytes behind their number, in w bytes.         *)
(*                                                                         *)
(* `aside' is what is sent and not kept: the random, the session, the      *)
(* compression methods, server names that are no host names, the bodies of *)
(* extensions nobody looks into; and a stray byte, with which half a       *)
(* cipher suite is sent.                                                   *)
(***************************************************************************)
EXTENDS Ja4

U16(v) == <<v \div 256, v % 256>>

U16s(list) == [i \in 1..(2 * Len(list)) |-> IF i % 2 = 1 THEN list[(i + 1) \div 2] \div 256
                                            ELSE list[i \div 2] % 256]

Length(n, w) == IF w = 1 THEN <<n>> ELSE IF w = 2 THEN U16(n)
                ELSE <<n \div 65536, (n \div 256) % 256, n % 256>>

Limit(w) == IF w = 1 THEN 256 ELSE IF w = 2 THEN 65536 ELSE 16777216
Fits(s, w) == Len(s) < Limit(w)

Vec(s, w) == Length(Len(s), w) \o s

(* Vectors one behind the other, each with its type ahead: the last n of them,
   from the back. *)
EntryBytes(item, w) == item.type \o Vec(item.data, w)
EncodeEntries(items, w) ==
    LET left[n \in 0..Len(items)] ==
            IF n = 0 THEN <<>> ELSE EntryBytes(items[(Len(items) - n) + 1], w) \o left[n - 1]
    IN left[Len(items)]

NameItems(h, aside) ==
    aside.names \o (IF h.server_name = NoHost THEN <<>>
                    ELSE <<[type |-> <<0>>, data |-> h.server_name]>>)

ProtocolItems(h) == [i \in DOMAIN h.alpn |-> [type |-> <<>>, data |-> h.alpn[i]]]

(* The server name is asked for with an empty extension too. *)
ExtensionData(h, aside, e) ==
    CASE e = ServerName -> IF NameItems(h, aside) = <<>> THEN <<>>
                           ELSE Vec(EncodeEntries(NameItems(h, aside), 2), 2)
      [] e = Alpn -> Vec(EncodeEntries(ProtocolItems(h), 1), 2)
      [] e = SignatureAlgorithms -> Vec(U16s(h.signature_algorithms), 2)
      [] e = SupportedGroups -> Vec(U16s(h.supported_groups), 2)
      [] e = SupportedVersions -> Vec(U16s(h.supported_versions), 1)
      [] OTHER -> aside.bodies[e]

ExtensionItems(h, aside) ==
    [i \in DOMAIN h.extensions |->
        [type |-> U16(h.extensions[i]), data |-> ExtensionData(h, aside, h.extensions[i])]]

CipherBytes(h, aside) == U16s(h.cipher_suites) \o aside.stray

(* The fields of the body, each ahead of those behind it. *)
Body(h, aside) ==
    LET extensions == IF h.extensions = <<>> THEN <<>>
                      ELSE Vec(EncodeEntries(ExtensionItems(h, aside), 2), 2)
        methods    == Vec(aside.methods, 1) \o extensions
        ciphers    == Vec(CipherBytes(h, aside), 2) \o methods
        session    == Vec(aside.session, 1) \o ciphers
        random     == aside.random \o session
    IN U16(h.legacy_version) \o random

Encode(h, aside) == <<HandshakeTypeClientHello>> \o Vec(Body(h, aside), 3)

Record(payload) == <<ContentTypeHandshake, 3, 1>> \o Vec(payload, 2)

----------------------------------------------------------------------------
(* The hellos that can be sent. *)

Hellos == [legacy_version : Word, cipher_suites : Seq(Word), extensions : Seq(Word),
           supported_versions : Seq(Word), signature_algorithms : Seq(Word),
           supported_groups : Seq(Word), alpn : Seq(Seq(0..127)),
           server_name : Seq(0..127) \cup {NoHost}]

Asides(h) == [random : Seq(0..255), session : Seq(0..255), methods : Seq(0..255),
              names : Seq([type : Seq(0..255), data : Seq(0..255)]),
              bodies : [Range(h.extensions) -> Seq(0..255)], stray : Seq(0..255)]

(* What an extension says is said only with the extension. *)
SaysWhatItLists(h) ==
    /\ ServerName \notin Range(h.extensions) => h.server_name = NoHost
    /\ Alpn \notin Range(h.extensions) => h.alpn = <<>>
    /\ SignatureAlgorithms \notin Range(h.extensions) => h.signature_algorithms = <<>>
    /\ SupportedGroups \notin Range(h.extensions) => h.supported_groups = <<>>
    /\ SupportedVersions \notin Range(h.extensions) => h.supported_versions = <<>>

(* Every vector is short enough for the length ahead of it. *)
AllFits(h, aside) ==
    /\ Fits(aside.session, 1) /\ Fits(aside.methods, 1)
    /\ Fits(CipherBytes(h, aside), 2)
    /\ \A i \in DOMAIN NameItems(h, aside) : Fits(NameItems(h, aside)[i].data, 2)
    /\ Fits(EncodeEntries(NameItems(h, aside), 2), 2)
    /\ \A i \in DOMAIN h.alpn : Fits(h.alpn[i], 1)
    /\ Fits(EncodeEntries(ProtocolItems(h), 1), 2)
    /\ Fits(U16s(h.signature_algorithms), 2) /\ Fits(U16s(h.supported_groups), 2)
    /\ Fits(U16s(h.supported_versions), 1)
    /\ \A i \in DOMAIN h.extensions : Fits(ExtensionItems(h, aside)[i].data, 2)
    /\ Fits(EncodeEntries(ExtensionItems(h, aside), 2), 2)

(* An extension is sent once (RFC 8446, 4.2). *)
WellFormed(h, aside) ==
    /\ h \in Hellos /\ aside \in Asides(h)
    /\ IsInjective(h.extensions) /\ SaysWhatItLists(h)
    /\ Len(aside.random) = RandomLen
    /\ \A i \in DOMAIN aside.names : Len(aside.names[i].type) = 1 /\ aside.names[i].type # <<0>>
    /\ AllFits(h, aside) /\ Fits(Encode(h, aside), 2)
=============================================================================
