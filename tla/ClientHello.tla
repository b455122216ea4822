---------------------------- MODULE ClientHello ----------------------------
(***************************************************************************)
(* ClientHello::parse (ja4/parse.rs).  A reader is what is left of the     *)
(* buffer; every access answers with an error, the bytes taken, and the    *)
(* rest, which is empty after an error.  Names and protocols are ASCII,    *)
(* which from_utf8_lossy leaves as it is.                                  *)
(***************************************************************************)
EXTENDS Integers, Sequences

CONSTANTS RandomLen,    \* CLIENT_HELLO_RANDOM_LEN
          NoError, NoHost

ASSUME ParserAssumption ==
    /\ RandomLen \in Nat
    /\ NoError \notin {"Truncated", "Malformed", "NotClientHello"}
    /\ NoHost \notin Seq(0..255)

ContentTypeHandshake == 22
HandshakeTypeClientHello == 1
ServerName == 0
SupportedGroups == 10
SignatureAlgorithms == 13
Alpn == 16
SupportedVersions == 43

Ends(err) == [err |-> err, data |-> <<>>, rest |-> <<>>]

Take(r, n) ==
    IF n > Len(r) THEN Ends("Truncated")
    ELSE [err |-> NoError, data |-> SubSeq(r, 1, n), rest |-> SubSeq(r, n + 1, Len(r))]

(* u8, u16, u24 *)
BigEndian(s) == IF Len(s) = 1 THEN s[1]
                ELSE IF Len(s) = 2 THEN 256 * s[1] + s[2]
                ELSE 65536 * s[1] + 256 * s[2] + s[3]

(* A block behind a big-endian length of w bytes. *)
Behind(len) == IF len.err # NoError THEN len ELSE Take(len.rest, BigEndian(len.data))
Block(r, w) == Behind(Take(r, w))

(* A list of u16, whose block must not end in half of one. *)
U16List(b) ==
    IF b.err # NoError THEN b
    ELSE IF Len(b.data) % 2 = 1 THEN Ends("Malformed")
    ELSE [b EXCEPT !.data = [i \in 1..(Len(b.data) \div 2) |->
                                256 * b.data[2 * i - 1] + b.data[2 * i]]]

(* A list of blocks behind lengths of w bytes, each with t bytes ahead that say
   what it is: the entries up to the end, or to the first that cannot be read. *)
NextEntry(s, t, w) ==
    LET type  == Take(s.rest, t)
        block == Block(type.rest, w)
    IN IF s.err # NoError \/ s.rest = <<>> THEN s
       ELSE IF type.err # NoError THEN [s EXCEPT !.err = type.err]
       ELSE IF block.err # NoError THEN [s EXCEPT !.err = block.err]
       ELSE [err |-> NoError, rest |-> block.rest,
             items |-> Append(s.items, [type |-> type.data, data |-> block.data])]

(* The loop over a list: an entry takes a byte or more, so no list has more
   entries than bytes. *)
Entries(list, t, w) ==
    LET turn[n \in 0..Len(list)] ==
            IF n = 0 THEN [err |-> NoError, rest |-> list, items |-> <<>>]
            ELSE NextEntry(turn[n - 1], t, w)
    IN turn[Len(list)]

NewHello(version, ciphers) ==
    [legacy_version |-> version, cipher_suites |-> ciphers, extensions |-> <<>>,
     supported_versions |-> <<>>, signature_algorithms |-> <<>>, supported_groups |-> <<>>,
     alpn |-> <<>>, server_name |-> NoHost]

Parsed(h) == [err |-> NoError, hello |-> h]
Refused(err) == [err |-> err, hello |-> NoHost]
Unless(err, h) == IF err # NoError THEN Refused(err) ELSE Parsed(h)

(* The first entry of type host_name, 0, ends the loop, whatever is behind it;
   a list may have no such entry, and the extension no list. *)
HostNames(names) == {i \in DOMAIN names.items : names.items[i].type = <<0>>}
AbsorbHostName(h, data) ==
    LET list  == Block(data, 2)
        names == Entries(list.data, 1, 2)
        hosts == HostNames(names)
        first == CHOOSE i \in hosts : \A j \in hosts : i <= j
    IN IF data = <<>> THEN Parsed(h)
       ELSE IF list.err # NoError THEN Refused(list.err)
       ELSE IF hosts = {} THEN Unless(names.err, h)
       ELSE Parsed([h EXCEPT !.server_name = names.items[first].data])

AbsorbProtocols(h, data) ==
    LET list   == Block(data, 2)
        protos == Entries(list.data, 0, 1)
        names  == [i \in DOMAIN protos.items |-> protos.items[i].data]
    IN IF list.err # NoError THEN Refused(list.err)
       ELSE Unless(protos.err, [h EXCEPT !.alpn = @ \o names])

(* absorb_extension: an unknown extension counts by its identifier alone. *)
AbsorbExtension(h, type, data) ==
    LET long  == U16List(Block(data, 2))
        short == U16List(Block(data, 1))
    IN CASE type = ServerName          -> AbsorbHostName(h, data)
         [] type = Alpn                -> AbsorbProtocols(h, data)
         [] type = SignatureAlgorithms -> Unless(long.err, [h EXCEPT !.signature_algorithms = long.data])
         [] type = SupportedGroups     -> Unless(long.err, [h EXCEPT !.supported_groups = long.data])
         [] type = SupportedVersions   -> Unless(short.err, [h EXCEPT !.supported_versions = short.data])
         [] OTHER                      -> Parsed(h)

Listed(h, type) == [h EXCEPT !.extensions = Append(@, type)]

AbsorbNext(p, item) ==
    LET type == BigEndian(item.type) IN
    IF p.err # NoError THEN p ELSE AbsorbExtension(Listed(p.hello, type), type, item.data)

(* An extension is absorbed before the next is looked at: its error comes first. *)
AbsorbExtensions(hello, exts) ==
    LET absorbed[n \in 0..Len(exts.items)] ==
            IF n = 0 THEN Parsed(hello) ELSE AbsorbNext(absorbed[n - 1], exts.items[n])
        all == absorbed[Len(exts.items)]
    IN IF all.err = NoError /\ exts.err # NoError THEN Refused(exts.err) ELSE all

ParseExtensions(hello, block) ==
    IF block.err # NoError THEN Refused(block.err)
    ELSE AbsorbExtensions(hello, Entries(block.data, 2, 2))

(* The fields of the body in their order: each is read from what the one before
   it left, which is nothing after an error.  A hello may end here, before its
   extensions. *)
ParseBody(m) ==
    LET version == Take(m, 2)
        random  == Take(version.rest, RandomLen)
        session == Block(random.rest, 1)
        ciphers == U16List(Block(session.rest, 2))
        methods == Block(ciphers.rest, 1)
        hello   == NewHello(BigEndian(version.data), ciphers.data)
    IN IF version.err # NoError THEN Refused(version.err)
       ELSE IF random.err # NoError THEN Refused(random.err)
       ELSE IF session.err # NoError THEN Refused(session.err)
       ELSE IF ciphers.err # NoError THEN Refused(ciphers.err)
       ELSE IF methods.err # NoError THEN Refused(methods.err)
       ELSE IF methods.rest = <<>> THEN Parsed(hello)
       ELSE ParseExtensions(hello, Block(methods.rest, 2))

(* Mutant: the handshake length is not compared with what there is. *)
ParseHandshake_Partial(body) ==
    LET type == Take(body, 1)
        len  == Take(type.rest, 3)
    IN IF len.err # NoError THEN Refused("Truncated")
       ELSE ParseBody(SubSeq(len.rest, 1, IF BigEndian(len.data) > Len(len.rest) THEN Len(len.rest)
                                          ELSE BigEndian(len.data)))

ParseHandshake(body) ==
    LET type == Take(body, 1)
        message == Block(type.rest, 3)
    IN IF type.err # NoError THEN Refused(type.err)
       ELSE IF type.data # <<HandshakeTypeClientHello>> THEN Refused("NotClientHello")
       ELSE IF message.err # NoError THEN Refused(message.err)
       ELSE ParseBody(message.data)

(* A whole TLS record, or a bare handshake message. *)
Parse(bytes) ==
    LET header == Take(bytes, 3)
        record == Block(header.rest, 2)
    IN IF bytes = <<>> THEN Refused("Truncated")
       ELSE IF bytes[1] = ContentTypeHandshake
            THEN IF header.err # NoError THEN Refused(header.err)
                 ELSE IF record.err # NoError THEN Refused(record.err)
                 ELSE ParseHandshake(record.data)
       ELSE IF bytes[1] = HandshakeTypeClientHello THEN ParseHandshake(bytes)
       ELSE Refused("NotClientHello")
=============================================================================
