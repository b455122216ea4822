----------------------------- MODULE MCHelloTap -----------------------------
(***************************************************************************)
(* A small instance of HelloTap: browsers that differ in one thing each,   *)
(* with their extensions shuffled and GREASE thrown in, and their hellos   *)
(* framed whole, with bytes behind them, in two records, and over the cap. *)
(***************************************************************************)
EXTENDS HelloTap, TLC

Offer(ciphers, exts, versions, sigs, alpn) ==
    [legacy_version |-> 771, cipher_suites |-> ciphers, extensions |-> exts,
     supported_versions |-> versions, signature_algorithms |-> sigs,
     supported_groups |-> IF SupportedGroups \in Range(exts) THEN <<29>> ELSE <<>>,
     alpn |-> alpn, server_name |-> IF ServerName \in Range(exts) THEN <<97>> ELSE NoHost]

H2 == <<104, 50>>
(* 0x0a0a and 0xfafa are GREASE; 0x0b0a and 0x0a1a only look like it. *)
Offers == {
    <<"chrome", Offer(<<4865, 2826>>, <<0, 16, 13, 43>>, <<772, 771>>, <<1027, 2052>>, <<H2>>)>>,
    <<"chrome", Offer(<<2570, 4865, 2826>>, <<64250, 43, 13, 0, 2570, 16>>, <<64250, 772>>,
                      <<1027, 2052>>, <<H2, <<104>>>>)>>,
    <<"sigs reversed", Offer(<<4865, 2826>>, <<0, 16, 13, 43>>, <<772, 771>>, <<2052, 1027>>, <<H2>>)>>,
    <<"one cipher", Offer(<<4865, 2586>>, <<16, 13, 43, 0>>, <<772, 771>>, <<1027, 2052>>, <<H2>>)>>,
    <<"tls 1.2", Offer(<<4865, 2826>>, <<0, 16, 13, 10>>, <<>>, <<1027, 2052>>, <<<<>>, <<2, 104>>>>)>>,
    <<"bare", Offer(<<4865>>, <<>>, <<>>, <<>>, <<>>)>>}

(* With a random of sevens, no session, and a server name of another kind ahead
   of the host. *)
Aside(h, stray) ==
    [random |-> [i \in 1..RandomLen |-> 7], session |-> <<>>, methods |-> <<0>>,
     names |-> IF h.server_name = NoHost THEN <<>> ELSE <<[type |-> <<1>>, data |-> <<9>>]>>,
     bodies |-> [e \in Range(h.extensions) |-> <<e % 256>>], stray |-> stray]

Sends(bytes, offer, stray, reads) ==
    [bytes |-> bytes, browser |-> offer[1], hello |-> offer[2], aside |-> Aside(offer[2], stray),
     reads |-> reads]
Stranger(bytes, reads) ==
    [bytes |-> bytes, browser |-> "nobody", hello |-> NoHost, aside |-> NoHost, reads |-> reads]

Encoded(offer, stray) == Encode(offer[2], Aside(offer[2], stray))
Whole(offer) == Record(Encoded(offer, <<>>))
InTwo(offer) ==
    LET hello == Encoded(offer, <<>>)
        half  == Len(hello) \div 2
    IN Record(SubSeq(hello, 1, half)) \o Record(SubSeq(hello, half + 1, Len(hello)))

Bare == CHOOSE o \in Offers : o[1] = "bare"
Big == <<"over the cap", Offer([i \in 1..42 |-> i], <<0, 16, 13, 43>>, <<772>>, <<1027>>, <<H2>>)>>

Plain == <<71, 69, 84, 0, 3>> \o [i \in 1..6 |-> 32]
ServerHello == Record(<<2, 0, 0, 0>>)

MCSent ==
    {Sends(Whole(o), o, <<>>, NoError) : o \in Offers \cup {Big}}
    \cup {Sends(Whole(Bare) \o Record(<<1, 0>>), Bare, <<>>, NoError),
          Sends(InTwo(Bare), Bare, <<>>, "Truncated"),
          Sends(Record(Encoded(Bare, <<9>>)), Bare, <<9>>, "Malformed"),
          Stranger(SubSeq(Whole(Big), 1, 80), "Truncated"),
          Stranger(Plain, "NotClientHello"),
          Stranger(ServerHello, "NotClientHello")}

MCWires == {s.bytes : s \in MCSent}

(* No two tunnels are told apart but by what their peers send. *)
TunnelSymmetry == Permutations(Tunnels)
=============================================================================
