---------------------------- MODULE MCCookieJar ----------------------------
(* Two sites and their subdomains, an address and a public suffix as hosts;
   Set-Cookie headers that differ in one attribute each.  Two cookies in a row
   from one host, one of them wider or longer lived, are the smallest case in
   which order, replacement and deletion matter; a third comes back. *)
EXTENDS CookieJar

At(labels) == [labels |-> labels, dot |-> FALSE]
Site == At(<<"e", "com">>)
Sub  == At(<<"s", "e", "com">>)
Else == At(<<"o", "com">>)
Addr == At(<<"1", "2", "3", "4">>)
Near == At(<<"9", "2", "3", "4">>)
Tld  == At(<<"com">>)

MCLabels == {"s", "e", "o", "com", "1", "2", "3", "4", "9"}
MCSegments == {"", "a", "b"}
MCIpLiterals == {Addr.labels, Near.labels}
MCPublicSuffixes == {<<"com">>, <<"4">>}

Root == <<"">>
Deep == <<"a", "b">>

MCUrls == [secure : {TRUE}, host : {Site, Sub, Else, Addr, Near, Tld, [Site EXCEPT !.dot = TRUE]},
           path : {Root, <<"a">>, Deep}]
          \cup {[secure |-> FALSE, host |-> Site, path |-> Deep]}

A(key, value) == [key |-> key, value |-> value]
Plain == {<<>>, <<A("max-age", 1)>>, <<A("max-age", 0)>>, <<A("domain", Site)>>,
          <<A("expires", 1)>>}
Rare == {<<A("path", Root)>>, <<A("path", <<"a", "">>)>>, <<A("path", Absent)>>,
         <<A("max-age", Absent)>>, <<A("max-age", -1)>>, <<A("secure", Absent), A("httponly", Absent)>>,
         <<A("samesite", "Lax")>>, <<A("domain", [Site EXCEPT !.dot = TRUE])>>,
         <<A("domain", Tld)>>, <<A("domain", Else)>>, <<A("domain", At(<<>>))>>,
         <<A("expires", 0)>>, <<A("expires", 1), A("max-age", 2)>>,
         <<A("domain", Site), A("max-age", 2), A("path", Root), A("expires", Absent)>>}

From(hosts, paths, names, lists) ==
    [url : [secure : {TRUE}, host : hosts, path : paths], name : names, attributes : lists]

MCSettings ==
    From({Site}, {Root, Deep}, {"n"}, Plain) \cup From({Site}, {Deep}, {"n"}, Rare)
    \cup From({Sub}, {Root}, {"n"}, Plain) \cup From({Site}, {Root}, {"m", Absent}, {<<>>})
    \cup From({Addr}, {Root}, {"n"}, {<<A("domain", Addr)>>, <<A("domain", At(<<"2", "3", "4">>))>>})
    \cup From({Tld}, {Root}, {"n"}, {<<A("domain", Tld)>>})
    \cup From({[Site EXCEPT !.dot = TRUE]}, {Root}, {"n"}, {<<>>, <<A("domain", Site)>>})
=============================================================================
