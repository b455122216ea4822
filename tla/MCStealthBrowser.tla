-------------------------- MODULE MCStealthBrowser --------------------------
(* Two browsers, so that one is launched while a page of the other is held; a
   page; a drawn profile and a Safari of the caller's, who differ in family,
   hints and language; two countries in the table, so that a rotation can go
   from one to the other, and one that is not. *)
EXTENDS StealthBrowser

Made(os, chrome, version, safari) ==
    [ua |-> UserAgent(os, chrome, version, safari), platform |-> Platform(os),
     vendor |-> Vendor(os), renderer |-> "Iris Xe", viewport |-> 1440,
     language |-> Weigh(<<"fr-CH", "fr">>)]

Drawn == CHOOSE p \in RandomProfiles : p.ua.os = "Windows" /\ p.viewport = 1920

MCProfiles == {Drawn, Made("Macintosh", 0, 27, TRUE)}
=============================================================================
