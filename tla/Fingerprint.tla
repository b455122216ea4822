---------------------------- MODULE Fingerprint ----------------------------
(***************************************************************************)
(* What a BrowserProfile determines: the browser its User-Agent claims     *)
(* (profile.rs), the Client Hints that go with it (client_hints.rs), the   *)
(* TLS, HTTP/2 and header fingerprint of the impersonation client          *)
(* (emulation.rs), the locale of an exit country (geo.rs) and the script   *)
(* that is run before every document (stealth.rs).  All of them are pure   *)
(* functions of the profile; StealthBrowser puts them on the wire.         *)
(*                                                                         *)
(* A User-Agent is the tokens the code looks for in it: the operating      *)
(* system, and the majors after "Chrome/" and "Version/" (0: no such       *)
(* token), and whether it says "Safari".                                   *)
(***************************************************************************)
EXTENDS Naturals, Sequences, SequencesExt, TLC

CONSTANT None    \* an Option that holds nothing

ChromeMajor == 153

UserAgent(os, chrome, version, safari) ==
    [os |-> os, chrome |-> chrome, version |-> version, safari |-> safari]

Kind(family, major) == [family |-> family, major |-> major]

\* Every Chromium User-Agent also says Safari, so Chrome is looked for first.
BrowserKind(ua) ==
    CASE ua.chrome # 0                -> Kind("chrome", ua.chrome)
      [] ua.chrome = 0 /\ ua.safari
                       /\ ua.version # 0 -> Kind("safari", ua.version)
      [] OTHER                        -> Kind("chrome", ChromeMajor)

Platform(os) ==
    CASE os = "Windows" -> "Win32"
      [] os = "Macintosh" -> "MacIntel"
      [] OTHER -> "Linux x86_64"

Vendor(os) == IF os = "Macintosh" THEN "Apple" ELSE "NVIDIA"

Renderers(os) ==
    CASE os = "Macintosh" -> {"Apple M2"}
      [] os = "Windows" -> {"RTX 3070", "Iris Xe"}
      [] OTHER -> {"RTX 3070"}

\* An Accept-Language: the tags, each with a weight (in tenths) below the one before.
Weigh(tags) == [i \in DOMAIN tags |-> [tag |-> tags[i], q |-> 11 - i]]

LanguagesFrom(accept) == [i \in DOMAIN accept |-> accept[i].tag]

\* The profiles BrowserProfile::random draws from; the number of cores and the
\* memory are drawn independently and only enter the script's seed.
RandomProfiles ==
    UNION {{[ua |-> UserAgent(os, ChromeMajor, 0, TRUE), platform |-> Platform(os),
             vendor |-> Vendor(os), renderer |-> r, viewport |-> v, language |-> Weigh(<<"en-US", "en">>)] :
               r \in Renderers(os), v \in {1920, 2560, 1366, 1440}} :
           os \in {"Windows", "Macintosh", "X11"}}

-----------------------------------------------------------------------------
(* Client Hints. *)

Grease == "Not_A Brand"

PlatformFor(ua) ==
    CASE ua.os = "Windows" -> "Windows"
      [] ua.os = "Macintosh" -> "macOS"
      [] ua.os = "CrOS" -> "Chrome OS"
      [] ua.os = "Android" -> "Android"
      [] OTHER -> "Linux"

PlatformVersionFor(platform) ==
    CASE platform = "Windows" -> 19
      [] platform = "macOS" -> 27
      [] OTHER -> 0

\* The measured build belongs to one major; any other gets a zeroed one.
FullVersionFor(major) == <<major, IF major = ChromeMajor THEN 8010 ELSE 0>>

HintsFor(profile) ==
    LET kind == BrowserKind(profile.ua)
        platform == PlatformFor(profile.ua)
    IN IF kind.family = "safari" THEN None
       ELSE [platform |-> platform, platformVersion |-> PlatformVersionFor(platform),
             major |-> kind.major, full |-> FullVersionFor(kind.major), mobile |-> FALSE]

Brand(name, version) == [brand |-> name, version |-> version]

Brands(hints) ==
    <<Brand("Google Chrome", hints.major), Brand(Grease, 8), Brand("Chromium", hints.major)>>

FullVersionList(hints) ==
    [i \in DOMAIN Brands(hints) |->
        LET b == Brands(hints)[i]
        IN Brand(b.brand, IF b.brand = Grease THEN <<b.version, 0>> ELSE hints.full)]

\* to_cdp_metadata: what navigator.userAgentData and the Sec-CH-UA headers
\* of the page will say.
Metadata(hints) ==
    [brands |-> Brands(hints), list |-> FullVersionList(hints), full |-> hints.full,
     platform |-> hints.platform, platformVersion |-> hints.platformVersion,
     mobile |-> hints.mobile]

-----------------------------------------------------------------------------
(* The emulations. *)

\* Cipher suites, signature schemes, groups, TLS options and HTTP/2 settings are
\* measured constants, by which an observer tells the families apart.
ChromeWire == "chrome"

ChromeHeaderNames ==
    <<"sec-ch-ua", "sec-ch-ua-mobile", "sec-ch-ua-platform", "upgrade-insecure-requests",
      "user-agent", "accept", "sec-fetch-site", "sec-fetch-mode", "sec-fetch-user",
      "sec-fetch-dest", "accept-encoding", "accept-language", "priority">>

ChromeDefaultHeaders ==
    {"accept", "accept-encoding", "upgrade-insecure-requests",
     "sec-fetch-site", "sec-fetch-mode", "sec-fetch-user", "sec-fetch-dest"}

ChromeEmulation ==
    [wire |-> ChromeWire, headers |-> ChromeDefaultHeaders, order |-> ChromeHeaderNames]

SafariWire == "safari"

SafariHeaderNames ==
    <<"sec-fetch-dest", "user-agent", "accept", "sec-fetch-site", "sec-fetch-mode",
      "accept-language", "priority", "accept-encoding">>

SafariDefaultHeaders ==
    {"accept", "accept-encoding", "priority",
     "sec-fetch-dest", "sec-fetch-site", "sec-fetch-mode"}

SafariEmulation ==
    [wire |-> SafariWire, headers |-> SafariDefaultHeaders, order |-> SafariHeaderNames]

\* One measured entry stands for every version of its family.
ForKind(kind) == IF kind.family = "safari" THEN SafariEmulation ELSE ChromeEmulation

\* The client sends its default headers and the ones the request sets, in the
\* order of the emulation; a name the order does not list goes to the end.
Arranged(order, names) ==
    SelectSeq(order, LAMBDA n : n \in names) \o SetToSeq(names \ Range(order))

WireOrder(emulation, set) == Arranged(emulation.order, emulation.headers \cup set)

-----------------------------------------------------------------------------
(* Locales. *)

\* The header and the list are written out separately in the table.
Row(accept, languages, timezone) ==
    [accept |-> accept, languages |-> languages, timezone |-> timezone]

LocaleTable == {
    <<"US", Row(Weigh(<<"en-US", "en">>), <<"en-US", "en">>, "New_York")>>,
    <<"GB", Row(Weigh(<<"en-GB", "en">>), <<"en-GB", "en">>, "London")>>,
    <<"CA", Row(Weigh(<<"en-CA", "en", "fr-CA">>), <<"en-CA", "en", "fr-CA">>, "Toronto")>>,
    <<"AU", Row(Weigh(<<"en-AU", "en">>), <<"en-AU", "en">>, "Sydney")>>,
    <<"DE", Row(Weigh(<<"de-DE", "de", "en">>), <<"de-DE", "de", "en">>, "Berlin")>>,
    <<"FR", Row(Weigh(<<"fr-FR", "fr", "en">>), <<"fr-FR", "fr", "en">>, "Paris")>>,
    <<"ES", Row(Weigh(<<"es-ES", "es", "en">>), <<"es-ES", "es", "en">>, "Madrid")>>,
    <<"IT", Row(Weigh(<<"it-IT", "it", "en">>), <<"it-IT", "it", "en">>, "Rome")>>,
    <<"NL", Row(Weigh(<<"nl-NL", "nl", "en">>), <<"nl-NL", "nl", "en">>, "Amsterdam")>>,
    <<"PL", Row(Weigh(<<"pl-PL", "pl", "en">>), <<"pl-PL", "pl", "en">>, "Warsaw")>>,
    <<"SE", Row(Weigh(<<"sv-SE", "sv", "en">>), <<"sv-SE", "sv", "en">>, "Stockholm")>>,
    <<"BR", Row(Weigh(<<"pt-BR", "pt", "en">>), <<"pt-BR", "pt", "en">>, "Sao_Paulo")>>,
    <<"MX", Row(Weigh(<<"es-MX", "es", "en">>), <<"es-MX", "es", "en">>, "Mexico_City")>>,
    <<"JP", Row(Weigh(<<"ja-JP", "ja", "en">>), <<"ja-JP", "ja", "en">>, "Tokyo")>>,
    <<"IN", Row(Weigh(<<"en-IN", "en", "hi">>), <<"en-IN", "en", "hi">>, "Kolkata")>>}

Locales ==
    [c \in {entry[1] : entry \in LocaleTable} |->
        (CHOOSE entry \in LocaleTable : entry[1] = c)[2]]

\* A country without an entry has no locale, rather than a wrong one.
ForCountry(country) ==
    IF country \in DOMAIN Locales THEN Locales[country] ELSE None

PrimaryLanguage(locale) ==
    IF locale.languages = <<>> THEN "en-US" ELSE Head(locale.languages)

-----------------------------------------------------------------------------
(* The stealth script, as the values it makes navigator and WebGL report.  *)

NoiseSeed(profile) ==
    <<profile.ua, profile.platform, profile.vendor, profile.renderer>>

Script(profile, languages) ==
    [ua |-> profile.ua, platform |-> profile.platform, webdriver |-> FALSE,
     vendor |-> profile.vendor, renderer |-> profile.renderer, seed |-> NoiseSeed(profile),
     languages |-> IF languages = <<>> THEN <<"en-US", "en">> ELSE languages]
=============================================================================
