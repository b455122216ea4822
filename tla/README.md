# A TLA+ model of stealthscraper-rs

This directory holds TLA+ modules that model the stateful core of the crate,
the TLC configurations that check them on small instances, and TLAPS proofs of
their main properties for every instance. `PROJECT.json` maps each definition to
the lines it models, and lists runs, mutants, findings, hazards and theorems.

Check a run with `tlc -config X.cfg MCModule`, a proof with `tlapm M.tla`.

## 1. Inventory

| Part | State it keeps | Operations | What is hard | What makes it correct |
|---|---|---|---|---|
| CDP transport (`cdp/transport.rs`) | next id, map of waiters, closed flag, writer lock, reader task | `call_in_session`, `dispatch`, `close`, drop | replies in any order or never, timeouts against late replies, browser exit, futures dropped at an await | own reply or an error, for every call, always |
| Launch (`cdp/launch.rs`) | child process, two pipes, profile directory | `launch`, connect, drop of the last handle | each step of a start can fail; a leaked pipe end hides the end of the browser | nothing is left behind, the directory outlives the process, end of file is seen |
| CDP session (`cdp/session.rs`) | enabled domains, event subscriptions | `enable_domain`, `navigate_and_wait`, overrides, cookies, input | events before the subscription, lagging subscribers | a load that fired is noticed |
| Detection and policy (`challenge/`) | none | `detect`, `decide` | order of the tests, the attempt budget | ordinary pages are not challenges; a budget is never exceeded |
| Proxy pool (`proxy_pool.rs`) | health flags, selected endpoint | `rotate`, `selected` | wrap-around, exhaustion | a retired endpoint never returns |
| Scraper (`scraper.rs`, `solver.rs`) | pool, MITM client and locale, each behind its own lock; the browser | `build`, `new_stealth_page`, `solve_challenge`, `rotate_proxy`, `rotate_profile_with`, `record_outcome` | several tasks on one scraper; a rotation is three separate updates; a page is dressed call by call | pool, client, locale, page and record tell the same egress; a page tells one browser and one country |
| Human input (`scraper.rs` `human_*`, `behavior.rs`, `solver.rs`) | pointer, pending wheel distance | scroll, settle, travel, click | the page moves between measuring and pressing | a press is announced and hits the widget; the solver returns |
| MITM proxy (`proxy.rs`) | client slot, connections | forward, `set_upstream_client`, shutdown | requests in flight across a swap | each request has one client |
| Certificate authority (`ca.rs`) | bounded leaf cache | `acceptor` | concurrent mints at the limit | cache and order agree, bound kept |
| TLS capture and JA4 (`tls_capture.rs`, `ja4/`) | buffer per tunnel, recorded hellos | `push`, `parse`, `from_client_hello` | records in pieces, over the cap, malformed | the first record is observed once and read as it was sent; JA4 names the browser |
| Session (`session.rs`, `http_scraper.rs`, `identity.rs`) | identity and cookies, browser, HTTP client | `fetch`, `escalate`, `demote`, `restore`, cookie rules | time passing, failures at every step, two cookie jars | one identity on both legs; no cookie lost or leaked; clearance outlives the request |
| Domain state and stores (`state/`) | map of hosts, file or database | `get`, `put`, `remove`, `update`, `open` | failing flushes, panics in closures, crashes, power loss, a get and a put in two steps | what was acknowledged is kept; updates are atomic |
| Tables (`profile.rs`, `client_hints.rs`, `emulation.rs`, `geo.rs`, `stealth.rs`) | none | pure | values from different tables have to agree | headers, hints, scripts and overrides tell one story |
| Events, errors, wiring (`events.rs`, `error.rs`, `lib.rs`) | sinks of the caller | notify | little | |

How they interact: `StealthSession` owns one `CloudScraper` (while in the
browser) and one `HttpScraper`; both render the shared identity. `CloudScraper`
launches the browser, drives pages over the CDP transport, sends the browser's
traffic through the MITM proxy (which mints leaves and tees each tunnel's first
record to an observer), takes its egress from the pool and records outcomes in a
`StateStore`. Detection and the mitigation policy are pure and used by both.

## 2. Modules

| Module | Models | Composes |
|---|---|---|
| `CdpTransport` | the CDP wire | implements `CdpCalls` |
| `CdpCalls` | what a caller of the wire is promised (abstract) | |
| `DomainState` | one host's record | |
| `JsonStore` | the JSON store | `DomainState`; implements `DurableMap` |
| `DurableMap` | what a file-backed map promises (abstract) | |
| `StateStores` | the port's default `update`, the in-memory and the redb store | implements `AtomicMap` |
| `AtomicMap` | a map whose calls take effect at one moment (abstract) | |
| `Challenge` | `detect` and `decide` | |
| `Solving` | pages, `solve_challenge`, pool and rotations on a shared scraper | `Challenge` |
| `PageLoad` | domain enabling, the event channel and waiting for a load | relies on what `CdpCalls` promises |
| `BrowserLaunch` | launch, connect, handles, kill, wait and removal | |
| `Fingerprint` | profiles, client hints, emulations, locales, stealth script: what they report | |
| `StealthBrowser` | a scraper's browser and the pages dressed on it | `BrowserLaunch`, `Fingerprint` |
| `HumanInput` | the Turnstile solver's gestures on a page that moves | |
| `LeafCache` | the bounded cache of leaf certificates | |
| `MitmProxy` | connections, tunnels, client slot and shutdown | `LeafCache` |
| `TlsCapture` | the tee under each tunnel's acceptor | |
| `Vectors` | `filter`, `retain` and the stable sort by a key as operators | |
| `ClientHello`, `Ja4` | `parse` and `from_client_hello` as operators | `Ja4` uses `ClientHello` and `Vectors` |
| `HelloEncoding` | the hellos a browser may send, and their bytes by the RFCs (external) | `Ja4` |
| `HelloTap` | capture, parser and fingerprint together | `TlsCapture`, `HelloEncoding` |
| `CookieRules` | `Set-Cookie`, scope, matching, order, CDP conversion as operators | `Vectors` |
| `CookieJar` | the session's cookies on both legs beside one ideal browser | `CookieRules` |
| `SessionPolicy` | cookies, expiry, `SessionPolicy::decide` | |
| `StealthSession` | the session | `SessionPolicy`, `Challenge` |
| `*Proofs` | the theorems about the modules they extend: `ScraperProofs` about `StealthBrowser` and `HumanInput`, `KeptStateProofs` about `StateStores` and `CookieJar`, `MitmProxyProofs` about `MitmProxy` and `HelloTap`, the others about the module they are named after | |
| `MC*` | the values TLC gives the constants | |

### CdpTransport
A call is the pair of its caller and the caller's own count; the id is what the
program computes, so a reply that reaches the wrong call is visible. `pc` follows
`call_in_session`: `register` (takes the pending lock), `lock` (waits for the
writer), `head`/`tail` (a frame goes out in two pieces, enough to be torn),
`await`, and the two error paths `unsent` and `timeout`, on which the waiter is
taken back in a separate step. `Dispatch` and `Send` are two steps because the
code resolves the oneshot after it released the lock. `Cancel` drops a future at
one of the three awaits of `Cancellable` callers. The browser (external) reads
frames, answers in any order or not, and exits at any time, perhaps in the middle
of a message. The broadcast of events is reduced to the fact that it touches no
pending call.

### DomainState and JsonStore
A record keeps its fields with `u32` and `u64` saturation at `MaxCount` and
`MaxTime`. A mutation is lock, change the map, create, write, sync and rename the
temporary, return; each file step can fail (`StepFails`; `CleanUp` then removes
the temporary or, its error being ignored, leaves it), a closure can panic, the process can die (`Crash`), and power can be lost (`PowerLoss`):
the directory is never synced, so any file named since it was last written
(`older`) may come back. `acked` is a ghost of what the last mutation of a host
promised by returning `Ok`.

### Challenge and Solving
A body is the set of marker families found in it. `Solving` has tasks with one
page each on one scraper; a rotation is the steps `PoolRotates`, `BuildClient`,
`SwapClient`, `Relocale` (each under its own lock in `rotate_proxy`), then
`SnapshotLocale`, `ApplyOverrides`, `Reload` in `solve_challenge`. Every await can
fail. `denied` (egresses a page was denied through), `met` (a rotation met another
task's page) and `unfinished` (a rotation stopped halfway) are history; properties
about coherence are stated while `Undisturbed`, because the
code does not promise them otherwise: two pages denied through one proxy retire
its successor too, and a step that fails halfway leaves the pool ahead of the
client (section 5). A page that is denied again while its reload is failing is part of
`unfinished`.

### PageLoad
Tasks run `navigate_and_wait` or `reload_and_wait` on shared pages. `pc` follows
the code: `lock` (waits for the page's `enabled` mutex; subscribed already),
`enable` (holds it over the round trip), `trigger`, `load` (the command is out),
`wait`. The transport is what `CdpCalls` promises: an answer to this call or a
failure, so `Refuse`, a timeout, an error in the result and a closed connection
are all `CallFails`. Commands, and replies with events, travel in two ordered
pipes. A receiver's part of the broadcast ring is a queue of at most `Capacity`
events that drops its oldest (`Publish`, `lagged`). Each page counts its
documents, which the program cannot see, so that a wait that returned `Ok` shows
whose load it saw (`result`); `stray` marks pages that load without the waiting
task's doing (a document still loading when the page was attached or an operation
gave up, another operation on the page, a redirect). Only load events are
modelled: others only take room. A caller dropped in the middle behaves like
`CallFails` or `Expire`, except while it waits for the mutex, where it holds
nothing.

### LeafCache and MitmProxy
`LeafCache` is `insert` and its eviction loop as operators on the record of map and
list. In `MitmProxy` a connection serves plain requests until a `CONNECT` makes it
a tunnel: `upgrade`, then `Hit`, or `Miss` and `Mint` with the cache lock free in
between, `handshake`, `serve`. `Request` copies the client out of the slot and
`Respond` ends the request, with the upstream's answer or a 502. Clients are
numbered by the swaps. The two signals `Drop` gives to the listener are one, the
token; `serve` and `forward` watch it, `upgrade` and `handshake` do not. Which
host names `is_valid_host` accepts is the constant `Valid`.

### StateStores
A `DomainState` is the number of outcomes recorded in it. A call goes `called`,
`held` (in the mutex or the write transaction), `ready` (its value computed),
`done`. The adapter that inherits the port's `update` reads and writes without
holding anything; it is there so that the difference is visible, and the
abstraction is claimed of the two built-in stores only. A closure that panics
poisons the in-memory mutex (later calls panic, `LockPoisoned`) and aborts the
redb transaction; a process with redb open can die, and the database is opened
again as last committed. That redb runs one write transaction at a time and commits at one
moment is external.

### TlsCapture, ClientHello, Ja4, HelloEncoding and HelloTap
Bytes are bytes. `PollRead` returns any number of them out of `ReadSizes`, so a
record is cut in every way the sizes allow. `Parse` follows the reader byte by
byte, with its three errors: `NextEntry` is one turn of its loops over a list
of blocks and `Entries` the loop, `AbsorbExtensions` the loop over the extensions.
The truncated SHA-256 is an injective function of its input.

`HelloEncoding` puts a hello together by RFC 8446, RFC 6066 and RFC 7301,
independently of the parser. `Sent` lists every stream with its sender, the
hello meant and how it is to read; `SentAssumption` says what a sender may do: send
a whole hello in one record, with or without bytes behind it, send it with half a
cipher suite, cut it into records, hang up inside a record, or send something else.
A hello is any that can be encoded at all (`WellFormed`: no extension twice,
nothing said outside its extension, no vector longer than its length field can
say). `BrowserAssumption` says when two hellos are one browser's: the parts
JA4 is meant to tell apart are equal (`SameOffer`), lists whose order does not
count being compared by how often each value occurs, without sorting. So parse
and fingerprint are compared with what was meant. A highest version JA4 has no code
for is left out there: all of them read as `00`.

### CookieRules and CookieJar
A host is its labels and whether it ends in a dot, a path its segments, a header
its attributes in order. `CookieRules` is `parse_set_cookie`, `domain_scope`,
`cookie_applies`, `cookie_header`, `anchor_max_age`, `absorb_cookies` and the two
conversions to and from CDP, whose clock is in half seconds so that rounding
shows. What the loop over the attributes leaves in the cookie is said directly:
the last value of each key (`LastValue`), the last Domain that widens (`Widening`),
nothing at all for a refused one (`IsCookie`). `filter` and `retain` are `Keeping`,
the stable sort puts each cookie behind those that go before it (`SortedBy`, of
which `LongestFirst` is the use).
`CookieJar` runs them on both legs and keeps, beside them, the jar of one
browser that saw every `Set-Cookie` and follows RFC 6265 (`ideal`), `Expires`
included. The code does not read `Expires`: the cookies an answer over HTTP last
set or deleted by it alone are kept in `unread`, and the properties compare the
others (`Readable`; section 5 has the finding). `gap` is also history: it says
that one leg was told something the other was not, where the code promises
nothing. Two kinds of header are left out by an assumption. One that
repeats an attribute (`OnceAssumption`): a browser reads the last Domain only,
the code drops the cookie for any Domain it would refuse. And one from a name that
ends like an address (`AddressAssumption`), which no URL parser lets through.
Definitions whose names would meet those of `StateStores` start with `Jar`.

### Fingerprint, BrowserLaunch and StealthBrowser
`Fingerprint` holds the tables as far as a property tells their rows apart; the
measured TLS and HTTP/2 constants of a family are one token.
`BrowserLaunch` gives each pipe end its holders (program, `Command`, child),
because end of file is seen only when the last writer is gone; dropping follows
the order in which Rust drops. `StealthBrowser` adds the scraper: a page is opened,
then dressed by the calls of `Dressing` one by one, each of which can fail; a
rotation of the proxy changes the locale and dresses it again; a rotation of the
profile launches a second browser while pages may still hold the first. `Document`
is what the page would show its server and its own scripts if it loaded now.
A page remembers the locale it was opened under (`opened`, which its script was
written with), the one it was last dressed for (`under`), whether any was ever
known (`located`: the overrides it set are never taken back) and whether a failed
rotation left it dressed by halves (`torn`). `OneCountry` says with them what the
code does promise; the rest of what `GeoFollowsEgress` asks are two findings.

### HumanInput
One axis, since nothing scrolls sideways. The page scrolls in frames of its own
(`Frame`), may scroll by itself or change its layout; the solver samples until two
offsets agree or the deadline passes. `excused` collects what a click cannot be
blamed for: the list stands at `ClickHits`. The path ends at the aim, the drift
and the move of `click_point` start from there: `PressIsAnnounced` says that the
pointer never leaps outside the path, whose own start is a fixed point.

### SessionPolicy and StealthSession
A jar holds one cookie per name (name, domain and path together). `stage` follows
`fetch`: `before` (first decision), `clear` (in the browser), `after` (second
decision), `request` (HTTP), `challenged` (third decision, `leg` becomes 2). The
clock ticks between any two steps. The browser keeps its own jar: it is given the
identity's cookies at launch and exports them at the end of a clear. `learned`
remembers what the HTTP leg was last set under a name, and whether no browser was
running then. There is one clearance: `clearance` takes the first of that name on
any host, so "holds a clearance" is per session and not per host asked. `decided`, `launches` and `requests` are per-fetch history.

## 3. Runs

| Run | Instance | Shows |
|---|---|---|
| `transport` | 2 callers, one cancellable, 3 calls, pipes of 1 | safety of the wire, refinement of `CdpCalls`, every call returns |
| `store` | 2 hosts, 2 threads, 3 mutations, tallies saturating at 1 | durability, whole files, refinement of `DurableMap` |
| `store_removal` | as `store` | finding: a retried remove returns `Ok` unwritten |
| `stores` | 2 hosts, 2 threads, tallies to 2, all three adapters | refinement of `AtomicMap` |
| `solving` | 2 tasks, 2 proxies in two countries, 2 attempts, 2 profiles, 3 kinds of page | coherence of pool, client, locale, page, record; solves end |
| `page_load` | 2 tasks, 2 pages, 2 operations, 3 documents a page, room for 1 event | domains enabled once, no load missed, no other load taken for it |
| `stealth_browser` | 2 launches, scraper and 1 page, a drawn profile and a Safari, 3 countries | nothing left behind, one story |
| `human` | 2 selectors, boxes inside, below and too tall, notches of 2 and 3, 1 layout change | the press is announced and hits; the solver returns |
| `mitm` | 3 connections, 3 valid hosts and 1 refused, a cache of 2, 1 swap | cache, racing mints, swaps, shutdown |
| `hello` | 2 tunnels, 13 streams, 6 browsers, reads of 4 and 60, a cap of 70 | capture, parser and JA4 |
| `session` | 2 profiles, 2 names, lifetimes none/0/2, margin 1, clock to 3, 2 values | identity, margin, cookies, termination |
| `cookies` | 6 hosts and one with a final dot, 3 paths, 36 settings, 2 cookies in a row, clock to 2 | scopes, both legs agree where both read the lifetime |

Why the bounds are enough. Two callers and three calls reach a late reply to a
call whose caller is in its next one while the other is writing; with a pipe of
one chunk a writer waits in the middle of its frame. Two hosts and
three mutations reach a failed flush of one host under an acknowledged record of
the other, and a failed remove with its retry; `MaxCount = 1` puts saturation
within reach. The store run leaves out proxies of a record
(`Proxy = {}`); the proofs cover them. In `stores` calls go on for ever over a
finite table, so every overlap of two calls occurs. Two proxies reach a rotation,
exhaustion and a profile rotation before, between and after them; that none of
this depends on the number of proxies, the strategy or the locales is what the
theorems of `SolvingProofs` add. Three ticks with a margin of one cover a
clearance before, at and
after the margin and after its end. Two operations are two at once on one page,
on two pages, or one after the other; with room for one event the other page's
load pushes a task's own out; three documents are the one attached, the one asked
for and one the page moves to by itself. Three connections race for two places in the cache, two of them for one
host. Two launches are one browser started while the pages of another are held.
Reads of 4 bytes cut a record inside its five byte header, reads of 60 pass the
cap in one go, and most streams end inside a read; two tunnels capture a pair of
hellos to compare. Two cookies in a row are the smallest case in which order,
replacement and deletion matter.

Fairness. `CdpTransport`: tokio polls every ready task, so caller and reader
steps are weakly fair; its mutex is a FIFO queue, so a caller that finds the
writer free again and again gets it (strong fairness on `AcquireWriter`); and the
browser drains its pipe. Without the last one calls do hang: `write_frame` is not
under the call timeout. `Solving` and `StealthSession`: a task inside
`solve_challenge` or `fetch` goes on, since each await there is a sleep, a CDP
call or load with a timeout, a request with a timeout, or the launch of a
process. Nothing is assumed of the site or of the caller. `MitmProxy`: the runtime
polls what is ready, the cancelled token among it, so the listener, the acceptor's
steps and `Shutdown` are weakly fair; and a handshake ends, because the browser
goes on with it or is killed by the scraper that drops the proxy. A browser that
stalled a handshake for ever would keep its task, which does not watch the token.
Nothing is assumed of requests. `HumanInput`: calls time out and sleeps end, so
the solver's step is weakly fair, and so is the settle deadline, which passes
whatever the samples say; nothing is assumed of the page, not even that it stops
scrolling. The others have no fairness: their properties are
safety, and a browser or peer that does nothing more is one of their behaviours.

Deadlock is checked where a state without a step would be a fault: the end of a
bounded history is an explicit stuttering step (`Terminated`, `Gone`, `Returned`)
and everything else must be able to move. It is off in `hello` (streams
end), `cookies` (the clock and the cookies run out) and `stealth_browser` (the
launches run out), where stopping is all that is left.

Each property of a passing run has a mutant: a plausible slip in the code, kept
next to the definition it replaces (`Register_Unchecked` drops the closed check,
`SyncTemp_Skipped` the `sync_all`, `Relocale_Skipped` the locale update ...), under
which TLC finds the property violated.

## 4. Proofs

The theorems hold for any number of callers, threads, tasks, hosts, proxies,
profiles and cookies, and any bounds, from the named assumptions in the modules
(natural-number bounds, `None` and its like outside the sets they mark absence
in). What a recursive function computes is proved for every input by taking the
least argument at which the claim would fail (`LeastNumber`, from the
well-foundedness of the numbers).

* `CdpTransportProofs`. The invariant adds to the properties that everything
  carrying an id agrees on one call (waiters, chunks, requests, replies), that
  ids in use are below `next_id`, that at most one sender exists per call (the map
  or the reader's hand), that the reader's state and `closed` agree, and that a
  caller between the pieces of a frame holds the writer. Own replies follow from
  the agreement on ids; nobody stranded needs the single sender, since otherwise
  a drained waiter could belong to somebody still waiting. The refinement of
  `CdpCalls` maps each step to one abstract step or to none.
* `JsonStoreProofs`. The invariant adds that a thread between lock and return
  holds the mutex, so the temporary it is about to rename is a copy of the map as
  it is now, and that what was acknowledged is still in the map. Without the
  latter a flush of another host could write an acknowledged record away.
  `CooldownAgrees` is a lemma worth knowing on its own.
* `SolvingProofs`. `IInv` of `Solving`: facts that hold whatever the tasks do
  (`Bookkeeping`, `SelectedIsHealthy`) and, while undisturbed, `Coherence`: the
  only task that can be in a rotation is alone with its page, pool, client and
  locale are at most that rotation apart, what a page wears or is about to wear
  suits the egress, and each denied proxy is the current egress or retired.
* `StealthSessionProofs`. `IInv` of `StealthSession`: what `fetch` knows at each
  stage (`StageFacts`, which bounds launches and retries), that a request without
  a browser that needs a clearance has one that outlasts decision plus margin
  (`ClearanceLasts`), and that what HTTP learned alone is in the jar and in any
  browser launched since (`LearnedIsCarried`).
* `MitmProxyProofs`. First the operators: evicting from a cache whose map and list
  agree leaves one with room that agrees (`EvictSound`; at most one host goes),
  and `Insert` keeps agreement, bound and every leaf that stays (`InsertSound`).
  The invariant is then types, a sound cache, and that a minting tunnel has a valid
  host. The two action properties follow from it step by step. For `TlsCapture`,
  lemmas on prefixes of a stream first (what `Hello` finds in one,
  `HelloOfPrefix`). Its invariant adds that a capture that is not done holds
  exactly what was read and that this is not a record yet (`WaitingHoldsAll`), and
  that done and recorded are the same (`DoneIsCaptured`), and that what is recorded
  has its record header (`Headed`). For every stream, every
  way to cut it, and every cap of at least a header.

  On top of it, for every hello that can be encoded, `CapturedHelloIsRead`. What is
  put behind its length is found behind it (the reader's part), a list of blocks reads
  back as the list (`EntriesBack`, by induction over what is left to read), each
  extension sets its own field and no other (`AbsorbedAll`, by induction over the
  extensions; it needs that none is sent twice), so the body reads back
  (`BodyBack`), the handshake and the record around it too (`HandshakeBack`,
  `RecordReads`), and a message of which any part is missing is refused whatever
  it says (`CutHandshake`). `ParsedIsSent` follows because what was captured is the
  first record, or less when the cap cut it.
  `FingerprintsNameBrowsers` then compares fingerprints of hellos as sent. `SortedBy`
  is a permutation into ascending order (`SortIs`); two ascending lists with
  equally many of each value are equal (`SortedAreEqual`), and sorting or filtering
  a list keeps how often a value occurs in it (`KeepingTimes`, `AscendingTells`). So
  equal segments b and c mean equal offers and the other way round
  (`FingerprintTells`). The assumptions are `ParserAssumption`, `Ja4Assumption`
  (`EmptyHash` is no other list's), `CaptureAssumption`, `SentAssumption` and
  `BrowserAssumption`; TLC evaluates all of them on the instance of `hello`.
* `PageLoadProofs`. The invariant adds that mutex and pending enable determine
  each other, that a command in flight or its reply belongs to the operation its
  number names (`CarriedRight`; otherwise a late reply could enable a page on
  paper only), what a task may rely on at each point (`PointFacts`: past `trigger`
  its page is recorded), and that pages load what they have shown. No missed load
  needs all of it: the load of the document asked for is emitted because the page
  is recorded, the record is true, and the receiver existed before the command.
  That the load seen is one's own (`LoadIsOwn`) takes a second invariant, `OwnInv`:
  a page that is not astray has one task driving it, at most one command in one
  pipe and one event in the other or in that task's queue, never a command and an
  event at once, and whatever is under way carries that task's document.
* `ScraperProofs`. For `StealthBrowser` the invariant ties the process, the
  directory, the holders of every pipe end and the transport to the step of the
  launch (`ProcFacts`, `DirFacts`, `PipeFacts`, `TransportFacts`), a launch to the
  handle that owns it (`OwnerFacts`), command line and client to the profile
  (`IdentityFacts`), and what a page wears to how far its dressing has come
  (`PlaceFacts`, `DressFacts`). The first four hold step by step for one launch
  and are lifted to all; the stories need the last three together. They are proved
  for profiles that agree with themselves (`SelfConsistent`), and that every
  profile `BrowserProfile::random` can draw does is `DrawnProfilesAgree`. For
  `HumanInput`, `InputInv` says that a scroll under way and what the wheel still
  owes add up to the distance that brings the element into view (`OnTheWay`), that
  two equal samples with a frame between them mean a page at rest
  (`SamplesDiffer`), and that from there to the press the element is in view and
  the aim inside it (`InView`, `Aimed`), unless `excused`. `Aimed` also has the
  pointer at the aim when the path ends and within the drift of it until the
  press, which is what `PressesAreAnnounced` needs: a move of the drift spans at
  most twice its radius only if the path left the pointer inside it.
* `KeptStateProofs`. For the stores, the invariant adds that a call of a built-in
  store that is past its lock is the holder (`HolderIsInside`) and that what it
  read is still what is stored (`UpdateSeesLatest`), which is why its write may be
  taken for read and write at once. In the refinement `Publish` is the abstract
  effect, a death of the process the abstract loss of the calls under way, and the
  rest stutters. For the cookies, first what the operators compute for every
  input: `Keeping` keeps what stands at the places and nothing else
  (`KeepingKeeps`), `LongestFirst` permutes and puts longer paths first
  (`SortPermutes`). `CookiesNeverLeak` rests on `AllOwned`: every cookie of the jar and of
  the browser was issued, and its domain is the setter's own host, or one that
  covers it, is no public suffix, and was not set by an address.
  `BothLegsAgree` rests on `ParsersAgree` (the code and RFC 6265 accept the same
  headers and make the same cookie of them, the lifetime of an `Expires` alone
  excepted), on `HeldStore` and `AbsorbedAlike`
  (storing it changes what is held in the same way), and on what a trip through
  the browser keeps (`HandedOver`, `Exported`); `HttpSendsAlike` adds `PathsAgree`,
  that the two ways to match a path differ on final slashes only.

Only model-checked: liveness (`EveryCallReturns`, `EverySolveReturns`,
`EveryFetchReturns`, `DropEndsEverything`, `SolverReturns`), which the prover
cannot reason about, and the violation. Every safety invariant and every safety
action property of the runs is a theorem.

## 5. Findings

`PROJECT.json` lists where the code does not do what a comment, a doc or a test
says of it, with both places. One is a run, `store_removal`. Others can be seen
by adding a statement that the modules keep beside the properties to a
configuration:

| Statement | Configuration | Shows |
|---|---|---|
| `FramesNeverInterleave` | `CdpTransport.cfg` | half a frame stays in the pipe after a cancellation |
| `ProfileRotationKeepsEgress` | `Solving.cfg` | a profile rotation after the pool ran dry leaves the last egress |
| `LearnedIsKept` | `StealthSession.cfg` | cookies learned beside a running browser are lost |
| `NeverKeptTooLong` | `CookieJar.cfg` | a cookie deleted by `Expires`, or past it, is still sent |
| `GeoFollowsEgress` | `StealthBrowser.cfg` | timezone, locale or script languages of the country before a rotation |
| `FirstOfNameAgrees` | `CookieJar.cfg`, with `MaxIssue = 3`, `MaxNow = 1` | a cookie set again moves behind its equals |

The rest were met while modelling: among them a temporary file that stays when its
removal fails, a healthy proxy retired by a concurrent denial, a domain
enabled in the browser after a timed-out enable, a cache that one-off hosts do
flush, a legal record that is longer than the capture cap, and values of two profile tables that contradict each
other.

Two behaviours have no property, because the code makes no promise to hold it to:
a browser that stops reading leaves the writer waiting with the lock held, outside
the call timeout (`transport.rs:290`), and a watcher of a dead browser waits out
its timeout, because the sender of the event channel outlives the browser
(`cdp/session.rs:642`).

## 6. Not modelled

Not modelled:

* `events.rs`, `error.rs`, `lib.rs`: notifications nobody reads back, an error
  type, re-exports.
* `client.rs` and `cert_compression.rs`: building the wreq client and calling the
  compression codecs. Certificate building in `ca.rs` is a leaf or a failure.
* The cipher, extension and header value lists and HTTP/2 settings of `emulation.rs`
  beyond the names and order of headers: data, fixed by its unit tests.
* The text of the stealth JavaScript; what it reports is in `Fingerprint`.
* `human_type_str`, typing delays, `press_key`, `content` and `url`: loops of calls
  and sleeps, or single calls, that keep no state.
* Parsing a country code and redacting a proxy URL; serialising an identity.
* The programs under `examples/`, which only call the above.
