--------------------------- MODULE ScraperProofs ---------------------------
(***************************************************************************)
(* What the scraper promises of its browsers and pages, for any number of  *)
(* launches and pages, any profiles that agree with themselves and any     *)
(* exit countries: the resources of launches that end, the owner of one    *)
(* that runs, and the one story its documents tell.  And what the clicks   *)
(* made on its pages promise, for any elements, viewport and wheel.        *)
(***************************************************************************)
EXTENDS StealthBrowser, HumanInput, TLAPS

-----------------------------------------------------------------------------
(* The inductive invariant of the scraper. *)

Early == {"idle", "found", "profile", "piped", "mapped"}

(* The process at each step of launch and drop. *)
ProcFacts ==
    \A l \in Launches :
        /\ step[l] \in Early \cup {"failed"} => proc[l] = "none"
        /\ step[l] \in {"spawned", "launched", "connected", "dropping"}
              => proc[l] \in {"running", "zombie"}
        /\ step[l] = "killing" => proc[l] = "zombie"
        /\ step[l] \in {"waiting", "gone"} => proc[l] = "reaped"

(* The profile directory at each step. *)
DirFacts ==
    \A l \in Launches :
        /\ step[l] \notin {"idle", "found", "failed", "gone"} => l \in dirs
        /\ l \in stuck => step[l] \in {"failed", "gone"}
        /\ step[l] \in {"failed", "gone"} /\ l \in dirs => l \in stuck

(* Who may hold which end of the pipes, and when. *)
MayHold(holder, l, end) ==
    \/ holder = "program" /\ end \in {"inRead", "outWrite"} /\ step[l] = "piped"
    \/ holder = "program" /\ end = "inWrite"
         /\ step[l] \in {"piped", "mapped", "spawned", "launched", "connected"}
    \/ holder = "program" /\ end = "outRead"
         /\ step[l] \notin {"idle", "found", "profile", "failed"}
    \/ holder = "command" /\ end \in {"inRead", "outWrite"} /\ step[l] \in {"mapped", "spawned"}
    \/ holder = "child" /\ end \in {"inRead", "outWrite"} /\ proc[l] = "running"

PipeFacts == \A h \in held : MayHold(h[1], h[2], h[3])

(* The transport lives while it has handles, and only a live one reads. *)
TransportFacts ==
    \A l \in Launches : /\ handles[l] # {} <=> step[l] = "connected"
                        /\ reader[l] = "reading" => step[l] = "connected"

(* A launch under way is the scraper's next; its browser has its handle. *)
OwnerFacts ==
    /\ \A l \in Launches :
          step[l] \in {"found", "profile", "piped", "mapped", "spawned", "launched"}
             => next # None /\ next.launch = l
    /\ next # None => step[next.launch] \notin {"idle", "connected"}
    /\ browser # None => Scraper \in handles[browser]

ResourceInv == LaunchTypeOK /\ ProcFacts /\ DirFacts /\ PipeFacts /\ TransportFacts

(* The command line and the client are those of the profile. *)
IdentityFacts ==
    /\ browser # None => profile # None /\ args[browser] = BuildArgs(LaunchConfig(profile))
    /\ next # None => args[next.launch] = BuildArgs(LaunchConfig(next.profile))
    /\ mitm /\ next # None => client = next.profile
    /\ mitm /\ next = None /\ browser # None => client = profile

(* No override is in force. *)
Bare(pg) == pg.ua = None /\ pg.tz = None /\ pg.loc = None

(* A page that is being opened or dressed is on the scraper's browser, and no
   other is being launched; one that was handed over keeps its browser alive. *)
PlaceFacts ==
    \A p \in Pages :
        /\ page[p].step # "none" => page[p].on \in Launches
        /\ page[p].step \in {"dressing", "open", "rotated", "redressing"}
              => p \in handles[page[p].on]
        /\ page[p].step \in {"attaching", "dressing", "rotated", "redressing"}
              => page[p].on = browser /\ next = None
        /\ page[p].step = "attaching" => Bare(page[p])

(* What is left of Dressing after some of its calls. *)
Tails(prof, loc) ==
    CASE loc # None -> {<<"ua", "tz", "loc", "screen">>, <<"tz", "loc", "screen">>,
                        <<"loc", "screen">>, <<"screen">>, <<>>}
      [] loc = None /\ HintsFor(prof) # None -> {<<"ua", "screen">>, <<"screen">>, <<>>}
      [] OTHER -> {<<>>}

(* The call that is made next. *)
Then(t) == IF t = <<>> THEN "done" ELSE Head(t)
Upcoming(pg) == Then(pg.todo)

(* The calls of Dressing that were made left what they were to leave. *)
Worn(prof, pg) ==
    /\ Upcoming(pg) \notin {"script", "ua"} => pg.ua = [profile |-> prof, locale |-> pg.under]
    /\ pg.under # None /\ Upcoming(pg) \notin {"script", "ua", "tz"} => pg.tz = pg.under.timezone
    /\ pg.under # None /\ Upcoming(pg) \notin {"script", "ua", "tz", "loc"}
          => pg.loc = PrimaryLanguage(pg.under)
    /\ Upcoming(pg) = "done" => pg.screen = prof.viewport

DressedAs(prof, pg) ==
    /\ ~pg.located => pg.under = None /\ pg.tz = None /\ pg.loc = None
    /\ pg.ua # None => pg.ua.profile = prof
    /\ pg.step = "dressing" =>
          /\ pg.opened = pg.under
          /\ \/ pg.todo = <<"script">> \o Dressing(prof, pg.under)
             \/ /\ pg.todo \in Tails(prof, pg.under)
                /\ pg.script = [profile |-> prof, locale |-> pg.opened]
    /\ pg.step = "redressing" => pg.todo \in Tails(prof, pg.under)
    /\ pg.step \in {"open", "rotated", "redressing"}
          => pg.script = [profile |-> prof, locale |-> pg.opened]
    /\ prof.ua.chrome # 0 =>
          /\ pg.step \in {"dressing", "redressing"} => Worn(prof, pg)
          /\ pg.step \in {"open", "rotated"} /\ ~pg.torn => Worn(prof, pg)
          /\ pg.step \in {"open", "rotated", "redressing"}
                => pg.ua # None /\ pg.screen = prof.viewport

DressFacts ==
    \A p \in Pages : page[p].step \notin {"none", "attaching"} /\ page[p].on = browser
                       => DressedAs(profile, page[p])

Inv == TypeOK /\ ResourceInv /\ OwnerFacts /\ IdentityFacts /\ PlaceFacts /\ DressFacts

-----------------------------------------------------------------------------
(* The resources of one launch. *)

PipeEnds == {"inRead", "inWrite", "outRead", "outWrite"}
Holders == {"program", "command", "child"}

LEMMA HeldType ==
    ASSUME LaunchTypeOK, NEW h \in held
    PROVE  /\ h[1] \in Holders /\ h[2] \in Launches /\ h[3] \in PipeEnds
           /\ h = <<h[1], h[2], h[3]>>
BY DEF LaunchTypeOK, Holders, PipeEnds

(* Steps that take up, or give up, ends of the pipes of one launch. *)
LEMMA PipesAfter ==
    ASSUME LaunchTypeOK, PipeFacts, NEW l \in Launches, NEW holder \in Holders, NEW ends \in SUBSET PipeEnds,
           held' \subseteq held \cup Ends(holder, l, ends),
           \A e \in ends : MayHold(holder, l, e)',
           \A k \in Launches : k # l => step'[k] = step[k] /\ proc'[k] = proc[k],
           \A h \in held \cap held' : h[2] = l /\ MayHold(h[1], l, h[3]) => MayHold(h[1], l, h[3])'
    PROVE  PipeFacts'
<1> SUFFICES ASSUME NEW h \in held' PROVE MayHold(h[1], h[2], h[3])'
  BY DEF PipeFacts
<1>1. CASE h \in Ends(holder, l, ends)
  <2>1. PICK e \in ends : h = <<holder, l, e>>
    BY <1>1 DEF Ends
  <2> QED
    BY <2>1
<1>2. CASE h \in held /\ h[2] = l
  BY <1>2 DEF PipeFacts
<1>3. CASE h \in held /\ h[2] # l
  <2>1. h[2] \in Launches /\ MayHold(h[1], h[2], h[3])
    BY <1>3, HeldType DEF PipeFacts
  <2>2. step'[h[2]] = step[h[2]] /\ proc'[h[2]] = proc[h[2]]
    BY <2>1, <1>3
  <2> QED
    BY <2>1, <2>2 DEF MayHold
<1> QED
  BY <1>1, <1>2, <1>3

LEMMA HeldTypeAfter ==
    ASSUME LaunchTypeOK, NEW l \in Launches, NEW holder \in Holders, NEW ends \in SUBSET PipeEnds,
           held' \subseteq held \cup Ends(holder, l, ends)
    PROVE  held' \subseteq Holders \X Launches \X PipeEnds
BY DEF LaunchTypeOK, Holders, PipeEnds, Ends

(* Every operation of launch.rs and of the transport that owns the browser. *)
LaunchAction(l, h) ==
    \/ FindChrome(l) \/ CreateProfile(l) \/ CreatePipes(l) \/ MapDescriptors(l) \/ Spawn(l)
    \/ Launched(l) \/ LaunchFails(l) \/ ConnectFails(l) \/ Connect(l, h) \/ CloneHandle(l, h)
    \/ DropHandle(l, h) \/ Kill(l) \/ Wait(l) \/ RemoveProfile(l) \/ ReadsEof(l) \/ ReaderStops(l)
    \/ BrowserExits(l)

LEMMA ResourceStep ==
    ASSUME ResourceInv, NEW l \in Launches, NEW h \in Handles, LaunchAction(l, h)
    PROVE  ResourceInv'
<1>0. LaunchTypeOK /\ ProcFacts /\ DirFacts /\ PipeFacts /\ TransportFacts
  BY DEF ResourceInv
<1>1. CASE FindChrome(l)
  <2> USE <1>1, <1>0 DEF FindChrome, Goes
  <2>1. LaunchTypeOK'
    BY DEF LaunchTypeOK, Steps
  <2>2. ProcFacts'
    BY DEF LaunchTypeOK, ProcFacts, Early
  <2>3. DirFacts'
    BY DEF LaunchTypeOK, DirFacts
  <2>4. TransportFacts'
    BY DEF LaunchTypeOK, TransportFacts
  <2>5. PipeFacts'
    BY HeldType DEF LaunchTypeOK, PipeFacts, MayHold
  <2> QED
    BY <2>1, <2>2, <2>3, <2>4, <2>5 DEF ResourceInv
<1>2. CASE CreateProfile(l)
  <2> USE <1>2, <1>0 DEF CreateProfile, Goes
  <2>1. LaunchTypeOK'
    BY DEF LaunchTypeOK, Steps
  <2>2. ProcFacts'
    BY DEF LaunchTypeOK, ProcFacts, Early
  <2>3. DirFacts'
    BY DEF LaunchTypeOK, DirFacts
  <2>4. TransportFacts'
    BY DEF LaunchTypeOK, TransportFacts
  <2>5. PipeFacts'
    BY HeldType DEF LaunchTypeOK, PipeFacts, MayHold
  <2> QED
    BY <2>1, <2>2, <2>3, <2>4, <2>5 DEF ResourceInv
<1>3. CASE CreatePipes(l)
  <2> USE <1>3, <1>0 DEF CreatePipes, Goes
  <2>1. LaunchTypeOK'
    <3>1. held' \subseteq held \cup Ends("program", l, {"inRead", "inWrite", "outRead", "outWrite"})
      OBVIOUS
    <3>2. held' \subseteq Holders \X Launches \X PipeEnds
      BY <3>1, HeldTypeAfter DEF Holders, PipeEnds
    <3> QED
      BY <3>2 DEF LaunchTypeOK, Steps, Holders, PipeEnds
  <2>2. ProcFacts'
    BY DEF LaunchTypeOK, ProcFacts, Early
  <2>3. DirFacts'
    BY DEF LaunchTypeOK, DirFacts
  <2>4. TransportFacts'
    BY DEF LaunchTypeOK, TransportFacts
  <2>5. PipeFacts'
    <3>1. held' \subseteq held \cup Ends("program", l, {"inRead", "inWrite", "outRead", "outWrite"})
      OBVIOUS
    <3>2. \A e \in {"inRead", "inWrite", "outRead", "outWrite"} : MayHold("program", l, e)'
      BY DEF LaunchTypeOK, MayHold
    <3>3. \A k \in Launches : k # l => step'[k] = step[k] /\ proc'[k] = proc[k]
      BY DEF LaunchTypeOK
    <3>4. \A x \in held \cap held' : x[2] = l /\ MayHold(x[1], l, x[3]) => MayHold(x[1], l, x[3])'
      BY HeldType DEF LaunchTypeOK, MayHold, HeldBy, Ends, ProcFacts
    <3>5. "program" \in Holders /\ {"inRead", "inWrite", "outRead", "outWrite"} \in SUBSET PipeEnds
      BY DEF Holders, PipeEnds
    <3>6. l \in Launches /\ LaunchTypeOK /\ PipeFacts
      OBVIOUS
    <3> QED
      BY ONLY <3>1, <3>2, <3>3, <3>4, <3>5, <3>6, PipesAfter, Zenon
  <2> QED
    BY <2>1, <2>2, <2>3, <2>4, <2>5 DEF ResourceInv
<1>4. CASE MapDescriptors(l)
  <2> USE <1>4, <1>0 DEF MapDescriptors, Goes
  <2>1. LaunchTypeOK'
    <3>1. held' \subseteq held \cup Ends("command", l, {"inRead", "outWrite"})
      OBVIOUS
    <3>2. held' \subseteq Holders \X Launches \X PipeEnds
      BY <3>1, HeldTypeAfter DEF Holders, PipeEnds
    <3> QED
      BY <3>2 DEF LaunchTypeOK, Steps, Holders, PipeEnds
  <2>2. ProcFacts'
    BY DEF LaunchTypeOK, ProcFacts, Early
  <2>3. DirFacts'
    BY DEF LaunchTypeOK, DirFacts
  <2>4. TransportFacts'
    BY DEF LaunchTypeOK, TransportFacts
  <2>5. PipeFacts'
    <3>1. held' \subseteq held \cup Ends("command", l, {"inRead", "outWrite"})
      OBVIOUS
    <3>2. \A e \in {"inRead", "outWrite"} : MayHold("command", l, e)'
      BY DEF LaunchTypeOK, MayHold
    <3>3. \A k \in Launches : k # l => step'[k] = step[k] /\ proc'[k] = proc[k]
      BY DEF LaunchTypeOK
    <3>4. \A x \in held \cap held' : x[2] = l /\ MayHold(x[1], l, x[3]) => MayHold(x[1], l, x[3])'
      BY HeldType DEF LaunchTypeOK, MayHold, HeldBy, Ends, ProcFacts
    <3>5. "command" \in Holders /\ {"inRead", "outWrite"} \in SUBSET PipeEnds
      BY DEF Holders, PipeEnds
    <3>6. l \in Launches /\ LaunchTypeOK /\ PipeFacts
      OBVIOUS
    <3> QED
      BY ONLY <3>1, <3>2, <3>3, <3>4, <3>5, <3>6, PipesAfter, Zenon
  <2> QED
    BY <2>1, <2>2, <2>3, <2>4, <2>5 DEF ResourceInv
<1>5. CASE Spawn(l)
  <2> USE <1>5, <1>0 DEF Spawn, Goes
  <2>1. LaunchTypeOK'
    <3>1. held' \subseteq held \cup Ends("child", l, {"inRead", "outWrite"})
      OBVIOUS
    <3>2. held' \subseteq Holders \X Launches \X PipeEnds
      BY <3>1, HeldTypeAfter DEF Holders, PipeEnds
    <3> QED
      BY <3>2 DEF LaunchTypeOK, Steps, Holders, PipeEnds
  <2>2. ProcFacts'
    BY DEF LaunchTypeOK, ProcFacts, Early
  <2>3. DirFacts'
    BY DEF LaunchTypeOK, DirFacts
  <2>4. TransportFacts'
    BY DEF LaunchTypeOK, TransportFacts
  <2>5. PipeFacts'
    <3>1. held' \subseteq held \cup Ends("child", l, {"inRead", "outWrite"})
      OBVIOUS
    <3>2. \A e \in {"inRead", "outWrite"} : MayHold("child", l, e)'
      BY DEF LaunchTypeOK, MayHold
    <3>3. \A k \in Launches : k # l => step'[k] = step[k] /\ proc'[k] = proc[k]
      BY DEF LaunchTypeOK
    <3>4. \A x \in held \cap held' : x[2] = l /\ MayHold(x[1], l, x[3]) => MayHold(x[1], l, x[3])'
      BY HeldType DEF LaunchTypeOK, MayHold, HeldBy, Ends, ProcFacts
    <3>5. "child" \in Holders /\ {"inRead", "outWrite"} \in SUBSET PipeEnds
      BY DEF Holders, PipeEnds
    <3>6. l \in Launches /\ LaunchTypeOK /\ PipeFacts
      OBVIOUS
    <3> QED
      BY ONLY <3>1, <3>2, <3>3, <3>4, <3>5, <3>6, PipesAfter, Zenon
  <2> QED
    BY <2>1, <2>2, <2>3, <2>4, <2>5 DEF ResourceInv
<1>6. CASE Launched(l)
  <2> USE <1>6, <1>0 DEF Launched, Goes
  <2>1. LaunchTypeOK'
    <3>1. held' \subseteq held \cup Ends("program", l, {})
      OBVIOUS
    <3>2. held' \subseteq Holders \X Launches \X PipeEnds
      BY <3>1, HeldTypeAfter DEF Holders, PipeEnds
    <3> QED
      BY <3>2 DEF LaunchTypeOK, Steps, Holders, PipeEnds
  <2>2. ProcFacts'
    BY DEF LaunchTypeOK, ProcFacts, Early
  <2>3. DirFacts'
    BY DEF LaunchTypeOK, DirFacts
  <2>4. TransportFacts'
    BY DEF LaunchTypeOK, TransportFacts
  <2>5. PipeFacts'
    <3>1. held' \subseteq held \cup Ends("program", l, {})
      OBVIOUS
    <3>2. \A e \in {} : MayHold("program", l, e)'
      BY DEF LaunchTypeOK, MayHold
    <3>3. \A k \in Launches : k # l => step'[k] = step[k] /\ proc'[k] = proc[k]
      BY DEF LaunchTypeOK
    <3>4. \A x \in held \cap held' : x[2] = l /\ MayHold(x[1], l, x[3]) => MayHold(x[1], l, x[3])'
      BY HeldType DEF LaunchTypeOK, MayHold, HeldBy, Ends, ProcFacts
    <3>5. "program" \in Holders /\ {} \in SUBSET PipeEnds
      BY DEF Holders, PipeEnds
    <3>6. l \in Launches /\ LaunchTypeOK /\ PipeFacts
      OBVIOUS
    <3> QED
      BY ONLY <3>1, <3>2, <3>3, <3>4, <3>5, <3>6, PipesAfter, Zenon
  <2> QED
    BY <2>1, <2>2, <2>3, <2>4, <2>5 DEF ResourceInv
<1>7. CASE LaunchFails(l)
  <2> USE <1>7, <1>0 DEF LaunchFails, Removed
  <2>1. LaunchTypeOK'
    <3>1. held' \subseteq held \cup Ends("program", l, {})
      OBVIOUS
    <3>2. held' \subseteq Holders \X Launches \X PipeEnds
      BY <3>1, HeldTypeAfter DEF Holders, PipeEnds
    <3>3. dirs' \subseteq Launches /\ stuck' \subseteq dirs'
      BY DEF LaunchTypeOK, DirFacts
    <3> QED
      BY <3>2, <3>3 DEF LaunchTypeOK, Steps, Holders, PipeEnds
  <2>2. ProcFacts'
    BY DEF LaunchTypeOK, ProcFacts, Early
  <2>3. DirFacts'
    BY DEF LaunchTypeOK, DirFacts
  <2>4. TransportFacts'
    BY DEF LaunchTypeOK, TransportFacts
  <2>5. PipeFacts'
    <3>1. held' \subseteq held \cup Ends("program", l, {})
      OBVIOUS
    <3>2. \A e \in {} : MayHold("program", l, e)'
      BY DEF LaunchTypeOK, MayHold
    <3>3. \A k \in Launches : k # l => step'[k] = step[k] /\ proc'[k] = proc[k]
      BY DEF LaunchTypeOK
    <3>4. \A x \in held \cap held' : x[2] = l /\ MayHold(x[1], l, x[3]) => MayHold(x[1], l, x[3])'
      BY HeldType DEF LaunchTypeOK, MayHold, HeldBy, Ends, ProcFacts
    <3>5. "program" \in Holders /\ {} \in SUBSET PipeEnds
      BY DEF Holders, PipeEnds
    <3>6. l \in Launches /\ LaunchTypeOK /\ PipeFacts
      OBVIOUS
    <3> QED
      BY ONLY <3>1, <3>2, <3>3, <3>4, <3>5, <3>6, PipesAfter, Zenon
  <2> QED
    BY <2>1, <2>2, <2>3, <2>4, <2>5 DEF ResourceInv
<1>8. CASE ConnectFails(l)
  <2> USE <1>8, <1>0 DEF ConnectFails, Goes
  <2>1. LaunchTypeOK'
    <3>1. held' \subseteq held \cup Ends("program", l, {})
      OBVIOUS
    <3>2. held' \subseteq Holders \X Launches \X PipeEnds
      BY <3>1, HeldTypeAfter DEF Holders, PipeEnds
    <3> QED
      BY <3>2 DEF LaunchTypeOK, Steps, Holders, PipeEnds
  <2>2. ProcFacts'
    BY DEF LaunchTypeOK, ProcFacts, Early
  <2>3. DirFacts'
    BY DEF LaunchTypeOK, DirFacts
  <2>4. TransportFacts'
    BY DEF LaunchTypeOK, TransportFacts
  <2>5. PipeFacts'
    <3>1. held' \subseteq held \cup Ends("program", l, {})
      OBVIOUS
    <3>2. \A e \in {} : MayHold("program", l, e)'
      BY DEF LaunchTypeOK, MayHold
    <3>3. \A k \in Launches : k # l => step'[k] = step[k] /\ proc'[k] = proc[k]
      BY DEF LaunchTypeOK
    <3>4. \A x \in held \cap held' : x[2] = l /\ MayHold(x[1], l, x[3]) => MayHold(x[1], l, x[3])'
      BY HeldType DEF LaunchTypeOK, MayHold, HeldBy, Ends, ProcFacts
    <3>5. "program" \in Holders /\ {} \in SUBSET PipeEnds
      BY DEF Holders, PipeEnds
    <3>6. l \in Launches /\ LaunchTypeOK /\ PipeFacts
      OBVIOUS
    <3> QED
      BY ONLY <3>1, <3>2, <3>3, <3>4, <3>5, <3>6, PipesAfter, Zenon
  <2> QED
    BY <2>1, <2>2, <2>3, <2>4, <2>5 DEF ResourceInv
<1>9. CASE Connect(l, h)
  <2> USE <1>9, <1>0 DEF Connect, Goes
  <2>1. LaunchTypeOK'
    <3>1. held' \subseteq held \cup Ends("program", l, {})
      OBVIOUS
    <3>2. held' \subseteq Holders \X Launches \X PipeEnds
      BY <3>1, HeldTypeAfter DEF Holders, PipeEnds
    <3> QED
      BY <3>2 DEF LaunchTypeOK, Steps, Holders, PipeEnds
  <2>2. ProcFacts'
    BY DEF LaunchTypeOK, ProcFacts, Early
  <2>3. DirFacts'
    BY DEF LaunchTypeOK, DirFacts
  <2>4. TransportFacts'
    BY DEF LaunchTypeOK, TransportFacts
  <2>5. PipeFacts'
    <3>1. held' \subseteq held \cup Ends("program", l, {})
      OBVIOUS
    <3>2. \A e \in {} : MayHold("program", l, e)'
      BY DEF LaunchTypeOK, MayHold
    <3>3. \A k \in Launches : k # l => step'[k] = step[k] /\ proc'[k] = proc[k]
      BY DEF LaunchTypeOK
    <3>4. \A x \in held \cap held' : x[2] = l /\ MayHold(x[1], l, x[3]) => MayHold(x[1], l, x[3])'
      BY HeldType DEF LaunchTypeOK, MayHold, HeldBy, Ends, ProcFacts
    <3>5. "program" \in Holders /\ {} \in SUBSET PipeEnds
      BY DEF Holders, PipeEnds
    <3>6. l \in Launches /\ LaunchTypeOK /\ PipeFacts
      OBVIOUS
    <3> QED
      BY ONLY <3>1, <3>2, <3>3, <3>4, <3>5, <3>6, PipesAfter, Zenon
  <2> QED
    BY <2>1, <2>2, <2>3, <2>4, <2>5 DEF ResourceInv
<1>10. CASE CloneHandle(l, h)
  <2> USE <1>10, <1>0 DEF CloneHandle
  <2>1. LaunchTypeOK'
    <3>1. held' \subseteq held \cup Ends("program", l, {})
      OBVIOUS
    <3>2. held' \subseteq Holders \X Launches \X PipeEnds
      BY <3>1, HeldTypeAfter DEF Holders, PipeEnds
    <3> QED
      BY <3>2 DEF LaunchTypeOK, Steps, Holders, PipeEnds
  <2>2. ProcFacts'
    BY DEF LaunchTypeOK, ProcFacts, Early
  <2>3. DirFacts'
    BY DEF LaunchTypeOK, DirFacts
  <2>4. TransportFacts'
    BY DEF LaunchTypeOK, TransportFacts
  <2>5. PipeFacts'
    <3>1. held' \subseteq held \cup Ends("program", l, {})
      OBVIOUS
    <3>2. \A e \in {} : MayHold("program", l, e)'
      BY DEF LaunchTypeOK, MayHold
    <3>3. \A k \in Launches : k # l => step'[k] = step[k] /\ proc'[k] = proc[k]
      BY DEF LaunchTypeOK
    <3>4. \A x \in held \cap held' : x[2] = l /\ MayHold(x[1], l, x[3]) => MayHold(x[1], l, x[3])'
      BY HeldType DEF LaunchTypeOK, MayHold, HeldBy, Ends, ProcFacts
    <3>5. "program" \in Holders /\ {} \in SUBSET PipeEnds
      BY DEF Holders, PipeEnds
    <3>6. l \in Launches /\ LaunchTypeOK /\ PipeFacts
      OBVIOUS
    <3> QED
      BY ONLY <3>1, <3>2, <3>3, <3>4, <3>5, <3>6, PipesAfter, Zenon
  <2> QED
    BY <2>1, <2>2, <2>3, <2>4, <2>5 DEF ResourceInv
<1>11. CASE DropHandle(l, h)
  <2> USE <1>11, <1>0 DEF DropHandle, Goes
  <2>1. LaunchTypeOK'
    <3>1. held' \subseteq held \cup Ends("program", l, {})
      OBVIOUS
    <3>2. held' \subseteq Holders \X Launches \X PipeEnds
      BY <3>1, HeldTypeAfter DEF Holders, PipeEnds
    <3> QED
      BY <3>2 DEF LaunchTypeOK, Steps, Holders, PipeEnds
  <2>2. ProcFacts'
    BY DEF LaunchTypeOK, ProcFacts, Early
  <2>3. DirFacts'
    BY DEF LaunchTypeOK, DirFacts
  <2>4. TransportFacts'
    BY DEF LaunchTypeOK, TransportFacts
  <2>5. PipeFacts'
    <3>1. held' \subseteq held \cup Ends("program", l, {})
      OBVIOUS
    <3>2. \A e \in {} : MayHold("program", l, e)'
      BY DEF LaunchTypeOK, MayHold
    <3>3. \A k \in Launches : k # l => step'[k] = step[k] /\ proc'[k] = proc[k]
      BY DEF LaunchTypeOK
    <3>4. \A x \in held \cap held' : x[2] = l /\ MayHold(x[1], l, x[3]) => MayHold(x[1], l, x[3])'
      BY HeldType DEF LaunchTypeOK, MayHold, HeldBy, Ends, ProcFacts
    <3>5. "program" \in Holders /\ {} \in SUBSET PipeEnds
      BY DEF Holders, PipeEnds
    <3>6. l \in Launches /\ LaunchTypeOK /\ PipeFacts
      OBVIOUS
    <3> QED
      BY ONLY <3>1, <3>2, <3>3, <3>4, <3>5, <3>6, PipesAfter, Zenon
  <2> QED
    BY <2>1, <2>2, <2>3, <2>4, <2>5 DEF ResourceInv
<1>12. CASE Kill(l)
  <2> USE <1>12, <1>0 DEF Kill, Goes, Ended
  <2>1. LaunchTypeOK'
    <3>1. held' \subseteq held \cup Ends("program", l, {})
      OBVIOUS
    <3>2. held' \subseteq Holders \X Launches \X PipeEnds
      BY <3>1, HeldTypeAfter DEF Holders, PipeEnds
    <3> QED
      BY <3>2 DEF LaunchTypeOK, Steps, Holders, PipeEnds
  <2>2. ProcFacts'
    BY DEF LaunchTypeOK, ProcFacts, Early
  <2>3. DirFacts'
    BY DEF LaunchTypeOK, DirFacts
  <2>4. TransportFacts'
    BY DEF LaunchTypeOK, TransportFacts
  <2>5. PipeFacts'
    <3>1. held' \subseteq held \cup Ends("program", l, {})
      OBVIOUS
    <3>2. \A e \in {} : MayHold("program", l, e)'
      BY DEF LaunchTypeOK, MayHold
    <3>3. \A k \in Launches : k # l => step'[k] = step[k] /\ proc'[k] = proc[k]
      BY DEF LaunchTypeOK
    <3>4. \A x \in held \cap held' : x[2] = l /\ MayHold(x[1], l, x[3]) => MayHold(x[1], l, x[3])'
      BY HeldType DEF LaunchTypeOK, MayHold, HeldBy, Ends, ProcFacts
    <3>5. "program" \in Holders /\ {} \in SUBSET PipeEnds
      BY DEF Holders, PipeEnds
    <3>6. l \in Launches /\ LaunchTypeOK /\ PipeFacts
      OBVIOUS
    <3> QED
      BY ONLY <3>1, <3>2, <3>3, <3>4, <3>5, <3>6, PipesAfter, Zenon
  <2> QED
    BY <2>1, <2>2, <2>3, <2>4, <2>5 DEF ResourceInv
<1>13. CASE Wait(l)
  <2> USE <1>13, <1>0 DEF Wait, Goes
  <2>1. LaunchTypeOK'
    <3>1. held' \subseteq held \cup Ends("program", l, {})
      OBVIOUS
    <3>2. held' \subseteq Holders \X Launches \X PipeEnds
      BY <3>1, HeldTypeAfter DEF Holders, PipeEnds
    <3> QED
      BY <3>2 DEF LaunchTypeOK, Steps, Holders, PipeEnds
  <2>2. ProcFacts'
    BY DEF LaunchTypeOK, ProcFacts, Early
  <2>3. DirFacts'
    BY DEF LaunchTypeOK, DirFacts
  <2>4. TransportFacts'
    BY DEF LaunchTypeOK, TransportFacts
  <2>5. PipeFacts'
    <3>1. held' \subseteq held \cup Ends("program", l, {})
      OBVIOUS
    <3>2. \A e \in {} : MayHold("program", l, e)'
      BY DEF LaunchTypeOK, MayHold
    <3>3. \A k \in Launches : k # l => step'[k] = step[k] /\ proc'[k] = proc[k]
      BY DEF LaunchTypeOK
    <3>4. \A x \in held \cap held' : x[2] = l /\ MayHold(x[1], l, x[3]) => MayHold(x[1], l, x[3])'
      BY HeldType DEF LaunchTypeOK, MayHold, HeldBy, Ends, ProcFacts
    <3>5. "program" \in Holders /\ {} \in SUBSET PipeEnds
      BY DEF Holders, PipeEnds
    <3>6. l \in Launches /\ LaunchTypeOK /\ PipeFacts
      OBVIOUS
    <3> QED
      BY ONLY <3>1, <3>2, <3>3, <3>4, <3>5, <3>6, PipesAfter, Zenon
  <2> QED
    BY <2>1, <2>2, <2>3, <2>4, <2>5 DEF ResourceInv
<1>14. CASE RemoveProfile(l)
  <2> USE <1>14, <1>0 DEF RemoveProfile, Goes, Removed
  <2>1. LaunchTypeOK'
    <3>1. held' \subseteq held \cup Ends("program", l, {})
      OBVIOUS
    <3>2. held' \subseteq Holders \X Launches \X PipeEnds
      BY <3>1, HeldTypeAfter DEF Holders, PipeEnds
    <3>3. dirs' \subseteq Launches /\ stuck' \subseteq dirs'
      BY DEF LaunchTypeOK, DirFacts
    <3> QED
      BY <3>2, <3>3 DEF LaunchTypeOK, Steps, Holders, PipeEnds
  <2>2. ProcFacts'
    BY DEF LaunchTypeOK, ProcFacts, Early
  <2>3. DirFacts'
    BY DEF LaunchTypeOK, DirFacts
  <2>4. TransportFacts'
    BY DEF LaunchTypeOK, TransportFacts
  <2>5. PipeFacts'
    <3>1. held' \subseteq held \cup Ends("program", l, {})
      OBVIOUS
    <3>2. \A e \in {} : MayHold("program", l, e)'
      BY DEF LaunchTypeOK, MayHold
    <3>3. \A k \in Launches : k # l => step'[k] = step[k] /\ proc'[k] = proc[k]
      BY DEF LaunchTypeOK
    <3>4. \A x \in held \cap held' : x[2] = l /\ MayHold(x[1], l, x[3]) => MayHold(x[1], l, x[3])'
      BY HeldType DEF LaunchTypeOK, MayHold, HeldBy, Ends, ProcFacts
    <3>5. "program" \in Holders /\ {} \in SUBSET PipeEnds
      BY DEF Holders, PipeEnds
    <3>6. l \in Launches /\ LaunchTypeOK /\ PipeFacts
      OBVIOUS
    <3> QED
      BY ONLY <3>1, <3>2, <3>3, <3>4, <3>5, <3>6, PipesAfter, Zenon
  <2> QED
    BY <2>1, <2>2, <2>3, <2>4, <2>5 DEF ResourceInv
<1>15. CASE ReadsEof(l)
  <2> USE <1>15, <1>0 DEF ReadsEof
  <2>1. LaunchTypeOK'
    <3>1. held' \subseteq held \cup Ends("program", l, {})
      OBVIOUS
    <3>2. held' \subseteq Holders \X Launches \X PipeEnds
      BY <3>1, HeldTypeAfter DEF Holders, PipeEnds
    <3> QED
      BY <3>2 DEF LaunchTypeOK, Steps, Holders, PipeEnds
  <2>2. ProcFacts'
    BY DEF LaunchTypeOK, ProcFacts, Early
  <2>3. DirFacts'
    BY DEF LaunchTypeOK, DirFacts
  <2>4. TransportFacts'
    BY DEF LaunchTypeOK, TransportFacts
  <2>5. PipeFacts'
    <3>1. held' \subseteq held \cup Ends("program", l, {})
      OBVIOUS
    <3>2. \A e \in {} : MayHold("program", l, e)'
      BY DEF LaunchTypeOK, MayHold
    <3>3. \A k \in Launches : k # l => step'[k] = step[k] /\ proc'[k] = proc[k]
      BY DEF LaunchTypeOK
    <3>4. \A x \in held \cap held' : x[2] = l /\ MayHold(x[1], l, x[3]) => MayHold(x[1], l, x[3])'
      BY HeldType DEF LaunchTypeOK, MayHold, HeldBy, Ends, ProcFacts
    <3>5. "program" \in Holders /\ {} \in SUBSET PipeEnds
      BY DEF Holders, PipeEnds
    <3>6. l \in Launches /\ LaunchTypeOK /\ PipeFacts
      OBVIOUS
    <3> QED
      BY ONLY <3>1, <3>2, <3>3, <3>4, <3>5, <3>6, PipesAfter, Zenon
  <2> QED
    BY <2>1, <2>2, <2>3, <2>4, <2>5 DEF ResourceInv
<1>16. CASE ReaderStops(l)
  <2> USE <1>16, <1>0 DEF ReaderStops
  <2>1. LaunchTypeOK'
    <3>1. held' \subseteq held \cup Ends("program", l, {})
      OBVIOUS
    <3>2. held' \subseteq Holders \X Launches \X PipeEnds
      BY <3>1, HeldTypeAfter DEF Holders, PipeEnds
    <3> QED
      BY <3>2 DEF LaunchTypeOK, Steps, Holders, PipeEnds
  <2>2. ProcFacts'
    BY DEF LaunchTypeOK, ProcFacts, Early
  <2>3. DirFacts'
    BY DEF LaunchTypeOK, DirFacts
  <2>4. TransportFacts'
    BY DEF LaunchTypeOK, TransportFacts
  <2>5. PipeFacts'
    <3>1. held' \subseteq held \cup Ends("program", l, {})
      OBVIOUS
    <3>2. \A e \in {} : MayHold("program", l, e)'
      BY DEF LaunchTypeOK, MayHold
    <3>3. \A k \in Launches : k # l => step'[k] = step[k] /\ proc'[k] = proc[k]
      BY DEF LaunchTypeOK
    <3>4. \A x \in held \cap held' : x[2] = l /\ MayHold(x[1], l, x[3]) => MayHold(x[1], l, x[3])'
      BY HeldType DEF LaunchTypeOK, MayHold, HeldBy, Ends, ProcFacts
    <3>5. "program" \in Holders /\ {} \in SUBSET PipeEnds
      BY DEF Holders, PipeEnds
    <3>6. l \in Launches /\ LaunchTypeOK /\ PipeFacts
      OBVIOUS
    <3> QED
      BY ONLY <3>1, <3>2, <3>3, <3>4, <3>5, <3>6, PipesAfter, Zenon
  <2> QED
    BY <2>1, <2>2, <2>3, <2>4, <2>5 DEF ResourceInv
<1>17. CASE BrowserExits(l)
  <2> USE <1>17, <1>0 DEF BrowserExits, Ended
  <2>1. LaunchTypeOK'
    <3>1. held' \subseteq held \cup Ends("program", l, {})
      OBVIOUS
    <3>2. held' \subseteq Holders \X Launches \X PipeEnds
      BY <3>1, HeldTypeAfter DEF Holders, PipeEnds
    <3> QED
      BY <3>2 DEF LaunchTypeOK, Steps, Holders, PipeEnds
  <2>2. ProcFacts'
    BY DEF LaunchTypeOK, ProcFacts, Early
  <2>3. DirFacts'
    BY DEF LaunchTypeOK, DirFacts
  <2>4. TransportFacts'
    BY DEF LaunchTypeOK, TransportFacts
  <2>5. PipeFacts'
    <3>1. held' \subseteq held \cup Ends("program", l, {})
      OBVIOUS
    <3>2. \A e \in {} : MayHold("program", l, e)'
      BY DEF LaunchTypeOK, MayHold
    <3>3. \A k \in Launches : k # l => step'[k] = step[k] /\ proc'[k] = proc[k]
      BY DEF LaunchTypeOK
    <3>4. \A x \in held \cap held' : x[2] = l /\ MayHold(x[1], l, x[3]) => MayHold(x[1], l, x[3])'
      BY HeldType DEF LaunchTypeOK, MayHold, HeldBy, Ends, ProcFacts
    <3>5. "program" \in Holders /\ {} \in SUBSET PipeEnds
      BY DEF Holders, PipeEnds
    <3>6. l \in Launches /\ LaunchTypeOK /\ PipeFacts
      OBVIOUS
    <3> QED
      BY ONLY <3>1, <3>2, <3>3, <3>4, <3>5, <3>6, PipesAfter, Zenon
  <2> QED
    BY <2>1, <2>2, <2>3, <2>4, <2>5 DEF ResourceInv
<1> QED
  BY <1>1, <1>2, <1>3, <1>4, <1>5, <1>6, <1>7, <1>8, <1>9, <1>10,
     <1>11, <1>12, <1>13, <1>14, <1>15, <1>16, <1>17 DEF LaunchAction

-----------------------------------------------------------------------------
(* The scraper and its browsers. *)

(* What a launch under way, the drop of a browser and its end do to steps and
   handles. *)
LEMMA LaunchStepIs ==
    ASSUME NEW l \in Launches, LaunchStep(l)
    PROVE  /\ handles' = handles
           /\ \E to \in {"found", "profile", "piped", "mapped", "spawned", "launched", "failed", "dropping"} :
                 step' = [step EXCEPT ![l] = to]
BY DEF LaunchStep, FindChrome, CreateProfile, CreatePipes, MapDescriptors, Spawn, Launched,
       LaunchFails, ConnectFails, Goes

LEMMA SystemIs ==
    ASSUME NEW l \in Launches, DropStep(l) \/ ReaderStep(l) \/ BrowserExits(l)
    PROVE  /\ handles' = handles
           /\ \/ step' = step
              \/ \E to \in {"killing", "waiting", "gone"} : step' = [step EXCEPT ![l] = to]
BY DEF DropStep, ReaderStep, Kill, Wait, RemoveProfile, ReadsEof, ReaderStops, BrowserExits, Goes

LEMMA DropHandleIs ==
    ASSUME NEW l \in Launches, NEW h, DropHandle(l, h)
    PROVE  /\ handles' = [handles EXCEPT ![l] = handles[l] \ {h}]
           /\ step' = step \/ step' = [step EXCEPT ![l] = "dropping"]
BY DEF DropHandle, Goes

(* The scraper's own handle keeps its browser connected. *)
LEMMA OwnBrowser ==
    ASSUME TypeOK, TransportFacts, OwnerFacts, browser # None
    PROVE  browser \in Launches /\ step[browser] = "connected"
BY DEF TypeOK, TransportFacts, OwnerFacts

(* Without a browser no page is being opened or dressed. *)
LEMMA PagesAreQuiet ==
    ASSUME TypeOK, PlaceFacts, browser = None
    PROVE  Quiet
BY NoneAssumption DEF TypeOK, PageRecord, PlaceFacts, Quiet

LEMMA InitInv ==
    ASSUME Init
    PROVE  Inv
<1>1. LaunchTypeOK
  BY DEF Init, LaunchInit, LaunchTypeOK, Steps
<1>2. NoPage \in PageRecord
  BY DEF NoPage, PageRecord, Locals
<1>3. TypeOK
  BY <1>1, <1>2 DEF Init, TypeOK, NoPage, Locals
<1>4. ResourceInv
  BY <1>1 DEF ResourceInv, Init, LaunchInit, ProcFacts, DirFacts, PipeFacts, TransportFacts, Early
<1>5. OwnerFacts
  BY DEF Init, LaunchInit, OwnerFacts
<1>6. IdentityFacts
  BY DEF Init, IdentityFacts
<1>7. PlaceFacts /\ DressFacts
  BY DEF Init, PlaceFacts, DressFacts, NoPage
<1> QED
  BY <1>3, <1>4, <1>5, <1>6, <1>7 DEF Inv

(* A launch begins: a fresh one becomes the next, with its client and command
   line, while no page is being opened or dressed. *)
LEMMA BeginKeeps ==
    ASSUME Inv, NEW prof \in Profiles, BeginLaunch(prof), Quiet, locale' \in Locals,
           UNCHANGED <<mitm, profile, browser, page>>
    PROVE  Inv'
<1> DEFINE l == CHOOSE k \in Launches : step[k] = "idle"
<1>1. l \in Launches /\ step[l] = "idle" /\ next = None
  BY DEF BeginLaunch
<1>2. /\ FindChrome(l) \/ LaunchFails(l)
      /\ next' = [launch |-> l, profile |-> prof]
      /\ client' = IF mitm THEN prof ELSE None
      /\ args' = [args EXCEPT ![l] = BuildArgs(LaunchConfig(prof))]
  BY DEF BeginLaunch
<1> HIDE DEF l
<1>3. /\ TypeOK /\ ResourceInv /\ OwnerFacts /\ IdentityFacts /\ PlaceFacts /\ DressFacts
      /\ LaunchTypeOK /\ TransportFacts
  BY DEF Inv, ResourceInv
<1>4. handles' = handles /\ \E to \in {"found", "failed"} : step' = [step EXCEPT ![l] = to]
  BY <1>2 DEF FindChrome, LaunchFails, Goes
<1>5. PICK to \in {"found", "failed"} : step' = [step EXCEPT ![l] = to]
  BY <1>4
<1>6. step'[l] = to /\ \A k \in Launches : k # l => step'[k] = step[k]
  BY <1>5, <1>1, <1>3 DEF LaunchTypeOK
<1>7. ResourceInv'
  BY <1>1, <1>2, <1>3, ResourceStep, ScraperAssumption DEF LaunchAction
<1>8. next' # None /\ next'.launch = l /\ next'.profile = prof
  BY <1>1, <1>2, NoneAssumption
<1>9. TypeOK'
  BY <1>1, <1>2, <1>3, <1>7 DEF TypeOK, ResourceInv
<1>10. OwnerFacts'
  BY <1>1, <1>3, <1>4, <1>6, <1>8 DEF OwnerFacts
<1>11. IdentityFacts'
  <2>1. browser # None => browser \in Launches /\ browser # l
    BY <1>1, <1>3, OwnBrowser
  <2>2. args'[l] = BuildArgs(LaunchConfig(prof)) /\ \A k \in Launches : k # l => args'[k] = args[k]
    BY <1>1, <1>2, <1>3 DEF TypeOK
  <2>3. LaunchConfig(prof)' = LaunchConfig(prof) /\ LaunchConfig(profile)' = LaunchConfig(profile)
    BY DEF LaunchConfig
  <2> QED
    BY <2>1, <2>2, <2>3, <1>2, <1>3, <1>8 DEF IdentityFacts, LaunchConfig
<1>12. PlaceFacts'
  BY <1>3, <1>4 DEF PlaceFacts, Quiet
<1>13. DressFacts'
  BY <1>3 DEF DressFacts
<1> QED
  BY <1>7, <1>9, <1>10, <1>11, <1>12, <1>13 DEF Inv

(* A step of one launch that neither scraper nor page takes part in. *)
LEMMA LaunchKeeps ==
    ASSUME Inv, UNCHANGED pageVars, NEW l \in Launches, NEW h \in Handles, LaunchAction(l, h),
           \A p \in Pages, k \in Launches : p \in handles[k] => p \in handles'[k],
           browser # None => Scraper \in handles'[browser],
           \/ step' = step
           \/ \E to \in Steps \ {"idle", "connected"} :
                 /\ step' = [step EXCEPT ![l] = to]
                 /\ to \in {"found", "profile", "piped", "mapped", "spawned", "launched"}
                       => next # None /\ next.launch = l
    PROVE  Inv'
<1>1. /\ TypeOK /\ ResourceInv /\ OwnerFacts /\ IdentityFacts /\ PlaceFacts /\ DressFacts /\ LaunchTypeOK
  BY DEF Inv, ResourceInv
<1>2. ResourceInv'
  BY <1>1, ResourceStep
<1>3. UNCHANGED <<mitm, profile, browser, next, args, client, locale, page>>
  BY DEF pageVars
<1>4. TypeOK'
  BY <1>1, <1>2, <1>3 DEF TypeOK, ResourceInv
<1>5. OwnerFacts'
  <2>1. CASE step' = step
    BY <2>1, <1>1, <1>3 DEF OwnerFacts
  <2>2. ASSUME NEW to \in Steps \ {"idle", "connected"}, step' = [step EXCEPT ![l] = to],
               to \in {"found", "profile", "piped", "mapped", "spawned", "launched"}
                  => next # None /\ next.launch = l
        PROVE  OwnerFacts'
    <3>1. step'[l] = to /\ \A k \in Launches : k # l => step'[k] = step[k]
      BY <2>2, <1>1 DEF LaunchTypeOK
    <3>2. next # None => next.launch \in Launches
      BY <1>1 DEF TypeOK
    <3> QED
      BY <3>1, <3>2, <2>2, <1>1, <1>3 DEF OwnerFacts
  <2> QED
    BY <2>1, <2>2
<1>6. IdentityFacts'
  BY <1>1, <1>3 DEF IdentityFacts, LaunchConfig
<1>7. PlaceFacts'
  BY <1>1, <1>3 DEF PlaceFacts
<1>8. DressFacts'
  BY <1>1, <1>3 DEF DressFacts
<1> QED
  BY <1>2, <1>4, <1>5, <1>6, <1>7, <1>8 DEF Inv

(* The new browser is connected: it becomes the scraper's, with its profile.
   No page is on it yet. *)
LEMMA ConnectsKeeps ==
    ASSUME Inv, Connects
    PROVE  Inv'
<1> DEFINE l == next.launch
<1>1. /\ TypeOK /\ ResourceInv /\ OwnerFacts /\ IdentityFacts /\ PlaceFacts /\ DressFacts
      /\ LaunchTypeOK /\ TransportFacts
  BY DEF Inv, ResourceInv
<1>2. /\ next # None /\ Connect(l, Scraper)
      /\ browser' = l /\ profile' = next.profile /\ next' = None
      /\ UNCHANGED <<mitm, args, client, locale, page>>
  BY DEF Connects
<1>3. l \in Launches /\ next.profile \in Profiles
  BY <1>1, <1>2 DEF TypeOK
<1> HIDE DEF l
<1>4. ResourceInv'
  BY <1>1, <1>2, <1>3, ResourceStep, ScraperAssumption DEF LaunchAction
<1>5. /\ step' = [step EXCEPT ![l] = "connected"] /\ step[l] = "launched"
      /\ handles' = [handles EXCEPT ![l] = {Scraper}]
  BY <1>2 DEF Connect, Goes
<1>6. /\ step'[l] = "connected" /\ \A k \in Launches : k # l => step'[k] = step[k] /\ handles'[k] = handles[k]
      /\ handles'[l] = {Scraper} /\ handles[l] = {}
  BY <1>1, <1>3, <1>5 DEF LaunchTypeOK, TransportFacts
<1>7. TypeOK'
  BY <1>1, <1>2, <1>3, <1>4 DEF TypeOK, ResourceInv
<1>8. OwnerFacts'
  BY <1>1, <1>2, <1>3, <1>6, NoneAssumption DEF OwnerFacts, l
<1>9. IdentityFacts'
  BY <1>1, <1>2, <1>3, NoneAssumption DEF IdentityFacts, LaunchConfig, l
<1>10. \A p \in Pages : /\ page[p].step \in {"none", "open"}
                        /\ page[p].step = "open" => page[p].on # l
  BY <1>1, <1>2, <1>6 DEF TypeOK, PageRecord, PlaceFacts
<1>11. PlaceFacts'
  BY <1>1, <1>2, <1>6, <1>10 DEF PlaceFacts
<1>12. DressFacts'
  <2>1. page' = page /\ browser' = l
    BY <1>2
  <2>2. \A p \in Pages : ~(page[p].step \notin {"none", "attaching"} /\ page[p].on = l)
    BY <1>10
  <2> QED
    BY <2>1, <2>2, Zenon DEF DressFacts
<1> QED
  BY <1>4, <1>7, <1>8, <1>9, <1>11, <1>12 DEF Inv

(* Scraper, proxy and client are dropped together. *)
LEMMA ScraperGone ==
    ASSUME Inv, LaunchReturnsError \/ DropScraper
    PROVE  Inv'
<1>1. /\ TypeOK /\ ResourceInv /\ OwnerFacts /\ IdentityFacts /\ PlaceFacts /\ DressFacts
      /\ LaunchTypeOK
  BY DEF Inv, ResourceInv
<1>2. /\ browser' = None /\ profile' = None /\ client' = None /\ next' = None /\ locale' = None
      /\ UNCHANGED <<step, held, dirs, stuck, proc, reader, handles, mitm, args, page>>
  BY DEF LaunchReturnsError, DropScraper, launchVars
<1>3. /\ next # None => step[next.launch] \in {"failed", "gone"}
      /\ \A p \in Pages : page[p].step \in {"none", "open"}
  <2>1. CASE LaunchReturnsError
    BY <2>1, <1>1 DEF LaunchReturnsError, TypeOK, PageRecord, PlaceFacts
  <2>2. CASE DropScraper
    BY <2>2 DEF DropScraper, Quiet
  <2> QED
    BY <2>1, <2>2
<1>4. TypeOK'
  BY <1>1, <1>2 DEF TypeOK, LaunchTypeOK, Locals
<1>5. ResourceInv'
  BY <1>1, <1>2 DEF ResourceInv, LaunchTypeOK, ProcFacts, DirFacts, PipeFacts, MayHold, TransportFacts
<1>6. OwnerFacts' /\ IdentityFacts'
  BY <1>1, <1>2, <1>3 DEF OwnerFacts, IdentityFacts
<1>7. PlaceFacts'
  BY <1>1, <1>2, <1>3 DEF PlaceFacts
<1>8. DressFacts'
  BY <1>1, <1>2, NoneAssumption DEF DressFacts, PlaceFacts
<1> QED
  BY <1>4, <1>5, <1>6, <1>7, <1>8 DEF Inv

-----------------------------------------------------------------------------
(* The locales. *)

(* A row of the table whose list of languages is that of its header. *)
GoodRow(r) ==
    /\ r.languages # <<>>
    /\ LanguagesFrom(r.accept) = r.languages
    /\ r.accept[1].tag = Head(r.languages)

LEMMA RowIsGood ==
    ASSUME NEW S, NEW tags \in Seq(S), tags # <<>>, NEW tz
    PROVE  GoodRow(Row(Weigh(tags), tags, tz))
<1>1. DOMAIN tags = 1..Len(tags) /\ 1 \in DOMAIN tags /\ Head(tags) = tags[1]
  OBVIOUS
<1>2. DOMAIN Weigh(tags) = DOMAIN tags /\ \A i \in DOMAIN tags : Weigh(tags)[i].tag = tags[i]
  BY DEF Weigh
<1>3. LanguagesFrom(Weigh(tags)) = [i \in DOMAIN tags |-> tags[i]]
  BY <1>2 DEF LanguagesFrom
<1>4. [i \in DOMAIN tags |-> tags[i]] = tags
  OBVIOUS
<1> QED
  BY <1>1, <1>2, <1>3, <1>4 DEF GoodRow, Row

LEMMA TwoTags ==
    ASSUME NEW a, NEW b, NEW tz
    PROVE  GoodRow(Row(Weigh(<<a, b>>), <<a, b>>, tz))
<1>1. <<a, b>> \in Seq({a, b}) /\ <<a, b>> # <<>>
  OBVIOUS
<1> QED
  BY <1>1, RowIsGood, Zenon

LEMMA ThreeTags ==
    ASSUME NEW a, NEW b, NEW d, NEW tz
    PROVE  GoodRow(Row(Weigh(<<a, b, d>>), <<a, b, d>>, tz))
<1>1. <<a, b, d>> \in Seq({a, b, d}) /\ <<a, b, d>> # <<>>
  OBVIOUS
<1> QED
  BY <1>1, RowIsGood, Zenon

LEMMA LocalesAreGood == \A c \in DOMAIN Locales : GoodRow(Locales[c])
<1>1. /\ GoodRow(Row(Weigh(<<"en-US", "en">>), <<"en-US", "en">>, "New_York"))
      /\ GoodRow(Row(Weigh(<<"en-GB", "en">>), <<"en-GB", "en">>, "London"))
      /\ GoodRow(Row(Weigh(<<"en-AU", "en">>), <<"en-AU", "en">>, "Sydney"))
  BY TwoTags, Zenon
<1>2. /\ GoodRow(Row(Weigh(<<"en-CA", "en", "fr-CA">>), <<"en-CA", "en", "fr-CA">>, "Toronto"))
      /\ GoodRow(Row(Weigh(<<"de-DE", "de", "en">>), <<"de-DE", "de", "en">>, "Berlin"))
      /\ GoodRow(Row(Weigh(<<"fr-FR", "fr", "en">>), <<"fr-FR", "fr", "en">>, "Paris"))
      /\ GoodRow(Row(Weigh(<<"es-ES", "es", "en">>), <<"es-ES", "es", "en">>, "Madrid"))
      /\ GoodRow(Row(Weigh(<<"it-IT", "it", "en">>), <<"it-IT", "it", "en">>, "Rome"))
      /\ GoodRow(Row(Weigh(<<"nl-NL", "nl", "en">>), <<"nl-NL", "nl", "en">>, "Amsterdam"))
      /\ GoodRow(Row(Weigh(<<"pl-PL", "pl", "en">>), <<"pl-PL", "pl", "en">>, "Warsaw"))
      /\ GoodRow(Row(Weigh(<<"sv-SE", "sv", "en">>), <<"sv-SE", "sv", "en">>, "Stockholm"))
      /\ GoodRow(Row(Weigh(<<"pt-BR", "pt", "en">>), <<"pt-BR", "pt", "en">>, "Sao_Paulo"))
      /\ GoodRow(Row(Weigh(<<"es-MX", "es", "en">>), <<"es-MX", "es", "en">>, "Mexico_City"))
      /\ GoodRow(Row(Weigh(<<"ja-JP", "ja", "en">>), <<"ja-JP", "ja", "en">>, "Tokyo"))
      /\ GoodRow(Row(Weigh(<<"en-IN", "en", "hi">>), <<"en-IN", "en", "hi">>, "Kolkata"))
  BY ThreeTags, Zenon
<1>3. \A e \in LocaleTable : GoodRow(e[2])
  BY <1>1, <1>2 DEF LocaleTable
<1>4. ASSUME NEW c \in DOMAIN Locales PROVE \E e \in LocaleTable : Locales[c] = e[2]
  BY DEF Locales
<1> QED
  BY <1>3, <1>4, Zenon

LEMMA LocalIsGood ==
    ASSUME NEW loc \in Locals, loc # None
    PROVE  GoodRow(loc)
<1>1. PICK c \in Countries : loc = ForCountry(c)
  BY DEF Locals
<1> QED
  BY <1>1, LocalesAreGood DEF ForCountry

-----------------------------------------------------------------------------
(* Dressing a page, call by call. *)

(* The order of the calls: what is made after each. *)
LEMMA TailsShape ==
    ASSUME NEW prof, NEW loc, NEW t \in Tails(prof, loc), t # <<>>
    PROVE  /\ Tail(t) \in Tails(prof, loc)
           /\ Tail(t) \in Seq({"script", "ua", "tz", "loc", "screen"})
           /\ Head(t) \in {"ua", "tz", "loc", "screen"}
           /\ Head(t) = "ua" => Then(Tail(t)) = IF loc = None THEN "screen" ELSE "tz"
           /\ Head(t) = "tz" => loc # None /\ Then(Tail(t)) = "loc"
           /\ Head(t) = "loc" => loc # None /\ Then(Tail(t)) = "screen"
           /\ Head(t) = "screen" => Then(Tail(t)) = "done"
<1>1. CASE loc # None
  <2>1. Tails(prof, loc) = {<<"ua", "tz", "loc", "screen">>, <<"tz", "loc", "screen">>,
                            <<"loc", "screen">>, <<"screen">>, <<>>}
    BY <1>1 DEF Tails
  <2>2. CASE t = <<"ua", "tz", "loc", "screen">>
    <3>1. Head(t) = "ua" /\ Tail(t) = <<"tz", "loc", "screen">> /\ Then(Tail(t)) = "tz"
      BY <2>2 DEF Then
    <3>2. <<"tz", "loc", "screen">> \in Seq({"script", "ua", "tz", "loc", "screen"})
      OBVIOUS
    <3>3. /\ Tail(t) \in Seq({"script", "ua", "tz", "loc", "screen"})
          /\ Tail(t) \in Tails(prof, loc)
      BY <3>1, <3>2, <2>1, Zenon
    <3> QED
      BY <3>1, <3>3, <1>1
  <2>3. CASE t = <<"tz", "loc", "screen">>
    <3>1. Head(t) = "tz" /\ Tail(t) = <<"loc", "screen">> /\ Then(Tail(t)) = "loc"
      BY <2>3 DEF Then
    <3>2. <<"loc", "screen">> \in Seq({"script", "ua", "tz", "loc", "screen"})
      OBVIOUS
    <3>3. /\ Tail(t) \in Seq({"script", "ua", "tz", "loc", "screen"})
          /\ Tail(t) \in Tails(prof, loc)
      BY <3>1, <3>2, <2>1, Zenon
    <3> QED
      BY <3>1, <3>3, <1>1
  <2>4. CASE t = <<"loc", "screen">>
    <3>1. Head(t) = "loc" /\ Tail(t) = <<"screen">> /\ Then(Tail(t)) = "screen"
      BY <2>4 DEF Then
    <3>2. <<"screen">> \in Seq({"script", "ua", "tz", "loc", "screen"})
      OBVIOUS
    <3>3. /\ Tail(t) \in Seq({"script", "ua", "tz", "loc", "screen"})
          /\ Tail(t) \in Tails(prof, loc)
      BY <3>1, <3>2, <2>1, Zenon
    <3> QED
      BY <3>1, <3>3, <1>1
  <2>5. CASE t = <<"screen">>
    <3>1. Head(t) = "screen" /\ Tail(t) = <<>> /\ Then(Tail(t)) = "done"
      BY <2>5 DEF Then
    <3>2. <<>> \in Seq({"script", "ua", "tz", "loc", "screen"})
      OBVIOUS
    <3>3. /\ Tail(t) \in Seq({"script", "ua", "tz", "loc", "screen"})
          /\ Tail(t) \in Tails(prof, loc)
      BY <3>1, <3>2, <2>1, Zenon
    <3> QED
      BY <3>1, <3>3, <1>1
  <2> QED
    BY <2>1, <2>2, <2>3, <2>4, <2>5
<1>2. CASE loc = None
  <2>1. Tails(prof, loc) = {<<"ua", "screen">>, <<"screen">>, <<>>}
    BY <1>2 DEF Tails
  <2>2. CASE t = <<"ua", "screen">>
    <3>1. Head(t) = "ua" /\ Tail(t) = <<"screen">> /\ Then(Tail(t)) = "screen"
      BY <2>2 DEF Then
    <3>2. <<"screen">> \in Seq({"script", "ua", "tz", "loc", "screen"})
      OBVIOUS
    <3>3. /\ Tail(t) \in Seq({"script", "ua", "tz", "loc", "screen"})
          /\ Tail(t) \in Tails(prof, loc)
      BY <3>1, <3>2, <2>1, Zenon
    <3> QED
      BY <3>1, <3>3, <1>2
  <2>3. CASE t = <<"screen">>
    <3>1. Head(t) = "screen" /\ Tail(t) = <<>> /\ Then(Tail(t)) = "done"
      BY <2>3 DEF Then
    <3>2. <<>> \in Seq({"script", "ua", "tz", "loc", "screen"})
      OBVIOUS
    <3>3. /\ Tail(t) \in Seq({"script", "ua", "tz", "loc", "screen"})
          /\ Tail(t) \in Tails(prof, loc)
      BY <3>1, <3>2, <2>1, Zenon
    <3> QED
      BY <3>1, <3>3, <1>2
  <2> QED
    BY <2>1, <2>2, <2>3
<1> QED
  BY <1>1, <1>2

LEMMA DressingIs ==
    ASSUME NEW prof \in Profiles, NEW loc
    PROVE  /\ Dressing(prof, loc) \in Tails(prof, loc)
           /\ Dressing(prof, loc) \in Seq({"script", "ua", "tz", "loc", "screen"})
           /\ prof.ua.chrome # 0 => Then(Dressing(prof, loc)) = "ua"
<1>1. CASE loc # None
  <2>1. Dressing(prof, loc) = <<"ua", "tz", "loc", "screen">>
    BY <1>1 DEF Dressing
  <2> QED
    BY <2>1, <1>1 DEF Tails, Then
<1>2. CASE loc = None /\ HintsFor(prof) # None
  <2>1. Dressing(prof, loc) = <<"ua", "screen">>
    BY <1>2 DEF Dressing
  <2> QED
    BY <2>1, <1>2 DEF Tails, Then
<1>3. CASE loc = None /\ HintsFor(prof) = None
  <2>1. Dressing(prof, loc) = <<>>
    BY <1>3 DEF Dressing
  <2>2. prof.ua.chrome = 0
    BY <1>3, NoneAssumption
  <2> QED
    BY <2>1, <2>2, <1>3 DEF Tails
<1> QED
  BY <1>1, <1>2, <1>3

LEMMA ScriptFirst ==
    ASSUME NEW d \in Seq({"script", "ua", "tz", "loc", "screen"})
    PROVE  /\ <<"script">> \o d \in Seq({"script", "ua", "tz", "loc", "screen"})
           /\ <<"script">> \o d # <<>>
           /\ Head(<<"script">> \o d) = "script"
           /\ Tail(<<"script">> \o d) = d
<1>1. /\ <<"script">> \o d \in Seq({"script", "ua", "tz", "loc", "screen"})
      /\ Len(<<"script">> \o d) = Len(d) + 1
      /\ (<<"script">> \o d)[1] = "script"
  OBVIOUS
<1>2. Tail(<<"script">> \o d) = d
  OBVIOUS
<1> QED
  BY <1>1, <1>2

(* One page changes, the scraper and everything else stay. *)
LEMMA PageKeeps ==
    ASSUME Inv, NEW p \in Pages, NEW np \in PageRecord,
           page' = [page EXCEPT ![p] = np], ResourceInv', OwnerFacts',
           UNCHANGED <<mitm, profile, browser, next, args, client>>, locale' \in Locals,
           \A q \in Pages, k \in Launches : q # p /\ q \in handles[k] => q \in handles'[k],
           np.step \in {"none", "open", "rotated"} => np.todo = <<>>,
           np.step # "none" => np.on \in Launches,
           np.step \in {"dressing", "open", "rotated", "redressing"} => p \in handles'[np.on],
           np.step \in {"attaching", "dressing", "rotated", "redressing"} => np.on = browser /\ next = None,
           np.step = "attaching" => Bare(np),
           np.step \notin {"none", "attaching"} /\ np.on = browser => DressedAs(profile, np)
    PROVE  Inv'
<1>1. TypeOK /\ IdentityFacts /\ PlaceFacts /\ DressFacts /\ page \in [Pages -> PageRecord]
  BY DEF Inv, TypeOK
<1>2. page'[p] = np /\ \A q \in Pages : q # p => page'[q] = page[q]
  BY <1>1
<1>3. page' \in [Pages -> PageRecord]
  BY <1>1
<1>4. \A q \in Pages : page'[q].step \in {"none", "open", "rotated"} => page'[q].todo = <<>>
  BY <1>1, <1>2 DEF TypeOK
<1>5. TypeOK'
  BY <1>1, <1>3, <1>4 DEF TypeOK, ResourceInv
<1>6. IdentityFacts'
  BY <1>1 DEF IdentityFacts, LaunchConfig
<1>7. PlaceFacts'
  <2> SUFFICES ASSUME NEW q \in Pages
               PROVE  /\ page'[q].step # "none" => page'[q].on \in Launches
                      /\ page'[q].step \in {"dressing", "open", "rotated", "redressing"}
                            => q \in handles'[page'[q].on]
                      /\ page'[q].step \in {"attaching", "dressing", "rotated", "redressing"}
                            => page'[q].on = browser' /\ next' = None
                      /\ page'[q].step = "attaching" => Bare(page'[q])
    BY DEF PlaceFacts
  <2>1. CASE q = p
    BY <2>1, <1>2
  <2>2. CASE q # p
    BY <2>2, <1>1, <1>2 DEF PlaceFacts
  <2> QED
    BY <2>1, <2>2
<1>8. DressFacts'
  <2> SUFFICES ASSUME NEW q \in Pages, page'[q].step \notin {"none", "attaching"}, page'[q].on = browser
               PROVE  DressedAs(profile, page'[q])
    BY DEF DressFacts
  <2>1. CASE q = p
    BY <2>1, <1>2
  <2>2. CASE q # p
    BY <2>2, <1>1, <1>2 DEF DressFacts
  <2> QED
    BY <2>1, <2>2
<1> QED
  BY <1>5, <1>6, <1>7, <1>8 DEF Inv

LEMMA ResourcesStay ==
    ASSUME ResourceInv, OwnerFacts, UNCHANGED <<launchVars, browser, next>>
    PROVE  ResourceInv' /\ OwnerFacts'
<1>1. UNCHANGED <<step, held, dirs, stuck, proc, reader, handles, browser, next>>
  BY DEF launchVars
<1>2. ResourceInv'
  BY <1>1 DEF ResourceInv, LaunchTypeOK, ProcFacts, DirFacts, PipeFacts, MayHold, TransportFacts
<1>3. OwnerFacts'
  BY <1>1 DEF OwnerFacts
<1> QED
  BY <1>2, <1>3

(* A page gives its handle back, and with the last one the browser goes. *)
LEMMA PageLeaves ==
    ASSUME Inv, NEW p \in Pages, NEW l \in Launches, DropHandle(l, p),
           page' = [page EXCEPT ![p] = NoPage],
           UNCHANGED <<mitm, profile, browser, next, args, client, locale>>
    PROVE  Inv'
<1>1. TypeOK /\ ResourceInv /\ OwnerFacts /\ LaunchTypeOK /\ TransportFacts /\ p \in Handles /\ p # Scraper
  BY DEF Inv, ResourceInv, Pages
<1>2. ResourceInv'
  BY <1>1, ResourceStep DEF LaunchAction
<1>3. /\ handles' = [handles EXCEPT ![l] = handles[l] \ {p}]
      /\ step' = step \/ step' = [step EXCEPT ![l] = "dropping"]
  BY DropHandleIs
<1>4. \A h, k : k \in Launches /\ h # p /\ h \in handles[k] => h \in handles'[k]
  BY <1>1, <1>3 DEF LaunchTypeOK
<1>5. \A k \in Launches : step'[k] \in {step[k], "dropping"}
  BY <1>1, <1>3 DEF LaunchTypeOK
<1>6. OwnerFacts'
  <2>1. browser # None => Scraper \in handles'[browser]
    BY <1>1, <1>4 DEF OwnerFacts, TypeOK
  <2>2. next # None => next.launch \in Launches
    BY <1>1 DEF TypeOK
  <2> QED
    BY <1>1, <1>5, <2>1, <2>2 DEF OwnerFacts
<1>7. NoPage \in PageRecord /\ NoPage.step = "none" /\ NoPage.todo = <<>>
  BY DEF NoPage, PageRecord, Locals
<1>8. locale' \in Locals
  BY <1>1 DEF TypeOK
<1> QED
  BY <1>2, <1>4, <1>6, <1>7, <1>8, PageKeeps

(* The page's own part of a step that leaves the launches alone. *)
LEMMA PageAlone ==
    ASSUME Inv, NEW p \in Pages, NEW np \in PageRecord, page' = [page EXCEPT ![p] = np],
           UNCHANGED <<launchVars, mitm, profile, browser, next, args, client>>, locale' \in Locals,
           np.step \in {"none", "open", "rotated"} => np.todo = <<>>,
           np.step # "none" => np.on \in Launches,
           np.step \in {"dressing", "open", "rotated", "redressing"} => p \in handles[np.on],
           np.step \in {"attaching", "dressing", "rotated", "redressing"} => np.on = browser /\ next = None,
           np.step = "attaching" => Bare(np),
           np.step \notin {"none", "attaching"} /\ np.on = browser => DressedAs(profile, np)
    PROVE  Inv'
<1>1. ResourceInv' /\ OwnerFacts'
  BY ResourcesStay DEF Inv
<1>2. handles' = handles
  BY DEF launchVars
<1> QED
  BY <1>1, <1>2, PageKeeps

(* What is known of the page that a step is about. *)
LEMMA PageIs ==
    ASSUME Inv, NEW p \in Pages, page[p].step # "none"
    PROVE  /\ page[p] \in PageRecord /\ page[p].on \in Launches
           /\ page[p].step \in {"dressing", "open", "rotated", "redressing"} => p \in handles[page[p].on]
           /\ page[p].step \in {"attaching", "dressing", "rotated", "redressing"} =>
                 /\ page[p].on = browser /\ browser # None /\ browser \in Launches
                 /\ next = None /\ profile \in Profiles
           /\ page[p].step # "attaching" /\ page[p].on = browser => DressedAs(profile, page[p])
<1>1. page[p] \in PageRecord /\ page[p].on \in Launches
  BY DEF Inv, TypeOK, PlaceFacts
<1>2. page[p].on # None
  BY <1>1, NoneAssumption
<1>3. page[p].on = browser => profile \in Profiles
  BY <1>2 DEF Inv, TypeOK, IdentityFacts
<1> QED
  BY <1>1, <1>2, <1>3 DEF Inv, PlaceFacts, DressFacts

(* One call of a page's dressing is made. *)
LEMMA CallApplied ==
    ASSUME NEW pg \in PageRecord, profile \in Profiles, DressedAs(profile, pg),
           pg.step \in {"dressing", "redressing"}, pg.todo # <<>>,
           NEW np, np = [Applied(pg, Head(pg.todo)) EXCEPT !.todo = Tail(pg.todo)]
    PROVE  np \in PageRecord /\ np.step = pg.step /\ np.on = pg.on /\ DressedAs(profile, np)
<1> DEFINE c == Head(pg.todo)
           made == [profile |-> profile, locale |-> pg.under]
<1>1. made \in Sources /\ made # None /\ made.profile = profile /\ made.locale = pg.under /\ pg.under \in Locals
  BY NoneAssumption DEF Sources, PageRecord
<1> HIDE DEF made
<1>2. CASE pg.step = "dressing" /\ pg.todo = <<"script">> \o Dressing(profile, pg.under)
  <2> DEFINE d == Dressing(profile, pg.under)
  <2>1. /\ d \in Tails(profile, pg.under)
        /\ d \in Seq({"script", "ua", "tz", "loc", "screen"})
        /\ profile.ua.chrome # 0 => Then(d) = "ua"
    BY DressingIs
  <2>2. c = "script" /\ Tail(pg.todo) = d
    BY <1>2, <2>1, ScriptFirst
  <2> HIDE DEF d, c
  <2>3. np = [[pg EXCEPT !.script = made] EXCEPT !.todo = d]
    BY <2>2 DEF Applied, made, c
  <2>4. /\ np \in PageRecord /\ np.step = pg.step /\ np.on = pg.on /\ np.todo = d
        /\ np.script = made /\ np.ua = pg.ua /\ np.under = pg.under /\ np.opened = pg.opened
        /\ np.located = pg.located /\ np.tz = pg.tz /\ np.loc = pg.loc
    BY <2>1, <2>3, <1>1 DEF PageRecord
  <2>5. Upcoming(np) = Then(d)
    BY <2>4 DEF Upcoming
  <2>6. profile.ua.chrome # 0 => Worn(profile, np)
    BY <2>1, <2>5 DEF Worn
  <2>7. /\ pg.opened = pg.under /\ (pg.ua # None => pg.ua.profile = profile)
        /\ ~pg.located => pg.under = None /\ pg.tz = None /\ pg.loc = None
    BY <1>2 DEF DressedAs
  <2>8. np.script = [profile |-> profile, locale |-> np.opened]
    BY <2>4, <2>7 DEF made
  <2> QED
    BY <2>1, <2>4, <2>6, <2>7, <2>8, <1>2 DEF DressedAs
<1>3. CASE pg.todo \in Tails(profile, pg.under)
           /\ pg.script = [profile |-> profile, locale |-> pg.opened]
  <2> DEFINE t == Tail(pg.todo)
  <2>1. /\ t \in Tails(profile, pg.under)
        /\ t \in Seq({"script", "ua", "tz", "loc", "screen"})
        /\ c \in {"ua", "tz", "loc", "screen"}
        /\ c = "ua" => Then(t) = IF pg.under = None THEN "screen" ELSE "tz"
        /\ c = "tz" => pg.under # None /\ Then(t) = "loc"
        /\ c = "loc" => pg.under # None /\ Then(t) = "screen"
        /\ c = "screen" => Then(t) = "done"
    BY <1>3, TailsShape
  <2>2. Upcoming(pg) = c
    BY DEF Upcoming, Then
  <2>3. np = [Applied(pg, c) EXCEPT !.todo = t]
    OBVIOUS
  <2> HIDE DEF t, c
  <2> DEFINE Same == /\ np.step = pg.step /\ np.on = pg.on /\ np.todo = t /\ np.script = pg.script
                     /\ np.under = pg.under /\ np.opened = pg.opened /\ np.torn = pg.torn
                     /\ np.located = pg.located
  <2>4. CASE c = "ua"
    <3>1. np = [[pg EXCEPT !.ua = made] EXCEPT !.todo = t]
      BY <2>3, <2>4 DEF Applied, made
    <3>2. np \in PageRecord /\ Same /\ np.ua = made /\ np.tz = pg.tz /\ np.loc = pg.loc /\ np.screen = pg.screen /\ np.located = pg.located
      BY <3>1, <2>1, <1>1 DEF PageRecord
    <3>3. Upcoming(np) = Then(t)
      BY <3>2 DEF Upcoming
    <3>4. profile.ua.chrome # 0 => Worn(profile, np)
      BY <3>2, <3>3, <2>1, <2>4 DEF Worn, made
    <3> QED
      BY <3>2, <3>4, <2>1, <1>1, <1>3 DEF DressedAs
  <2>5. CASE c = "tz"
    <3>1. np = [[pg EXCEPT !.tz = pg.under.timezone] EXCEPT !.todo = t]
      BY <2>3, <2>5 DEF Applied
    <3>2. pg.under.timezone \in {loc.timezone : loc \in Locals \ {None}}
      BY <2>1, <2>5, <1>1
    <3>3. /\ np \in PageRecord /\ Same /\ np.ua = pg.ua /\ np.tz = pg.under.timezone
          /\ np.loc = pg.loc /\ np.screen = pg.screen /\ np.located = pg.located
      BY <3>1, <3>2, <2>1, <1>1 DEF PageRecord
    <3>4. Upcoming(np) = Then(t)
      BY <3>3 DEF Upcoming
    <3>5. profile.ua.chrome # 0 => Worn(profile, np)
      BY <3>3, <3>4, <2>1, <2>2, <2>5 DEF Worn, DressedAs
    <3>6. np.located
      BY <3>3, <2>1, <2>5, Zenon DEF DressedAs
    <3> QED
      BY <3>3, <3>5, <3>6, <2>1, <1>1, <1>3 DEF DressedAs
  <2>6. CASE c = "loc"
    <3>1. np = [[pg EXCEPT !.loc = PrimaryLanguage(pg.under)] EXCEPT !.todo = t]
      BY <2>3, <2>6 DEF Applied
    <3>2. PrimaryLanguage(pg.under) \in {PrimaryLanguage(loc) : loc \in Locals \ {None}}
      BY <2>1, <2>6, <1>1
    <3>3. /\ np \in PageRecord /\ Same /\ np.ua = pg.ua /\ np.tz = pg.tz
          /\ np.loc = PrimaryLanguage(pg.under) /\ np.screen = pg.screen
      BY <3>1, <3>2, <2>1, <1>1 DEF PageRecord
    <3>4. Upcoming(np) = Then(t)
      BY <3>3 DEF Upcoming
    <3>5. profile.ua.chrome # 0 => Worn(profile, np)
      BY <3>3, <3>4, <2>1, <2>2, <2>6 DEF Worn, DressedAs
    <3>6. np.located
      BY <3>3, <2>1, <2>6, Zenon DEF DressedAs
    <3> QED
      BY <3>3, <3>5, <3>6, <2>1, <1>1, <1>3 DEF DressedAs
  <2>7. CASE c = "screen"
    <3>1. np = [[pg EXCEPT !.screen = profile.viewport] EXCEPT !.todo = t]
      BY <2>3, <2>7 DEF Applied
    <3>2. profile.viewport \in {prof.viewport : prof \in Profiles}
      OBVIOUS
    <3>3. /\ np \in PageRecord /\ Same /\ np.ua = pg.ua /\ np.tz = pg.tz
          /\ np.loc = pg.loc /\ np.screen = profile.viewport
      BY <3>1, <3>2, <2>1, <1>1 DEF PageRecord
    <3>4. Upcoming(np) = Then(t)
      BY <3>3 DEF Upcoming
    <3>5. profile.ua.chrome # 0 => Worn(profile, np)
      BY <3>3, <3>4, <2>1, <2>2, <2>7 DEF Worn, DressedAs
    <3> QED
      BY <3>3, <3>5, <2>1, <1>1, <1>3 DEF DressedAs
  <2> QED
    BY <2>1, <2>4, <2>5, <2>6, <2>7
<1> QED
  BY <1>2, <1>3 DEF DressedAs

(* Every step of a page. *)
LEMMA PageStepKeeps ==
    ASSUME Inv, NEW p \in Pages, PageStep(p)
    PROVE  Inv'
<1> DEFINE pg == page[p]
<1>0. /\ page \in [Pages -> PageRecord] /\ pg \in PageRecord /\ locale \in Locals /\ None \in Locals
      /\ <<>> \in Seq({"script", "ua", "tz", "loc", "screen"})
  BY DEF Inv, TypeOK, Locals
<1>1. CASE OpenPage(p)
  <2> DEFINE np == [NoPage EXCEPT !.step = "attaching", !.on = browser]
  <2>1. /\ browser # None /\ next = None /\ page' = [page EXCEPT ![p] = np]
        /\ UNCHANGED <<launchVars, mitm, profile, browser, next, args, client, locale>>
    BY <1>1 DEF OpenPage
  <2>2. browser \in Launches
    BY <2>1 DEF Inv, TypeOK
  <2>3. np \in PageRecord /\ np.step = "attaching" /\ np.on = browser /\ Bare(np)
    BY <2>2, <1>0 DEF NoPage, PageRecord, Bare
  <2> HIDE DEF np
  <2> QED
    BY <2>1, <2>2, <2>3, <1>0, PageAlone
<1>2. CASE Attached(p)
  <2> DEFINE np == [pg EXCEPT !.step = "dressing", !.under = locale, !.opened = locale,
                              !.located = (locale # None),
                              !.todo = <<"script">> \o Dressing(profile, locale)]
  <2>1. /\ pg.step = "attaching" /\ CloneHandle(pg.on, p)
        /\ page' = [page EXCEPT ![p] = np]
        /\ UNCHANGED <<mitm, profile, browser, next, args, client, locale>>
    BY <1>2, <1>0 DEF Attached
  <2>2. /\ pg.on = browser /\ browser # None /\ browser \in Launches /\ next = None /\ profile \in Profiles
        /\ pg.on \in Launches
    BY <2>1, PageIs
  <2>3. <<"script">> \o Dressing(profile, locale) \in Seq({"script", "ua", "tz", "loc", "screen"})
    BY <2>2, DressingIs, ScriptFirst
  <2>4. Then(<<"script">> \o Dressing(profile, locale)) = "script"
    BY <2>2, DressingIs, ScriptFirst DEF Then
  <2>5. /\ np \in PageRecord /\ np.step = "dressing" /\ np.on = pg.on /\ np.under = locale /\ np.opened = locale
        /\ np.todo = <<"script">> \o Dressing(profile, locale) /\ np.ua = pg.ua
        /\ np.located = (locale # None) /\ np.tz = pg.tz /\ np.loc = pg.loc
    BY <2>3, <1>0 DEF PageRecord
  <2> HIDE DEF np
  <2>6. pg.ua = None /\ pg.tz = None /\ pg.loc = None
    BY <2>1 DEF Inv, PlaceFacts, Bare
  <2>7. DressedAs(profile, np)
    <3>1. Upcoming(np) = "script"
      BY <2>4, <2>5 DEF Upcoming
    <3>2. Worn(profile, np)
      BY <3>1 DEF Worn
    <3> QED
      BY <2>5, <2>6, <3>2 DEF DressedAs
  <2>8. /\ ResourceInv /\ OwnerFacts /\ LaunchTypeOK /\ p \in Handles
    BY DEF Inv, ResourceInv, Pages
  <2>9. ResourceInv'
    BY <2>1, <2>2, <2>8, ResourceStep DEF LaunchAction
  <2>10. /\ handles' = [handles EXCEPT ![pg.on] = handles[pg.on] \cup {p}] /\ step' = step
    BY <2>1 DEF CloneHandle
  <2>11. /\ p \in handles'[pg.on]
         /\ \A h, k : k \in Launches /\ h \in handles[k] => h \in handles'[k]
    BY <2>2, <2>8, <2>10 DEF LaunchTypeOK
  <2>12. OwnerFacts'
    BY <2>1, <2>2, <2>8, <2>10, <2>11 DEF OwnerFacts
  <2> QED
    BY <2>1, <2>2, <2>5, <2>7, <2>9, <2>11, <2>12, <1>0, PageKeeps
<1>3. CASE Dress(p)
  <2> DEFINE np == [Applied(pg, Head(pg.todo)) EXCEPT !.todo = Tail(pg.todo)]
  <2>1. /\ pg.step \in {"dressing", "redressing"} /\ pg.todo # <<>>
        /\ page' = [page EXCEPT ![p] = np]
        /\ UNCHANGED <<launchVars, mitm, profile, browser, next, args, client, locale>>
    BY <1>3 DEF Dress
  <2>2. /\ pg.on = browser /\ next = None /\ profile \in Profiles /\ p \in handles[pg.on] /\ pg.on \in Launches
        /\ DressedAs(profile, pg)
    BY <2>1, PageIs
  <2>3. np \in PageRecord /\ np.step = pg.step /\ np.on = pg.on /\ DressedAs(profile, np)
    BY <2>1, <2>2, <1>0, CallApplied, Zenon
  <2> HIDE DEF np
  <2> QED
    BY <2>1, <2>2, <2>3, <1>0, PageAlone
<1>4. CASE Dressed(p)
  <2> DEFINE np == [pg EXCEPT !.step = "open"]
  <2>1. /\ pg.step = "dressing" /\ pg.todo = <<>> /\ page' = [page EXCEPT ![p] = np]
        /\ UNCHANGED <<launchVars, mitm, profile, browser, next, args, client, locale>>
    BY <1>4 DEF Dressed
  <2>2. /\ pg.on = browser /\ next = None /\ profile \in Profiles /\ p \in handles[pg.on] /\ pg.on \in Launches
        /\ DressedAs(profile, pg)
    BY <2>1, PageIs
  <2>3. /\ np \in PageRecord /\ np.step = "open" /\ np.on = pg.on /\ np.todo = <<>> /\ np.ua = pg.ua
        /\ np.script = pg.script /\ np.under = pg.under /\ np.opened = pg.opened /\ np.tz = pg.tz
        /\ np.loc = pg.loc /\ np.screen = pg.screen /\ np.located = pg.located
    BY <2>1, <1>0 DEF PageRecord
  <2> HIDE DEF np
  <2>4. Upcoming(pg) = "done" /\ Upcoming(np) = "done"
    BY <2>1, <2>3 DEF Upcoming, Then
  <2>5. pg.script = [profile |-> profile, locale |-> pg.opened]
    <3>1. <<"script">> \o Dressing(profile, pg.under) # <<>>
      BY <2>2, DressingIs, ScriptFirst
    <3> QED
      BY <3>1, <2>1, <2>2 DEF DressedAs
  <2>6. profile.ua.chrome # 0 => Worn(profile, pg) /\ Worn(profile, np) /\ pg.ua # None /\ pg.screen = profile.viewport
    <3> SUFFICES ASSUME profile.ua.chrome # 0
                 PROVE  Worn(profile, pg) /\ Worn(profile, np) /\ pg.ua # None /\ pg.screen = profile.viewport
      OBVIOUS
    <3>1. Worn(profile, pg)
      BY <2>1, <2>2 DEF DressedAs
    <3>2. Worn(profile, np)
      BY <3>1, <2>3, <2>4 DEF Worn
    <3>3. [profile |-> profile, locale |-> pg.under] # None
      BY <2>2, <1>0, NoneAssumption DEF Sources, PageRecord
    <3> QED
      BY <3>1, <3>2, <3>3, <2>4 DEF Worn
  <2>7. DressedAs(profile, np)
    BY <2>2, <2>3, <2>5, <2>6 DEF DressedAs
  <2> QED
    BY <2>1, <2>2, <2>3, <2>7, <1>0, PageAlone
<1>5. CASE OpenFails(p)
  <2>1. /\ page' = [page EXCEPT ![p] = NoPage]
        /\ UNCHANGED <<mitm, profile, browser, next, args, client, locale>>
        /\ pg.step \in {"attaching", "dressing"}
        /\ UNCHANGED launchVars \/ DropHandle(pg.on, p)
    BY <1>5 DEF OpenFails
  <2>2. pg.on \in Launches
    BY <2>1, PageIs
  <2>3. NoPage \in PageRecord /\ NoPage.step = "none" /\ NoPage.todo = <<>>
    BY DEF NoPage, PageRecord, Locals
  <2>4. CASE UNCHANGED launchVars
    BY <2>1, <2>3, <2>4, <1>0, PageAlone
  <2>5. CASE DropHandle(pg.on, p)
    BY <2>1, <2>2, <2>5, PageLeaves
  <2> QED
    BY <2>1, <2>4, <2>5
<1>6. CASE DropPage(p)
  <2>1. pg.step = "open" /\ DropHandle(pg.on, p) /\ page' = [page EXCEPT ![p] = NoPage]
        /\ UNCHANGED <<mitm, profile, browser, next, args, client, locale>>
    BY <1>6 DEF DropPage
  <2>2. pg.on \in Launches
    BY <2>1, PageIs
  <2> QED
    BY <2>1, <2>2, PageLeaves
<1>7. CASE RotateProxy(p)
  <2> DEFINE np == [pg EXCEPT !.step = "rotated"]
  <2>1. /\ pg.step = "open" /\ pg.on = browser /\ next = None /\ locale' \in Locals
        /\ page' = [page EXCEPT ![p] = np]
        /\ UNCHANGED <<launchVars, mitm, profile, browser, next, args, client>>
    BY <1>7 DEF RotateProxy
  <2>2. p \in handles[pg.on] /\ pg.on \in Launches /\ DressedAs(profile, pg) /\ pg.todo = <<>>
    BY <2>1, PageIs DEF Inv, TypeOK
  <2>3. /\ np \in PageRecord /\ np.step = "rotated" /\ np.on = pg.on /\ np.todo = pg.todo /\ np.ua = pg.ua
        /\ np.script = pg.script /\ np.under = pg.under /\ np.opened = pg.opened /\ np.tz = pg.tz
        /\ np.loc = pg.loc /\ np.screen = pg.screen /\ np.located = pg.located /\ np.torn = pg.torn
    BY <2>1, <1>0 DEF PageRecord
  <2> HIDE DEF np
  <2>4. Upcoming(np) = Upcoming(pg)
    BY <2>3 DEF Upcoming
  <2>5. DressedAs(profile, np)
    BY <2>1, <2>2, <2>3, <2>4 DEF DressedAs, Worn
  <2> QED
    BY <2>1, <2>2, <2>3, <2>5, PageAlone
<1>8. CASE Reapply(p)
  <2> DEFINE np == [pg EXCEPT !.step = "redressing", !.under = locale,
                              !.located = (pg.located \/ locale # None),
                              !.todo = Dressing(profile, locale)]
  <2>1. /\ pg.step = "rotated" /\ page' = [page EXCEPT ![p] = np]
        /\ UNCHANGED <<launchVars, mitm, profile, browser, next, args, client, locale>>
    BY <1>8, <1>0 DEF Reapply
  <2>2. /\ pg.on = browser /\ next = None /\ profile \in Profiles /\ p \in handles[pg.on] /\ pg.on \in Launches
        /\ DressedAs(profile, pg)
    BY <2>1, PageIs
  <2>3. /\ Dressing(profile, locale) \in Tails(profile, locale)
        /\ Dressing(profile, locale) \in Seq({"script", "ua", "tz", "loc", "screen"})
        /\ profile.ua.chrome # 0 => Then(Dressing(profile, locale)) = "ua"
    BY <2>2, DressingIs
  <2>4. /\ np \in PageRecord /\ np.step = "redressing" /\ np.on = pg.on /\ np.ua = pg.ua
        /\ np.todo = Dressing(profile, locale)
        /\ np.script = pg.script /\ np.under = locale /\ np.opened = pg.opened /\ np.screen = pg.screen
        /\ np.located = (pg.located \/ locale # None) /\ np.tz = pg.tz /\ np.loc = pg.loc
    BY <2>1, <2>3, <1>0 DEF PageRecord
  <2> HIDE DEF np
  <2>5. profile.ua.chrome # 0 => Worn(profile, np)
    <3>1. profile.ua.chrome # 0 => Upcoming(np) = "ua"
      BY <2>3, <2>4 DEF Upcoming
    <3> QED
      BY <3>1 DEF Worn
  <2>6. DressedAs(profile, np)
    BY <2>1, <2>2, <2>3, <2>4, <2>5 DEF DressedAs
  <2> QED
    BY <2>1, <2>2, <2>4, <2>6, <1>0, PageAlone
<1>9. CASE ReapplyFails(p)
  <2> DEFINE half == pg.todo # <<>>
             np == [pg EXCEPT !.step = "open", !.todo = <<>>, !.torn = half]
  <2>0. half \in BOOLEAN
    OBVIOUS
  <2>1. /\ pg.step = "redressing" /\ page' = [page EXCEPT ![p] = np]
        /\ UNCHANGED <<launchVars, mitm, profile, browser, next, args, client, locale>>
    BY <1>9, <1>0 DEF ReapplyFails
  <2> HIDE DEF half
  <2>2. /\ pg.on = browser /\ next = None /\ profile \in Profiles /\ p \in handles[pg.on] /\ pg.on \in Launches
        /\ DressedAs(profile, pg)
    BY <2>1, PageIs
  <2>3. /\ np \in PageRecord /\ np.step = "open" /\ np.on = pg.on /\ np.todo = <<>> /\ np.ua = pg.ua
        /\ np.script = pg.script /\ np.under = pg.under /\ np.opened = pg.opened /\ np.tz = pg.tz
        /\ np.loc = pg.loc /\ np.screen = pg.screen /\ np.located = pg.located /\ np.torn = half
    BY <2>0, <2>1, <1>0 DEF PageRecord
  <2> HIDE DEF np
  <2>4. ASSUME profile.ua.chrome # 0, ~np.torn PROVE Worn(profile, np)
    <3>1. pg.todo = <<>>
      BY <2>3, <2>4 DEF half
    <3>2. Upcoming(np) = Upcoming(pg)
      BY <3>1, <2>3 DEF Upcoming
    <3>3. Worn(profile, pg)
      BY <2>1, <2>2, <2>4 DEF DressedAs
    <3> QED
      BY <3>2, <3>3, <2>3 DEF Worn
  <2>5. DressedAs(profile, np)
    BY <2>1, <2>2, <2>3, <2>4 DEF DressedAs
  <2> QED
    BY <2>1, <2>2, <2>3, <2>5, <1>0, PageAlone
<1>10. CASE Reload(p)
  <2> DEFINE np == [pg EXCEPT !.step = "open", !.torn = FALSE]
  <2>1. /\ pg.step = "redressing" /\ pg.todo = <<>> /\ page' = [page EXCEPT ![p] = np]
        /\ UNCHANGED <<launchVars, mitm, profile, browser, next, args, client, locale>>
    BY <1>10, <1>0 DEF Reload, Loadable
  <2>2. /\ pg.on = browser /\ next = None /\ profile \in Profiles /\ p \in handles[pg.on] /\ pg.on \in Launches
        /\ DressedAs(profile, pg)
    BY <2>1, PageIs
  <2>3. /\ np \in PageRecord /\ np.step = "open" /\ np.on = pg.on /\ np.todo = pg.todo /\ np.ua = pg.ua
        /\ np.script = pg.script /\ np.under = pg.under /\ np.opened = pg.opened /\ np.tz = pg.tz
        /\ np.loc = pg.loc /\ np.screen = pg.screen /\ np.located = pg.located
    BY <2>1, <1>0 DEF PageRecord
  <2> HIDE DEF np
  <2>4. Upcoming(np) = Upcoming(pg)
    BY <2>3 DEF Upcoming
  <2>5. profile.ua.chrome # 0 => Worn(profile, np)
    BY <2>1, <2>2, <2>3, <2>4 DEF DressedAs, Worn
  <2>6. DressedAs(profile, np)
    BY <2>1, <2>2, <2>3, <2>5 DEF DressedAs
  <2> QED
    BY <2>1, <2>2, <2>3, <2>6, <1>0, PageAlone
<1> QED
  BY <1>1, <1>2, <1>3, <1>4, <1>5, <1>6, <1>7, <1>8, <1>9, <1>10 DEF PageStep

(* The facts of Inv hold in every reachable state: what each step of launch,
   drop, dressing and rotation may rely on. *)
THEOREM Invariance == Spec => []Inv
<1>1. ASSUME Inv, [Next]_vars PROVE Inv'
  <2>0. TypeOK /\ PlaceFacts /\ LaunchTypeOK /\ OwnerFacts /\ TransportFacts /\ Scraper \in Handles
    BY <1>1, ScraperAssumption DEF Inv, ResourceInv
  <2>1. CASE Build
    <3>1. Quiet
      BY <2>0, <2>1, PagesAreQuiet DEF Build
    <3> QED
      BY <1>1, <2>1, <3>1, BeginKeeps DEF Build
  <2>2. ASSUME NEW prof \in Profiles, RotateProfileWith(prof) PROVE Inv'
    <3>1. locale' \in Locals
      BY <2>0, <2>2 DEF RotateProfileWith, TypeOK
    <3> QED
      BY <1>1, <2>2, <3>1, BeginKeeps DEF RotateProfileWith
  <2>3. CASE LaunchesOn
    <3> DEFINE l == next.launch
    <3>1. next # None /\ step[l] # "idle" /\ LaunchStep(l) /\ UNCHANGED pageVars /\ l \in Launches
      BY <2>0, <2>3 DEF LaunchesOn, TypeOK
    <3> HIDE DEF l
    <3>2. handles' = handles
      BY <3>1, LaunchStepIs
    <3>3. PICK to \in {"found", "profile", "piped", "mapped", "spawned", "launched", "failed", "dropping"} :
             step' = [step EXCEPT ![l] = to]
      BY <3>1, LaunchStepIs
    <3>4. LaunchAction(l, Scraper)
      BY <3>1 DEF LaunchStep, LaunchAction
    <3>5. to \in Steps \ {"idle", "connected"}
      BY DEF Steps
    <3>6. browser # None => Scraper \in handles'[browser]
      BY <2>0, <3>2 DEF OwnerFacts
    <3> QED
      BY <1>1, <2>0, <3>1, <3>2, <3>3, <3>4, <3>5, <3>6, LaunchKeeps DEF l
  <2>4. CASE Connects
    BY <1>1, <2>4, ConnectsKeeps
  <2>5. CASE LaunchReturnsError \/ DropScraper
    BY <1>1, <2>5, ScraperGone
  <2>6. ASSUME NEW l \in Launches, DropsHandle(l) PROVE Inv'
    <3>1. l # browser /\ DropHandle(l, Scraper) /\ UNCHANGED pageVars
      BY <2>6 DEF DropsHandle
    <3>2. /\ handles' = [handles EXCEPT ![l] = handles[l] \ {Scraper}]
          /\ step' = step \/ step' = [step EXCEPT ![l] = "dropping"]
      BY <3>1, DropHandleIs
    <3>3. /\ \A p \in Pages, k \in Launches : p \in handles[k] => p \in handles'[k]
          /\ browser # None => Scraper \in handles'[browser]
      BY <2>0, <3>1, <3>2 DEF LaunchTypeOK, Pages, OwnerFacts, TypeOK
    <3>4. LaunchAction(l, Scraper)
      BY <3>1 DEF LaunchAction
    <3>5. "dropping" \in Steps \ {"idle", "connected"}
      BY DEF Steps
    <3> QED
      BY <1>1, <2>0, <3>1, <3>2, <3>3, <3>4, <3>5, LaunchKeeps
  <2>7. ASSUME NEW l \in Launches, System(l) \/ Exits(l) PROVE Inv'
    <3>1. UNCHANGED pageVars /\ (DropStep(l) \/ ReaderStep(l) \/ BrowserExits(l))
      BY <2>7 DEF System, Exits
    <3>2. /\ handles' = handles
          /\ step' = step \/ \E to \in {"killing", "waiting", "gone"} : step' = [step EXCEPT ![l] = to]
      BY <3>1, SystemIs
    <3>3. LaunchAction(l, Scraper)
      BY <3>1 DEF LaunchAction, DropStep, ReaderStep
    <3>4. \A to \in {"killing", "waiting", "gone"} :
             to \in Steps \ {"idle", "connected"}
                /\ to \notin {"found", "profile", "piped", "mapped", "spawned", "launched"}
      BY DEF Steps
    <3>5. browser # None => Scraper \in handles'[browser]
      BY <2>0, <3>2 DEF OwnerFacts
    <3> QED
      BY <1>1, <2>0, <3>1, <3>2, <3>3, <3>4, <3>5, LaunchKeeps
  <2>8. ASSUME NEW p \in Pages, PageStep(p) PROVE Inv'
    BY <1>1, <2>8, PageStepKeeps
  <2>9. CASE UNCHANGED vars
    <3>1. UNCHANGED <<launchVars, mitm, profile, browser, next, args, client, locale, page>>
      BY <2>9 DEF vars, pageVars
    <3>2. ResourceInv' /\ OwnerFacts'
      BY <1>1, <3>1, ResourcesStay DEF Inv
    <3>3. UNCHANGED <<step, held, dirs, stuck, proc, reader, handles>>
      BY <3>1 DEF launchVars
    <3>4. TypeOK'
      BY <2>0, <3>1, <3>2 DEF TypeOK, ResourceInv
    <3>5. IdentityFacts' /\ PlaceFacts' /\ DressFacts'
      BY <1>1, <3>1, <3>3 DEF Inv, IdentityFacts, LaunchConfig, PlaceFacts, DressFacts
    <3> QED
      BY <3>2, <3>4, <3>5 DEF Inv
  <2> QED
    BY <1>1, <2>1, <2>2, <2>3, <2>4, <2>5, <2>6, <2>7, <2>8, <2>9 DEF Next
<1> QED
  BY InitInv, <1>1, PTL DEF Spec

(* Types of scraper, launches and pages; with it, a page that waits for no call
   has none left to make. *)
THEOREM TypeCorrect == Spec => []TypeOK
<1>1. Inv => TypeOK
  BY DEF Inv
<1> QED
  BY Invariance, <1>1, PTL

(* launch.rs and the drops of LaunchedBrowser and Inner: however a launch fails
   and whichever handle goes last, no process, pipe or directory stays. *)
THEOREM LaunchesCleanUp == Spec => []NothingLeftBehind
<1>1. ASSUME Inv PROVE NothingLeftBehind
  <2> SUFFICES ASSUME NEW l \in Launches, step[l] \in {"failed", "gone"}
               PROVE  /\ proc[l] \in {"none", "reaped"}
                      /\ l \in dirs => l \in stuck
                      /\ \A h \in held : h[2] = l => h = <<"program", l, "outRead">> /\ reader[l] # "reading"
    BY DEF NothingLeftBehind
  <2>1. proc[l] \in {"none", "reaped"} /\ (l \in dirs => l \in stuck) /\ reader[l] # "reading"
    BY <1>1 DEF Inv, ResourceInv, ProcFacts, DirFacts, TransportFacts
  <2>2. ASSUME NEW h \in held, h[2] = l PROVE h = <<"program", l, "outRead">>
    <3>1. MayHold(h[1], l, h[3])
      BY <1>1, <2>2 DEF Inv, ResourceInv, PipeFacts
    <3>2. h[1] = "program" /\ h[3] = "outRead"
      BY <3>1, <2>1 DEF MayHold
    <3> QED
      BY <3>2, <2>2, <1>1, HeldType DEF Inv, ResourceInv
  <2> QED
    BY <2>1, <2>2
<1> QED
  BY Invariance, <1>1, PTL

(* A running browser has its profile directory and someone who will end it. *)
THEOREM BrowsersAreOwned == Spec => []ProfileOutlivesBrowser
<1>1. ASSUME Inv PROVE ProfileOutlivesBrowser
  <2> SUFFICES ASSUME NEW l \in Launches, proc[l] = "running"
               PROVE  /\ l \in dirs
                      /\ handles[l] # {} \/ step[l] = "dropping" \/ (next # None /\ next.launch = l)
    BY DEF ProfileOutlivesBrowser
  <2>1. step[l] \in {"spawned", "launched", "connected", "dropping"}
    BY <1>1 DEF Inv, ResourceInv, LaunchTypeOK, Steps, ProcFacts, Early
  <2> QED
    BY <1>1, <2>1 DEF Inv, ResourceInv, DirFacts, TransportFacts, OwnerFacts
<1> QED
  BY Invariance, <1>1, PTL

(* Nobody holds the write end of the pipe of a browser that has ended, so the
   transport reads end-of-file. *)
THEOREM EndsAreVisible == Spec => []EndIsVisible
<1>1. ASSUME Inv PROVE EndIsVisible
  <2> SUFFICES ASSUME NEW l \in Launches, proc[l] \in {"zombie", "reaped"}, step[l] # "spawned",
                      NEW h \in held, h[2] = l, h[3] = "outWrite"
               PROVE  FALSE
    BY DEF EndIsVisible
  <2>1. step[l] \notin Early
    BY <1>1 DEF Inv, ResourceInv, ProcFacts
  <2>2. MayHold(h[1], l, h[3])
    BY <1>1 DEF Inv, ResourceInv, PipeFacts
  <2> QED
    BY <2>1, <2>2 DEF MayHold, Early
<1> QED
  BY Invariance, <1>1, PTL

-----------------------------------------------------------------------------
(* What a document says. *)

(* The hints of a Chrome profile are those of the major it claims. *)
LEMMA ChromeHints ==
    ASSUME NEW prof \in Profiles, prof.ua.chrome # 0
    PROVE  /\ HintsFor(prof) # None
           /\ HintsFor(prof) =
                [platform |-> PlatformFor(prof.ua),
                 platformVersion |-> PlatformVersionFor(PlatformFor(prof.ua)),
                 major |-> prof.ua.chrome, full |-> FullVersionFor(prof.ua.chrome),
                 mobile |-> FALSE]
           /\ ForKind(BrowserKind(prof.ua)) = ChromeEmulation
<1>1. BrowserKind(prof.ua) = Kind("chrome", prof.ua.chrome)
  BY DEF BrowserKind
<1>2. BrowserKind(prof.ua).family = "chrome" /\ BrowserKind(prof.ua).major = prof.ua.chrome
  BY <1>1 DEF Kind
<1>3. HintsFor(prof) # None
  BY NoneAssumption
<1> QED
  BY <1>2, <1>3 DEF HintsFor, ForKind

(* Both lists of brands name the same browser, the second in full. *)
LEMMA BrandListsAgree ==
    ASSUME NEW hints, hints.full[1] = hints.major, NEW i \in DOMAIN Brands(hints)
    PROVE  LET b == Brands(hints)[i]
               full == FullVersionList(hints)[i]
           IN /\ b.brand # Grease => b.version = hints.major
              /\ full.brand = b.brand /\ full.version[1] = b.version
<1> DEFINE b == Brands(hints)[i]
<1>1. i \in 1..3
  BY DEF Brands
<1>2. FullVersionList(hints)[i] = Brand(b.brand, IF b.brand = Grease THEN <<b.version, 0>> ELSE hints.full)
  BY DEF FullVersionList
<1>3. (b.brand # Grease => b.version = hints.major) /\ (b.brand = Grease => b.version = 8)
  <2>1. CASE i = 1
    <3>1. b = Brand("Google Chrome", hints.major)
      BY <2>1 DEF Brands
    <3>2. "Google Chrome" # Grease
      BY Zenon DEF Grease
    <3>3. \A name : b = Brand(name, hints.major) => b.brand = name /\ b.version = hints.major
      BY DEF Brand
    <3> QED
      BY <3>1, <3>2, <3>3, Zenon
  <2>2. CASE i = 2
    <3>1. b = Brand(Grease, 8)
      BY <2>2 DEF Brands
    <3> QED
      BY <3>1 DEF Brand
  <2>3. CASE i = 3
    <3>1. b = Brand("Chromium", hints.major)
      BY <2>3 DEF Brands
    <3> QED
      BY <3>1 DEF Brand, Grease
  <2> QED
    BY <1>1, <2>1, <2>2, <2>3
<1>4. FullVersionList(hints)[i].brand = b.brand
  BY <1>2 DEF Brand
<1>5. FullVersionList(hints)[i].version[1] = b.version
  BY <1>2, <1>3 DEF Brand
<1> QED
  BY <1>3, <1>4, <1>5

(* A document that can be loaded on the scraper's browser under a Chrome
   profile is made of that profile and of the locale last applied. *)
LEMMA LoadableIs ==
    ASSUME Inv, NEW p \in Loadable, page[p].on = browser, next = None, Chromium(Document(p))
    PROVE  /\ profile \in Profiles /\ profile.ua.chrome # 0
           /\ args[browser] = BuildArgs(LaunchConfig(profile))
           /\ mitm => client = profile
           /\ page[p].opened \in Locals /\ page[p].under \in Locals
           /\ page[p].script = [profile |-> profile, locale |-> page[p].opened]
           /\ page[p].ua # None /\ page[p].ua.profile = profile
           /\ page[p].screen = profile.viewport
           /\ ~page[p].located => page[p].tz = None /\ page[p].loc = None
           /\ ~(page[p].torn /\ page[p].step = "open") =>
                /\ page[p].ua.locale = page[p].under
                /\ page[p].under # None => /\ page[p].tz = page[p].under.timezone
                                           /\ page[p].loc = PrimaryLanguage(page[p].under)
<1>1. /\ p \in Pages /\ page[p].step \in {"open", "redressing"}
      /\ page[p].step = "redressing" => page[p].todo = <<>>
  BY DEF Loadable
<1>2. page[p] \in PageRecord
  BY <1>1 DEF Inv, TypeOK
<1>3. browser \in Launches /\ browser # None
  <2>1. browser \in Launches
    BY <1>1 DEF Inv, PlaceFacts
  <2> QED
    BY <2>1, NoneAssumption
<1>4. /\ profile # None /\ args[browser] = BuildArgs(LaunchConfig(profile))
      /\ mitm => client = profile
  BY <1>3 DEF Inv, IdentityFacts
<1>5. profile \in Profiles
  BY <1>4 DEF Inv, TypeOK
<1>6. DressedAs(profile, page[p])
  BY <1>1 DEF Inv, DressFacts
<1>7. args[browser].ua = profile.ua
  BY <1>4 DEF BuildArgs, LaunchConfig, ForProfile
<1>8. profile.ua.chrome # 0
  <2>1. Document(p).ua = IF page[p].ua # None THEN UaOverride(page[p].ua.profile, page[p].ua.locale).ua
                         ELSE args[page[p].on].ua
    BY DEF Document
  <2>2. page[p].ua # None => UaOverride(page[p].ua.profile, page[p].ua.locale).ua = profile.ua
    BY <1>6 DEF DressedAs, UaOverride
  <2>3. Document(p).ua = profile.ua
    BY <2>1, <2>2, <1>7
  <2> QED
    BY <2>3 DEF Chromium
<1>9. page[p].todo = <<>>
  BY <1>1 DEF Inv, TypeOK
<1>10. Upcoming(page[p]) = "done"
  BY <1>9 DEF Upcoming, Then
<1>11. /\ page[p].script = [profile |-> profile, locale |-> page[p].opened]
       /\ page[p].ua # None /\ page[p].ua.profile = profile
       /\ page[p].screen = profile.viewport
       /\ ~page[p].located => page[p].tz = None /\ page[p].loc = None
  BY <1>1, <1>6, <1>8 DEF DressedAs
<1>12. ASSUME ~(page[p].torn /\ page[p].step = "open")
       PROVE  /\ page[p].ua = [profile |-> profile, locale |-> page[p].under]
              /\ page[p].under # None => /\ page[p].tz = page[p].under.timezone
                                         /\ page[p].loc = PrimaryLanguage(page[p].under)
  <2>1. Worn(profile, page[p])
    BY <1>1, <1>6, <1>8, <1>12 DEF DressedAs
  <2> QED
    BY <2>1, <1>10 DEF Worn
<1>13. page[p].opened \in Locals /\ page[p].under \in Locals
  BY <1>2 DEF PageRecord
<1> QED
  BY <1>4, <1>5, <1>8, <1>11, <1>12, <1>13

(* BrowserProfile::random: every profile it can draw claims the platform of its
   User-Agent and a language, which is all ScraperAssumption asks of profiles. *)
THEOREM DrawnProfilesAgree == \A prof \in RandomProfiles : SelfConsistent(prof)
<1> SUFFICES ASSUME NEW prof \in RandomProfiles PROVE SelfConsistent(prof)
  OBVIOUS
<1> DEFINE drawn(os, r, v) ==
             [ua |-> UserAgent(os, ChromeMajor, 0, TRUE), platform |-> Platform(os),
              vendor |-> Vendor(os), renderer |-> r, viewport |-> v,
              language |-> Weigh(<<"en-US", "en">>)]
           drawnFor(os) == {drawn(os, r, v) : r \in Renderers(os), v \in {1920, 2560, 1366, 1440}}
<1>1. 1 \in DOMAIN Weigh(<<"en-US", "en">>)
  BY DEF Weigh
<1>2. ASSUME NEW os, NEW r, NEW v PROVE SelfConsistent(drawn(os, r, v))
  BY <1>1 DEF SelfConsistent, UserAgent
<1>3. RandomProfiles = UNION {drawnFor(os) : os \in {"Windows", "Macintosh", "X11"}}
  BY DEF RandomProfiles
<1> HIDE DEF drawnFor
<1>4. PICK os : prof \in drawnFor(os)
  BY <1>3
<1> HIDE DEF drawn
<1>5. PICK r, v : prof = drawn(os, r, v)
  BY <1>4 DEF drawnFor
<1> QED
  BY <1>2, <1>5

(* The language headers and lists of a locale, or of the profile without one. *)
LEMMA LanguagesAgree ==
    ASSUME NEW prof \in Profiles, NEW loc \in Locals
    PROVE  Script(prof, Languages(prof, loc)).languages
             = LanguagesFrom(IF loc = None THEN prof.language ELSE loc.accept)
<1>1. CASE loc = None
  <2>1. 1 \in DOMAIN prof.language
    BY ScraperAssumption DEF SelfConsistent
  <2>2. LanguagesFrom(prof.language) # <<>>
    <3>1. DOMAIN LanguagesFrom(prof.language) = DOMAIN prof.language
      BY DEF LanguagesFrom
    <3>2. 1 \notin DOMAIN <<>>
      OBVIOUS
    <3> QED
      BY <2>1, <3>1, <3>2, Zenon
  <2> QED
    BY <1>1, <2>2 DEF Script, Languages
<1>2. CASE loc # None
  <2>1. GoodRow(loc)
    BY <1>2, LocalIsGood
  <2> QED
    BY <1>2, <2>1 DEF GoodRow, Script, Languages
<1> QED
  BY <1>1, <1>2

(* The document, field by field. *)
LEMMA DocumentIs ==
    ASSUME Inv, NEW p \in Loadable, page[p].on = browser, next = None, Chromium(Document(p))
    PROVE  LET d == Document(p)
               pg == page[p]
           IN /\ d.ua = profile.ua /\ d.hints = Metadata(HintsFor(profile))
              /\ d.accept = IF pg.ua.locale = None THEN profile.language ELSE pg.ua.locale.accept
              /\ d.tz = pg.tz /\ d.loc = pg.loc /\ d.screen = pg.screen
              /\ d.script = Script(profile, Languages(profile, pg.opened))
              /\ d.window = profile.viewport
              /\ mitm => /\ d.trust = "pin" /\ d.emulation = ChromeEmulation
                         /\ d.names = WireOrder(ChromeEmulation, BrowserHeaders)
<1> DEFINE d == Document(p)
           pg == page[p]
           accept == IF pg.ua.locale = None THEN profile.language ELSE pg.ua.locale.accept
<1>1. /\ profile \in Profiles /\ profile.ua.chrome # 0
      /\ args[browser] = BuildArgs(LaunchConfig(profile))
      /\ mitm => client = profile
      /\ pg.script = [profile |-> profile, locale |-> pg.opened]
      /\ pg.ua # None /\ pg.ua.profile = profile
  BY LoadableIs
<1>2. HintsFor(profile) # None /\ ForKind(BrowserKind(profile.ua)) = ChromeEmulation
  BY <1>1, ChromeHints
<1>3. UaOverride(pg.ua.profile, pg.ua.locale)
        = [ua |-> profile.ua, platform |-> profile.platform, accept |-> accept,
           metadata |-> Metadata(HintsFor(profile))]
  BY <1>1, <1>2 DEF UaOverride
<1> HIDE DEF accept
<1>4. d.ua = profile.ua /\ d.accept = accept /\ d.hints = Metadata(HintsFor(profile))
  BY <1>1, <1>3 DEF Document
<1>5. d.tz = pg.tz /\ d.loc = pg.loc /\ d.screen = pg.screen
  BY DEF Document
<1>6. d.script = Script(profile, Languages(profile, pg.opened))
  BY <1>1 DEF Document
<1>7. args[browser].window = profile.viewport /\ (mitm => args[browser].trust = "pin")
  BY <1>1 DEF BuildArgs, LaunchConfig, ForProfile
<1>8. d.window = args[browser].window /\ d.trust = args[browser].trust
  BY DEF Document
<1>9. mitm => /\ d.emulation = ForKind(BrowserKind(client.ua))
              /\ d.names = WireOrder(ForKind(BrowserKind(client.ua)), BrowserHeaders)
  BY DEF Document
<1> QED
  BY <1>1, <1>2, <1>4, <1>5, <1>6, <1>7, <1>8, <1>9 DEF accept

(* CloudScraper, whatever rotations and failures came before: a document loaded
   now on a page of the scraper's own browser describes one Chrome and the
   country the page was last dressed for.  Excused are pages dressed by halves
   in a failed rotation, the languages of a script written under another country,
   and timezone and locale after a rotation to a country without a locale. *)
THEOREM DocumentsTellOneStory == Spec => []OneStory
<1>1. ASSUME Inv PROVE OneStory
  <2> SUFFICES ASSUME NEW p \in Loadable, page[p].on = browser, next = None, Chromium(Document(p))
               PROVE  OneBrowser(Document(p)) /\ OneCountry(page[p], Document(p))
    BY DEF OneStory
  <2> DEFINE d == Document(p)
             pg == page[p]
             hints == HintsFor(profile)
  <2>1. /\ profile \in Profiles /\ profile.ua.chrome # 0
        /\ args[browser] = BuildArgs(LaunchConfig(profile))
        /\ mitm => client = profile
        /\ pg.opened \in Locals /\ pg.under \in Locals
        /\ pg.script = [profile |-> profile, locale |-> pg.opened]
        /\ pg.ua # None /\ pg.ua.profile = profile
        /\ pg.screen = profile.viewport
        /\ ~pg.located => pg.tz = None /\ pg.loc = None
        /\ ~(pg.torn /\ pg.step = "open") =>
                /\ pg.ua.locale = pg.under
                /\ pg.under # None => /\ pg.tz = pg.under.timezone
                                      /\ pg.loc = PrimaryLanguage(pg.under)
    BY <1>1, LoadableIs
  <2>2. /\ hints # None
        /\ hints = [platform |-> PlatformFor(profile.ua),
                    platformVersion |-> PlatformVersionFor(PlatformFor(profile.ua)),
                    major |-> profile.ua.chrome, full |-> FullVersionFor(profile.ua.chrome),
                    mobile |-> FALSE]
        /\ ForKind(BrowserKind(profile.ua)) = ChromeEmulation
    BY <2>1, ChromeHints
  <2> HIDE DEF hints
  <2>3. /\ d.ua = profile.ua /\ d.hints = Metadata(HintsFor(profile))
        /\ d.accept = IF pg.ua.locale = None THEN profile.language ELSE pg.ua.locale.accept
        /\ d.tz = pg.tz /\ d.loc = pg.loc /\ d.screen = pg.screen
        /\ d.script = Script(profile, Languages(profile, pg.opened))
        /\ d.window = profile.viewport
        /\ mitm => d.trust = "pin" /\ d.emulation = ChromeEmulation
    BY <1>1, DocumentIs
  <2>4. d.hints = Metadata(hints)
    BY <2>3 DEF hints
  <2> HIDE DEF d
  <2>8. OneBrowser(d)
    <3>1. d.script.ua = d.ua /\ ~d.script.webdriver /\ d.script.platform = profile.platform
      BY <2>3 DEF Script
    <3>2. d.hints # None
      BY <2>1, <2>3, <2>4, NoneAssumption DEF hints
    <3>3. ASSUME NEW i \in DOMAIN d.hints.brands
          PROVE  /\ d.hints.brands[i].brand # Grease => d.hints.brands[i].version = d.ua.chrome
                 /\ d.hints.list[i].brand = d.hints.brands[i].brand
                 /\ d.hints.list[i].version[1] = d.hints.brands[i].version
      <4>1. d.hints.brands = Brands(hints) /\ d.hints.list = FullVersionList(hints)
        BY <2>4 DEF Metadata
      <4>2. hints.full[1] = hints.major /\ hints.major = d.ua.chrome
        BY <2>2, <2>3 DEF FullVersionFor
      <4> QED
        BY <3>3, <4>1, <4>2, BrandListsAgree
    <3>4. Platform(d.ua.os) = d.script.platform
      BY <2>1, <2>3, <3>1, ScraperAssumption DEF SelfConsistent
    <3>5. PlatformFor(d.ua) = d.hints.platform
      BY <2>2, <2>3, <2>4 DEF Metadata
    <3>6. mitm => d.emulation.wire = ChromeWire /\ d.trust = "pin"
      BY <2>3 DEF ChromeEmulation
    <3>7. d.screen = d.window
      BY <2>1, <2>3
    <3> QED
      BY <3>1, <3>2, <3>3, <3>4, <3>5, <3>6, <3>7 DEF OneBrowser
  <2>9. OneCountry(pg, d)
    <3> SUFFICES ASSUME ~(pg.torn /\ pg.step = "open")
                 PROVE  /\ d.accept = IF pg.under = None THEN profile.language ELSE pg.under.accept
                        /\ pg.under # None => d.tz = pg.under.timezone /\ d.loc = d.accept[1].tag
                        /\ ~pg.located => d.tz = None /\ d.loc = None
                        /\ pg.opened = pg.under => d.script.languages = LanguagesFrom(d.accept)
      BY DEF OneCountry
    <3>1. d.accept = IF pg.under = None THEN profile.language ELSE pg.under.accept
      BY <2>1, <2>3
    <3>2. ASSUME pg.under # None
          PROVE  d.tz = pg.under.timezone /\ d.loc = d.accept[1].tag
      <4>1. GoodRow(pg.under)
        BY <2>1, <3>2, LocalIsGood
      <4>2. d.loc = Head(pg.under.languages)
        BY <2>1, <2>3, <3>2, <4>1 DEF GoodRow, PrimaryLanguage
      <4> QED
        BY <2>1, <2>3, <3>1, <3>2, <4>1, <4>2 DEF GoodRow
    <3>3. ASSUME pg.opened = pg.under PROVE d.script.languages = LanguagesFrom(d.accept)
      BY <2>1, <2>3, <3>1, <3>3, LanguagesAgree
    <3>4. ~pg.located => d.tz = None /\ d.loc = None
      BY <2>1, <2>3
    <3> QED
      BY <3>1, <3>2, <3>3, <3>4
  <2> QED
    BY <2>8, <2>9 DEF d
<1> QED
  BY Invariance, <1>1, PTL

(* The names a navigation of the browser adds to the emulation's are the ones
   HttpScraper::fetch adds. *)
LEMMA SameHeaderNames ==
    ChromeDefaultHeaders \cup BrowserHeaders
      = ChromeDefaultHeaders \cup ({"user-agent", "accept-language"}
          \cup {"sec-ch-ua", "sec-ch-ua-mobile", "sec-ch-ua-platform"})
<1>1. /\ DOMAIN ChromeHeaderNames = 1..13
      /\ ChromeHeaderNames[1] = "sec-ch-ua" /\ ChromeHeaderNames[2] = "sec-ch-ua-mobile"
      /\ ChromeHeaderNames[3] = "sec-ch-ua-platform"
      /\ ChromeHeaderNames[4] = "upgrade-insecure-requests"
      /\ ChromeHeaderNames[5] = "user-agent" /\ ChromeHeaderNames[6] = "accept"
      /\ ChromeHeaderNames[7] = "sec-fetch-site" /\ ChromeHeaderNames[8] = "sec-fetch-mode"
      /\ ChromeHeaderNames[9] = "sec-fetch-user" /\ ChromeHeaderNames[10] = "sec-fetch-dest"
      /\ ChromeHeaderNames[11] = "accept-encoding"
      /\ ChromeHeaderNames[12] = "accept-language" /\ ChromeHeaderNames[13] = "priority"
  BY DEF ChromeHeaderNames
<1>2. \A n \in BrowserHeaders :
         n \in ChromeDefaultHeaders \cup {"user-agent", "accept-language"}
                \cup {"sec-ch-ua", "sec-ch-ua-mobile", "sec-ch-ua-platform"}
  <2> SUFFICES ASSUME NEW i \in 1..13, ChromeHeaderNames[i] # "priority"
               PROVE  ChromeHeaderNames[i] \in ChromeDefaultHeaders \cup {"user-agent", "accept-language"}
                         \cup {"sec-ch-ua", "sec-ch-ua-mobile", "sec-ch-ua-platform"}
    BY <1>1 DEF BrowserHeaders, Range
  <2>1. i \in {1, 2, 3, 4, 5, 6, 7, 8, 9, 10, 11, 12, 13}
    OBVIOUS
  <2> QED
    BY <1>1, <2>1 DEF ChromeDefaultHeaders
<1>3. {"user-agent", "accept-language", "sec-ch-ua", "sec-ch-ua-mobile", "sec-ch-ua-platform"}
        \subseteq BrowserHeaders
  <2>1. /\ ChromeHeaderNames[1] \in Range(ChromeHeaderNames)
        /\ ChromeHeaderNames[2] \in Range(ChromeHeaderNames)
        /\ ChromeHeaderNames[3] \in Range(ChromeHeaderNames)
        /\ ChromeHeaderNames[5] \in Range(ChromeHeaderNames)
        /\ ChromeHeaderNames[12] \in Range(ChromeHeaderNames)
    BY <1>1 DEF Range
  <2> QED
    BY <1>1, <2>1 DEF BrowserHeaders
<1> QED
  BY <1>2, <1>3

(* A session that leaves the browser for plain HTTP (HttpScraper) sends the
   headers, in the order, and shows the fingerprint of a document of the
   browser it left. *)
THEOREM BothLegsTellOneStory == Spec => []LegsTellOneStory
<1>1. ASSUME Inv PROVE LegsTellOneStory
  <2> DEFINE r == HttpRequest(profile, None)
  <2> SUFFICES ASSUME NEW p \in Loadable, page[p].on = browser, next = None,
                      Chromium(Document(p)), mitm, page[p].under = None, ~page[p].torn
               PROVE  LET d == Document(p)
                      IN /\ r.ua = d.ua /\ r.accept = d.accept /\ r.emulation = d.emulation
                         /\ r.names = d.names
                         /\ Brands(r.hints) = d.hints.brands /\ r.hints.platform = d.hints.platform
    BY DEF LegsTellOneStory
  <2> DEFINE d == Document(p)
             added == {"user-agent", "accept-language"}
                        \cup {"sec-ch-ua", "sec-ch-ua-mobile", "sec-ch-ua-platform"}
  <2>1. profile \in Profiles /\ profile.ua.chrome # 0 /\ page[p].ua.locale = None
    BY <1>1, LoadableIs
  <2>2. /\ d.ua = profile.ua /\ d.hints = Metadata(HintsFor(profile))
        /\ d.accept = profile.language /\ d.emulation = ChromeEmulation
        /\ d.names = WireOrder(ChromeEmulation, BrowserHeaders)
    BY <1>1, <2>1, DocumentIs
  <2>3. HintsFor(profile) # None /\ ForKind(BrowserKind(profile.ua)) = ChromeEmulation
    BY <2>1, ChromeHints
  <2>4. /\ r.ua = profile.ua /\ r.accept = profile.language /\ r.emulation = ChromeEmulation
        /\ r.hints = HintsFor(profile) /\ r.names = WireOrder(ChromeEmulation, added)
    BY <2>3 DEF HttpRequest
  <2>5. WireOrder(ChromeEmulation, added) = WireOrder(ChromeEmulation, BrowserHeaders)
    <3>1. ChromeEmulation.headers = ChromeDefaultHeaders
      BY DEF ChromeEmulation
    <3> QED
      BY <3>1, SameHeaderNames, Zenon DEF WireOrder
  <2>6. Brands(r.hints) = d.hints.brands /\ r.hints.platform = d.hints.platform
    BY <2>2, <2>4 DEF Metadata
  <2> QED
    BY <2>2, <2>4, <2>5, <2>6
<1> QED
  BY Invariance, <1>1, PTL

-----------------------------------------------------------------------------
(* Clicks. *)

(* Whether the element lies between the margins of a viewport scrolled to s. *)
Fits(s) == Box.top - s >= Margin /\ Box.top - s + Box.height <= ViewHeight - Margin

(* Where the page will be when all that was asked of the wheel has been done. *)
Resting == scrollY + momentum + rest

(* While the wheel turns and until the page has come to rest, what is done and
   what is still to do add up to a place where the element fits; nothing of it
   goes the other way, so no end of the document is met on the way. *)
OnTheWay ==
    pc \in {"wheel", "settle"} /\ ~excused =>
        /\ Box # Nothing
        /\ pc = "settle" => rest = 0
        /\ \/ momentum >= 0 /\ rest >= 0
           \/ momentum <= 0 /\ rest <= 0
        /\ Resting \in 0..PageEnd
        /\ Fits(Resting)

(* A page that still moves has left the place it was last sampled at as soon as
   it drew a frame. *)
SamplesDiffer ==
    pc = "settle" /\ ~excused /\ sample # Nothing =>
        /\ momentum > 0 => sample <= scrollY /\ (framed => sample < scrollY)
        /\ momentum < 0 => sample >= scrollY /\ (framed => sample > scrollY)

InView ==
    pc \in {"measure", "travel", "drift", "point", "press"} /\ ~excused =>
        Box # Nothing /\ momentum = 0 /\ Fits(scrollY)

(* The end of the path is the aim; from there the pointer only trembles. *)
Aimed ==
    /\ pc \in {"travel", "drift", "point", "press"} =>
          aim \in Int /\ (~excused => aim = Center)
    /\ pc = "travel" /\ moves = PathPoints => pointer = aim
    /\ pc \in {"drift", "point"} => pointer \in (aim - Drift)..(aim + Drift)
    /\ pc = "press" => pointer = aim

InputInv == InputTypeOK /\ OnTheWay /\ SamplesDiffer /\ InView /\ Aimed

(* Facts about the helpers of scroll_increments, in plain arithmetic. *)
LEMMA AtMostIs ==
    ASSUME NEW r \in Int, NEW n \in Nat
    PROVE  /\ AtMost(r, n) \in Int
           /\ AtMost(r, n) \in -n..n
           /\ Abs(r) <= n => AtMost(r, n) = r
           /\ r >= 0 => AtMost(r, n) >= 0 /\ AtMost(r, n) <= r
           /\ r <= 0 => AtMost(r, n) <= 0 /\ AtMost(r, n) >= r
BY DEF AtMost, Abs, Sign

LEMMA BoxType ==
    ASSUME InputTypeOK
    PROVE  /\ Box \in Boxes \cup {Nothing}
           /\ Box # Nothing => Box.top \in Nat /\ Box.height \in Nat /\ Box.height > 0
BY InputAssumption DEF InputTypeOK, Box

(* scroll_distance_to is zero exactly where the element fits, and otherwise
   leads to a place where it does, if the viewport is tall enough for it. *)
LEMMA DistanceFits ==
    ASSUME InputTypeOK, Box # Nothing
    PROVE  /\ ScrollDistance \in Int
           /\ ScrollDistance = 0 => Fits(scrollY)
           /\ Box.height <= ViewHeight - 2 * Margin => Fits(scrollY + ScrollDistance)
<1> DEFINE t == Box.top
           h == Box.height
<1>1. t \in Int /\ h \in Int /\ scrollY \in Int /\ ViewHeight \in Int /\ Margin \in Int
  BY BoxType, InputAssumption DEF InputTypeOK
<1>2. Top = t - scrollY /\ Bottom = t - scrollY + h
  BY DEF Top, Bottom
<1> HIDE DEF t, h
<1>3. Top \in Int /\ Bottom \in Int
  BY <1>1, <1>2
<1>4. ScrollDistance = IF Top < Margin THEN Top - Margin
                       ELSE IF Bottom > ViewHeight - Margin THEN Bottom - ViewHeight + Margin
                       ELSE 0
  BY <1>1, <1>3 DEF ScrollDistance
<1>5. \A s : Fits(s) <=> t - s >= Margin /\ t - s + h <= ViewHeight - Margin
  BY DEF Fits, t, h
<1> QED
  BY <1>1, <1>2, <1>3, <1>4, <1>5 DEF h

LEMMA InputInitInv ==
    ASSUME InputInit
    PROVE  InputInv
<1>1. InputTypeOK
  <2>1. 1 \in Elements
    BY InputAssumption DEF Elements
  <2>2. 0 \in -MaxScroll..MaxScroll /\ 0 \in 0..(PathPoints + DriftMoves) /\ 0 \in 0..MaxShifts
        /\ 0 \in 0..PageEnd /\ PageEnd \in 0..PageEnd
    BY InputAssumption
  <2>3. rest = 0 /\ moves = 0 /\ shifts = 0 /\ momentum = 0 /\ pointer = 0 /\ scrollY \in {0, PageEnd}
    BY DEF InputInit
  <2>4. /\ rest \in -MaxScroll..MaxScroll /\ moves \in 0..(PathPoints + DriftMoves)
        /\ shifts \in 0..MaxShifts /\ scrollY \in 0..PageEnd /\ momentum \in Int /\ pointer \in Int
    BY <2>2, <2>3
  <2> QED
    BY <2>1, <2>4 DEF InputInit, InputTypeOK
<1> QED
  BY <1>1 DEF InputInit, InputInv, OnTheWay, SamplesDiffer, InView, Aimed

(* Of a step of the solver that touches neither page nor excuse, and of which
   the next point asks nothing that this one did not have. *)
LEMMA SolverMoves ==
    ASSUME InputInv, InputTypeOK', UNCHANGED <<tried, dom, scrollY, momentum, excused>>,
           pc' \notin {"wheel", "settle", "measure"},
           pc' \in {"travel", "drift", "point", "press"} =>
              /\ pc \in {"travel", "drift", "point", "press"} /\ aim' = aim,
           pc' = "travel" /\ moves' = PathPoints => pointer' = aim',
           pc' \in {"drift", "point"} => pointer' \in (aim' - Drift)..(aim' + Drift),
           pc' = "press" => pointer' = aim'
    PROVE  InputInv'
<1>1. OnTheWay' /\ SamplesDiffer'
  BY DEF OnTheWay, SamplesDiffer
<1>2. Box' = Box
  BY DEF Box
<1>3. InView'
  BY <1>2 DEF InputInv, InView, Fits
<1>4. Aimed'
  BY <1>2 DEF InputInv, Aimed, Center, Top
<1> QED
  BY <1>1, <1>3, <1>4 DEF InputInv

LEMMA InputStep ==
    ASSUME InputInv, [InputNext]_inputVars
    PROVE  InputInv'
<1> USE InputAssumption
<1>0. /\ InputTypeOK /\ rest \in Int /\ momentum \in Int /\ scrollY \in Int /\ PageEnd \in Nat
      /\ MaxScroll \in Nat
  BY DEF InputInv, InputTypeOK
<1>1. CASE Appears
  <2>1. InputTypeOK'
    BY <1>1, <1>0 DEF Appears, InputTypeOK, Goto, world
  <2> QED
    BY <1>1, <2>1, SolverMoves DEF Appears, Goto, world
<1>2. ASSUME NextSelector PROVE InputInv'
  <2>1. InputTypeOK'
    BY <1>2, <1>0 DEF NextSelector, InputTypeOK, Goto, world, Elements
  <2>2. pc' \in {"wait", "absent"}
    BY <1>2 DEF NextSelector, Goto
  <2> QED
    BY <2>1, <2>2 DEF InputInv, OnTheWay, SamplesDiffer, InView, Aimed
<1>3. CASE WaitExpires \/ Unpositioned
  BY <1>2, <1>3 DEF WaitExpires, Unpositioned
<1>4. CASE Measures
  <2> DEFINE D == ScrollDistance
  <2>1. /\ Box # Nothing /\ D \in Int
        /\ D = 0 => Fits(scrollY)
        /\ Box.height <= ViewHeight - 2 * Margin => Fits(scrollY + D)
    BY <1>4, <1>0, DistanceFits DEF Measures
  <2>2. /\ rest' = AtMost(D, MaxScroll) /\ pc' = IF D = 0 THEN "measure" ELSE "wheel"
        /\ excused' = (momentum # 0 \/ (D # 0 /\ OutOfReach(D)))
        /\ UNCHANGED <<tried, sample, aim, moves, pointer, button, dom, scrollY, momentum, framed, shifts>>
    BY <1>4, Zenon DEF Measures, Goto, world
  <2>3. Box' = Box
    BY <2>2 DEF Box
  <2> HIDE DEF D
  <2>4. rest' \in -MaxScroll..MaxScroll /\ rest' \in Int
    <3>1. AtMost(D, MaxScroll) \in -MaxScroll..MaxScroll /\ AtMost(D, MaxScroll) \in Int
      BY <2>1, <1>0, AtMostIs
    <3> QED
      BY <2>2, <3>1
  <2>5. InputTypeOK'
    BY <2>2, <2>4, <1>0 DEF InputTypeOK
  <2>6. ~excused' /\ D # 0 => /\ rest' = D /\ momentum = 0 /\ scrollY + D \in 0..PageEnd
                              /\ Box.height <= ViewHeight - 2 * Margin
    <3> SUFFICES ASSUME ~excused', D # 0
                 PROVE  /\ rest' = D /\ momentum = 0 /\ scrollY + D \in 0..PageEnd
                        /\ Box.height <= ViewHeight - 2 * Margin
      OBVIOUS
    <3>1. momentum = 0 /\ ~OutOfReach(D)
      BY <2>2
    <3>2. ~(Abs(D) > MaxScroll) /\ scrollY + D \in 0..PageEnd /\ ~(Box.height > ViewHeight - 2 * Margin)
      BY <3>1, Zenon DEF OutOfReach
    <3>3. Abs(D) \in Int /\ Box.height \in Int
      BY <2>1, <1>0, BoxType DEF Abs
    <3> QED
      <4>1. Abs(D) <= MaxScroll => AtMost(D, MaxScroll) = D
        BY <2>1, <1>0, AtMostIs
      <4>2. Abs(D) <= MaxScroll
        BY <3>2, <3>3, <1>0
      <4>3. Box.height <= ViewHeight - 2 * Margin
        BY <3>2, <3>3
      <4> QED
        BY <3>1, <3>2, <4>1, <4>2, <4>3, <2>2
  <2>7. OnTheWay'
    <3> SUFFICES ASSUME ~excused', D # 0 PROVE OnTheWay'
      BY <2>2 DEF OnTheWay
    <3>1. Resting' = scrollY + D /\ momentum' = 0 /\ pc' = "wheel" /\ rest' \in Int
      BY <2>1, <2>2, <2>4, <2>6, <1>0 DEF Resting
    <3>2. Fits(scrollY + D)'
      BY <2>1, <2>3, <2>6, <2>2 DEF Fits, D, ScrollDistance, Top, Bottom
    <3>3. Fits(Resting)'
      BY <2>1, <2>3, <2>6, <3>1 DEF Fits
    <3> QED
      BY <3>1, <3>3, <2>1, <2>3, <2>6 DEF OnTheWay
  <2>8. InView'
    BY <2>1, <2>2, <2>3 DEF InView, Fits
  <2>9. SamplesDiffer' /\ Aimed'
    BY <2>2 DEF SamplesDiffer, Aimed
  <2> QED
    BY <2>5, <2>7, <2>8, <2>9 DEF InputInv
<1>5. CASE Wheel
  <2>1. PICK n \in Notches : /\ momentum' = momentum + AtMost(rest, n)
                             /\ rest' = IF Abs(rest) <= n THEN 0 ELSE rest - AtMost(rest, n)
    BY <1>5 DEF Wheel, Notch
  <2>2. /\ pc = "wheel"
        /\ UNCHANGED <<pc, tried, sample, aim, moves, pointer, button, dom, scrollY, shifts, excused>>
        /\ framed' = FALSE
    BY <1>5 DEF Wheel
  <2> DEFINE N == AtMost(rest, n)
  <2>3. /\ N \in Int /\ (Abs(rest) <= n => N = rest)
        /\ rest >= 0 => N >= 0 /\ N <= rest
        /\ rest <= 0 => N <= 0 /\ N >= rest
    BY <1>0, AtMostIs
  <2> HIDE DEF N
  <2>4. momentum' = momentum + N /\ rest' = rest - N /\ momentum' \in Int /\ rest' \in Int
    BY <2>1, <2>3, <1>0 DEF N
  <2>5. rest' \in -MaxScroll..MaxScroll
    BY <2>3, <2>4, <1>0 DEF InputTypeOK
  <2>6. InputTypeOK'
    BY <2>2, <2>4, <2>5, <1>0 DEF InputTypeOK
  <2>7. Resting' = Resting /\ Box' = Box
    BY <2>2, <2>4, <2>3, <1>0 DEF Resting, Box
  <2>8. OnTheWay'
    <3> SUFFICES ASSUME ~excused PROVE OnTheWay'
      BY <2>2 DEF OnTheWay
    <3>1. /\ Box # Nothing /\ Resting \in 0..PageEnd /\ Fits(Resting)
          /\ (momentum >= 0 /\ rest >= 0) \/ (momentum <= 0 /\ rest <= 0)
      BY <2>2 DEF InputInv, OnTheWay
    <3>2. (momentum' >= 0 /\ rest' >= 0) \/ (momentum' <= 0 /\ rest' <= 0)
      BY <3>1, <2>3, <2>4, <1>0
    <3>3. Fits(Resting)'
      BY <3>1, <2>7 DEF Fits
    <3> QED
      BY <3>1, <3>2, <3>3, <2>7, <2>2 DEF OnTheWay
  <2>9. SamplesDiffer' /\ InView' /\ Aimed'
    BY <2>2 DEF SamplesDiffer, InView, Aimed
  <2> QED
    BY <2>6, <2>8, <2>9 DEF InputInv
<1>6. CASE WheelDone
  <2>1. /\ pc = "wheel" /\ rest = 0 /\ pc' = "settle" /\ sample' = Nothing
        /\ UNCHANGED <<tried, rest, aim, moves, pointer, button, dom, scrollY, momentum, framed, shifts, excused>>
    BY <1>6 DEF WheelDone, Goto, world
  <2>2. InputTypeOK'
    BY <2>1, <1>0 DEF InputTypeOK
  <2>3. OnTheWay'
    BY <2>1 DEF InputInv, OnTheWay, Resting, Fits, Box
  <2>4. SamplesDiffer' /\ InView' /\ Aimed'
    BY <2>1 DEF SamplesDiffer, InView, Aimed
  <2> QED
    BY <2>2, <2>3, <2>4 DEF InputInv
<1>7. CASE Sample
  <2>1. /\ pc = "settle" /\ pc' = IF sample = scrollY THEN "measure" ELSE "settle"
        /\ sample' = scrollY /\ framed' = FALSE
        /\ excused' = (excused \/ (~framed /\ sample # Nothing /\ momentum # 0))
        /\ UNCHANGED <<tried, rest, aim, moves, pointer, button, dom, scrollY, momentum, shifts>>
    BY <1>7 DEF Sample, Settled, Goto
  <2>2. InputTypeOK'
    BY <2>1, <1>0 DEF InputTypeOK
  <2>3. Box' = Box /\ Resting' = Resting
    BY <2>1 DEF Box, Resting
  <2>4. OnTheWay'
    BY <2>1, <2>3 DEF InputInv, OnTheWay, Fits
  <2>5. SamplesDiffer'
    BY <2>1, <1>0 DEF SamplesDiffer
  <2>6. InView'
    <3> SUFFICES ASSUME sample = scrollY, ~excused' PROVE InView'
      BY <2>1 DEF InView
    <3>1. sample # Nothing /\ ~excused /\ (framed \/ momentum = 0)
      BY <2>1, <1>0
    <3>2. momentum = 0
      BY <3>1, <2>1, <1>0 DEF InputInv, SamplesDiffer
    <3>3. Box # Nothing /\ Fits(Resting) /\ rest = 0
      BY <3>1, <2>1 DEF InputInv, OnTheWay
    <3>4. Resting = scrollY
      BY <3>2, <3>3, <1>0 DEF Resting
    <3> QED
      BY <3>2, <3>3, <3>4, <2>1, <2>3 DEF InView, Fits
  <2>7. Aimed'
    BY <2>1 DEF Aimed
  <2> QED
    BY <2>2, <2>4, <2>5, <2>6, <2>7 DEF InputInv
<1>8. CASE SettleExpires
  <2>1. /\ pc = "settle" /\ pc' = "measure" /\ excused' = (excused \/ momentum # 0)
        /\ UNCHANGED <<tried, rest, sample, aim, moves, pointer, button, dom, scrollY, momentum, framed, shifts>>
    BY <1>8 DEF SettleExpires, Goto, world
  <2>2. InputTypeOK'
    BY <2>1, <1>0 DEF InputTypeOK
  <2>3. InView'
    <3> SUFFICES ASSUME ~excused' PROVE InView'
      BY DEF InView
    <3>1. Box # Nothing /\ Fits(Resting) /\ rest = 0 /\ momentum = 0
      BY <2>1 DEF InputInv, OnTheWay
    <3>2. Resting = scrollY
      BY <3>1, <1>0 DEF Resting
    <3> QED
      BY <3>1, <3>2, <2>1 DEF InView, Fits, Box
  <2>4. OnTheWay' /\ SamplesDiffer' /\ Aimed'
    BY <2>1 DEF OnTheWay, SamplesDiffer, Aimed
  <2> QED
    BY <2>2, <2>3, <2>4 DEF InputInv
<1>9. CASE FindsCenter
  <2>1. /\ pc = "measure" /\ Box # Nothing /\ aim' = Center /\ moves' = 0 /\ pc' = "travel"
        /\ UNCHANGED <<tried, rest, sample, pointer, button, dom, scrollY, momentum, framed, shifts, excused>>
    BY <1>9 DEF FindsCenter, Goto, world
  <2>2. Center \in Int
    BY <2>1, <1>0, BoxType DEF Center, Top
  <2>3. InputTypeOK'
    BY <2>1, <2>2, <1>0 DEF InputTypeOK
  <2>4. Box' = Box /\ Center' = Center
    BY <2>1 DEF Box, Center, Top
  <2>5. InView'
    BY <2>1, <2>2, <2>4 DEF InputInv, InView, Fits
  <2>7. Aimed'
    BY <2>1, <2>2, <2>4 DEF Aimed
  <2>6. OnTheWay' /\ SamplesDiffer'
    BY <2>1 DEF OnTheWay, SamplesDiffer
  <2> QED
    BY <2>3, <2>5, <2>6, <2>7 DEF InputInv
<1>10. CASE Travel \/ Drifts
  <2>1. /\ pc \in {"travel", "drift"} /\ aim \in Int
        /\ UNCHANGED <<pc, tried, rest, sample, aim, button, dom, scrollY, momentum, framed, shifts, excused>>
    BY <1>10 DEF Travel, Drifts, world, InputInv, Aimed
  <2>2. pointer' \in Int /\ moves' \in 0..(PathPoints + DriftMoves)
    <3>1. CASE Travel
      <4>1. PathPoint(moves) \subseteq Int
        BY <2>1 DEF PathPoint
      <4> QED
        BY <3>1, <4>1, <1>0 DEF Travel, InputTypeOK
    <3>2. CASE Drifts
      BY <3>2, <2>1, <1>0 DEF Drifts, InputTypeOK
    <3> QED
      BY <1>10, <3>1, <3>2
  <2>3. InputTypeOK'
    BY <2>1, <2>2, <1>0 DEF InputTypeOK
  <2>4. pc' = "travel" /\ moves' = PathPoints => pointer' = aim'
    <3> SUFFICES ASSUME pc' = "travel", moves' = PathPoints PROVE pointer' = aim'
      OBVIOUS
    <3>1. Travel
      BY <1>10, <2>1 DEF Drifts
    <3>2. moves = PathPoints - 1
      BY <3>1, <1>0 DEF Travel, InputTypeOK
    <3> QED
      BY <3>1, <3>2, <2>1 DEF Travel, PathPoint
  <2>5. pc' \in {"drift", "point"} => pointer' \in (aim' - Drift)..(aim' + Drift)
    BY <1>10, <2>1 DEF Travel, Drifts
  <2> QED
    BY <2>1, <2>3, <2>4, <2>5, SolverMoves
<1>11. CASE Arrives \/ Holds
  <2>1. /\ pc \in {"travel", "drift"} /\ pc' \in {"drift", "point"} /\ moves' \in {0, moves}
        /\ UNCHANGED <<tried, rest, sample, aim, pointer, button, dom, scrollY, momentum, framed, shifts, excused>>
    BY <1>11 DEF Arrives, Holds, Goto, world
  <2>2. InputTypeOK'
    BY <2>1, <1>0 DEF InputTypeOK
  <2>3. aim \in Int
    BY <2>1 DEF InputInv, Aimed
  <2>4. pointer \in (aim - Drift)..(aim + Drift)
    <3>1. CASE Arrives
      BY <3>1, <2>3 DEF Arrives, InputInv, Aimed
    <3>2. CASE Holds
      BY <3>2 DEF Holds, InputInv, Aimed
    <3> QED
      BY <1>11, <3>1, <3>2
  <2> QED
    BY <2>1, <2>2, <2>4, SolverMoves
<1>12. CASE Points
  <2>1. /\ pc = "point" /\ pc' = "press" /\ pointer' = aim /\ aim \in Int
        /\ UNCHANGED <<tried, rest, sample, aim, moves, button, dom, scrollY, momentum, framed, shifts, excused>>
    BY <1>12 DEF Points, Goto, world, InputInv, Aimed
  <2>2. InputTypeOK'
    BY <2>1, <1>0 DEF InputTypeOK
  <2> QED
    BY <2>1, <2>2, SolverMoves
<1>13. CASE Press \/ Release \/ Resolves \/ CallFails
  <2>1. /\ pc' \in {"release", "resolve", "ok", "error"} /\ button' \in {"up", "down", button}
        /\ UNCHANGED <<tried, rest, sample, aim, moves, pointer, dom, scrollY, momentum, framed, shifts, excused>>
    BY <1>13 DEF Press, Release, Resolves, CallFails, Goto, world
  <2>2. InputTypeOK'
    BY <2>1, <1>0 DEF InputTypeOK
  <2> QED
    BY <2>1, <2>2, SolverMoves
<1>14. CASE Frame
  <2>1. PICK d \in {1, Abs(momentum)} :
           LET to == scrollY + Sign(momentum) * d
           IN IF to \in 0..PageEnd
              THEN scrollY' = to /\ momentum' = momentum - Sign(momentum) * d
              ELSE UNCHANGED scrollY /\ momentum' = 0
    BY <1>14 DEF Frame
  <2>2. /\ momentum # 0 /\ framed' = TRUE
        /\ UNCHANGED <<pc, tried, rest, sample, aim, moves, pointer, button, dom, shifts, excused>>
    BY <1>14 DEF Frame, solver
  <2> DEFINE m == Sign(momentum) * d
  <2>3. /\ m \in Int
        /\ momentum > 0 => m >= 1 /\ m <= momentum
        /\ momentum < 0 => m <= -1 /\ m >= momentum
    BY <2>2, <1>0 DEF Sign, Abs
  <2> HIDE DEF m
  <2>4. IF scrollY + m \in 0..PageEnd
        THEN scrollY' = scrollY + m /\ momentum' = momentum - m
        ELSE scrollY' = scrollY /\ momentum' = 0
    BY <2>1 DEF m
  <2>5. scrollY' \in 0..PageEnd /\ momentum' \in Int
    BY <2>3, <2>4, <1>0 DEF InputTypeOK
  <2>6. InputTypeOK'
    BY <2>2, <2>5, <1>0 DEF InputTypeOK
  <2>7. Box' = Box
    BY <2>2 DEF Box
  <2>8. ASSUME pc \in {"wheel", "settle"}, ~excused
        PROVE  /\ scrollY' = scrollY + m /\ momentum' = momentum - m /\ Resting' = Resting
               /\ Box # Nothing /\ Resting \in 0..PageEnd /\ Fits(Resting) /\ (pc = "settle" => rest = 0)
               /\ (momentum >= 0 /\ rest >= 0) \/ (momentum <= 0 /\ rest <= 0)
    <3>1. /\ Box # Nothing /\ Resting \in 0..PageEnd /\ Fits(Resting) /\ (pc = "settle" => rest = 0)
          /\ (momentum >= 0 /\ rest >= 0) \/ (momentum <= 0 /\ rest <= 0)
      BY <2>8 DEF InputInv, OnTheWay
    <3>2. scrollY + momentum + rest \in 0..PageEnd
      BY <3>1 DEF Resting
    <3>3. scrollY + m \in 0..PageEnd
      <4>1. scrollY >= 0 /\ scrollY <= PageEnd /\ m \in Int
        BY <2>3, <1>0 DEF InputTypeOK
      <4>2. CASE momentum > 0
        BY <4>1, <4>2, <3>1, <3>2, <2>3, <1>0
      <4>3. CASE momentum < 0
        BY <4>1, <4>3, <3>1, <3>2, <2>3, <1>0
      <4> QED
        BY <4>2, <4>3, <2>2, <1>0
    <3>4. Resting' = Resting
      BY <3>3, <2>3, <2>4, <2>2, <1>0 DEF Resting
    <3> QED
      BY <3>1, <3>3, <3>4, <2>4
  <2>9. OnTheWay'
    <3> SUFFICES ASSUME pc \in {"wheel", "settle"}, ~excused PROVE OnTheWay'
      BY <2>2 DEF OnTheWay
    <3>1. (momentum' >= 0 /\ rest' >= 0) \/ (momentum' <= 0 /\ rest' <= 0)
      BY <2>8, <2>3, <2>2, <1>0
    <3>2. Fits(Resting)'
      BY <2>8, <2>7 DEF Fits
    <3> QED
      BY <3>1, <3>2, <2>8, <2>7, <2>2 DEF OnTheWay
  <2>10. SamplesDiffer'
    <3> SUFFICES ASSUME pc = "settle", ~excused, sample # Nothing PROVE SamplesDiffer'
      BY <2>2 DEF SamplesDiffer
    <3>1. /\ momentum > 0 => sample <= scrollY
          /\ momentum < 0 => sample >= scrollY
      BY DEF InputInv, SamplesDiffer
    <3>2. sample \in Int
      BY <1>0 DEF InputTypeOK
    <3>3. /\ momentum' > 0 => sample < scrollY'
          /\ momentum' < 0 => sample > scrollY'
      BY <3>1, <3>2, <2>8, <2>3, <2>2, <1>0
    <3> QED
      BY <3>3, <3>2, <2>2, <2>5 DEF SamplesDiffer
  <2>11. InView'
    BY <2>2 DEF InputInv, InView
  <2>12. Aimed'
    BY <2>2 DEF InputInv, InView, Aimed
  <2> QED
    BY <2>6, <2>9, <2>10, <2>11, <2>12 DEF InputInv
<1>15. CASE IdleFrame
  <2>1. /\ momentum = 0 /\ framed' = TRUE
        /\ UNCHANGED <<pc, tried, rest, sample, aim, moves, pointer, button, dom, scrollY, momentum, shifts, excused>>
    BY <1>15 DEF IdleFrame, solver
  <2>2. InputTypeOK'
    BY <2>1, <1>0 DEF InputTypeOK
  <2>3. Box' = Box /\ Resting' = Resting
    BY <2>1 DEF Box, Resting
  <2>4. OnTheWay' /\ InView'
    BY <2>1, <2>3 DEF InputInv, OnTheWay, InView, Fits
  <2>5. SamplesDiffer'
    BY <2>1 DEF SamplesDiffer
  <2>6. Aimed'
    BY <2>1, <2>3 DEF InputInv, Aimed, Center, Top
  <2> QED
    BY <2>2, <2>4, <2>5, <2>6 DEF InputInv
<1>16. CASE ScrollsItself
  <2>1. /\ pc = "settle" /\ excused' = TRUE /\ momentum' \in {1, -1}
        /\ UNCHANGED <<pc, tried, rest, sample, aim, moves, pointer, button, dom, scrollY, framed, shifts>>
    BY <1>16 DEF ScrollsItself, solver
  <2>2. InputTypeOK'
    BY <2>1, <1>0 DEF InputTypeOK
  <2> QED
    BY <2>1, <2>2 DEF InputInv, OnTheWay, SamplesDiffer, InView, Aimed
<1>17. CASE LayoutShifts
  <2>1. PICK e \in Elements, b \in Boxes \cup {Nothing} :
           dom' = [dom EXCEPT ![e] = b] /\ excused' = (excused \/ e = tried)
    BY <1>17 DEF LayoutShifts
  <2>2. /\ shifts < MaxShifts /\ shifts' = shifts + 1
        /\ UNCHANGED <<pc, tried, rest, sample, aim, moves, pointer, button, scrollY, momentum, framed>>
    BY <1>17 DEF LayoutShifts, solver
  <2>3. InputTypeOK'
    BY <2>1, <2>2, <1>0 DEF InputTypeOK
  <2>4. ~excused' => ~excused /\ Box' = Box
    BY <2>1, <2>2, <1>0 DEF InputTypeOK, Box
  <2>5. OnTheWay' /\ InView'
    BY <2>2, <2>4 DEF InputInv, OnTheWay, InView, Fits, Resting
  <2>6. SamplesDiffer'
    BY <2>2, <2>4 DEF InputInv, SamplesDiffer
  <2>7. Aimed'
    BY <2>2, <2>4 DEF InputInv, Aimed, Center, Top
  <2> QED
    BY <2>3, <2>5, <2>6, <2>7 DEF InputInv
<1>18. CASE UNCHANGED inputVars
  <2>1. UNCHANGED <<pc, tried, rest, sample, aim, moves, pointer, button, dom, scrollY, momentum,
                    framed, shifts, excused>>
    BY <1>18 DEF inputVars
  <2>2. InputTypeOK'
    BY <2>1, <1>0 DEF InputTypeOK
  <2>3. Box' = Box /\ Resting' = Resting
    BY <2>1 DEF Box, Resting
  <2>4. OnTheWay' /\ InView'
    BY <2>1, <2>3 DEF InputInv, OnTheWay, InView, Fits
  <2>5. SamplesDiffer'
    BY <2>1 DEF InputInv, SamplesDiffer
  <2>6. Aimed'
    BY <2>1, <2>3 DEF InputInv, Aimed, Center, Top
  <2> QED
    BY <2>2, <2>4, <2>5, <2>6 DEF InputInv
<1> QED
  BY <1>1, <1>3, <1>4, <1>5, <1>6, <1>7, <1>8, <1>9, <1>10, <1>11, <1>12, <1>13, <1>14, <1>15,
     <1>16, <1>17, <1>18 DEF InputNext, Solver, Returned

(* What holds at every step of human_click, however the page scrolls, settles
   or is changed under it. *)
THEOREM InputInvariance == InputSpec => []InputInv
<1>1. InputInv /\ [InputNext]_inputVars => InputInv'
  BY InputStep
<1> QED
  BY InputInitInv, <1>1, PTL DEF InputSpec

(* Types of solver and page: the wheel never owes more than MAX_SCROLL_PX and
   the page stays within its ends. *)
THEOREM InputTypeCorrect == InputSpec => []InputTypeOK
<1>1. InputInv => InputTypeOK
  BY DEF InputInv
<1> QED
  BY InputInvariance, <1>1, PTL

(* human_click, for any selectors, boxes, viewport, notches, path and margins:
   the press lands inside the element, between the margins of the viewport,
   unless something happened that the click cannot be blamed for. *)
THEOREM ClicksHit == InputSpec => []ClickHits
<1>1. ASSUME InputInv PROVE ClickHits
  <2> SUFFICES ASSUME pc = "press", ~excused
               PROVE  /\ Box # Nothing /\ aim \in Top..Bottom
                      /\ Top >= Margin /\ Bottom <= ViewHeight - Margin
    BY DEF ClickHits
  <2>1. Box # Nothing /\ Fits(scrollY) /\ aim = Center
    BY <1>1 DEF InputInv, InView, Aimed
  <2>2. Box.top \in Int /\ Box.height \in Nat /\ scrollY \in Int
    BY <1>1, <2>1, BoxType, InputAssumption DEF InputInv, InputTypeOK
  <2>3. \A h \in Nat : h \div 2 >= 0 /\ h \div 2 <= h
    OBVIOUS
  <2> QED
    BY <2>1, <2>2, <2>3 DEF Fits, Top, Bottom, Center
<1> QED
  BY InputInvariance, <1>1, PTL

(* human_move_mouse, human_settle and click_point, for any path, drift and page:
   the button goes down where the pointer is, and only the path brings it from
   further away than the tremor of a hand. *)
THEOREM PressesAreAnnounced == InputSpec => PressIsAnnounced
<1> DEFINE Down == button = "up" /\ button' = "down" => pointer = aim /\ pointer' = aim
           Near == pointer' # pointer /\ pc # "travel" => Abs(pointer' - pointer) <= 2 * Drift
<1>1. ASSUME InputInv, [InputNext]_inputVars
      PROVE  [Down /\ Near]_inputVars
  <2> SUFFICES ASSUME InputNext PROVE Down /\ Near
    BY <1>1
  <2>1. CASE Press
    BY <1>1, <2>1 DEF InputInv, Aimed, Press
  <2>2. CASE Travel
    BY <2>2 DEF Travel
  <2>3. CASE Drifts \/ Points
    <3>1. /\ pointer \in (aim - Drift)..(aim + Drift) /\ aim \in Int
          /\ pointer' \in (aim - Drift)..(aim + Drift) /\ button' = button
      BY <1>1, <2>3, InputAssumption DEF InputInv, Aimed, Drifts, Points
    <3> DEFINE jump == pointer' - pointer
    <3>2. jump \in Int /\ jump <= 2 * Drift /\ -jump <= 2 * Drift
      <4>1. Drift \in Int
        BY InputAssumption
      <4>2. pointer \in Int /\ pointer' \in Int
        BY <4>1, <3>1
      <4>3. \A a, f, p, q \in Int : p \in (a - f)..(a + f) /\ q \in (a - f)..(a + f)
                => q - p \in Int /\ q - p <= 2 * f /\ -(q - p) <= 2 * f
        OBVIOUS
      <4> QED
        BY <4>1, <4>2, <4>3, <3>1
    <3> HIDE DEF jump
    <3>3. Abs(jump) <= 2 * Drift
      BY <3>2, InputAssumption DEF Abs
    <3> QED
      BY <3>1, <3>3 DEF jump
  <2>4. CASE ~(Press \/ Travel \/ Drifts \/ Points)
    <3>1. pointer' = pointer /\ (button' = button \/ button' = "up")
      BY <2>4 DEF InputNext, Solver, Returned, inputVars, solver, Appears, WaitExpires, Unpositioned,
         NextSelector, Measures, Wheel, WheelDone, Sample, SettleExpires, FindsCenter,
         Arrives, Holds, Release, Resolves, CallFails, Frame, IdleFrame, ScrollsItself, LayoutShifts
    <3>2. Down
      BY <3>1
    <3>3. Near
      BY <3>1, Zenon
    <3> QED
      BY <3>2, <3>3
  <2> QED
    BY <2>1, <2>2, <2>3, <2>4
<1> QED
  BY InputInvariance, <1>1, PTL DEF InputSpec, PressIsAnnounced
=============================================================================
