----------------------------- MODULE HumanInput -----------------------------
(***************************************************************************)
(* Solving an interactive challenge with a human's gestures (solver.rs,    *)
(* CloudScraper::human_*, behavior.rs and the input half of                *)
(* cdp/session.rs).  The solver tries its selectors in order; a click      *)
(* scrolls the element into view notch by notch, waits for the page to     *)
(* come to rest, measures, travels, drifts and presses.  Meanwhile the     *)
(* page scrolls in frames of its own and may change its layout.            *)
(*                                                                         *)
(* Only the vertical axis is modelled: scrolling happens on no other.      *)
(* Coordinates are in an arbitrary unit.                                   *)
(***************************************************************************)
EXTENDS Integers, Sequences, FiniteSets

CONSTANTS
    Selectors,     \* CHALLENGE_SELECTORS, in order
    Boxes,         \* bound: the boxes an element may have, [top, height]
    ViewHeight,    \* innerHeight
    PageEnd,       \* the largest scrollY the document allows
    Margin,        \* the margin of scroll_distance_to
    Notches,       \* what one notch of the wheel may be worth, after jitter
    MaxScroll,     \* MAX_SCROLL_PX
    Drift,         \* IDLE_DRIFT_PX
    PathPoints,    \* MOUSE_PATH_POINTS
    DriftMoves,    \* IDLE_DRIFT_MOVES
    Waypoints,     \* bound: where the curve may pass
    MaxShifts,     \* bound: how often the layout changes
    Nothing

ASSUME InputAssumption ==
    /\ Selectors \in Seq(STRING) /\ Len(Selectors) > 0
    /\ \A b \in Boxes : b.top \in Nat /\ b.height \in Nat \ {0}
    /\ ViewHeight \in Nat /\ PageEnd \in Nat /\ Margin \in Nat /\ Drift \in Nat
    /\ Notches \subseteq Nat \ {0} /\ MaxScroll \in Nat \ {0}
    /\ Nothing \notin Int
    /\ PathPoints \in Nat \ {0, 1} /\ Waypoints \subseteq Int /\ DriftMoves \in Nat /\ MaxShifts \in Nat

VARIABLES
    pc,         \* where the solver is
    tried,      \* the selector it is at
    rest,       \* wheel distance still to be sent, signed
    sample,     \* the previous scrollY of wait_for_scroll_to_settle, or Nothing
    aim,        \* the point element_center returned, or Nothing
    moves,      \* mouse moves sent in this phase
    pointer,    \* where the page last saw the pointer
    button,     \* "up" or "down"
    dom,        \* selector index -> its element's box, or Nothing: absent or unrendered
    scrollY,
    momentum,   \* what the page has still to scroll, signed
    framed,     \* whether a frame passed since the last sample
    shifts,     \* layout changes so far
    excused     \* whether something happened that a click cannot be blamed for

inputVars == <<pc, tried, rest, sample, aim, moves, pointer, button,
               dom, scrollY, momentum, framed, shifts, excused>>
solver == <<pc, tried, rest, sample, aim, moves, pointer, button>>
world == <<dom, scrollY, momentum, framed, shifts>>

Elements == DOMAIN Selectors

InputTypeOK ==
    /\ pc \in {"wait", "distance", "wheel", "settle", "measure", "travel", "drift",
               "point", "press", "release", "resolve", "ok", "absent", "error"}
    /\ tried \in Elements
    /\ rest \in -MaxScroll..MaxScroll /\ sample \in (0..PageEnd) \cup {Nothing}
    /\ aim \in Int \cup {Nothing} /\ pointer \in Int /\ button \in {"up", "down"}
    /\ moves \in 0..(PathPoints + DriftMoves)
    /\ dom \in [Elements -> Boxes \cup {Nothing}]
    /\ scrollY \in 0..PageEnd /\ momentum \in Int /\ framed \in BOOLEAN
    /\ shifts \in 0..MaxShifts
    /\ excused \in BOOLEAN

\* The pointer starts wherever it was left.
InputInit ==
    /\ pc = "wait" /\ tried = 1 /\ rest = 0 /\ sample = Nothing /\ aim = Nothing
    /\ moves = 0 /\ pointer = 0 /\ button = "up"
    /\ dom \in [Elements -> Boxes \cup {Nothing}]
    /\ scrollY \in {0, PageEnd} /\ momentum = 0 /\ framed = TRUE
    /\ shifts = 0 /\ excused = FALSE

Box == dom[tried]
Top == Box.top - scrollY
Bottom == Top + Box.height
Center == Top + Box.height \div 2

Goto(label) == pc' = label

\* The next selector, or the error of a solver that has none left.
NextSelector ==
    /\ IF tried < Len(Selectors)
       THEN tried' = tried + 1 /\ Goto("wait")
       ELSE UNCHANGED tried /\ Goto("absent")
    /\ rest' = 0 /\ sample' = Nothing /\ aim' = Nothing /\ moves' = 0
    /\ UNCHANGED <<pointer, button, world, excused>>

\* Any call may fail, on a browser that is gone or does not answer in time.
CallFails ==
    /\ pc \notin {"wait", "resolve", "ok", "absent", "error"}
    /\ Goto("error")
    /\ UNCHANGED <<tried, rest, sample, aim, moves, pointer, button, world, excused>>

-----------------------------------------------------------------------------
(* wait_for_selector: an element that is there but has no box is found too, *)
(* which the nondeterminism of the second action stands for.                *)

Appears ==
    /\ pc = "wait" /\ Goto("distance")
    /\ UNCHANGED <<tried, rest, sample, aim, moves, pointer, button, world, excused>>

WaitExpires == pc = "wait" /\ NextSelector

-----------------------------------------------------------------------------
(* human_scroll_into_view. *)

\* scroll_distance_to: how far the element is outside the viewport.
ScrollDistance ==
    CASE Top < Margin -> Top - Margin
      [] Top >= Margin /\ Bottom > ViewHeight - Margin -> Bottom - ViewHeight + Margin
      [] OTHER -> 0

Abs(n) == IF n < 0 THEN -n ELSE n
Sign(n) == IF n < 0 THEN -1 ELSE 1
AtMost(n, bound) == IF Abs(n) > bound THEN Sign(n) * bound ELSE n

\* An element without a box is an InteractionError, and the solver goes on.
Unpositioned == pc \in {"distance", "measure"} /\ Box = Nothing /\ NextSelector

\* What no wheel can do: further than MAX_SCROLL_PX, past an end of the page,
\* or an element that does not fit between the margins.
OutOfReach(d) == \/ Abs(d) > MaxScroll
                 \/ scrollY + d \notin 0..PageEnd
                 \/ Box.height > ViewHeight - 2 * Margin

\* A page still moving, from the scroll to an earlier selector, is measured as
\* it moves.
Measures ==
    /\ pc = "distance" /\ Box # Nothing
    /\ rest' = AtMost(ScrollDistance, MaxScroll)
    /\ Goto(IF ScrollDistance = 0 THEN "measure" ELSE "wheel")
    /\ excused' = (momentum # 0 \/ (ScrollDistance # 0 /\ OutOfReach(ScrollDistance)))
    /\ UNCHANGED <<tried, sample, aim, moves, pointer, button, world>>

\* scroll_increments: a jittered notch, at most what remains.
Notch(n) == AtMost(rest, n)

\* scroll_by; the wheel turns under a fixed point of the viewport.
Wheel ==
    /\ pc = "wheel" /\ rest # 0
    /\ \E n \in Notches :
          /\ momentum' = momentum + Notch(n)
          /\ rest' = IF Abs(rest) <= n THEN 0 ELSE rest - Notch(n)
    /\ framed' = FALSE
    /\ UNCHANGED <<pc, tried, sample, aim, moves, pointer, button, dom, scrollY, shifts, excused>>

WheelDone ==
    /\ pc = "wheel" /\ rest = 0 /\ Goto("settle") /\ sample' = Nothing
    /\ UNCHANGED <<tried, rest, aim, moves, pointer, button, world, excused>>

(* Mutant: the page is measured after one look. *)
Settled_AtOnce == TRUE

\* Two equal samples a poll apart.
Settled == sample = scrollY

\* A sample taken before the page drew a frame tells nothing.
Sample ==
    /\ pc = "settle"
    /\ IF Settled THEN Goto("measure") ELSE UNCHANGED pc
    /\ sample' = scrollY /\ framed' = FALSE
    /\ excused' = (excused \/ (~framed /\ sample # Nothing /\ momentum # 0))
    /\ UNCHANGED <<tried, rest, aim, moves, pointer, button, dom, scrollY, momentum, shifts>>

(* Mutant: the loop has no deadline. *)
SettleExpires_Never == FALSE /\ UNCHANGED inputVars

\* SCROLL_SETTLE_TIMEOUT: "measuring a moving target is still better".
SettleExpires ==
    /\ pc = "settle" /\ Goto("measure")
    /\ excused' = (excused \/ momentum # 0)
    /\ UNCHANGED <<tried, rest, sample, aim, moves, pointer, button, world>>

-----------------------------------------------------------------------------
(* human_click, once the element is in view. *)

FindsCenter ==
    /\ pc = "measure" /\ Box # Nothing
    /\ aim' = Center /\ moves' = 0 /\ Goto("travel")
    /\ UNCHANGED <<tried, rest, sample, pointer, button, world, excused>>

(* Mutant: the last sample of the curve falls short of its end. *)
PathPoint_Short(i) == Waypoints

\* generate_mouse_path: from a fixed point, over the curve, to the end exactly.
PathPoint(i) == IF i = PathPoints - 1 THEN {aim} ELSE Waypoints

Travel ==
    /\ pc = "travel" /\ moves < PathPoints
    /\ pointer' \in PathPoint(moves)
    /\ moves' = moves + 1
    /\ UNCHANGED <<pc, tried, rest, sample, aim, button, world, excused>>

Arrives ==
    /\ pc = "travel" /\ moves = PathPoints /\ Goto("drift") /\ moves' = 0
    /\ UNCHANGED <<tried, rest, sample, aim, pointer, button, world, excused>>

\* human_settle: a few moves in the square around the point.
Drifts ==
    /\ pc = "drift" /\ moves < DriftMoves
    /\ pointer' \in (aim - Drift)..(aim + Drift)
    /\ moves' = moves + 1
    /\ UNCHANGED <<pc, tried, rest, sample, aim, button, world, excused>>

Holds ==
    /\ pc = "drift" /\ moves = DriftMoves /\ Goto("point")
    /\ UNCHANGED <<tried, rest, sample, aim, moves, pointer, button, world, excused>>

\* click_point: a move, the press and the release.
Points ==
    /\ pc = "point" /\ pointer' = aim /\ Goto("press")
    /\ UNCHANGED <<tried, rest, sample, aim, moves, button, world, excused>>

Press ==
    /\ pc = "press" /\ button' = "down" /\ Goto("release")
    /\ UNCHANGED <<tried, rest, sample, aim, moves, pointer, world, excused>>

Release ==
    /\ pc = "release" /\ button' = "up" /\ Goto("resolve")
    /\ UNCHANGED <<tried, rest, sample, aim, moves, pointer, world, excused>>

Resolves ==
    /\ pc = "resolve" /\ Goto("ok")
    /\ UNCHANGED <<tried, rest, sample, aim, moves, pointer, button, world, excused>>

-----------------------------------------------------------------------------
(* The page. *)

\* One frame of a smooth scroll, which an end of the document stops.
Frame ==
    /\ momentum # 0
    /\ \E d \in {1, Abs(momentum)} :
          LET to == scrollY + Sign(momentum) * d
          IN IF to \in 0..PageEnd
             THEN scrollY' = to /\ momentum' = momentum - Sign(momentum) * d
             ELSE UNCHANGED scrollY /\ momentum' = 0
    /\ framed' = TRUE
    /\ UNCHANGED <<solver, dom, shifts, excused>>

\* The frame of a page at rest.
IdleFrame ==
    /\ momentum = 0 /\ ~framed /\ framed' = TRUE
    /\ UNCHANGED <<solver, dom, scrollY, momentum, shifts, excused>>

\* A page that animates scrolls by itself, as often as it likes.  Bound: only
\* while the solver waits for it to settle; elsewhere it would excuse a miss and
\* change nothing else.
ScrollsItself ==
    /\ pc = "settle" /\ momentum = 0 /\ momentum' \in {1, -1} /\ scrollY + momentum' \in 0..PageEnd
    /\ excused' = TRUE
    /\ UNCHANGED <<solver, dom, scrollY, framed, shifts>>

\* The layout changes under the solver: an element appears, moves or goes.
LayoutShifts ==
    /\ shifts < MaxShifts /\ shifts' = shifts + 1
    /\ \E e \in Elements, b \in Boxes \cup {Nothing} :
          /\ b # dom[e] /\ dom' = [dom EXCEPT ![e] = b]
          /\ excused' = (excused \/ e = tried)
    /\ UNCHANGED <<solver, scrollY, momentum, framed>>

Solver ==
    \/ Appears \/ WaitExpires \/ Unpositioned \/ Measures \/ Wheel \/ WheelDone
    \/ Sample \/ FindsCenter \/ Travel \/ Arrives \/ Drifts \/ Holds
    \/ Points \/ Press \/ Release \/ Resolves \/ CallFails

Returned == pc \in {"ok", "absent", "error"} /\ UNCHANGED inputVars

InputNext == Solver \/ SettleExpires \/ Frame \/ IdleFrame \/ ScrollsItself \/ LayoutShifts \/ Returned

\* Calls and sleeps end; the settle deadline passes however the samples differ.
InputSpec == /\ InputInit /\ [][InputNext]_inputVars
        /\ WF_inputVars(Solver) /\ WF_inputVars(SettleExpires)

-----------------------------------------------------------------------------
(* Properties. *)

\* The press lands inside the element, in the viewport between its margins,
\* unless the layout changed or scrolled by itself, no wheel could have brought it there, the page was
\* moving when the distance was measured, it stalled across the two samples, or
\* the settle deadline passed.
ClickHits ==
    pc = "press" /\ ~excused =>
        /\ Box # Nothing /\ aim \in Top..Bottom
        /\ Top >= Margin /\ Bottom <= ViewHeight - Margin

\* "A press at a location the cursor never travelled to is a tell", and so is a
\* pointer that teleports to its target.  The button goes down where the pointer
\* is, and it is the path that brought it there: no move but one of the path
\* takes the pointer further than the tremor of a hand that holds still, not the
\* first one of human_settle nor the one click_point sends ahead of the press.
PressIsAnnounced ==
    [][/\ button = "up" /\ button' = "down" => pointer = aim /\ pointer' = aim
       /\ pointer' # pointer /\ pc # "travel" => Abs(pointer' - pointer) <= 2 * Drift]_inputVars

\* The solver returns, whatever the page does: one that never stops scrolling
\* does not hold the click up.
SolverReturns == <>(pc \in {"ok", "absent", "error"})
=============================================================================
