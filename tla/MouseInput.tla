----------------------------- MODULE MouseInput ------------------------------
(***************************************************************************)
(* Mouse and touch reports to the program in the terminal (the TUI):       *)
(* attachMouseInput in web/mouse-input.js.  The mouse handlers remember    *)
(* the button that is held; one finger has three jobs: a tap clicks, a     *)
(* swipe turns the wheel, a long press starts a drag with the left button. *)
(*                                                                         *)
(* The handlers and the long press timer run one at a time; between them   *)
(* the TUI may switch its tracking mode, further fingers or buttons may go *)
(* down, and a button may go up where no handler sees it.  The mouse rests *)
(* while fingers are down.  Positions are counted in steps of              *)
(* TOUCH_SLOP_PX, so that a move of one step leaves the slop.              *)
(***************************************************************************)
EXTENDS Integers, Sequences, SequencesExt

CONSTANTS
    MaxX, MaxY, \* positions of a finger, in slop steps
    Cols, Rows, \* cells of the terminal, one slop step wide and high
    MaxFingers  \* bound on the fingers down at once

ASSUME TouchAssumption ==
    /\ {MaxX, MaxY} \subseteq Nat
    /\ {Cols, Rows, MaxFingers} \subseteq Nat \ {0}

VARIABLES
    mode,      \* the tracking the TUI asked for: "off", 1000, 1002 or 1003
    throttled, \* Date.now() - lastMotionAt < MOTION_THROTTLE_MS
    touches,   \* the fingers down, event.touches of the next event
    start,     \* touchStartX, touchStartY
    startCell, \* touchStartCell
    lastCell,  \* touchLastCell
    moved,     \* touchMoved
    dragging,  \* touchDragging
    timer,     \* longPressTimer is armed
    heldButton, \* heldButton
    buttons,   \* the mouse buttons that are down
    \* What the TUI has been told (no code state).
    held,      \* a left press without its release
    seenCell,  \* the cell of the last press or motion
    multi,     \* two fingers have been down at once
    pressed,   \* mouse buttons pressed and not released, as reported
    muddled,   \* two buttons were down at once, or a release was not reported
    misread    \* a motion did not carry the button the TUI holds pressed

touchVars == <<start, startCell, lastCell, moved, dragging, timer>>
tuiVars   == <<held, seenCell>>
mouseVars == <<heldButton, buttons, pressed, muddled, misread>>
vars == <<mode, throttled, touches, touchVars, tuiVars, multi, mouseVars>>

Positions == [x : 0..MaxX, y : 0..MaxY]
Cells == [col : 0..Cols - 1, row : 0..Rows - 1]

Buttons == {"left", "right"}
Modes == {"off", "1000", "1002", "1003"}

\* trackingActive
Tracking == mode # "off"

Init ==
    /\ mode \in Modes
    /\ throttled = FALSE
    /\ touches = << >>
    /\ start = << >> /\ startCell = << >> /\ lastCell = << >>
    /\ moved = FALSE /\ dragging = FALSE /\ timer = FALSE
    /\ held = FALSE /\ seenCell = << >>
    /\ multi = FALSE
    /\ heldButton = "none" /\ buttons = {} /\ pressed = {}
    /\ muddled = FALSE /\ misread = FALSE

\* cellAt: a finger that left the terminal counts for the nearest cell.
Within(n, size) == IF n < size THEN n ELSE size - 1
\* Mutant: the position is not clamped to the terminal.
MutCellAt(p) == [col |-> p.x, row |-> p.y]

CellAt(p) == [col |-> Within(p.x, Cols), row |-> Within(p.y, Rows)]

\* A variable that may be undefined is an empty sequence or holds its value.
Or(a, b) == IF a # << >> THEN a ELSE b

-----------------------------------------------------------------------------
(* Reports: encodeMouseClick and encodeMouseMotion, as the TUI reads them. *)

Press(cell)  == held' = TRUE /\ seenCell' = cell
Motion(cell) == seenCell' = cell /\ UNCHANGED held
Release      == held' = FALSE /\ UNCHANGED seenCell
Quiet        == UNCHANGED tuiVars

-----------------------------------------------------------------------------
(* Touch handlers.                                                           *)

ClearLongPress == timer' = FALSE

ResetTouch ==
    /\ ClearLongPress
    /\ start' = << >> /\ startCell' = << >> /\ lastCell' = << >>
    /\ moved' = FALSE /\ dragging' = FALSE

MouseRests == buttons = {} /\ heldButton = "none" /\ pressed = {}

\* Whichever finger comes down, the handler looks at the first one.
TouchStart ==
    /\ Len(touches) < MaxFingers /\ MouseRests
    /\ \E p \in Positions : touches' = Append(touches, p)
    /\ start' = <<touches'[1]>>
    /\ moved' = FALSE /\ dragging' = FALSE
    /\ IF Tracking
       THEN /\ startCell' = <<CellAt(touches'[1])>>
            /\ lastCell' = startCell'
            /\ timer' = TRUE
       ELSE UNCHANGED <<startCell, lastCell, timer>>
    /\ multi' = (multi \/ touches # << >>)
    /\ UNCHANGED <<mode, throttled, held, seenCell, mouseVars>>

LongPress ==
    /\ timer
    /\ timer' = FALSE
    /\ dragging' = TRUE
    /\ Press(startCell)
    /\ UNCHANGED <<mode, throttled, touches, start, startCell, lastCell, moved,
                   multi, mouseVars>>

\* Mutant: the cell is remembered although its report is throttled.
MutDragMove(p) ==
    /\ dragging
    /\ lastCell' = <<CellAt(p)>>
    /\ IF throttled
       THEN UNCHANGED <<throttled, tuiVars>>
       ELSE /\ throttled' = TRUE
            /\ Motion(lastCell')
    /\ UNCHANGED <<start, startCell, moved, dragging, timer>>

DragMove(p) ==
    /\ dragging
    /\ IF throttled
       THEN UNCHANGED <<throttled, lastCell, tuiVars>>
       ELSE /\ throttled' = TRUE
            /\ lastCell' = <<CellAt(p)>>
            /\ Motion(lastCell')
    /\ UNCHANGED <<start, startCell, moved, dragging, timer>>

UnderSlop(p) == ~moved /\ start = <<p>>

Swipe(p) ==
    /\ ~dragging /\ start # << >>
    /\ ~UnderSlop(p)
    /\ ClearLongPress
    /\ IF Tracking /\ ~throttled /\ p.y # start[1].y
       THEN /\ moved' = TRUE
            /\ throttled' = TRUE
            /\ start' = <<[start[1] EXCEPT !.y = p.y]>>
       ELSE UNCHANGED <<moved, throttled, start>>
    /\ Quiet
    /\ UNCHANGED <<startCell, lastCell, dragging>>

\* Under the slop it could still become a drag; a finger that stayed behind when
\* another was lifted moves nothing.
SmallMove(p) ==
    /\ ~dragging
    /\ start = << >> \/ UnderSlop(p)
    /\ UNCHANGED <<throttled, touchVars, tuiVars>>

TouchMove ==
    /\ \E i \in DOMAIN touches, p \in Positions :
          p # touches[i] /\ touches' = [touches EXCEPT ![i] = p]
    /\ \/ DragMove(touches'[1])
       \/ Swipe(touches'[1])
       \/ SmallMove(touches'[1])
    /\ UNCHANGED <<mode, multi, mouseVars>>

\* Mutant: the release is gated on tracking like every other report.
MutEndDrag == IF Tracking /\ Or(lastCell, startCell) # << >> THEN Release ELSE Quiet

EndDrag == IF Or(lastCell, startCell) # << >> THEN Release ELSE Quiet

TouchEnd ==
    /\ \E i \in DOMAIN touches :
          /\ touches' = RemoveAt(touches, i)
          /\ IF dragging THEN EndDrag
             ELSE IF moved \/ startCell = << >> \/ ~Tracking THEN UNCHANGED tuiVars
             ELSE /\ held' = FALSE
                  /\ seenCell' = <<CellAt(touches[i])>>
    /\ ResetTouch
    /\ UNCHANGED <<mode, throttled, multi, mouseVars>>

\* The browser takes the gesture over: all fingers are gone at once.
TouchCancel ==
    /\ touches # << >>
    /\ touches' = << >>
    /\ IF dragging THEN EndDrag ELSE Quiet
    /\ ResetTouch
    /\ UNCHANGED <<mode, throttled, multi, mouseVars>>

-----------------------------------------------------------------------------
(* Mouse handlers.  b is the button of the event; the mouse moves or clicks *)
(* only while no finger is down.                                           *)

MouseDown(b) ==
    /\ touches = << >> /\ b \notin buttons
    /\ buttons' = buttons \union {b}
    /\ muddled' = (muddled \/ buttons # {})
    /\ IF Tracking
       THEN heldButton' = b /\ pressed' = pressed \union {b}
       ELSE UNCHANGED <<heldButton, pressed>>
    /\ UNCHANGED <<mode, throttled, touches, touchVars, tuiVars, multi, misread>>

MouseUp(b) ==
    /\ touches = << >> /\ b \in buttons
    /\ buttons' = buttons \ {b}
    /\ IF Tracking
       THEN heldButton' = "none" /\ pressed' = pressed \ {b} /\ UNCHANGED muddled
       ELSE muddled' = (muddled \/ b \in pressed) /\ UNCHANGED <<heldButton, pressed>>
    /\ UNCHANGED <<mode, throttled, touches, touchVars, tuiVars, multi, misread>>

\* The button goes up outside the terminal: no handler runs.
MouseUpElsewhere(b) ==
    /\ touches = << >> /\ b \in buttons
    /\ buttons' = buttons \ {b}
    /\ muddled' = (muddled \/ b \in pressed)
    /\ UNCHANGED <<mode, throttled, touches, touchVars, tuiVars, multi, heldButton, pressed, misread>>

\* Mutant: 1003 makes every motion reportable, so "none" is preferred.
MutMotionButton == IF mode = "1003" THEN "none" ELSE heldButton

MotionButton == heldButton

\* 1003 reports every motion, 1002 those of a drag, 1000 none.
MotionWanted == mode = "1003" \/ (heldButton # "none" /\ mode = "1002")

MouseMove ==
    /\ touches = << >> /\ MotionWanted /\ ~throttled
    /\ throttled' = TRUE
    /\ misread' = (misread \/ pressed # {MotionButton} \ {"none"})
    /\ UNCHANGED <<mode, touches, touchVars, tuiVars, multi, heldButton, buttons, pressed, muddled>>

-----------------------------------------------------------------------------
(* The environment: the TUI's mode and the clock.                          *)

SwitchTracking ==
    /\ mode' \in Modes \ {mode}
    /\ UNCHANGED <<throttled, touches, touchVars, tuiVars, multi, mouseVars>>

ThrottleEnds ==
    /\ throttled
    /\ throttled' = FALSE
    /\ UNCHANGED <<mode, touches, touchVars, tuiVars, multi, mouseVars>>

Next ==
    \/ TouchStart \/ LongPress \/ TouchMove \/ TouchEnd \/ TouchCancel
    \/ \E b \in Buttons : MouseDown(b) \/ MouseUp(b) \/ MouseUpElsewhere(b)
    \/ MouseMove
    \/ SwitchTracking \/ ThrottleEnds

Spec == Init /\ [][Next]_vars

-----------------------------------------------------------------------------
(* Properties.                                                             *)

Optional(S) == {<< >>} \union {<<v>> : v \in S}

\* Every variable has its type.
TypeOK ==
    /\ mode \in Modes /\ throttled \in BOOLEAN
    /\ touches \in Seq(Positions) /\ Len(touches) <= MaxFingers
    /\ start \in Optional(Positions)
    /\ startCell \in Optional(Cells) /\ lastCell \in Optional(Cells)
    /\ moved \in BOOLEAN /\ dragging \in BOOLEAN /\ timer \in BOOLEAN
    /\ held \in BOOLEAN /\ multi \in BOOLEAN
    /\ muddled \in BOOLEAN /\ misread \in BOOLEAN
    /\ seenCell \in Optional(Cells)
    /\ heldButton \in Buttons \union {"none"}
    /\ buttons \subseteq Buttons /\ pressed \subseteq Buttons

\* A drag is announced by a press before its first motion (mouse-input.js:110).
\* The callback that presses never runs without a start cell or a finger, though
\* the timer survives a second finger and tracking switched off, and never after
\* a swipe has turned the wheel; the release of a drag is reported at the cell
\* the TUI saw last, not where the finger is.
DragIsAnnounced ==
    /\ timer => startCell # << >> /\ touches # << >>
    /\ timer \/ dragging => ~moved
    /\ dragging => held /\ Or(lastCell, startCell) = seenCell

\* With one finger, a screen that is not touched has no button held, however the
\* gesture ended and whenever tracking was switched off.
NothingHeldAfterTouch == ~multi /\ touches = << >> => ~held

\* mouse-input.js:81: "A held drag must carry the button".  With one button at a
\* time and every release seen, a reported motion carries exactly the button the
\* TUI believes pressed, whatever the mode was when it went down.
DragCarriesButton == ~muddled => ~misread

\* mouse-input.js:211: "a cancelled touch must not leave the button held".
CancelReleases == [][TouchCancel => ~held']_vars
=============================================================================
