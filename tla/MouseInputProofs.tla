--------------------------- MODULE MouseInputProofs ---------------------------
(***************************************************************************)
(* Proofs about MouseInput, for every size of the terminal and any number  *)
(* of fingers.                                                             *)
(***************************************************************************)
EXTENDS MouseInput, TLAPS

(***************************************************************************)
(* The inductive invariant.                                                *)
(***************************************************************************)

\* An armed timer has a finger and the cell it will press, and nothing moved
\* since.
TimerInv ==
    timer => /\ touches # << >> /\ startCell # << >>
             /\ lastCell = startCell /\ ~moved

\* A drag has a finger, a cell to be released at, its press was sent, and the
\* timer that sent it is off.
DragInv ==
    dragging => /\ touches # << >> /\ startCell # << >> /\ ~moved /\ ~timer /\ held
                /\ Or(lastCell, startCell) = seenCell

\* With one finger, the left button is held by a drag only.
HeldInv == ~multi /\ held => dragging

\* Without several buttons down at once and without a lost release, the handler
\* knows the button the program holds pressed, and it is down.
ButtonInv ==
    ~muddled =>
        /\ ~misread
        /\ pressed = {heldButton} \ {"none"}
        /\ pressed \subseteq buttons
        /\ \A a, b \in buttons : a = b

MouseInputInv == TypeOK /\ TimerInv /\ DragInv /\ HeldInv /\ ButtonInv

\* A position is in a cell of the terminal, also when it is outside of it.
LEMMA CellAtType == \A p \in Positions : CellAt(p) \in Cells
<1> SUFFICES ASSUME NEW p \in Positions
             PROVE  CellAt(p) \in Cells
    OBVIOUS
<1>1. p.x \in Nat /\ p.y \in Nat
    BY TouchAssumption DEF Positions
<1>2. Cols \in Nat \ {0} /\ Rows \in Nat \ {0}
    BY TouchAssumption
<1>3. Within(p.x, Cols) \in 0..Cols - 1 /\ Within(p.y, Rows) \in 0..Rows - 1
    BY <1>1, <1>2 DEF Within
<1> QED
    BY <1>3 DEF CellAt, Cells

\* A sequence of one element is not the empty one, and holds that element.
LEMMA Singleton ==
    ASSUME NEW S, NEW v \in S
    PROVE  <<v>> \in Optional(S) /\ <<v>> # << >> /\ <<v>>[1] = v
    BY DEF Optional

\* Taking one finger away leaves a shorter sequence of fingers.
LEMMA RemoveAtType ==
    ASSUME NEW S, NEW s \in Seq(S), NEW i \in DOMAIN s
    PROVE  RemoveAt(s, i) \in Seq(S) /\ Len(RemoveAt(s, i)) = Len(s) - 1
    BY DEF RemoveAt

\* The invariant holds initially.
LEMMA MouseInputInit == Init => MouseInputInv
<1> SUFFICES ASSUME Init
             PROVE  MouseInputInv
    OBVIOUS
<1>1. touches \in Seq(Positions) /\ Len(touches) <= MaxFingers
    BY TouchAssumption DEF Init
<1>2. << >> \in Optional(Positions) /\ << >> \in Optional(Cells)
    BY DEF Optional
<1>3. TypeOK
    BY <1>1, <1>2 DEF Init, TypeOK
<1> QED
    BY <1>3 DEF Init, MouseInputInv, TimerInv, DragInv, HeldInv, ButtonInv

-----------------------------------------------------------------------------
(* The touch handlers leave the mouse's variables alone.                   *)

LEMMA TouchStartInv ==
    ASSUME MouseInputInv, TouchStart
    PROVE  MouseInputInv'
<1>1. PICK p \in Positions : touches' = Append(touches, p)
    BY DEF TouchStart
<1>2. /\ touches' \in Seq(Positions) /\ Len(touches') <= MaxFingers
      /\ touches' # << >> /\ touches'[1] \in Positions
    BY <1>1, TouchAssumption DEF TouchStart, MouseInputInv, TypeOK
<1>3. start' = <<touches'[1]>> /\ start' \in Optional(Positions)
    BY <1>2, Singleton DEF TouchStart
<1>4. CASE Tracking
    <2>1. /\ startCell' = <<CellAt(touches'[1])>> /\ lastCell' = startCell' /\ timer' = TRUE
          /\ startCell' \in Optional(Cells) /\ startCell' # << >>
        BY <1>2, <1>4, CellAtType, Singleton DEF TouchStart
    <2>2. TypeOK'
        BY <1>2, <1>3, <2>1 DEF TouchStart, MouseInputInv, TypeOK, mouseVars
    <2>3. TimerInv' /\ DragInv'
        BY <1>2, <2>1 DEF TouchStart, TimerInv, DragInv
    <2>4. HeldInv'
        BY DEF TouchStart, MouseInputInv, HeldInv, DragInv
    <2>5. ButtonInv'
        BY DEF TouchStart, MouseInputInv, ButtonInv, mouseVars
    <2> QED
        BY <2>2, <2>3, <2>4, <2>5 DEF MouseInputInv
<1>5. CASE ~Tracking
    <2>1. TypeOK'
        BY <1>2, <1>3, <1>5 DEF TouchStart, MouseInputInv, TypeOK, mouseVars
    <2>2. TimerInv' /\ DragInv'
        BY <1>2, <1>5 DEF TouchStart, MouseInputInv, TimerInv, DragInv
    <2>3. HeldInv'
        BY DEF TouchStart, MouseInputInv, HeldInv, DragInv
    <2>4. ButtonInv'
        BY DEF TouchStart, MouseInputInv, ButtonInv, mouseVars
    <2> QED
        BY <2>1, <2>2, <2>3, <2>4 DEF MouseInputInv
<1> QED
    BY <1>4, <1>5

LEMMA LongPressInv ==
    ASSUME MouseInputInv, LongPress
    PROVE  MouseInputInv'
<1>1. TypeOK'
    BY DEF LongPress, Press, MouseInputInv, TypeOK, mouseVars
<1>2. TimerInv' /\ DragInv'
    BY DEF LongPress, Press, MouseInputInv, TimerInv, DragInv, Or
<1>3. HeldInv' /\ ButtonInv'
    BY DEF LongPress, MouseInputInv, HeldInv, ButtonInv, mouseVars
<1> QED
    BY <1>1, <1>2, <1>3 DEF MouseInputInv

LEMMA TouchMoveInv ==
    ASSUME MouseInputInv, TouchMove
    PROVE  MouseInputInv'
<1>1. PICK i \in DOMAIN touches, p \in Positions : touches' = [touches EXCEPT ![i] = p]
    BY DEF TouchMove
<1>2. /\ touches \in Seq(Positions) /\ Len(touches) <= MaxFingers
      /\ touches' \in Seq(Positions) /\ Len(touches') = Len(touches)
    BY <1>1 DEF MouseInputInv, TypeOK
<1>3. touches # << >> /\ touches' # << >> /\ touches'[1] \in Positions
    BY <1>1, <1>2
<1> DEFINE q == touches'[1]
<1>4. UNCHANGED <<mode, multi, heldButton, buttons, pressed, muddled, misread>>
    BY DEF TouchMove, mouseVars
<1>5. ButtonInv'
    BY <1>4 DEF MouseInputInv, ButtonInv
<1>6. CASE DragMove(q)
    <2>1. lastCell' \in Optional(Cells) /\ throttled' \in BOOLEAN /\ seenCell' \in Optional(Cells)
        BY <1>3, <1>6, CellAtType, Singleton
           DEF DragMove, Motion, tuiVars, MouseInputInv, TypeOK
    <2>2. held' = held /\ UNCHANGED <<start, startCell, moved, dragging, timer>>
        BY <1>6 DEF DragMove, Motion, tuiVars
    <2>3. TypeOK'
        BY <1>2, <1>4, <2>1, <2>2 DEF MouseInputInv, TypeOK
    <2>4. TimerInv' /\ DragInv'
        <3>1. CASE throttled
            BY <1>3, <1>6, <3>1 DEF DragMove, tuiVars, MouseInputInv, TimerInv, DragInv, Or
        <3>2. CASE ~throttled
            <4>1. lastCell' = <<CellAt(q)>> /\ seenCell' = lastCell' /\ lastCell' # << >>
                BY <1>6, <3>2 DEF DragMove, Motion
            <4>2. dragging /\ dragging' = dragging
                BY <1>6 DEF DragMove
            <4>3. DragInv'
                BY <1>3, <2>2, <4>1, <4>2 DEF MouseInputInv, DragInv, Or
            <4>4. TimerInv'
                BY <2>2, <4>2 DEF MouseInputInv, DragInv, TimerInv
            <4> QED
                BY <4>3, <4>4
        <3> QED
            BY <3>1, <3>2
    <2>5. HeldInv'
        BY <1>4, <2>2 DEF MouseInputInv, HeldInv
    <2> QED
        BY <1>5, <2>3, <2>4, <2>5 DEF MouseInputInv
<1>7. CASE Swipe(q)
    <2>1. start' \in Optional(Positions) /\ moved' \in BOOLEAN /\ throttled' \in BOOLEAN
        <3>1. start \in Optional(Positions) /\ start # << >> /\ q \in Positions
            BY <1>3, <1>7 DEF Swipe, MouseInputInv, TypeOK
        <3>2. start[1] \in Positions
            BY <3>1 DEF Optional
        <3>3. [start[1] EXCEPT !.y = q.y] \in Positions
            BY <3>1, <3>2 DEF Positions
        <3>4. <<[start[1] EXCEPT !.y = q.y]>> \in Optional(Positions)
            BY <3>3, Singleton
        <3> QED
            BY <1>7, <3>4 DEF Swipe, MouseInputInv, TypeOK
    <2>2. /\ ~dragging /\ timer' = FALSE
          /\ UNCHANGED <<held, seenCell, startCell, lastCell, dragging>>
        BY <1>7 DEF Swipe, ClearLongPress, Quiet, tuiVars
    <2>3. TypeOK'
        BY <1>2, <1>4, <2>1, <2>2 DEF MouseInputInv, TypeOK
    <2>4. TimerInv' /\ DragInv' /\ HeldInv'
        BY <1>4, <2>2 DEF MouseInputInv, TimerInv, DragInv, HeldInv
    <2> QED
        BY <1>5, <2>3, <2>4 DEF MouseInputInv
<1>8. CASE SmallMove(q)
    <2>1. UNCHANGED <<throttled, start, startCell, lastCell, moved, dragging, timer, held, seenCell>>
        BY <1>8 DEF SmallMove, touchVars, tuiVars
    <2>2. TypeOK'
        BY <1>2, <1>4, <2>1 DEF MouseInputInv, TypeOK
    <2>3. TimerInv' /\ DragInv' /\ HeldInv'
        BY <1>3, <1>4, <2>1 DEF MouseInputInv, TimerInv, DragInv, HeldInv, Or
    <2> QED
        BY <1>5, <2>2, <2>3 DEF MouseInputInv
<1> QED
    BY <1>6, <1>7, <1>8 DEF TouchMove
LEMMA TouchEndInv ==
    ASSUME MouseInputInv, TouchEnd
    PROVE  MouseInputInv'
<1>1. PICK i \in DOMAIN touches :
          /\ touches' = RemoveAt(touches, i)
          /\ IF dragging THEN EndDrag
             ELSE IF moved \/ startCell = << >> \/ ~Tracking THEN UNCHANGED tuiVars
             ELSE held' = FALSE /\ seenCell' = <<CellAt(touches[i])>>
    BY DEF TouchEnd
<1>2. /\ start' = << >> /\ startCell' = << >> /\ lastCell' = << >>
      /\ moved' = FALSE /\ dragging' = FALSE /\ timer' = FALSE
      /\ UNCHANGED <<mode, throttled, multi, heldButton, buttons, pressed, muddled, misread>>
    BY DEF TouchEnd, ResetTouch, ClearLongPress, mouseVars
<1>3. touches' \in Seq(Positions) /\ Len(touches') <= MaxFingers
    BY <1>1, RemoveAtType, TouchAssumption DEF MouseInputInv, TypeOK
<1>4. touches[i] \in Positions
    BY <1>1 DEF MouseInputInv, TypeOK
<1>5. held' \in BOOLEAN /\ seenCell' \in Optional(Cells)
    BY <1>1, <1>4, CellAtType, Singleton
       DEF EndDrag, Release, Quiet, tuiVars, MouseInputInv, TypeOK
<1>6. TypeOK'
    <2>1. << >> \in Optional(Positions) /\ << >> \in Optional(Cells)
        BY DEF Optional
    <2> QED
        BY <1>2, <1>3, <1>5, <2>1 DEF MouseInputInv, TypeOK
<1>7. HeldInv'
    \* The release of a drag always finds its cell.
    <2>1. CASE dragging
        BY <1>1, <2>1 DEF EndDrag, Release, Or, MouseInputInv, DragInv, HeldInv
    <2>2. CASE ~dragging
        BY <1>1, <1>2, <2>2 DEF tuiVars, MouseInputInv, HeldInv
    <2> QED
        BY <2>1, <2>2
<1>8. TimerInv' /\ DragInv' /\ ButtonInv'
    BY <1>2 DEF MouseInputInv, TimerInv, DragInv, ButtonInv
<1> QED
    BY <1>6, <1>7, <1>8 DEF MouseInputInv

LEMMA TouchCancelInv ==
    ASSUME MouseInputInv, TouchCancel
    PROVE  MouseInputInv'
<1>1. /\ touches' = << >>
      /\ start' = << >> /\ startCell' = << >> /\ lastCell' = << >>
      /\ moved' = FALSE /\ dragging' = FALSE /\ timer' = FALSE
      /\ UNCHANGED <<mode, throttled, multi, heldButton, buttons, pressed, muddled, misread>>
    BY DEF TouchCancel, ResetTouch, ClearLongPress, mouseVars
<1>2. /\ held' \in BOOLEAN /\ seenCell' \in Optional(Cells)
      /\ dragging => ~held'
      /\ ~dragging => held' = held
    BY DEF TouchCancel, EndDrag, Release, Quiet, tuiVars, Or, MouseInputInv, TypeOK, DragInv
<1>3. touches' \in Seq(Positions) /\ Len(touches') <= MaxFingers
    BY <1>1, TouchAssumption
<1>4. << >> \in Optional(Positions) /\ << >> \in Optional(Cells)
    BY DEF Optional
<1>5. TypeOK'
    BY <1>1, <1>2, <1>3, <1>4 DEF MouseInputInv, TypeOK
<1>6. HeldInv'
    BY <1>1, <1>2 DEF MouseInputInv, HeldInv
<1>7. TimerInv' /\ DragInv' /\ ButtonInv'
    BY <1>1 DEF MouseInputInv, TimerInv, DragInv, ButtonInv
<1> QED
    BY <1>5, <1>6, <1>7 DEF MouseInputInv

-----------------------------------------------------------------------------
(* The mouse handlers leave the touch variables alone.                     *)

\* What the touch part of the invariant reads.
LEMMA TouchUnchanged ==
    ASSUME MouseInputInv, UNCHANGED <<touches, touchVars, tuiVars, multi>>
    PROVE  TimerInv' /\ DragInv' /\ HeldInv'
BY DEF MouseInputInv, TimerInv, DragInv, HeldInv, touchVars, tuiVars, Or

LEMMA MouseDownInv ==
    ASSUME MouseInputInv, NEW b \in Buttons, MouseDown(b)
    PROVE  MouseInputInv'
<1>1. TimerInv' /\ DragInv' /\ HeldInv'
    BY TouchUnchanged DEF MouseDown
<1>2. TypeOK'
    BY DEF MouseDown, MouseInputInv, TypeOK, touchVars, tuiVars
<1>3. ButtonInv'
    BY DEF MouseDown, MouseInputInv, TypeOK, ButtonInv, Buttons
<1> QED
    BY <1>1, <1>2, <1>3 DEF MouseInputInv

LEMMA MouseUpInv ==
    ASSUME MouseInputInv, NEW b \in Buttons, MouseUp(b)
    PROVE  MouseInputInv'
<1>1. TimerInv' /\ DragInv' /\ HeldInv'
    BY TouchUnchanged DEF MouseUp
<1>2. TypeOK'
    BY DEF MouseUp, MouseInputInv, TypeOK, touchVars, tuiVars
<1>3. ButtonInv'
    BY DEF MouseUp, MouseInputInv, TypeOK, ButtonInv, Buttons
<1> QED
    BY <1>1, <1>2, <1>3 DEF MouseInputInv

LEMMA MouseUpElsewhereInv ==
    ASSUME MouseInputInv, NEW b \in Buttons, MouseUpElsewhere(b)
    PROVE  MouseInputInv'
<1>1. TimerInv' /\ DragInv' /\ HeldInv'
    BY TouchUnchanged DEF MouseUpElsewhere
<1>2. TypeOK'
    BY DEF MouseUpElsewhere, MouseInputInv, TypeOK, touchVars, tuiVars
<1>3. ButtonInv'
    BY DEF MouseUpElsewhere, MouseInputInv, TypeOK, ButtonInv, Buttons
<1> QED
    BY <1>1, <1>2, <1>3 DEF MouseInputInv

LEMMA MouseMoveInv ==
    ASSUME MouseInputInv, MouseMove
    PROVE  MouseInputInv'
<1>1. TimerInv' /\ DragInv' /\ HeldInv'
    BY TouchUnchanged DEF MouseMove
<1>2. TypeOK'
    BY DEF MouseMove, MouseInputInv, TypeOK, touchVars, tuiVars
<1>3. ButtonInv'
    BY DEF MouseMove, MotionButton, MouseInputInv, TypeOK, ButtonInv
<1> QED
    BY <1>1, <1>2, <1>3 DEF MouseInputInv

-----------------------------------------------------------------------------
(* The environment.                                                        *)

LEMMA EnvironmentInv ==
    ASSUME MouseInputInv, SwitchTracking \/ ThrottleEnds
    PROVE  MouseInputInv'
<1>1. UNCHANGED <<touches, touchVars, tuiVars, multi, mouseVars>>
    BY DEF SwitchTracking, ThrottleEnds
<1>2. mode' \in Modes /\ throttled' \in BOOLEAN
    BY DEF SwitchTracking, ThrottleEnds, MouseInputInv, TypeOK
<1>3. TimerInv' /\ DragInv' /\ HeldInv'
    BY <1>1, TouchUnchanged
<1>4. TypeOK'
    BY <1>1, <1>2 DEF MouseInputInv, TypeOK, touchVars, tuiVars, mouseVars
<1>5. ButtonInv'
    BY <1>1 DEF MouseInputInv, ButtonInv, mouseVars
<1> QED
    BY <1>3, <1>4, <1>5 DEF MouseInputInv

\* Every step of the specification preserves the invariant.
LEMMA MouseInputNext == MouseInputInv /\ [Next]_vars => MouseInputInv'
<1> SUFFICES ASSUME MouseInputInv, [Next]_vars
             PROVE  MouseInputInv'
    OBVIOUS
<1>1. CASE UNCHANGED vars
    <2>1. UNCHANGED <<touches, touchVars, tuiVars, multi, mouseVars, mode, throttled>>
        BY <1>1 DEF vars
    <2>2. TimerInv' /\ DragInv' /\ HeldInv'
        BY <2>1, TouchUnchanged
    <2>3. TypeOK'
        BY <2>1 DEF MouseInputInv, TypeOK, touchVars, tuiVars, mouseVars
    <2>4. ButtonInv'
        BY <2>1 DEF MouseInputInv, ButtonInv, mouseVars
    <2> QED
        BY <2>2, <2>3, <2>4 DEF MouseInputInv
<1>2. CASE Next
    <2>1. CASE TouchStart
        BY <2>1, TouchStartInv
    <2>2. CASE LongPress
        BY <2>2, LongPressInv
    <2>3. CASE TouchMove
        BY <2>3, TouchMoveInv
    <2>4. CASE TouchEnd
        BY <2>4, TouchEndInv
    <2>5. CASE TouchCancel
        BY <2>5, TouchCancelInv
    <2>6. CASE \E b \in Buttons : MouseDown(b) \/ MouseUp(b) \/ MouseUpElsewhere(b)
        BY <2>6, MouseDownInv, MouseUpInv, MouseUpElsewhereInv
    <2>7. CASE MouseMove
        BY <2>7, MouseMoveInv
    <2>8. CASE SwitchTracking \/ ThrottleEnds
        BY <2>8, EnvironmentInv
    <2> QED
        BY <1>2, <2>1, <2>2, <2>3, <2>4, <2>5, <2>6, <2>7, <2>8 DEF Next
<1> QED
    BY <1>1, <1>2

-----------------------------------------------------------------------------
(* The theorems.                                                           *)

\* The inductive invariant of the input handlers holds in every reachable state.
THEOREM MouseInputInvariant == Spec => []MouseInputInv
<1>1. Init => MouseInputInv
    BY MouseInputInit
<1>2. MouseInputInv /\ [Next]_vars => MouseInputInv'
    BY MouseInputNext
<1> QED
    BY <1>1, <1>2, PTL DEF Spec

\* Every variable of the input handlers has its type.
THEOREM MouseInputTypeCorrect == Spec => []TypeOK
<1>1. MouseInputInv => TypeOK
    BY DEF MouseInputInv
<1> QED
    BY <1>1, MouseInputInvariant, PTL

\* A drag is pressed before it moves, by a callback that has its cell, and is
\* released at the cell the program saw last (mouse-input.js:109-110, 148-152).
THEOREM MouseInputAnnouncesDrags == Spec => []DragIsAnnounced
<1>1. MouseInputInv => DragIsAnnounced
    BY DEF MouseInputInv, TimerInv, DragInv, DragIsAnnounced
<1> QED
    BY <1>1, MouseInputInvariant, PTL

\* With one finger no gesture leaves the left button held, whenever tracking is
\* switched off (mouse-input.js:189-220).
THEOREM MouseInputReleases == Spec => []NothingHeldAfterTouch
<1>1. MouseInputInv => NothingHeldAfterTouch
    BY DEF MouseInputInv, HeldInv, DragInv, NothingHeldAfterTouch
<1> QED
    BY <1>1, MouseInputInvariant, PTL

\* With one button at a time and no lost release a motion carries the button the
\* program holds pressed (mouse-input.js:81-88).
THEOREM MouseInputCarriesButton == Spec => []DragCarriesButton
<1>1. MouseInputInv => DragCarriesButton
    BY DEF MouseInputInv, ButtonInv, DragCarriesButton
<1> QED
    BY <1>1, MouseInputInvariant, PTL
=============================================================================
