------------------------------ MODULE MouseMove ------------------------------
(***************************************************************************)
(* How the pointer moves in mouse mode (picocalc_kbd.c): the delayed work  *)
(* mouse_emit_rel reads mouse_dir anew for each decision and keeps the     *)
(* fraction of a pixel in mouse_sub_x and mouse_sub_y, while the input work*)
(* adds and removes directions and starts the fractions anew in            *)
(* mouse_start_move.  No lock is held.  One step is one load or store of   *)
(* what the other work uses too; mouse_dir is stored by the input work     *)
(* alone, so its read-modify-writes are single steps.  The speed ramps up  *)
(* with the time held and can be set through sysfs: any of Incs, the       *)
(* fraction added per tick.  Arming and cancelling are in KbdDispatch.     *)
(***************************************************************************)
EXTENDS Integers

CONSTANTS
  Keys,     \* the arrows that are pressed
  Unit,     \* of a pixel: 256
  Incs,     \* per tick, in units
  MaxPx     \* bound on the pixels of one tick

Axes == {"x", "y"}
Dirs == {"LEFT", "RIGHT", "UP", "DOWN"}
AxisDirs == [x |-> {"LEFT", "RIGHT"}, y |-> {"UP", "DOWN"}]
Forward == {"RIGHT", "DOWN"}

VARIABLES
  mouse_dir,
  sub,        \* mouse_sub_x, mouse_sub_y
  starting,   \* of mouse_start_move: the fraction it starts anew next, or "no"
  pc, axis,   \* of mouse_emit_rel
  reg,        \* the fraction it loaded
  inc, dir,   \* its locals; dir is 1 or -1
  step_px,
  tested,     \* ghost: the directions held at some time since the axis was tested
  released,   \* ghost: one of them was released since
  rel         \* what the last input_report_rel reported

input == <<mouse_dir, starting>>
work == <<pc, axis, reg, inc, dir, step_px>>
ghosts == <<tested, released>>
vars == <<input, sub, work, ghosts, rel>>

NoRel == [axis |-> "x", px |-> 0]

TypeOK ==
  /\ mouse_dir \subseteq Keys
  /\ sub \in [Axes -> -(Unit * MaxPx)..(Unit * (MaxPx + 1))]
  /\ starting \in Axes \cup {"no"}
  /\ pc \in {"idle", "test", "dir", "load", "store", "take", "reload", "report"}
  /\ axis \in Axes /\ reg \in -(Unit * MaxPx)..(Unit * (MaxPx + 1))
  /\ inc \in Incs \cup {0} /\ dir \in {1, -1} /\ step_px \in -MaxPx..MaxPx
  /\ tested \subseteq Dirs /\ released \in BOOLEAN
  /\ rel \in [axis : Axes, px : -MaxPx..MaxPx]

Init ==
  /\ mouse_dir = {} /\ starting = "no" /\ sub = [a \in Axes |-> 0]
  /\ pc = "idle" /\ axis = "x" /\ reg = 0 /\ inc = 0 /\ dir = 1 /\ step_px = 0
  /\ tested = {} /\ released = FALSE
  /\ rel = NoRel

-----------------------------------------------------------------------------
(* The input work *)

\* mouse_start_move: the initial jump of a first direction is not part of this
mouse_start_move(d) ==
  /\ starting = "no"
  /\ d \notin mouse_dir
  /\ mouse_dir' = mouse_dir \cup {d}
  /\ starting' = IF mouse_dir = {} THEN "x" ELSE "no"
  /\ tested' = tested \cup {d}
  /\ UNCHANGED <<sub, work, released, rel>>

\* A first direction starts the fractions anew.
StartAnew ==
  /\ starting # "no"
  /\ sub' = [sub EXCEPT ![starting] = 0]
  /\ starting' = IF starting = "x" THEN "y" ELSE "no"
  /\ UNCHANGED <<mouse_dir, work, ghosts, rel>>

mouse_stop_move(d) ==
  /\ starting = "no"
  /\ d \in mouse_dir
  /\ mouse_dir' = mouse_dir \ {d}
  /\ released' = (released \/ d \in tested)
  /\ UNCHANGED <<starting, sub, work, tested, rel>>

-----------------------------------------------------------------------------
(* mouse_emit_rel *)

\* Within the start delay, or without a direction, a tick does nothing.
TickBegin ==
  /\ pc = "idle" /\ mouse_dir # {}
  /\ inc' \in Incs
  /\ pc' = "test" /\ axis' = "x"
  /\ UNCHANGED <<input, sub, reg, dir, step_px, ghosts, rel>>

NextAxis ==
  IF axis = "x" THEN pc' = "test" /\ axis' = "y" ELSE pc' = "idle" /\ UNCHANGED axis

\* Is there a direction on this axis?
TestAxis ==
  /\ pc = "test"
  /\ tested' = mouse_dir \cap AxisDirs[axis] /\ released' = FALSE
  /\ IF tested' # {} THEN pc' = "dir" /\ UNCHANGED axis ELSE NextAxis
  /\ UNCHANGED <<input, sub, reg, inc, dir, step_px, rel>>

\* Seeded fault: a direction of the other axis decides.
ChooseDir_AnyAxis ==
  /\ pc = "dir"
  /\ dir' = IF mouse_dir \cap Forward # {} THEN 1 ELSE -1
  /\ pc' = "load"
  /\ UNCHANGED <<input, sub, axis, reg, inc, step_px, ghosts, rel>>

\* Which one?  RIGHT and DOWN win.
ChooseDir ==
  /\ pc = "dir"
  /\ dir' = IF mouse_dir \cap AxisDirs[axis] \cap Forward # {} THEN 1 ELSE -1
  /\ pc' = "load"
  /\ UNCHANGED <<input, sub, axis, reg, inc, step_px, ghosts, rel>>

LoadFraction ==
  /\ pc = "load"
  /\ reg' = sub[axis]
  /\ pc' = "store"
  /\ UNCHANGED <<input, sub, axis, inc, dir, step_px, ghosts, rel>>

AddFraction ==
  /\ pc = "store"
  /\ sub' = [sub EXCEPT ![axis] = reg + inc]
  /\ pc' = "take"
  /\ UNCHANGED <<input, axis, reg, inc, dir, step_px, ghosts, rel>>

\* Whole pixels, by an arithmetic shift; \div rounds down as well.
TakePixels ==
  /\ pc = "take"
  /\ step_px' = sub[axis] \div Unit
  /\ IF step_px' > 0 THEN pc' = "reload" /\ UNCHANGED axis ELSE NextAxis
  /\ UNCHANGED <<input, sub, reg, inc, dir, ghosts, rel>>

ReloadFraction ==
  /\ pc = "reload"
  /\ reg' = sub[axis]
  /\ pc' = "report"
  /\ UNCHANGED <<input, sub, axis, inc, dir, step_px, ghosts, rel>>

Report ==
  /\ pc = "report"
  /\ sub' = [sub EXCEPT ![axis] = reg - step_px * Unit]
  /\ rel' = [axis |-> axis, px |-> dir * step_px]
  /\ NextAxis
  /\ UNCHANGED <<input, reg, inc, dir, step_px, ghosts>>

mouse_emit_rel ==
  \/ TickBegin \/ TestAxis \/ ChooseDir \/ LoadFraction \/ AddFraction
  \/ TakePixels \/ ReloadFraction \/ Report

Next ==
  \/ mouse_emit_rel \/ StartAnew
  \/ \E d \in Keys : mouse_start_move(d) \/ mouse_stop_move(d)

Spec == Init /\ [][Next]_vars

-----------------------------------------------------------------------------

\* The pointer moves where a key of that axis points which was held since the
\* tick looked at the axis, unless one of them was released before it chose the
\* sign: then it may move against the key (picocalc_kbd.c:545-556).
PointerFollows ==
  [][pc = "report" /\ pc' # "report" =>
       LET along == IF rel'.px > 0 THEN Forward ELSE Dirs \ Forward
       IN  released \/ AxisDirs[rel'.axis] \cap tested \cap along # {}]_vars

\* Between ticks less than a pixel is owed, and a debt that a reset in the middle
\* of a tick leaves is no more than the pixels of that tick: the pointer is not
\* held back for longer (picocalc_kbd.c:547-551, 580-583).
FractionBounded ==
  pc = "idle" => \A a \in Axes : sub[a] < Unit /\ sub[a] >= -(Unit * MaxPx)

\* Both: the pointer goes where the keys point, and is not held back.
PointerTrue == []FractionBounded /\ PointerFollows
=============================================================================
