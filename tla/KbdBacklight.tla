----------------------------- MODULE KbdBacklight -----------------------------
(***************************************************************************)
(* The keyboard light of the PicoCalc, register REG_ID_BK2 of the firmware,*)
(* as the Linux keyboard driver (picocalc_kbd.c) drives it from three      *)
(* contexts:                                                               *)
(*                                                                         *)
(*   - the input work, where key_dispatch meets the backlight key          *)
(*     (kbd_backlight_cycle) or the mouse toggle, which flashes the light  *)
(*     (trigger_backlight_flash);                                          *)
(*   - the delayed work bl_flash_restore, which ends the flash;            *)
(*   - processes that write the sysfs attribute keyboard_backlight.        *)
(*                                                                         *)
(* An I2C transfer sleeps, so every access to the register or to the       *)
(* driver's flags is a step of its own.  pc is where the input work stands *)
(* in the call it makes, rpc where bl_flash_restore stands.                *)
(***************************************************************************)
EXTENDS Integers

CONSTANTS
  SysfsLevels,     \* the values processes write to keyboard_backlight
  Failures         \* an I2C transfer may fail

ASSUME SysfsAssumption == SysfsLevels \subseteq 0..255
ASSUME FailuresAssumption == Failures \in BOOLEAN

VARIABLES
  bk2,                   \* the firmware's register
  kbd_bl_idx,
  saved_kbd_backlight,
  bl_flash_active,
  armed,                 \* bl_flash_work is pending
  rpc,                   \* bl_flash_restore
  pc,                    \* the input work
  level,                 \* the level asked for last, as the firmware stores it
  touched,               \* a level was asked for while a flash was on
  crossed                \* a flash was triggered while bl_flash_restore ran,
                         \* or a transfer of a flash failed

flashVars == <<saved_kbd_backlight, bl_flash_active, armed, rpc>>
ghosts == <<level, touched, crossed>>
vars == <<bk2, kbd_bl_idx, flashVars, pc, ghosts>>

KBD_BACKLIGHT_STEP == 32
KBD_BL_FLASH_VAL == 240
KBD_BL_LEVELS == 4
kbd_bl_levels == [i \in 0..3 |-> CASE i = 0 -> 0 [] i = 1 -> 80
                                   [] i = 2 -> 140 [] i = 3 -> 200]

\* kbd_backlight_update(0): what the firmware makes of a value written
StoreBk2(v) ==
  LET r == (v \div KBD_BACKLIGHT_STEP) * KBD_BACKLIGHT_STEP
  IN  IF r > 240 THEN 0 ELSE r

Flashing == {"test", "read", "flash", "mark", "schedule"}

TypeOK ==
  /\ bk2 \in 0..224 /\ bk2 % KBD_BACKLIGHT_STEP = 0
  /\ kbd_bl_idx \in 0..(KBD_BL_LEVELS - 1)
  /\ saved_kbd_backlight \in 0..224
  /\ bl_flash_active \in BOOLEAN
  /\ armed \in BOOLEAN
  /\ rpc \in {"idle", "write", "clear"}
  /\ pc \in {"idle", "cycle"} \cup Flashing
  /\ level \in 0..224
  /\ touched \in BOOLEAN
  /\ crossed \in BOOLEAN

Init ==
  /\ bk2 = 0
  /\ kbd_bl_idx = 0
  /\ saved_kbd_backlight = 0
  /\ bl_flash_active = FALSE
  /\ armed = FALSE
  /\ rpc = "idle"
  /\ pc = "idle"
  /\ level = 0
  /\ touched = FALSE
  /\ crossed = FALSE

\* A flash is on, being started or being ended.
FlashOn == armed \/ bl_flash_active \/ rpc # "idle" \/ pc \in Flashing

\* A register write reaches the firmware, or fails and changes nothing.
WriteBk2(v) == bk2' = StoreBk2(v) \/ (Failures /\ UNCHANGED bk2)

\* Somebody other than the flash asks for a level.
Ask(v) ==
  /\ WriteBk2(v)
  /\ level' = bk2'
  /\ touched' = FlashOn
  /\ crossed' = (crossed /\ FlashOn)

-----------------------------------------------------------------------------
(* trigger_backlight_flash, in the input work *)

\* cancel_delayed_work does not stop a restore that already runs
FlashTrigger ==
  /\ pc = "idle"
  /\ armed' = FALSE
  /\ pc' = "test"
  /\ crossed' = (crossed \/ rpc # "idle")
  /\ UNCHANGED <<bk2, kbd_bl_idx, saved_kbd_backlight, bl_flash_active, rpc,
                 level, touched>>

\* Seeded fault: the level is saved again while it is the flash's own.
FlashTest_Always ==
  /\ pc = "test"
  /\ pc' = "read"
  /\ UNCHANGED <<bk2, kbd_bl_idx, flashVars, ghosts>>

\* Seeded fault: a toggle while a flash is on leaves it as it is.
FlashTest_OnlyFirst ==
  /\ pc = "test"
  /\ pc' = IF bl_flash_active THEN "idle" ELSE "read"
  /\ UNCHANGED <<bk2, kbd_bl_idx, flashVars, ghosts>>

FlashTest ==
  /\ pc = "test"
  /\ pc' = IF bl_flash_active THEN "flash" ELSE "read"
  /\ UNCHANGED <<bk2, kbd_bl_idx, flashVars, ghosts>>

FlashRead ==
  /\ pc = "read"
  /\ \/ saved_kbd_backlight' = bk2
     \/ Failures /\ UNCHANGED saved_kbd_backlight
  /\ crossed' = (crossed \/ saved_kbd_backlight' # bk2)
  /\ pc' = "flash"
  /\ UNCHANGED <<bk2, kbd_bl_idx, bl_flash_active, armed, rpc, level, touched>>

FlashWrite ==
  /\ pc = "flash"
  /\ WriteBk2(KBD_BL_FLASH_VAL)
  /\ pc' = "mark"
  /\ UNCHANGED <<kbd_bl_idx, flashVars, ghosts>>

FlashMark ==
  /\ pc = "mark"
  /\ bl_flash_active' = TRUE
  /\ pc' = "schedule"
  /\ UNCHANGED <<bk2, kbd_bl_idx, saved_kbd_backlight, armed, rpc, ghosts>>

FlashSchedule ==
  /\ pc = "schedule"
  /\ armed' = TRUE
  /\ pc' = "idle"
  /\ UNCHANGED <<bk2, kbd_bl_idx, saved_kbd_backlight, bl_flash_active, rpc,
                 ghosts>>

-----------------------------------------------------------------------------
(* bl_flash_restore, in a worker of its own *)

RestoreStart ==
  /\ armed /\ rpc = "idle"
  /\ armed' = FALSE
  /\ rpc' = "write"
  /\ UNCHANGED <<bk2, kbd_bl_idx, saved_kbd_backlight, bl_flash_active, pc,
                 ghosts>>

RestoreWrite ==
  /\ rpc = "write"
  /\ WriteBk2(saved_kbd_backlight)
  /\ crossed' = (crossed \/ bk2' # saved_kbd_backlight)
  /\ rpc' = "clear"
  /\ UNCHANGED <<kbd_bl_idx, saved_kbd_backlight, bl_flash_active, armed, pc,
                 level, touched>>

\* Seeded fault: the flash is not marked as over.
RestoreClear_Kept ==
  /\ rpc = "clear"
  /\ rpc' = "idle"
  /\ UNCHANGED <<bk2, kbd_bl_idx, saved_kbd_backlight, bl_flash_active, armed,
                 pc, ghosts>>

RestoreClear ==
  /\ rpc = "clear"
  /\ bl_flash_active' = FALSE
  /\ rpc' = "idle"
  /\ UNCHANGED <<bk2, kbd_bl_idx, saved_kbd_backlight, armed, pc, ghosts>>

-----------------------------------------------------------------------------
(* kbd_backlight_cycle and keyboard_backlight_store *)

CycleKey ==
  /\ pc = "idle"
  /\ kbd_bl_idx' = (kbd_bl_idx + 1) % KBD_BL_LEVELS
  /\ pc' = "cycle"
  /\ UNCHANGED <<bk2, flashVars, ghosts>>

CycleWrite ==
  /\ pc = "cycle"
  /\ Ask(kbd_bl_levels[kbd_bl_idx])
  /\ pc' = "idle"
  /\ UNCHANGED <<kbd_bl_idx, flashVars>>

Sysfs(v) ==
  /\ Ask(v)
  /\ UNCHANGED <<kbd_bl_idx, flashVars, pc>>

-----------------------------------------------------------------------------
InputWork ==
  \/ FlashTest \/ FlashRead \/ FlashWrite \/ FlashMark \/ FlashSchedule
  \/ CycleWrite

Restore == RestoreStart \/ RestoreWrite \/ RestoreClear

Next ==
  \/ FlashTrigger \/ CycleKey \/ InputWork \/ Restore
  \/ \E v \in SysfsLevels : Sysfs(v)

Spec == Init /\ [][Next]_vars

(* The work queue runs both works to their end, and the delay expires. *)
FairSpec == Spec /\ WF_vars(InputWork) /\ WF_vars(Restore)

-----------------------------------------------------------------------------
(* Properties *)

(* After a flash the light is back at the level it had before, unless another
   one was asked for meanwhile: "max brightness for 0.5s then restore,
   re-entrant timer" (README_EN.md:219; picocalc_kbd.c:461-481). *)
FlashRestores == ~FlashOn /\ ~touched => bk2 = level

(* The same, unless a toggle met a restore already under way or a transfer of a
   flash failed (picocalc_kbd.c:461-481): the flag and the saved level carry a
   flash through any number of toggles before it ends. *)
FlashRestoresAlone == ~crossed => FlashRestores

(* A flash never stays on: while it is marked active a restore is pending or
   running, or the input work is about to schedule one, even where a toggle
   meets a restore already under way (picocalc_kbd.c:461-481). *)
RestoreComing ==
  bl_flash_active => armed \/ rpc # "idle" \/ pc \in Flashing

(* A flash ends unless the mouse mode is toggled again (picocalc_kbd.c:479). *)
FlashEnds == (bl_flash_active /\ pc = "idle") ~> (~bl_flash_active \/ pc # "idle")
=============================================================================
