---------------------------- MODULE ScreenBacklight ----------------------------
(***************************************************************************)
(* The screen brightness register REG_ID_BKL, as the brightness keys of    *)
(* the Linux keyboard driver (screen_backlight_adjust, picocalc_kbd.c) and *)
(* the sysfs attribute drive it, and as the firmware stores it             *)
(* (lcd_backlight_update, backlight.ino).  The key reads the register and  *)
(* writes it back in two I2C transfers; a process may write in between and *)
(* each transfer may fail.                                                 *)
(***************************************************************************)
EXTENDS Integers

CONSTANTS
  SysfsLevels   \* the values processes write to screen_backlight

VARIABLES
  bkl,    \* the firmware's register
  pc,     \* where screen_backlight_adjust stands
  val,    \* its val
  delta   \* its argument

vars == <<bkl, pc, val, delta>>

SCREEN_BL_STEP == 16
SCREEN_BL_MIN == 16
SCREEN_BL_MAX == 240
LCD_BACKLIGHT_STEP == 16

\* What the firmware makes of a value written to the register.
StoreBkl(v) ==
  LET r == (v \div LCD_BACKLIGHT_STEP) * LCD_BACKLIGHT_STEP
  IN  IF r < LCD_BACKLIGHT_STEP THEN LCD_BACKLIGHT_STEP
      ELSE IF r > 240 THEN 240 ELSE r

TypeOK ==
  /\ bkl \in SCREEN_BL_MIN..SCREEN_BL_MAX
  /\ pc \in {"idle", "read", "write"}
  /\ val \in 0..255
  /\ delta \in {SCREEN_BL_STEP, -SCREEN_BL_STEP}

Init ==
  /\ bkl = 2 * LCD_BACKLIGHT_STEP
  /\ pc = "idle"
  /\ val = 0
  /\ delta = SCREEN_BL_STEP

\* FN_ACTION_SCREEN_BKL_UP and FN_ACTION_SCREEN_BKL_DOWN
Adjust ==
  /\ pc = "idle"
  /\ delta' \in {SCREEN_BL_STEP, -SCREEN_BL_STEP}
  /\ pc' = "read"
  /\ UNCHANGED <<bkl, val>>

Read ==
  /\ pc = "read"
  /\ val' = bkl
  /\ pc' = "write"
  /\ UNCHANGED <<bkl, delta>>

ReadFails ==
  /\ pc = "read"
  /\ pc' = "idle"
  /\ UNCHANGED <<bkl, val, delta>>

\* val is a uint8_t: the sum wraps before it is limited.
Adjusted(v, d) ==
  LET sum == (v + d) % 256
  IN  IF sum < SCREEN_BL_MIN THEN SCREEN_BL_MIN
      ELSE IF sum > SCREEN_BL_MAX THEN SCREEN_BL_MAX ELSE sum

Write ==
  /\ pc = "write"
  /\ bkl' = StoreBkl(Adjusted(val, delta))
  /\ pc' = "idle"
  /\ UNCHANGED <<val, delta>>

WriteFails ==
  /\ pc = "write"
  /\ pc' = "idle"
  /\ UNCHANGED <<bkl, val, delta>>

\* screen_backlight_store
Sysfs(v) ==
  /\ bkl' = StoreBkl(v)
  /\ UNCHANGED <<pc, val, delta>>

Next ==
  \/ Adjust \/ Read \/ ReadFails \/ Write \/ WriteFails
  \/ \E v \in SysfsLevels : Sysfs(v)

Spec == Init /\ [][Next]_vars

-----------------------------------------------------------------------------
(* Properties *)

\* The key's write reaches the firmware.
Written == pc = "write" /\ pc' = "idle" /\ bkl' # bkl

(* The brightness-up key never leaves the screen darker than the level it read:
   "Screen Backlight +" (README_EN.md:150; picocalc_kbd.c:483-492). *)
UpNeverDims == [][Written /\ delta > 0 => bkl' >= val]_vars
=============================================================================
