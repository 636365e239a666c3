------------------------------- MODULE OldKbd -------------------------------
(***************************************************************************)
(* key_report_event of the driver for firmware 1.2                         *)
(* (picocalc_keyboard_old): the firmware applies the modifiers itself and  *)
(* the driver has to tell from scancodes, and from the shifts it saw go by,*)
(* what a key means: the second keycodes under R-shift, mouse mode, and the*)
(* scancode 0xD1, which is Alt+I and Shift+Enter both.                     *)
(*                                                                         *)
(* The firmware's side is taken from the driver's comments: the scancode is*)
(* chosen anew for each event, a held key may be reported PRESSED or HOLD  *)
(* again, and a key without a symbol is not reported while a shift is held.*)
(* HOLD is passed over, or an arrow that pages and an I that was Alt+I     *)
(* would not be lifted by it: the only two branches that forget about it.  *)
(* Keycodes are named after their keys.  Alt's own keycode, which Alt+I    *)
(* lifts, and the steps of the pointer are left out.                       *)
(***************************************************************************)
EXTENDS FiniteSets, Naturals

\* fn_keycodes: keycode1 is named after the key, keycode2 is given
FnKeycodes ==
  [F1 |-> "F6", F2 |-> "F7", F3 |-> "F8", F4 |-> "F9", F5 |-> "F10",
   ESC |-> "PAUSE", TAB |-> "HOME", DELETE |-> "END",
   UP |-> "PAGEUP", DOWN |-> "PAGEDOWN"]
Rows == DOMAIN FnKeycodes

Vertical == {"UP", "DOWN"}
Arrows == Vertical \cup {"LEFT", "RIGHT"}
ButtonOf == [LBRACKET |-> "BTN_LEFT", RBRACKET |-> "BTN_RIGHT"]
Brackets == DOMAIN ButtonOf
NoSymbol == {"LEFT", "RIGHT", "BACKSPACE"}
Shared == {"I", "ENTER"}      \* the keys that may send 0xD1

CONSTANTS
  Keys,      \* the keys of the keyboard that are no shifts
  MaxHeld,   \* bound: how many of them are held at a time
  MaxMixed   \* bound: how many of them may be in mixed

VARIABLES
  held,               \* keys physically held, the shifts apart
  phy_SHR, phy_SHL,
  alt,                \* Alt or its lock, in the firmware
  mouse_mode, mouse_move_dir, virtual_INS,
  keycode2_pressed,   \* the rows with the flag set
  down,               \* keycodes Linux holds down
  seen,               \* ghost: what a held key was pressed under
  mixed               \* ghost: the keys for which that has changed since

shifts == <<phy_SHR, phy_SHL, alt>>
mouse == <<mouse_mode, mouse_move_dir>>
vars == <<held, shifts, mouse, virtual_INS, keycode2_pressed, down, seen, mixed>>

Context == [mouse : BOOLEAN, shr : BOOLEAN, shl : BOOLEAN, alt : BOOLEAN]
Unpressed == [mouse |-> FALSE, shr |-> FALSE, shl |-> FALSE, alt |-> FALSE]
Keycodes ==
  Keys \cup {FnKeycodes[k] : k \in Rows} \cup {"BTN_LEFT", "BTN_RIGHT", "INSERT", "RIGHTSHIFT", "LEFTSHIFT"}

TypeOK ==
  /\ held \subseteq Keys /\ mixed \subseteq Keys
  /\ phy_SHR \in BOOLEAN /\ phy_SHL \in BOOLEAN /\ alt \in BOOLEAN
  /\ mouse_mode \in BOOLEAN /\ mouse_move_dir \subseteq Arrows
  /\ virtual_INS \in BOOLEAN /\ keycode2_pressed \subseteq Rows
  /\ down \subseteq Keycodes
  /\ seen \in [Keys -> Context]

Init ==
  /\ held = {} /\ phy_SHR = FALSE /\ phy_SHL = FALSE /\ alt = FALSE
  /\ mouse_mode = FALSE /\ mouse_move_dir = {} /\ virtual_INS = FALSE
  /\ keycode2_pressed = {} /\ down = {} /\ mixed = {}
  /\ seen = [k \in Keys |-> Unpressed]

\* input_report_key
Reported(codes, code, pressed) == IF pressed THEN codes \cup {code} ELSE codes \ {code}

\* The branches of key_report_event, for a press or a release of key k.  What
\* they leave alone is said where they are taken.

\* Mouse mode, an arrow: it moves the pointer or, vertically under R-shift, pages.
MouseArrow(k, pressed) ==
  IF k \in Vertical /\ phy_SHR
  THEN /\ down' = Reported(IF pressed THEN down \ {"RIGHTSHIFT"} ELSE down, FnKeycodes[k], pressed)
       /\ UNCHANGED mouse_move_dir
  ELSE /\ mouse_move_dir' = Reported(mouse_move_dir, k, pressed)
       /\ UNCHANGED down

MouseButton(k, pressed) == down' = Reported(down, ButtonOf[k], pressed)

\* Scancode 0xD1
Insert(pressed) ==
  \/ /\ ~phy_SHL /\ ~phy_SHR          \* Alt+I
     /\ down' = Reported(down, "INSERT", pressed)
     /\ virtual_INS' = pressed
     /\ UNCHANGED mouse_mode
  \/ /\ ~phy_SHL /\ phy_SHR           \* R-shift+Enter
     /\ mouse_mode' = IF pressed THEN ~mouse_mode ELSE mouse_mode
     /\ UNCHANGED <<down, virtual_INS>>
  \/ /\ phy_SHL /\ ~phy_SHR           \* L-shift+Enter
     /\ down' = Reported(down, "ENTER", pressed)
     /\ UNCHANGED <<mouse_mode, virtual_INS>>
  \/ /\ phy_SHL /\ phy_SHR
     /\ UNCHANGED <<down, mouse_mode, virtual_INS>>

\* Seeded fault: the release goes by R-shift, as the press does.
proccess_fn_key_NoFlag(k, pressed) ==
  /\ down' = IF phy_SHR THEN Reported(down \ {"RIGHTSHIFT"}, FnKeycodes[k], pressed)
             ELSE Reported(down, k, pressed)
  /\ UNCHANGED keycode2_pressed

\* A row of fn_keycodes: the flag remembers which keycode was pressed.
proccess_fn_key(k, pressed) ==
  \/ /\ pressed /\ phy_SHR
     /\ down' = (down \ {"RIGHTSHIFT"}) \cup {FnKeycodes[k]}
     /\ keycode2_pressed' = keycode2_pressed \cup {k}
  \/ /\ pressed /\ ~phy_SHR
     /\ down' = down \cup {k}
     /\ UNCHANGED keycode2_pressed
  \/ /\ ~pressed
     /\ down' = down \ {IF k \in keycode2_pressed THEN FnKeycodes[k] ELSE k}
     /\ keycode2_pressed' = keycode2_pressed \ {k}

\* The keycodes table; I takes back the INSERT of an Alt+I.
Plain(k, pressed) ==
  IF k = "I" /\ virtual_INS
  THEN down' = down \ {"INSERT"} /\ virtual_INS' = FALSE
  ELSE down' = Reported(down, k, pressed) /\ UNCHANGED virtual_INS

\* 0xD1: Enter under a shift, or I with Alt or its lock.
SendsInsert(k) ==
  \/ k = "I" /\ alt
  \/ k = "ENTER" /\ (phy_SHL \/ phy_SHR)

key_report_event(k, pressed) ==
  \/ /\ mouse_mode /\ k \in Arrows
     /\ MouseArrow(k, pressed)
     /\ UNCHANGED <<mouse_mode, virtual_INS, keycode2_pressed>>
  \/ /\ mouse_mode /\ k \in Brackets
     /\ MouseButton(k, pressed)
     /\ UNCHANGED <<mouse, virtual_INS, keycode2_pressed>>
  \/ /\ SendsInsert(k)
     /\ Insert(pressed)
     /\ UNCHANGED <<mouse_move_dir, keycode2_pressed>>
  \/ /\ k \in Rows /\ ~(mouse_mode /\ k \in Arrows)
     /\ proccess_fn_key(k, pressed)
     /\ UNCHANGED <<mouse, virtual_INS>>
  \/ /\ k \notin Rows
     /\ ~(mouse_mode /\ k \in Arrows \cup Brackets)
     /\ ~SendsInsert(k)
     /\ Plain(k, pressed)
     /\ UNCHANGED <<mouse, keycode2_pressed>>

-----------------------------------------------------------------------------
(* The keyboard *)

\* What a key is pressed under, as far as its branches look at it.
Under(k) ==
  LET shifts_count == k \in NoSymbol \cup {"ENTER"} \/ (k = "I" /\ alt)
  IN [mouse |-> mouse_mode /\ k \in Arrows \cup Brackets,
      shr |-> phy_SHR /\ (k \in Rows \/ shifts_count),
      shl |-> phy_SHL /\ shifts_count,
      alt |-> alt /\ k = "I"]

\* What the driver must remember of a press of k to undo it: the mode for the
\* keys of the mouse, the shifts for some; a row remembers them itself.
Differs(k, pressed) ==
  \/ k \in Arrows \cup Brackets /\ seen[k].mouse # mouse_mode
  \/ /\ (k \in Vertical /\ mouse_mode) \/ (k \in Rows /\ pressed)
     /\ seen[k].shr # phy_SHR
  \/ k \in NoSymbol \cup {"ENTER"} /\ <<seen[k].shr, seen[k].shl>> # <<phy_SHR, phy_SHL>>
  \/ k = "I" /\ ~seen[k].alt /\ alt
  \/ /\ k = "I" /\ seen[k].alt
     /\ \/ <<seen[k].shr, seen[k].shl>> # <<phy_SHR, phy_SHL>>
        \/ ~alt /\ (seen[k].shr \/ seen[k].shl)

Mark(k, pressed) ==
  /\ mixed' = IF Differs(k, pressed) THEN mixed \cup {k} ELSE mixed
  /\ Cardinality(mixed') <= MaxMixed

Silent(k) == k \in NoSymbol /\ (phy_SHL \/ phy_SHR)

Send(k, pressed) ==
  IF Silent(k)
  THEN UNCHANGED <<mouse, virtual_INS, keycode2_pressed, down>>
  ELSE key_report_event(k, pressed)

Press(k) ==
  /\ k \notin held /\ Cardinality(held) < MaxHeld
  /\ held' = held \cup {k}
  /\ Send(k, TRUE)
  /\ seen' = [seen EXCEPT ![k] = Under(k)]
  /\ UNCHANGED <<shifts, mixed>>

\* Reported again while it is held.
Repeat(k) ==
  /\ k \in held \ Shared
  /\ Send(k, TRUE)
  /\ Mark(k, TRUE)
  /\ UNCHANGED <<held, shifts, seen>>

\* HOLD, where it is not passed over: it is no press, so the page key is lifted,
\* and I takes back the INSERT of an Alt+I whose Alt is up.
Hold(k) ==
  /\ k \in held
  /\ \/ /\ mouse_mode /\ phy_SHR /\ k \in Vertical
        /\ down' = down \ {FnKeycodes[k]}
        /\ UNCHANGED virtual_INS
     \/ /\ k = "I" /\ ~alt /\ virtual_INS
        /\ Plain(k, TRUE)
  /\ UNCHANGED <<held, shifts, mouse, keycode2_pressed, seen, mixed>>

Release(k) ==
  /\ k \in held
  /\ held' = held \ {k}
  /\ Send(k, FALSE)
  /\ Mark(k, FALSE)
  /\ seen' = [seen EXCEPT ![k] = Unpressed]
  /\ UNCHANGED shifts

RShift ==
  /\ phy_SHR' = ~phy_SHR
  /\ down' = Reported(down, "RIGHTSHIFT", phy_SHR')
  /\ UNCHANGED <<held, phy_SHL, alt, mouse, virtual_INS, keycode2_pressed, seen, mixed>>

LShift ==
  /\ phy_SHL' = ~phy_SHL
  /\ down' = Reported(down, "LEFTSHIFT", phy_SHL')
  /\ UNCHANGED <<held, phy_SHR, alt, mouse, virtual_INS, keycode2_pressed, seen, mixed>>

Alt ==
  /\ alt' = ~alt
  /\ UNCHANGED <<held, phy_SHR, phy_SHL, mouse, virtual_INS, keycode2_pressed, down, seen, mixed>>

Next ==
  \/ \E k \in Keys : Press(k) \/ Repeat(k) \/ Hold(k) \/ Release(k)
  \/ RShift \/ LShift \/ Alt

Spec == Init /\ [][Next]_vars

-----------------------------------------------------------------------------

\* What a key may put down.
CodesOf(k) ==
  {k} \cup (IF k \in Rows THEN {FnKeycodes[k]} ELSE {})
      \cup (IF k \in Brackets THEN {ButtonOf[k]} ELSE {})
      \cup (IF k = "I" THEN {"INSERT", "ENTER"} ELSE {})

\* A key that is up has left nothing down and no direction set, unless the mode
\* or the shifts it was pressed under changed before the release, for the keys
\* whose branch looks at them again.  A row of fn_keycodes is not among them: it
\* may lose R-shift, but not be repeated under another (picocalc_kbd.c of the
\* old driver: 274-311, 331-434, 441-483).
UpLeavesNothing ==
  /\ \A c \in down \ {"RIGHTSHIFT", "LEFTSHIFT"} :
       \E k \in held \cup mixed : c \in CodesOf(k)
  /\ mouse_move_dir \cup keycode2_pressed \subseteq held \cup mixed
=============================================================================
