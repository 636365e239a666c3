----------------------------- MODULE KbdDispatch -----------------------------
(***************************************************************************)
(* key_dispatch of the Linux keyboard driver (picocalc_kbd.c), the state   *)
(* machine that turns the firmware's key events into input events: the Fn  *)
(* layer and shift supplement of R-shift, mouse mode, and the emit mode    *)
(* locked in when a key goes down; with the delayed work that moves the    *)
(* pointer, mouse_emit_rel, which runs in another worker.                  *)
(*                                                                         *)
(* The input work takes one event at a time and never runs twice at once,  *)
(* so one event is one action.  The events come in any order: the firmware *)
(* repeats PRESSED while a key is held and its FIFO loses events when full.*)
(* HOLD events, PK_POWER and unknown scancodes are dropped on entry and    *)
(* change nothing.  A base keycode is named after its physical key.        *)
(*                                                                         *)
(* The backlight calls of CapsToggle and PressAction are the first steps   *)
(* of KbdBacklight and ScreenBacklight.                                    *)
(***************************************************************************)
EXTENDS Integers

Arrows == {"UP", "DOWN", "LEFT", "RIGHT"}
Brackets == {"LBRACKET", "RBRACKET"}
Passed == {"LSHIFT", "LALT", "LCTRL"}

FnKeyTable ==
  [F1 |-> "F6", F2 |-> "F7", F3 |-> "F8", F4 |-> "F9", F5 |-> "F10",
   ESC |-> "PAUSE", TAB |-> "HOME", DELETE |-> "END", BACKSPACE |-> "F11",
   UP |-> "PAGEUP", DOWN |-> "PAGEDOWN", LEFT |-> "HOME", RIGHT |-> "END",
   I |-> "INSERT"]

MouseFnKeyTable ==
  [UP |-> "UP", DOWN |-> "DOWN", LEFT |-> "LEFT", RIGHT |-> "RIGHT",
   LBRACKET |-> "LBRACKET", RBRACKET |-> "RBRACKET",
   GRAVE |-> "PAGEUP", SLASH |-> "PAGEDOWN"]

FnActionTable ==
  [COMMA |-> "screen_down", DOT |-> "screen_up", SPACE |-> "kbd_cycle"]

\* The keys with a base keycode that are not modifiers.
PlainKeys ==
  {"A", "B", "C", "D", "E", "F", "G", "H", "I", "J", "K", "L", "M", "N", "O",
   "P", "Q", "R", "S", "T", "U", "V", "W", "X", "Y", "Z",
   "0", "1", "2", "3", "4", "5", "6", "7", "8", "9",
   "SPACE", "ENTER", "TAB", "ESC", "BACKSPACE", "DOT", "COMMA", "SEMICOLON",
   "APOSTROPHE", "MINUS", "EQUAL", "SLASH", "BACKSLASH", "LBRACKET",
   "RBRACKET", "GRAVE", "F1", "F2", "F3", "F4", "F5", "F6", "F7", "F8", "F9",
   "F10", "UP", "DOWN", "LEFT", "RIGHT", "HOME", "END", "INSERT", "DELETE",
   "PAUSE"}

CONSTANTS
  Keys,      \* the plain keys of the keyboard
  Modifiers  \* the modifiers passed through: L-shift, Alt, Ctrl

ASSUME KeysAssumption == Keys \subseteq PlainKeys
ASSUME ModifiersAssumption == Modifiers \subseteq Passed

Modes == {"NONE", "NORMAL", "SHIFTED", "FN", "MOUSE"}

\* What a plain key can report: its base keycode, the Fn keycodes, a button,
\* or nothing (keycode 0).
PlainCodes == PlainKeys \cup {"F11", "PAGEUP", "PAGEDOWN"}
Buttons == {"BTN_LEFT", "BTN_RIGHT"}
OwnedCodes == PlainCodes \cup Buttons
Keycodes == OwnedCodes \cup Passed \cup {"CAPSLOCK", "RIGHTSHIFT"}

VARIABLES
  phy_SHR,          \* R-shift is physically held
  phy_mods,         \* the modifiers of Passed that are: phy_SHL, phy_ALT, phy_CTRL
  capslock,
  rshift_reported,
  key_state,        \* per key, the emit mode and keycode locked at key-down
  mouse_mode,
  mouse_dir,        \* the arrows the pointer follows
  mouse_armed,      \* mouse_dw is pending
  mouse_tick,       \* mouse_emit_rel runs and has found mouse_dir not 0
  down              \* the keycodes the input core holds down

mouseVars == <<mouse_mode, mouse_dir, mouse_armed, mouse_tick>>
modVars == <<phy_SHR, phy_mods, capslock, rshift_reported>>
vars == <<modVars, mouseVars, key_state, down>>

None == [mode |-> "NONE", keycode |-> "none"]

TypeOK ==
  /\ phy_SHR \in BOOLEAN
  /\ phy_mods \subseteq Modifiers
  /\ capslock \in BOOLEAN
  /\ rshift_reported \in BOOLEAN
  /\ key_state \in [Keys -> [mode : Modes, keycode : OwnedCodes \cup {"none"}]]
  /\ mouse_mode \in BOOLEAN
  /\ mouse_dir \subseteq (Keys \cap Arrows)
  /\ mouse_armed \in BOOLEAN
  /\ mouse_tick \in BOOLEAN
  /\ down \subseteq Keycodes

Init ==
  /\ phy_SHR = FALSE
  /\ phy_mods = {}
  /\ capslock = FALSE
  /\ rshift_reported = FALSE
  /\ key_state = [k \in Keys |-> None]
  /\ mouse_mode = FALSE
  /\ mouse_dir = {}
  /\ mouse_armed = FALSE
  /\ mouse_tick = FALSE
  /\ down = {}

-----------------------------------------------------------------------------
(* Modifiers *)

PressModifier(m) ==
  /\ phy_mods' = phy_mods \cup {m}
  /\ down' = down \cup {m}
  /\ UNCHANGED <<phy_SHR, capslock, rshift_reported, key_state, mouseVars>>

ReleaseModifier(m) ==
  /\ phy_mods' = phy_mods \ {m}
  /\ down' = down \ {m}
  /\ UNCHANGED <<phy_SHR, capslock, rshift_reported, key_state, mouseVars>>

PressRShift ==
  /\ phy_SHR' = TRUE
  /\ UNCHANGED <<phy_mods, capslock, rshift_reported, key_state, down, mouseVars>>

\* rshift_supplement_up
SupplementUp ==
  /\ down' = IF rshift_reported THEN down \ {"RIGHTSHIFT"} ELSE down
  /\ rshift_reported' = FALSE

\* Seeded fault: the supplement is left for the next key to clean up.
ReleaseRShift_KeepsSupplement ==
  /\ phy_SHR' = FALSE
  /\ UNCHANGED <<phy_mods, capslock, rshift_reported, key_state, down, mouseVars>>

ReleaseRShift ==
  /\ phy_SHR' = FALSE
  /\ SupplementUp
  /\ UNCHANGED <<phy_mods, capslock, key_state, mouseVars>>

\* Seeded fault: the pointer keeps the directions it had.
CapsToggle_KeepsDir ==
  /\ phy_SHR
  /\ mouse_mode' = ~mouse_mode
  /\ mouse_armed' = FALSE
  /\ SupplementUp
  /\ UNCHANGED <<phy_SHR, phy_mods, capslock, key_state, mouse_dir, mouse_tick>>

\* Seeded fault: the toggle reports the buttons up behind their keys' back.
CapsToggle_ReleasesButtons ==
  /\ phy_SHR
  /\ mouse_mode' = ~mouse_mode
  /\ mouse_dir' = {}
  /\ mouse_armed' = FALSE
  /\ down' = down \ (Buttons \cup {"RIGHTSHIFT"})
  /\ rshift_reported' = FALSE
  /\ UNCHANGED <<phy_SHR, phy_mods, capslock, key_state, mouse_tick>>

\* R-shift + Capslock
CapsToggle ==
  /\ phy_SHR
  /\ mouse_mode' = ~mouse_mode
  /\ mouse_dir' = {}
  /\ mouse_armed' = FALSE
  /\ SupplementUp
  /\ UNCHANGED <<phy_SHR, phy_mods, capslock, key_state, mouse_tick>>

PressCaps ==
  /\ ~phy_SHR
  /\ down' = down \cup {"CAPSLOCK"}
  /\ capslock' = ~capslock
  /\ UNCHANGED <<phy_SHR, phy_mods, rshift_reported, key_state, mouseVars>>

ReleaseCaps ==
  /\ down' = down \ {"CAPSLOCK"}
  /\ UNCHANGED <<modVars, key_state, mouseVars>>

-----------------------------------------------------------------------------
(* Key down: the emit mode is chosen and locked *)

\* A repeated PRESSED of the firmware is ignored.
Fresh(k) == key_state[k].mode = "NONE"

Lock(k, mode, keycode) ==
  key_state' = [key_state EXCEPT ![k] = [mode |-> mode, keycode |-> keycode]]

MouseAction(k) == mouse_mode /\ ~phy_SHR /\ k \in Arrows \cup Brackets

Button(k) == IF k = "LBRACKET" THEN "BTN_LEFT" ELSE "BTN_RIGHT"

\* mouse_start_move: the first direction starts the timer
PressArrow(k) ==
  /\ Fresh(k)
  /\ MouseAction(k) /\ k \in Arrows
  /\ Lock(k, "MOUSE", "none")
  /\ mouse_dir' = mouse_dir \cup {k}
  /\ mouse_armed' = (mouse_armed \/ mouse_dir = {})
  /\ UNCHANGED <<modVars, mouse_mode, mouse_tick, down>>

PressButton(k) ==
  /\ Fresh(k)
  /\ MouseAction(k) /\ k \in Brackets
  /\ Lock(k, "MOUSE", Button(k))
  /\ down' = down \cup {Button(k)}
  /\ UNCHANGED <<modVars, mouseVars>>

FnAction(k) == k \in DOMAIN FnActionTable

\* lookup_fn_keycode
FnKeycode(k) ==
  IF mouse_mode /\ k \in DOMAIN MouseFnKeyTable THEN MouseFnKeyTable[k]
  ELSE IF k \in DOMAIN FnKeyTable THEN FnKeyTable[k]
  ELSE "none"

PressAction(k) ==
  /\ Fresh(k)
  /\ phy_SHR /\ FnAction(k)
  /\ Lock(k, "FN", "none")
  /\ UNCHANGED <<modVars, mouseVars, down>>

PressFn(k) ==
  /\ Fresh(k)
  /\ phy_SHR /\ ~FnAction(k) /\ FnKeycode(k) # "none"
  /\ Lock(k, "FN", FnKeycode(k))
  /\ down' = down \cup {FnKeycode(k)}
  /\ UNCHANGED <<modVars, mouseVars>>

\* R-shift on a key of neither Fn table: rshift_supplement_down, then the key
PressShifted(k) ==
  /\ Fresh(k)
  /\ phy_SHR /\ ~FnAction(k) /\ FnKeycode(k) = "none"
  /\ Lock(k, "SHIFTED", k)
  /\ rshift_reported' = TRUE
  /\ down' = down \cup {"RIGHTSHIFT", k}
  /\ UNCHANGED <<phy_SHR, phy_mods, capslock, mouseVars>>

PressNormal(k) ==
  /\ Fresh(k)
  /\ ~phy_SHR /\ ~MouseAction(k)
  /\ Lock(k, "NORMAL", k)
  /\ down' = down \cup {k}
  /\ UNCHANGED <<modVars, mouseVars>>

-----------------------------------------------------------------------------
(* Key up: what was locked is undone *)

\* Seeded fault: the base keycode goes up, whatever went down.
ReleaseKey_Base(k) ==
  /\ key_state[k].mode \in {"NORMAL", "SHIFTED", "FN"}
  /\ down' = down \ {k}
  /\ Lock(k, "NONE", "none")
  /\ UNCHANGED <<modVars, mouseVars>>

ReleaseKey(k) ==
  /\ key_state[k].mode \in {"NORMAL", "SHIFTED", "FN"}
  /\ down' = down \ {key_state[k].keycode}
  /\ Lock(k, "NONE", "none")
  /\ UNCHANGED <<modVars, mouseVars>>

\* mouse_stop_move; cancel_delayed_work does not wait for a run under way
ReleaseArrow(k) ==
  /\ key_state[k].mode = "MOUSE" /\ k \in Arrows
  /\ mouse_dir' = mouse_dir \ {k}
  /\ mouse_armed' = (mouse_armed /\ mouse_dir' # {})
  /\ Lock(k, "NONE", "none")
  /\ UNCHANGED <<modVars, mouse_mode, mouse_tick, down>>

ReleaseButton(k) ==
  /\ key_state[k].mode = "MOUSE" /\ k \in Brackets
  /\ down' = down \ {Button(k)}
  /\ Lock(k, "NONE", "none")
  /\ UNCHANGED <<modVars, mouseVars>>

-----------------------------------------------------------------------------
(* mouse_emit_rel, in its own worker: it may have tested mouse_dir before a
   release or a mode toggle and reschedule itself after. *)

MouseExpire ==
  /\ mouse_armed /\ ~mouse_tick
  /\ mouse_armed' = FALSE
  /\ mouse_tick' = (mouse_dir # {})
  /\ UNCHANGED <<modVars, mouse_mode, mouse_dir, key_state, down>>

\* Seeded fault: the work does not schedule itself again.
MouseRearm_Dropped ==
  /\ mouse_tick
  /\ mouse_tick' = FALSE
  /\ UNCHANGED <<modVars, mouse_mode, mouse_dir, mouse_armed, key_state, down>>

MouseRearm ==
  /\ mouse_tick
  /\ mouse_tick' = FALSE
  /\ mouse_armed' = TRUE
  /\ UNCHANGED <<modVars, mouse_mode, mouse_dir, key_state, down>>

-----------------------------------------------------------------------------
DispatchModifier ==
  \/ \E m \in Modifiers : PressModifier(m) \/ ReleaseModifier(m)
  \/ PressRShift \/ ReleaseRShift \/ PressCaps \/ ReleaseCaps

DispatchKey(k) ==
  \/ PressArrow(k) \/ PressButton(k) \/ PressFn(k) \/ PressShifted(k)
  \/ PressNormal(k) \/ ReleaseKey(k) \/ ReleaseArrow(k) \/ ReleaseButton(k)

Next ==
  \/ DispatchModifier
  \/ CapsToggle
  \/ \E k \in Keys : DispatchKey(k) \/ PressAction(k)
  \/ MouseExpire \/ MouseRearm

Spec == Init /\ [][Next]_vars

(* The timer of a pending work expires and its worker finishes. *)
FairSpec == Spec /\ WF_vars(MouseExpire) /\ WF_vars(MouseRearm)

-----------------------------------------------------------------------------
(* Properties *)

(* KEY_RIGHTSHIFT is down in Linux exactly when the driver remembers reporting
   it, and never after R-shift itself was released or used for the mouse
   toggle (rshift_supplement_down and _up, picocalc_kbd.c:609-623). *)
ShiftOnlyWhileHeld ==
  /\ rshift_reported <=> "RIGHTSHIFT" \in down
  /\ rshift_reported => phy_SHR

(* Every keycode Linux holds down is the one some key locked at its key-down,
   so the release of that key takes it up: none is left stuck by a change of
   R-shift or of mouse mode in between (picocalc_kbd.c:717-750). *)
NoStuckKey ==
  \A c \in down \cap OwnedCodes :
    \E k \in Keys : key_state[k].mode # "NONE" /\ key_state[k].keycode = c

\* The keycodes a key may lock, and the keys that share none with another.
Reports(k) ==
  {k} \cup (IF k \in DOMAIN FnKeyTable THEN {FnKeyTable[k]} ELSE {})
      \cup (IF k \in DOMAIN MouseFnKeyTable THEN {MouseFnKeyTable[k]} ELSE {})
Alone(k) == \A l \in Keys : l # k => Reports(k) \cap Reports(l) = {}

(* The keycode a held key locked, if no other key can lock it, is down until
   that key is released, whatever R-shift, Capslock and the other keys do
   meanwhile (README_EN.md, section 1.3; picocalc_kbd.c:755-844). *)
HeldIsDown ==
  \A k \in Keys :
    Alone(k) /\ key_state[k].keycode # "none" => key_state[k].keycode \in down

(* The emit mode and keycode locked at key-down stay until the key is released,
   although the firmware repeats PRESSED (picocalc_kbd.c:756-758). *)
LockedUntilRelease ==
  [][\A k \in Keys :
       key_state[k] # None => key_state'[k] \in {key_state[k], None}]_vars

(* The pointer moves only in mouse mode and only in directions of arrows that
   went down in it and are still held; a mouse button is down exactly while its
   bracket is locked to it (picocalc_kbd.c:690-702, 724-745, 761-790). *)
MouseOwned ==
  /\ mouse_dir # {} => mouse_mode
  /\ \A k \in mouse_dir : key_state[k].mode = "MOUSE"
  /\ \A k \in Keys \cap Brackets :
       Button(k) \in down <=> key_state[k].mode = "MOUSE"

(* While a direction is held the movement work is pending or running, although
   cancel_delayed_work does not wait for a run that already tested mouse_dir
   (picocalc_kbd.c:505-603). *)
MoverAlive == mouse_dir # {} => mouse_armed \/ mouse_tick

(* A held direction always moves the pointer again, or is given up
   (picocalc_kbd.c:516-569). *)
PointerKeepsMoving == mouse_dir # {} ~> (mouse_tick \/ mouse_dir = {})

(* A Fn keycode is reported without the shift supplement: "Fn keycode (no
   shift)" (picocalc_kbd.c:197), "down/up uses the Fn keycode directly, no
   shift." (README_EN.md:38). *)
FnWithoutShift ==
  [][\A k \in Keys :
       /\ key_state[k].mode = "NONE" /\ key_state'[k].mode = "FN"
       /\ key_state'[k].keycode # "none"
       => "RIGHTSHIFT" \notin down']_vars
=============================================================================
