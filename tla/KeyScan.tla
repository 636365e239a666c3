------------------------------- MODULE KeyScan -------------------------------
(***************************************************************************)
(* The key scanner of the STM32 firmware (keyboard.ino).  keyboard_process *)
(* reads the pins one after the other, keeps the keys that are not at rest *)
(* in a list of KEY_LIST_SIZE items, walks each item through pressed, hold *)
(* and released, and reports each transition to key_cb.                    *)
(*                                                                         *)
(* One step is the treatment of one pin; the user may move a key between   *)
(* any two.  The two times, hold and repeat, are free: a key may be past   *)
(* KEY_HOLD_TIME whenever it is looked at.  The keys are the ones the code *)
(* tells apart: A, 1, F1 and BACKSPACE stand for the other letters, the    *)
(* other keys with a second symbol, the other keys whose hold is reported  *)
(* as such and the other keys without a second symbol.                     *)
(***************************************************************************)
EXTENDS Naturals, Sequences

ModKeys == {"ALT", "CTRL", "SHL", "SHR"}
Letters == {"A", "B", "I"}
WithSymb == {"1", ",", ".", "F1"}
HotKeys == {",", ".", "SPACE", "B"}   \* with ALT: the lights and the battery
AllKeys == ModKeys \cup Letters \cup WithSymb \cup {"SPACE", "BACKSPACE", "CAPS"}

CONSTANTS
  Order,          \* the keys of this instance, in the order of the scan
  ListSize,       \* KEY_LIST_SIZE
  UseModsValues   \* values of CFG_USE_MODS: the driver clears it at its probe

ASSUME OrderAssumption ==
  /\ Order \in Seq(AllKeys)
  /\ Len(Order) >= 2
  /\ \A i, j \in 1..Len(Order) : Order[i] = Order[j] => i = j
ASSUME ListSizeAssumption == ListSize \in Nat \ {0}
ASSUME UseModsAssumption == UseModsValues \subseteq BOOLEAN

Keys == {Order[i] : i \in 1..Len(Order)}

None == "none"
Layers == {"base", "symb", "lower", "insert"}

\* What key_cb is told: a key of the keyboard and which of its characters.
Chars == Keys \X Layers
Events == Chars \X {"pressed", "hold", "released"}

VARIABLES
  down,              \* the keys the user holds down
  at,                \* the pin keyboard_process reads next
  entry, state,      \* self.list: p_entry and state of each item
  mods,              \* self.mods: the modifiers that are set
  capslock, capslock_changed, numlock, numlock_changed,
  use_mods,          \* CFG_USE_MODS
  event,             \* what this step reported to key_cb: nothing or one report
  deed,              \* the hot key this step obeyed, or None
  heard              \* the characters reported down and not yet released

locks == <<capslock, capslock_changed, numlock, numlock_changed>>
vars == <<down, at, entry, state, mods, locks, use_mods, event, deed, heard>>

Slots == 1..ListSize

TypeOK ==
  /\ down \subseteq Keys
  /\ at \in 1..Len(Order)
  /\ entry \in [Slots -> Keys \cup {None}]
  /\ state \in [Slots -> {"idle", "pressed", "hold", "released"}]
  /\ mods \subseteq ModKeys
  /\ capslock \in BOOLEAN /\ capslock_changed \in BOOLEAN
  /\ numlock \in BOOLEAN /\ numlock_changed \in BOOLEAN
  /\ use_mods \in UseModsValues
  /\ event \subseteq Events
  /\ deed \in HotKeys \cup {None}
  /\ heard \subseteq Chars

Init ==
  /\ down = {}
  /\ at = 1
  /\ entry = [i \in Slots |-> None]
  /\ state = [i \in Slots |-> "idle"]
  /\ mods = {}
  /\ capslock = FALSE /\ capslock_changed = FALSE
  /\ numlock = FALSE /\ numlock_changed = FALSE
  /\ use_mods \in UseModsValues
  /\ event = {}
  /\ deed = None
  /\ heard = {}

-----------------------------------------------------------------------------
(* transition_to.  CFG_REPORT_MODS is set, as reg_init and the driver leave
   it: modifiers are reported like keys. *)

Shift == mods \cap {"SHL", "SHR"} # {}
Alt == "ALT" \in mods \/ numlock

\* Which character of key k is reported on its way to state s.
Layer(k, s) ==
  IF k \in ModKeys \/ ~use_mods THEN "base"
  ELSE IF Shift /\ k \notin Letters THEN (IF k \in WithSymb THEN "symb" ELSE None)
  ELSE IF capslock /\ k \in Letters THEN "base"
  ELSE IF Alt THEN (IF s # "hold" /\ k \in HotKeys THEN None
                    ELSE IF s # "hold" /\ k = "I" THEN "insert"
                    ELSE "base")
  ELSE IF ~Shift /\ k \in Letters THEN "lower"
  ELSE "base"

\* The backlight and battery orders of the firmware, given on release.
Deed(k, s) ==
  IF /\ use_mods /\ Alt /\ s = "released" /\ k \in HotKeys
     /\ Shift => k \in Letters
     /\ capslock => k \notin Letters
  THEN k ELSE None

\* A hold is reported as another press, except of these.
HoldsAsHold(k, layer) == k \in ModKeys \cup {"CAPS", "F1"} \/ layer = "insert"

\* The report of a transition, from the modifiers and locks as this step
\* leaves them.
Report(k, s) ==
  LET layer == Layer(k, s)'
      c == <<k, layer>>
  IN  /\ deed' = Deed(k, s)'
      /\ IF layer = None
         THEN event' = {} /\ UNCHANGED heard
         ELSE /\ event' = {<<c, IF s = "hold" /\ ~HoldsAsHold(k, layer)
                                THEN "pressed" ELSE s>>}
              /\ heard' = IF s = "released" THEN heard \ {c} ELSE heard \cup {c}

NoReport ==
  /\ event' = {}
  /\ deed' = None
  /\ UNCHANGED heard

-----------------------------------------------------------------------------
(* keyboard_process and next_item_state, for key k at the pin read now *)

Holding(k) == {i \in Slots : entry[i] = k}
Listed(k) == Holding(k) # {}
Room == {i \in Slots : entry[i] = None}

\* The locks as a press leaves them (keyboard.ino:215-238, 131-138).
SetLocks(k) ==
  LET shr == "SHR" \in mods'
      shl == "SHL" \in mods'
      alt == "ALT" \in mods'
      caps == IF capslock_changed THEN capslock
              ELSE IF shr THEN alt ELSE IF shl THEN FALSE ELSE capslock
      num == IF numlock_changed THEN numlock
             ELSE IF shl THEN alt ELSE IF shr THEN FALSE ELSE numlock
  IN  /\ capslock' = IF k = "CAPS" THEN ~caps ELSE caps
      /\ capslock_changed' = (k = "CAPS" \/ (alt /\ (capslock_changed \/ shl \/ shr)))
      /\ numlock' = num
      /\ numlock_changed' = (alt /\ (numlock_changed \/ shl \/ shr))

\* Seeded fault: the key takes the first free item without a search for its own.
Press_Again(k) ==
  /\ k \in down
  /\ Room # {}
  /\ \E i \in Room :
       /\ \A j \in Room : i <= j
       /\ entry' = [entry EXCEPT ![i] = k]
       /\ state' = [state EXCEPT ![i] = "pressed"]
  /\ mods' = IF k \in ModKeys THEN mods \cup {k} ELSE mods
  /\ SetLocks(k)
  /\ UNCHANGED use_mods
  /\ Report(k, "pressed")

\* A key at rest is pressed and takes the first free item.
Press(k) ==
  /\ k \in down
  /\ ~Listed(k)
  /\ \E i \in Room :
       /\ \A j \in Room : i <= j
       /\ entry' = [entry EXCEPT ![i] = k]
       /\ state' = [state EXCEPT ![i] = "pressed"]
  /\ mods' = IF k \in ModKeys THEN mods \cup {k} ELSE mods
  /\ SetLocks(k)
  /\ UNCHANGED use_mods
  /\ Report(k, "pressed")

\* A key at rest stays so, or is not noticed while the list is full.
Rest(k) ==
  /\ ~Listed(k)
  /\ k \notin down \/ Room = {}
  /\ NoReport
  /\ UNCHANGED <<entry, state, mods, locks, use_mods>>

\* Past KEY_HOLD_TIME the key is held, even if it is up by now.
Hold(k) ==
  /\ \E i \in Holding(k) :
       /\ \/ state[i] = "pressed"
          \/ state[i] = "hold" /\ k \in down
       /\ state' = [state EXCEPT ![i] = "hold"]
  /\ UNCHANGED <<entry, mods, locks, use_mods>>
  /\ Report(k, "hold")

Wait(k) ==
  /\ k \in down
  /\ \E i \in Holding(k) : state[i] \in {"pressed", "hold"}
  /\ NoReport
  /\ UNCHANGED <<entry, state, mods, locks, use_mods>>

\* Seeded fault: only a key that was held is reported released.
Release_OnlyHeld(k) ==
  /\ k \notin down
  /\ UNCHANGED <<entry, mods, locks, use_mods>>
  /\ \E i \in Holding(k) :
       /\ state[i] \in {"pressed", "hold"}
       /\ state' = [state EXCEPT ![i] = "released"]
       /\ IF state[i] = "hold" THEN Report(k, "released") ELSE NoReport

Release(k) ==
  /\ k \notin down
  /\ \E i \in Holding(k) :
       /\ state[i] \in {"pressed", "hold"}
       /\ state' = [state EXCEPT ![i] = "released"]
  /\ UNCHANGED <<entry, mods, locks, use_mods>>
  /\ Report(k, "released")

\* Seeded fault: the modifier is left set.
Free_KeepsMod(k) ==
  /\ \E i \in Holding(k) :
       /\ state[i] = "released"
       /\ entry' = [entry EXCEPT ![i] = None]
       /\ state' = [state EXCEPT ![i] = "idle"]
  /\ NoReport
  /\ UNCHANGED <<mods, locks, use_mods>>

\* The scan after the release gives the item back.
Free(k) ==
  /\ \E i \in Holding(k) :
       /\ state[i] = "released"
       /\ entry' = [entry EXCEPT ![i] = None]
       /\ state' = [state EXCEPT ![i] = "idle"]
  /\ mods' = mods \ {k}
  /\ NoReport
  /\ UNCHANGED <<locks, use_mods>>

Scan ==
  /\ \E k \in {Order[at]} :
       Press(k) \/ Rest(k) \/ Hold(k) \/ Wait(k) \/ Release(k) \/ Free(k)
  /\ at' = IF at = Len(Order) THEN 1 ELSE at + 1
  /\ UNCHANGED down

-----------------------------------------------------------------------------
(* The user and the host *)

Touch(k) ==
  /\ down' = IF k \in down THEN down \ {k} ELSE down \cup {k}
  /\ UNCHANGED <<at, entry, state, mods, locks, use_mods, event, deed, heard>>

\* REG_ID_CFG is written from the I2C interrupt.
WriteCfg ==
  /\ use_mods' \in UseModsValues
  /\ UNCHANGED <<down, at, entry, state, mods, locks, event, deed, heard>>

Next == Scan \/ (\E k \in Keys : Touch(k)) \/ WriteCfg

Spec == Init /\ [][Next]_vars

(* loop() calls keyboard_process for ever. *)
FairSpec == Spec /\ WF_vars(Scan)

-----------------------------------------------------------------------------
(* Properties *)

(* No key has two items (keyboard.ino:317-332, 373-388): the second would
   never be looked at again. *)
OneItemEach ==
  \A i, j \in Slots : entry[i] = entry[j] /\ entry[i] # None => i = j

(* A modifier is set exactly while its key has an item, pressed, held or just
   released (keyboard.ino:212, 272), however the list fills up meanwhile. *)
ModsExact ==
  mods = {k \in ModKeys \cap Keys : Listed(k)}

\* The characters of the keys the list has pressed or held.
ListedDown ==
  {<<entry[i], "base">> : i \in {j \in Slots : state[j] \in {"pressed", "hold"}}}

(* As long as the scancodes are raw, what the driver has been told is down is
   what the list says is pressed or held: no release is owed to it and none is
   missing (keyboard.ino:194-203). *)
HeardIsListed == []~use_mods => [](heard = ListedDown)

(* As long as the scancodes are raw, a key that is let go is reported released,
   unless it goes down again (keyboard.ino:253-262). *)
ReleaseReported ==
  []~use_mods =>
    \A k \in Keys : (k \notin down) ~> (k \in down \/ <<k, "base">> \notin heard)

=============================================================================
