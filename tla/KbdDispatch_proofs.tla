------------------------- MODULE KbdDispatch_proofs -------------------------
(***************************************************************************)
(* Theorems about key_dispatch, for every set of keys and modifiers.       *)
(***************************************************************************)
EXTENDS KbdDispatch, TLAPS

USE KeysAssumption, ModifiersAssumption

(* What the tables hold *)

LEMMA CodesApart ==
  /\ "none" \notin OwnedCodes
  /\ PlainCodes \cap Buttons = {}
  /\ OwnedCodes \cap (Passed \cup {"CAPSLOCK", "RIGHTSHIFT"}) = {}
BY SMT DEF OwnedCodes, PlainCodes, PlainKeys, Buttons, Passed

LEMMA TableCodes ==
  /\ \A k \in DOMAIN FnKeyTable : FnKeyTable[k] \in PlainCodes
  /\ \A k \in DOMAIN MouseFnKeyTable : MouseFnKeyTable[k] \in PlainCodes
BY SMT DEF FnKeyTable, MouseFnKeyTable, PlainCodes, PlainKeys

LEMMA FnCode ==
  ASSUME NEW k \in Keys, FnKeycode(k) # "none"
  PROVE  FnKeycode(k) \in PlainCodes /\ FnKeycode(k) \in Reports(k)
BY TableCodes DEF FnKeycode, Reports

-----------------------------------------------------------------------------
(* The lock of a key *)

Entries == [mode : Modes, keycode : OwnedCodes \cup {"none"}]

LEMMA Locking ==
  ASSUME TypeOK, NEW k \in Keys,
         NEW m \in Modes, NEW c \in OwnedCodes \cup {"none"}, Lock(k, m, c)
  PROVE  /\ key_state' \in [Keys -> Entries]
         /\ key_state'[k].mode = m /\ key_state'[k].keycode = c
         /\ key_state'[k] = None <=> m = "NONE" /\ c = "none"
         /\ \A j \in Keys \ {k} : key_state'[j] = key_state[j]
<1> DEFINE e == [mode |-> m, keycode |-> c]
<1>1. key_state' = [key_state EXCEPT ![k] = e]
  BY DEF Lock
<1>2. key_state \in [Keys -> Entries]
  BY DEF TypeOK, Entries
<1>3. e \in Entries
  BY DEF Entries
<1>4. key_state' \in [Keys -> Entries] /\ key_state'[k] = e
  BY <1>1, <1>2, <1>3
<1>5. \A j \in Keys \ {k} : key_state'[j] = key_state[j]
  BY <1>1, <1>2
<1>6. e.mode = m /\ e.keycode = c
  OBVIOUS
<1>7. e = None <=> m = "NONE" /\ c = "none"
  BY DEF None
<1>8. QED
  BY <1>4, <1>5, <1>6, <1>7

(* What the entry of a key can be. *)
SoundEntry(k, e) ==
  /\ e.mode = "NONE" => e.keycode = "none"
  /\ e.mode = "MOUSE" =>
       \/ k \in Arrows /\ e.keycode = "none"
       \/ k \in Brackets /\ e.keycode = Button(k)
  /\ e.mode \in {"NORMAL", "SHIFTED", "FN"} =>
       \/ e.keycode = "none"
       \/ e.keycode \in PlainCodes /\ e.keycode \in Reports(k)

Sound == \A k \in Keys : SoundEntry(k, key_state[k])

LockInv == TypeOK /\ Sound

(* The step of a key is one of these, for the four things it may lock. *)
LEMMA KeyStep ==
  ASSUME LockInv, NEW k \in Keys, DispatchKey(k) \/ PressAction(k)
  PROVE  \E m \in Modes, c \in OwnedCodes \cup {"none"} :
           Lock(k, m, c) /\ SoundEntry(k, [mode |-> m, keycode |-> c])
<1> USE DEF Modes
<1>1. k \in PlainCodes /\ k \in Reports(k) /\ k \in OwnedCodes
  BY DEF PlainCodes, Reports, OwnedCodes
<1>2. CASE PressArrow(k)
  BY <1>2 DEF PressArrow, SoundEntry
<1>3. CASE PressButton(k)
  <2>1. Button(k) \in OwnedCodes
    BY DEF Button, OwnedCodes, Buttons
  <2>2. QED
    BY <1>3, <2>1 DEF PressButton, SoundEntry
<1>4. CASE PressFn(k)
  <2>1. FnKeycode(k) \in PlainCodes /\ FnKeycode(k) \in Reports(k)
    BY <1>4, FnCode DEF PressFn
  <2>2. FnKeycode(k) \in OwnedCodes
    BY <2>1 DEF OwnedCodes
  <2>3. QED
    BY <1>4, <2>1, <2>2 DEF PressFn, SoundEntry
<1>5. CASE PressShifted(k)
  BY <1>1, <1>5 DEF PressShifted, SoundEntry
<1>6. CASE PressNormal(k)
  BY <1>1, <1>6 DEF PressNormal, SoundEntry
<1>7. CASE ReleaseKey(k) \/ ReleaseArrow(k) \/ ReleaseButton(k)
  BY <1>7 DEF ReleaseKey, ReleaseArrow, ReleaseButton, SoundEntry
<1>8. CASE PressAction(k)
  BY <1>8 DEF PressAction, SoundEntry
<1>9. QED
  BY <1>2, <1>3, <1>4, <1>5, <1>6, <1>7, <1>8 DEF DispatchKey

(* Every other step leaves the locks alone. *)
OtherStep ==
  DispatchModifier \/ CapsToggle \/ MouseExpire \/ MouseRearm
    \/ UNCHANGED vars

LEMMA OtherKeepsLocks == OtherStep => key_state' = key_state
BY DEF OtherStep, DispatchModifier, PressModifier, ReleaseModifier, PressRShift,
       ReleaseRShift, PressCaps, ReleaseCaps, CapsToggle, MouseExpire,
       MouseRearm, vars

LEMMA StepCases ==
  [Next]_vars => OtherStep \/ \E k \in Keys : DispatchKey(k) \/ PressAction(k)
BY DEF Next, OtherStep

LEMMA LockInit == Init => LockInv
<1> SUFFICES ASSUME Init
             PROVE  LockInv
  OBVIOUS
<1>1. \A k \in Keys : key_state[k] = None
  BY DEF Init
<1>2. None \in Entries /\ None.mode = "NONE" /\ None.keycode = "none"
  BY DEF None, Entries, Modes
<1>3. Sound
  BY <1>1, <1>2 DEF Sound, SoundEntry
<1>4. key_state \in [Keys -> Entries]
  BY <1>2 DEF Init
<1>5. TypeOK
  BY <1>4 DEF Init, TypeOK, Entries
<1>6. QED
  BY <1>3, <1>5 DEF LockInv

LEMMA SoundStep == LockInv /\ [Next]_vars =>
                     Sound' /\ key_state' \in [Keys -> Entries]
<1> SUFFICES ASSUME LockInv, [Next]_vars
             PROVE  Sound' /\ key_state' \in [Keys -> Entries]
  OBVIOUS
<1>1. CASE OtherStep
  BY <1>1, OtherKeepsLocks DEF LockInv, Sound, TypeOK, Entries, SoundEntry,
     Reports, Button
<1>2. ASSUME NEW k \in Keys, DispatchKey(k) \/ PressAction(k)
      PROVE  Sound' /\ key_state' \in [Keys -> Entries]
  <2>1. PICK m \in Modes, c \in OwnedCodes \cup {"none"} :
          Lock(k, m, c) /\ SoundEntry(k, [mode |-> m, keycode |-> c])
    BY <1>2, KeyStep
  <2>2. /\ key_state' \in [Keys -> Entries]
        /\ key_state'[k].mode = m /\ key_state'[k].keycode = c
        /\ \A j \in Keys \ {k} : key_state'[j] = key_state[j]
    BY <2>1, Locking DEF LockInv
  <2>3. SoundEntry(k, key_state'[k])
    BY <2>1, <2>2 DEF SoundEntry
  <2>4. \A j \in Keys \ {k} : SoundEntry(j, key_state'[j])
    BY <2>2 DEF LockInv, Sound
  <2>5. \A j \in Keys : SoundEntry(j, key_state'[j])
    BY <2>3, <2>4
  <2>6. QED
    BY <2>2, <2>5 DEF Sound, SoundEntry
<1>3. QED
  BY <1>1, <1>2, StepCases

LEMMA TypeStep == LockInv /\ [Next]_vars => TypeOK'
<1> SUFFICES ASSUME LockInv, [Next]_vars
             PROVE  TypeOK'
  OBVIOUS
<1>1. key_state' \in [Keys -> Entries]
  BY SoundStep
<1>2. TypeOK
  BY DEF LockInv
<1>3. CASE DispatchModifier
  <2>1. Modifiers \subseteq Keycodes /\ {"RIGHTSHIFT", "CAPSLOCK"} \subseteq Keycodes
    BY DEF Keycodes
  <2>2. ASSUME NEW m \in Modifiers, PressModifier(m) \/ ReleaseModifier(m)
        PROVE  TypeOK'
    BY <1>1, <1>2, <2>1, <2>2
       DEF PressModifier, ReleaseModifier, mouseVars, TypeOK, Entries
  <2>3. CASE PressRShift \/ ReleaseRShift
    BY <1>1, <1>2, <2>3
       DEF PressRShift, ReleaseRShift, SupplementUp, mouseVars, TypeOK, Entries
  <2>4. CASE PressCaps \/ ReleaseCaps
    BY <1>1, <1>2, <2>1, <2>4
       DEF PressCaps, ReleaseCaps, mouseVars, modVars, TypeOK, Entries
  <2>5. QED
    BY <1>3, <2>2, <2>3, <2>4 DEF DispatchModifier
<1>4. CASE CapsToggle
  BY <1>1, <1>2, <1>4 DEF CapsToggle, SupplementUp, TypeOK, Entries
<1>5. ASSUME NEW k \in Keys, DispatchKey(k) \/ PressAction(k)
      PROVE  TypeOK'
  <2>1. k \in PlainCodes /\ Button(k) \in Buttons
    BY DEF PlainCodes, Button, Buttons
  <2>2. PlainCodes \subseteq Keycodes /\ Buttons \subseteq Keycodes
        /\ "RIGHTSHIFT" \in Keycodes
    BY DEF Keycodes, OwnedCodes
  <2>3. CASE PressArrow(k) \/ ReleaseArrow(k)
    BY <1>1, <1>2, <2>3 DEF PressArrow, ReleaseArrow, modVars, TypeOK, Entries
  <2>4. CASE PressButton(k) \/ ReleaseButton(k)
    BY <1>1, <1>2, <2>1, <2>2, <2>4
       DEF PressButton, ReleaseButton, modVars, mouseVars, TypeOK, Entries
  <2>5. CASE PressFn(k)
    <3>1. FnKeycode(k) \in Keycodes
      BY <2>2, <2>5, FnCode DEF PressFn
    <3>2. QED
      BY <1>1, <1>2, <2>5, <3>1 DEF PressFn, modVars, mouseVars, TypeOK, Entries
  <2>6. CASE PressShifted(k) \/ PressNormal(k)
    BY <1>1, <1>2, <2>1, <2>2, <2>6
       DEF PressShifted, PressNormal, modVars, mouseVars, TypeOK, Entries
  <2>7. CASE ReleaseKey(k) \/ PressAction(k)
    BY <1>1, <1>2, <2>7
       DEF ReleaseKey, PressAction, modVars, mouseVars, TypeOK, Entries
  <2>8. QED
    BY <1>5, <2>3, <2>4, <2>5, <2>6, <2>7 DEF DispatchKey
<1>6. CASE MouseExpire
  <2>1. mouse_tick' \in BOOLEAN
    BY <1>6, Zenon DEF MouseExpire
  <2>2. QED
    BY <1>1, <1>2, <1>6, <2>1 DEF MouseExpire, modVars, TypeOK, Entries
<1>7. CASE MouseRearm \/ UNCHANGED vars
  BY <1>1, <1>2, <1>7
     DEF MouseRearm, vars, modVars, mouseVars, TypeOK, Entries
<1>8. QED
  BY <1>3, <1>4, <1>5, <1>6, <1>7 DEF Next

LEMMA LockStep == LockInv /\ [Next]_vars => LockInv'
BY SoundStep, TypeStep DEF LockInv

(* The variables stay in their types. *)
THEOREM TypeCorrect == Spec => []TypeOK
<1>1. LockInv => TypeOK
  BY DEF LockInv
<1>2. QED
  BY LockInit, LockStep, <1>1, PTL DEF Spec

-----------------------------------------------------------------------------
(* The lock holds until release *)

(* Whatever the firmware repeats and R-shift does, the emit mode and keycode
   locked when a key went down stay locked until its release. *)
THEOREM LockHolds == Spec => LockedUntilRelease
<1> DEFINE Kept == \A k \in Keys :
             key_state[k] # None => key_state'[k] \in {key_state[k], None}
<1>1. LockInv /\ [Next]_vars => [Kept]_vars
  <2> SUFFICES ASSUME LockInv, [Next]_vars, NEW j \in Keys, key_state[j] # None
               PROVE  key_state'[j] \in {key_state[j], None}
    OBVIOUS
  <2>1. CASE OtherStep
    BY <2>1, OtherKeepsLocks
  <2>2. ASSUME NEW k \in Keys, DispatchKey(k) \/ PressAction(k)
        PROVE  key_state'[j] \in {key_state[j], None}
    <3>1. CASE k # j
      <4>1. PICK m \in Modes, c \in OwnedCodes \cup {"none"} : Lock(k, m, c)
        BY <2>2, KeyStep
      <4>2. QED
        BY <3>1, <4>1, Locking DEF LockInv
    <3>2. CASE k = j /\ Lock(j, "NONE", "none")
      <4>1. key_state'[j] = None
        BY <3>2, Locking DEF LockInv, Modes
      <4>2. QED
        BY <4>1
    <3>3. CASE k = j /\ key_state[j].mode = "NONE"
      <4>1. key_state[j].keycode = "none"
        BY <3>3 DEF LockInv, Sound, SoundEntry
      <4>2. key_state[j] = [mode |-> "NONE", keycode |-> "none"]
        BY <3>3, <4>1 DEF LockInv, TypeOK
      <4>3. QED
        BY <4>2 DEF None
    <3>4. Lock(k, "NONE", "none") \/ Fresh(k)
      BY <2>2 DEF DispatchKey, PressArrow, PressButton, PressFn, PressShifted,
                  PressNormal, PressAction, ReleaseKey, ReleaseArrow,
                  ReleaseButton
    <3>5. QED
      BY <3>1, <3>2, <3>3, <3>4 DEF Fresh
  <2>3. QED
    BY <2>1, <2>2, StepCases
<1>2. QED
  BY LockInit, LockStep, <1>1, PTL DEF Spec, LockedUntilRelease

-----------------------------------------------------------------------------
(* The keycodes that are down *)

LEMMA ReleasedCode ==
  ASSUME LockInv, NEW k \in Keys, ReleaseKey(k)
  PROVE  key_state[k].keycode \in PlainCodes \cup {"none"}
BY DEF ReleaseKey, LockInv, Sound, SoundEntry

(* What a step of a key does to RIGHTSHIFT. *)
LEMMA KeyKeepsShift ==
  ASSUME LockInv, NEW k \in Keys, DispatchKey(k) \/ PressAction(k),
         ShiftOnlyWhileHeld
  PROVE  ShiftOnlyWhileHeld'
<1> USE DEF ShiftOnlyWhileHeld
<1>1. k # "RIGHTSHIFT" /\ Button(k) # "RIGHTSHIFT"
  BY CodesApart DEF Button, OwnedCodes, PlainCodes
<1>2. CASE PressArrow(k) \/ ReleaseArrow(k) \/ PressAction(k)
  BY <1>2 DEF PressArrow, ReleaseArrow, PressAction, modVars
<1>3. CASE PressButton(k) \/ ReleaseButton(k) \/ PressNormal(k)
  BY <1>1, <1>3 DEF PressButton, ReleaseButton, PressNormal, modVars
<1>4. CASE PressFn(k)
  <2>1. FnKeycode(k) # "RIGHTSHIFT"
    BY <1>4, FnCode, CodesApart DEF PressFn, OwnedCodes
  <2>2. QED
    BY <1>4, <2>1 DEF PressFn, modVars
<1>5. CASE PressShifted(k)
  BY <1>5 DEF PressShifted
<1>6. CASE ReleaseKey(k)
  <2>1. key_state[k].keycode # "RIGHTSHIFT"
    BY <1>6, ReleasedCode, CodesApart DEF OwnedCodes
  <2>2. QED
    BY <1>6, <2>1 DEF ReleaseKey, modVars
<1>7. QED
  BY <1>2, <1>3, <1>4, <1>5, <1>6 DEF DispatchKey

(* The shift supplement is down only while R-shift is held and the driver knows
   it: no shift is left behind by an early release or by the mouse toggle. *)
THEOREM ShiftNotStuck == Spec => []ShiftOnlyWhileHeld
<1> USE DEF ShiftOnlyWhileHeld
<1>1. Init => ShiftOnlyWhileHeld
  BY DEF Init
<1>2. LockInv /\ ShiftOnlyWhileHeld /\ [Next]_vars => ShiftOnlyWhileHeld'
  <2> SUFFICES ASSUME LockInv, ShiftOnlyWhileHeld, [Next]_vars
               PROVE  ShiftOnlyWhileHeld'
    OBVIOUS
  <2>1. ASSUME NEW k \in Keys, DispatchKey(k) \/ PressAction(k)
        PROVE  ShiftOnlyWhileHeld'
    BY <2>1, KeyKeepsShift
  <2>2. CASE DispatchModifier
    <3>1. ASSUME NEW m \in Modifiers, PressModifier(m) \/ ReleaseModifier(m)
          PROVE  ShiftOnlyWhileHeld'
      <4>1. m # "RIGHTSHIFT"
        BY DEF Passed
      <4>2. QED
        BY <3>1, <4>1 DEF PressModifier, ReleaseModifier
    <3>2. CASE PressRShift \/ ReleaseRShift \/ PressCaps \/ ReleaseCaps
      BY <3>2 DEF PressRShift, ReleaseRShift, SupplementUp, PressCaps,
                  ReleaseCaps, modVars
    <3>3. QED
      BY <2>2, <3>1, <3>2 DEF DispatchModifier
  <2>3. CASE CapsToggle
    BY <2>3 DEF CapsToggle, SupplementUp
  <2>4. CASE MouseExpire \/ MouseRearm \/ UNCHANGED vars
    BY <2>4 DEF MouseExpire, MouseRearm, vars, modVars
  <2>5. QED
    BY <2>1, <2>2, <2>3, <2>4 DEF Next
<1>3. QED
  BY LockInit, LockStep, <1>1, <1>2, PTL DEF Spec

(* A step that is not a key's moves no plain keycode and no button. *)
LEMMA OthersOwnNothing ==
  ASSUME OtherStep
  PROVE  down' \cap OwnedCodes = down \cap OwnedCodes
<1>1. ASSUME NEW m \in Modifiers, PressModifier(m) \/ ReleaseModifier(m)
      PROVE  down' \cap OwnedCodes = down \cap OwnedCodes
  <2>1. m \notin OwnedCodes
    BY CodesApart
  <2>2. QED
    BY <1>1, <2>1 DEF PressModifier, ReleaseModifier
<1>2. "RIGHTSHIFT" \notin OwnedCodes /\ "CAPSLOCK" \notin OwnedCodes
  BY CodesApart
<1>3. CASE PressRShift \/ ReleaseRShift \/ PressCaps \/ ReleaseCaps
  BY <1>2, <1>3 DEF PressRShift, ReleaseRShift, SupplementUp, PressCaps,
                    ReleaseCaps
<1>4. CASE CapsToggle
  BY <1>2, <1>4 DEF CapsToggle, SupplementUp
<1>5. CASE MouseExpire \/ MouseRearm \/ UNCHANGED vars
  BY <1>5 DEF MouseExpire, MouseRearm, vars
<1>6. QED
  BY <1>1, <1>3, <1>4, <1>5 DEF OtherStep, DispatchModifier

(* The step of a key adds the keycode it locks, or takes away the one that was
   locked and unlocks the key. *)
LEMMA KeyOwns ==
  ASSUME LockInv, NEW k \in Keys, DispatchKey(k) \/ PressAction(k)
  PROVE  LET old == key_state[k].keycode
             new == key_state'[k].keycode
         IN  \/ /\ key_state[k].mode = "NONE" /\ old = "none"
                /\ key_state'[k].mode # "NONE"
                /\ down' \cap OwnedCodes = (down \cup {new}) \cap OwnedCodes
             \/ /\ new = "none"
                /\ key_state[k].mode # "NONE" /\ key_state'[k].mode = "NONE"
                /\ down' \cap OwnedCodes = (down \ {old}) \cap OwnedCodes
<1> DEFINE old == key_state[k].keycode
           new == key_state'[k].keycode
           Down == /\ key_state[k].mode = "NONE" /\ old = "none"
                   /\ key_state'[k].mode # "NONE"
                   /\ down' \cap OwnedCodes = (down \cup {new}) \cap OwnedCodes
           Up == /\ new = "none"
                 /\ key_state[k].mode # "NONE" /\ key_state'[k].mode = "NONE"
                 /\ down' \cap OwnedCodes = (down \ {old}) \cap OwnedCodes
<1>1. TypeOK /\ k \in OwnedCodes /\ "none" \notin OwnedCodes
  BY CodesApart DEF LockInv, OwnedCodes, PlainCodes
<1>2. Fresh(k) => key_state[k].mode = "NONE" /\ old = "none"
  BY DEF Fresh, LockInv, Sound, SoundEntry
<1>3. Lock(k, "NONE", "none") => new = "none" /\ key_state'[k].mode = "NONE"
  BY <1>1, Locking DEF Modes
<1>4. ASSUME NEW m \in Modes \ {"NONE"}, NEW c \in OwnedCodes \cup {"none"},
             Lock(k, m, c)
      PROVE  new = c /\ key_state'[k].mode # "NONE"
  BY <1>1, <1>4, Locking
<1>5. CASE PressArrow(k) \/ PressAction(k)
  <2>1. Lock(k, "MOUSE", "none") \/ Lock(k, "FN", "none")
    BY <1>5 DEF PressArrow, PressAction
  <2>2. new = "none" /\ key_state'[k].mode # "NONE"
    BY <1>4, <2>1 DEF Modes
  <2>3. Down
    BY <1>1, <1>2, <1>5, <2>2 DEF PressArrow, PressAction
  <2>4. QED
    BY <2>3
<1>6. CASE PressButton(k)
  <2>1. Button(k) \in OwnedCodes
    BY DEF Button, OwnedCodes, Buttons
  <2>2. new = Button(k) /\ key_state'[k].mode # "NONE"
    BY <1>4, <1>6, <2>1 DEF PressButton, Modes
  <2>3. Down
    BY <1>2, <1>6, <2>2 DEF PressButton
  <2>4. QED
    BY <2>3
<1>7. CASE PressFn(k)
  <2>1. FnKeycode(k) \in OwnedCodes
    BY <1>7, FnCode DEF PressFn, OwnedCodes
  <2>2. new = FnKeycode(k) /\ key_state'[k].mode # "NONE"
    BY <1>4, <1>7, <2>1 DEF PressFn, Modes
  <2>3. Down
    BY <1>2, <1>7, <2>2 DEF PressFn
  <2>4. QED
    BY <2>3
<1>8. CASE PressShifted(k)
  <2>1. new = k /\ key_state'[k].mode # "NONE"
    BY <1>1, <1>4, <1>8 DEF PressShifted, Modes
  <2>2. "RIGHTSHIFT" \notin OwnedCodes
    BY CodesApart
  <2>3. Down
    BY <1>2, <1>8, <2>1, <2>2 DEF PressShifted
  <2>4. QED
    BY <2>3
<1>9. CASE PressNormal(k)
  <2>1. new = k /\ key_state'[k].mode # "NONE"
    BY <1>1, <1>4, <1>9 DEF PressNormal, Modes
  <2>2. Down
    BY <1>2, <1>9, <2>1 DEF PressNormal
  <2>3. QED
    BY <2>2
<1>10. CASE ReleaseKey(k)
  <2>1. Up
    BY <1>3, <1>10 DEF ReleaseKey
  <2>2. QED
    BY <2>1
<1>11. CASE ReleaseArrow(k)
  <2>1. k \notin Brackets
    BY <1>11 DEF ReleaseArrow, Arrows, Brackets
  <2>2. old = "none"
    BY <1>11, <2>1 DEF ReleaseArrow, LockInv, Sound, SoundEntry
  <2>3. Up
    BY <1>1, <1>3, <1>11, <2>2 DEF ReleaseArrow
  <2>4. QED
    BY <2>3
<1>12. CASE ReleaseButton(k)
  <2>1. k \notin Arrows
    BY <1>12 DEF ReleaseButton, Arrows, Brackets
  <2>2. old = Button(k)
    BY <1>12, <2>1 DEF ReleaseButton, LockInv, Sound, SoundEntry
  <2>3. Up
    BY <1>3, <1>12, <2>2 DEF ReleaseButton
  <2>4. QED
    BY <2>3
<1>13. QED
  BY <1>5, <1>6, <1>7, <1>8, <1>9, <1>10, <1>11, <1>12 DEF DispatchKey

LEMMA OtherKeysKept ==
  ASSUME LockInv, NEW k \in Keys, DispatchKey(k) \/ PressAction(k),
         NEW j \in Keys, j # k
  PROVE  key_state'[j] = key_state[j]
<1>1. PICK m \in Modes, c \in OwnedCodes \cup {"none"} : Lock(k, m, c)
  BY KeyStep
<1>2. QED
  BY <1>1, Locking DEF LockInv

(* No keycode is left down once the key that reported it is released, whatever
   became of R-shift and of mouse mode since it went down. *)
THEOREM NothingStuck == Spec => []NoStuckKey
<1>1. Init => NoStuckKey
  BY DEF Init, NoStuckKey
<1>2. LockInv /\ NoStuckKey /\ [Next]_vars => NoStuckKey'
  <2> SUFFICES ASSUME LockInv, NoStuckKey, [Next]_vars,
                      NEW c \in down' \cap OwnedCodes
               PROVE  \E j \in Keys : /\ key_state'[j].mode # "NONE"
                                      /\ key_state'[j].keycode = c
    BY DEF NoStuckKey
  <2>1. CASE OtherStep
    BY <2>1, OtherKeepsLocks, OthersOwnNothing DEF NoStuckKey
  <2>2. ASSUME NEW k \in Keys, DispatchKey(k) \/ PressAction(k)
        PROVE  \E j \in Keys : /\ key_state'[j].mode # "NONE"
                               /\ key_state'[j].keycode = c
    <3>1. CASE key_state'[k].keycode = c /\ key_state'[k].mode # "NONE"
      BY <3>1
    <3>2. CASE ~(key_state'[k].keycode = c /\ key_state'[k].mode # "NONE")
      <4>1. /\ c \in down
            /\ ~(key_state[k].keycode = c /\ key_state[k].mode # "NONE")
        BY <2>2, <3>2, KeyOwns
      <4>2. PICK j \in Keys :
              key_state[j].mode # "NONE" /\ key_state[j].keycode = c
        BY <4>1 DEF NoStuckKey
      <4>3. j # k
        BY <4>1, <4>2
      <4>4. QED
        BY <2>2, <4>2, <4>3, OtherKeysKept
    <3>3. QED
      BY <3>1, <3>2
  <2>3. QED
    BY <2>1, <2>2, StepCases
<1>3. QED
  BY LockInit, LockStep, <1>1, <1>2, PTL DEF Spec

LEMMA ButtonEntry ==
  ASSUME LockInv, NEW k \in Keys, NEW b \in Keys \cap Brackets
  PROVE  key_state[k].keycode = Button(b)
           <=> k = b /\ key_state[k].mode = "MOUSE"
<1>1. Button(b) \notin PlainCodes /\ Button(b) # "none" /\ b \notin Arrows
  BY CodesApart DEF Button, Buttons, OwnedCodes, Arrows, Brackets
<1>2. \A l \in Brackets : Button(l) = Button(b) => l = b
  BY DEF Brackets, Button
<1>3. key_state[k].mode \in Modes /\ SoundEntry(k, key_state[k])
  BY DEF LockInv, TypeOK, Sound
<1>4. QED
  BY <1>1, <1>2, <1>3 DEF SoundEntry, Modes

(* Two keys that report nothing in common lock different keycodes. *)
LEMMA LocksApart ==
  ASSUME LockInv, NEW j \in Keys, NEW k \in Keys, j # k, Alone(j),
         key_state[j].keycode # "none"
  PROVE  key_state[j].keycode # key_state[k].keycode
<1>1. Reports(j) \cap Reports(k) = {}
  BY DEF Alone
<1>2. SoundEntry(j, key_state[j]) /\ SoundEntry(k, key_state[k])
  BY DEF LockInv, Sound
<1>3. CASE key_state[j].mode = "MOUSE"
  <2>1. j \in Keys \cap Brackets /\ key_state[j].keycode = Button(j)
    BY <1>2, <1>3 DEF SoundEntry
  <2>2. QED
    BY <2>1, ButtonEntry
<1>4. CASE key_state[k].mode = "MOUSE"
  <2>1. CASE k \in Brackets
    BY <1>2, <1>4, <2>1, ButtonEntry DEF SoundEntry, Arrows, Brackets
  <2>2. CASE k \notin Brackets
    BY <1>2, <1>4, <2>2 DEF SoundEntry
  <2>3. QED
    BY <2>1, <2>2
<1>5. CASE key_state[j].mode # "MOUSE" /\ key_state[k].mode # "MOUSE"
  <2>1. key_state[j].mode \in Modes /\ key_state[k].mode \in Modes
    BY DEF LockInv, TypeOK
  <2>2. key_state[j].keycode \in Reports(j)
    BY <1>2, <1>5, <2>1 DEF SoundEntry, Modes
  <2>3. key_state[k].keycode = "none" \/ key_state[k].keycode \in Reports(k)
    BY <1>2, <1>5, <2>1 DEF SoundEntry, Modes
  <2>4. QED
    BY <1>1, <2>2, <2>3
<1>6. QED
  BY <1>3, <1>4, <1>5

(* A held key whose keycodes no other key reports stays down in Linux, whatever
   is done to R-shift, Capslock and the other keys. *)
THEOREM HeldStaysDown == Spec => []HeldIsDown
<1>1. Init => HeldIsDown
  BY DEF Init, HeldIsDown, None
<1>2. LockInv /\ HeldIsDown /\ [Next]_vars => HeldIsDown'
  <2> SUFFICES ASSUME LockInv, HeldIsDown, [Next]_vars, NEW j \in Keys,
                      Alone(j), key_state'[j].keycode # "none"
               PROVE  key_state'[j].keycode \in down'
    BY DEF HeldIsDown, Alone, Reports
  <2>1. key_state'[j].keycode \in OwnedCodes
    BY LockStep DEF LockInv, TypeOK
  <2>2. CASE OtherStep
    BY <2>1, <2>2, OtherKeepsLocks, OthersOwnNothing DEF HeldIsDown
  <2>3. ASSUME NEW k \in Keys, DispatchKey(k) \/ PressAction(k)
        PROVE  key_state'[j].keycode \in down'
    <3>1. CASE j = k
      BY <2>1, <2>3, <3>1, KeyOwns
    <3>2. CASE j # k
      <4>1. key_state'[j] = key_state[j] /\ key_state[j].keycode \in down
        BY <2>3, <3>2, OtherKeysKept DEF HeldIsDown
      <4>2. key_state[j].keycode # key_state[k].keycode
        BY <3>2, <4>1, LocksApart
      <4>3. QED
        BY <2>1, <2>3, <4>1, <4>2, KeyOwns
    <3>3. QED
      BY <3>1, <3>2
  <2>4. QED
    BY <2>2, <2>3, StepCases
<1>3. QED
  BY LockInit, LockStep, <1>1, <1>2, PTL DEF Spec

-----------------------------------------------------------------------------
(* The mouse *)

DirsOwned ==
  /\ mouse_dir # {} => mouse_mode
  /\ \A k \in mouse_dir : key_state[k].mode = "MOUSE"

ButtonsOwned ==
  \A b \in Keys \cap Brackets :
    Button(b) \in down <=> key_state[b].mode = "MOUSE"

LEMMA ButtonsStep ==
  LockInv /\ ButtonsOwned /\ [Next]_vars => ButtonsOwned'
<1> SUFFICES ASSUME LockInv, ButtonsOwned, [Next]_vars,
                    NEW b \in Keys \cap Brackets
             PROVE  Button(b) \in down' <=> key_state'[b].mode = "MOUSE"
  BY DEF ButtonsOwned, Button
<1>1. Button(b) \in OwnedCodes
  BY DEF Button, Buttons, OwnedCodes
<1>2. CASE OtherStep
  BY <1>1, <1>2, OtherKeepsLocks, OthersOwnNothing DEF ButtonsOwned
<1>3. ASSUME NEW k \in Keys, DispatchKey(k) \/ PressAction(k)
      PROVE  Button(b) \in down' <=> key_state'[b].mode = "MOUSE"
  <2>1. key_state[k].keycode = Button(b)
          <=> k = b /\ key_state[k].mode = "MOUSE"
    BY ButtonEntry
  <2>2. key_state'[k].keycode = Button(b)
          <=> k = b /\ key_state'[k].mode = "MOUSE"
    <3>1. LockInv'
      BY LockStep
    <3>2. Button(b) \notin PlainCodes /\ Button(b) # "none" /\ b \notin Arrows
      BY CodesApart DEF Button, Buttons, OwnedCodes, Arrows, Brackets
    <3>3. \A l \in Brackets : Button(l) = Button(b) => l = b
      BY DEF Brackets, Button
    <3>4. key_state'[k].mode \in Modes /\ SoundEntry(k, key_state'[k])
      BY <3>1 DEF LockInv, TypeOK, Sound, SoundEntry
    <3>5. QED
      BY <3>2, <3>3, <3>4 DEF SoundEntry, Modes
  <2>3. CASE k = b
    BY <1>1, <1>3, <2>1, <2>2, <2>3, KeyOwns DEF ButtonsOwned
  <2>4. CASE k # b
    BY <1>1, <1>3, <2>1, <2>2, <2>4, KeyOwns, OtherKeysKept DEF ButtonsOwned
  <2>5. QED
    BY <2>3, <2>4
<1>4. QED
  BY <1>2, <1>3, StepCases

LEMMA DirsStep == LockInv /\ DirsOwned /\ [Next]_vars => DirsOwned'
<1> SUFFICES ASSUME LockInv, DirsOwned, [Next]_vars
             PROVE  DirsOwned'
  OBVIOUS
<1>1. CASE OtherStep
  <2>1. (mouse_dir' = mouse_dir /\ mouse_mode' = mouse_mode) \/ mouse_dir' = {}
    BY <1>1 DEF OtherStep, DispatchModifier, PressModifier, ReleaseModifier,
                PressRShift, ReleaseRShift, PressCaps, ReleaseCaps, CapsToggle,
                MouseExpire, MouseRearm, mouseVars, vars
  <2>2. QED
    BY <1>1, <2>1, OtherKeepsLocks DEF DirsOwned
<1>2. ASSUME NEW k \in Keys, DispatchKey(k) \/ PressAction(k)
      PROVE  DirsOwned'
  <2>1. mouse_dir \subseteq Keys /\ \A j \in mouse_dir : j \in Arrows
    BY DEF LockInv, TypeOK
  <2>2. \A j \in Keys \ {k} : key_state'[j] = key_state[j]
    BY <1>2, OtherKeysKept
  <2>3. mouse_mode' = mouse_mode
    BY <1>2 DEF DispatchKey, PressArrow, PressButton, PressFn, PressShifted,
                PressNormal, PressAction, ReleaseKey, ReleaseArrow,
                ReleaseButton, mouseVars
  <2>4. CASE PressArrow(k)
    <3>1. key_state'[k].mode = "MOUSE"
      BY <2>4, Locking DEF PressArrow, LockInv, Modes
    <3>2. mouse_mode /\ mouse_dir' = mouse_dir \cup {k}
      BY <2>4 DEF PressArrow, MouseAction
    <3>3. QED
      BY <2>1, <2>2, <2>3, <3>1, <3>2 DEF DirsOwned
  <2>5. CASE ReleaseArrow(k)
    <3>1. mouse_dir' = mouse_dir \ {k}
      BY <2>5 DEF ReleaseArrow
    <3>2. QED
      BY <2>1, <2>2, <2>3, <3>1 DEF DirsOwned
  <2>6. CASE ~PressArrow(k) /\ ~ReleaseArrow(k)
    <3>1. mouse_dir' = mouse_dir
      BY <1>2, <2>6 DEF DispatchKey, PressButton, PressFn, PressShifted,
             PressNormal, PressAction, ReleaseKey, ReleaseButton, mouseVars
    <3>2. k \notin mouse_dir
      <4>1. k \notin Arrows \/ key_state[k].mode # "MOUSE"
        BY <1>2, <2>6 DEF DispatchKey, PressButton, PressFn, PressShifted,
               PressNormal, PressAction, ReleaseKey, ReleaseButton, Fresh,
               Arrows, Brackets
      <4>2. QED
        BY <2>1, <4>1 DEF DirsOwned
    <3>3. QED
      BY <2>1, <2>2, <2>3, <3>1, <3>2 DEF DirsOwned
  <2>7. QED
    BY <2>4, <2>5, <2>6
<1>3. QED
  BY <1>1, <1>2, StepCases

(* Only arrows that went down in mouse mode and are still held move the
   pointer, and a mouse button is down exactly while its bracket is held as
   one. *)
THEOREM MouseNotStuck == Spec => []MouseOwned
<1>1. Init => DirsOwned /\ ButtonsOwned
  BY DEF Init, DirsOwned, ButtonsOwned, None
<1>2. DirsOwned /\ ButtonsOwned => MouseOwned
  BY DEF DirsOwned, ButtonsOwned, MouseOwned
<1>3. QED
  BY LockInit, LockStep, DirsStep, ButtonsStep, <1>1, <1>2, PTL DEF Spec

(* While a direction is held the movement work is pending or running. *)
THEOREM MoverNeverLost == Spec => []MoverAlive
<1>1. Init => MoverAlive
  BY DEF Init, MoverAlive
<1>2. MoverAlive /\ [Next]_vars => MoverAlive'
  <2> SUFFICES ASSUME MoverAlive, [Next]_vars
               PROVE  MoverAlive'
    OBVIOUS
  <2>1. CASE DispatchModifier \/ CapsToggle
    BY <2>1 DEF DispatchModifier, PressModifier, ReleaseModifier, PressRShift,
           ReleaseRShift, PressCaps, ReleaseCaps, CapsToggle, mouseVars,
           MoverAlive
  <2>2. ASSUME NEW k \in Keys, DispatchKey(k) \/ PressAction(k)
        PROVE  MoverAlive'
    <3>1. CASE PressArrow(k)
      BY <3>1 DEF PressArrow, MoverAlive
    <3>2. CASE ReleaseArrow(k)
      BY <3>2 DEF ReleaseArrow, MoverAlive
    <3>3. CASE ~PressArrow(k) /\ ~ReleaseArrow(k)
      BY <2>2, <3>3 DEF DispatchKey, PressButton, PressFn, PressShifted,
             PressNormal, PressAction, ReleaseKey, ReleaseButton, mouseVars,
             MoverAlive
    <3>4. QED
      BY <3>1, <3>2, <3>3
  <2>3. CASE MouseExpire \/ MouseRearm \/ UNCHANGED vars
    BY <2>3 DEF MouseExpire, MouseRearm, vars, mouseVars, MoverAlive
  <2>4. QED
    BY <2>1, <2>2, <2>3 DEF Next
<1>3. QED
  BY <1>1, <1>2, PTL DEF Spec
=============================================================================
