---------------------------- MODULE Kernel_proofs -----------------------------
(***************************************************************************)
(* Theorems about the parts of the kernel tree: the SD card driver, for    *)
(* every set of cards and any number of attempts at 1.8 V; overlays in     *)
(* configfs, for any number of writers; the map of consoles, for all frame *)
(* buffers and consoles; the keyboard driver for firmware 1.2, for every   *)
(* set of keys; and the scrollback, for every size of the screen, the ring *)
(* and the logo.                                                           *)
(***************************************************************************)
EXTENDS Kernel, Integers, TLAPS, WellFoundedInduction

(* Where mmc_sd_get_cid and mmc_sd_init_card can stand. *)
Commands == {"cid", "volt", "send_cid", "rca", "select", "setup", "fix_volt",
             "fix_wide", "fix_mode", "uhs_wide", "uhs_mode", "hs", "wide",
             "ext", "cache"}

CardRecord == [cid : Cids \cup {None}, suspended : BOOLEAN, cache : BOOLEAN]
IosRecord ==
  [on : BOOLEAN, v18 : BOOLEAN, wide : BOOLEAN, mode : {"ds", "hs", "uhs"}]
PhysRecord ==
  [st : {"off", "idle", "ready", "ident", "stby", "tran"},
   v18 : BOOLEAN, wide : BOOLEAN, mode : {"ds", "hs", "uhs"},
   cache : BOOLEAN, dirty : BOOLEAN]
OpRecord ==
  [name : {None, "attach", "resume", "reset", "down"},
   pc : Commands \cup {None}, retries : 0..Retries,
   fixup_failed : BOOLEAN, s18a : BOOLEAN]

OpAt ==
  /\ op.pc # None <=> op.name \in {"attach", "resume", "reset"}
  /\ op.pc = "volt" => op.retries > 0

(* The types that TypeOK names, and those of op. *)
TypeInv ==
  /\ host \in [spi : BOOLEAN, uhs : BOOLEAN]
  /\ slot \in Cids \cup {None}
  /\ phys \in PhysRecord
  /\ ios \in IosRecord
  /\ card \in CardRecord
  /\ good \in BOOLEAN
  /\ op \in OpRecord /\ OpAt
  /\ flushed \in {None, "ok", "err"}

(* host->card while an operation runs. *)
CardInv ==
  /\ card.cid = None => card = NoCard
  /\ op.name = "attach" => card.cid = None
  /\ Old => card.cid # None

(* A card past its identification is the one the driver holds, if it holds any:
   SendCid compares, and an exchange loses the state. *)
OwnInv ==
  ~host.spi /\ card.cid # None /\ phys.st \in {"ident", "stby", "tran"}
    => slot = card.cid

Inv == CardInv /\ OwnInv

-----------------------------------------------------------------------------
(* What card and host agree on, at each command. *)
Spoken == {"ready", "ident", "stby", "tran"}
SameWires == phys.wide = ios.wide /\ phys.mode = ios.mode
SameVolt == phys.v18 = ios.v18

BusInv ==
  /\ phys.v18 => host.uhs
  /\ op.s18a \/ op.pc = "volt" => host.uhs
  /\ op.pc = "cid" => ios = PowerOn
  /\ op.pc \in {"volt", "send_cid", "rca", "select", "setup"} =>
       /\ ~ios.wide /\ ios.mode = "ds"
       /\ phys.st \in Spoken => SameWires /\ (ios.v18 => phys.v18)
       /\ op.s18a /\ op.pc # "volt" => ios.v18
       /\ op.pc = "volt" => ~ios.v18
  /\ op.fixup_failed => (phys.v18 => ios.v18)
  /\ op.pc = "fix_volt" /\ phys.st = "tran" => SameWires /\ phys.v18
  /\ op.pc \in {"fix_wide", "fix_mode", "uhs_wide", "uhs_mode", "hs", "wide",
                "ext", "cache"} /\ phys.st = "tran" => SameWires /\ SameVolt
  /\ InUse /\ good /\ phys.st = "tran" => SameWires /\ SameVolt

(* The cache: what the driver takes for off is off, and an initialisation
   starts with it off and empty. *)
CacheInv ==
  /\ phys.dirty => phys.cache
  /\ op.pc \notin {None, "cid"} => ~phys.cache
  /\ InUse /\ good =>
       (phys.cache => card.cache) /\ (flushed = "ok" => ~phys.dirty)

-----------------------------------------------------------------------------
(* Types *)

LEMMA Records ==
  /\ NoCard \in CardRecord /\ PowerOn \in IosRecord /\ PowerOff \in IosRecord
  /\ Off \in PhysRecord /\ Powered \in PhysRecord /\ Left18 \in PhysRecord
  /\ Quiet \in OpRecord /\ Quiet.name = None /\ Quiet.pc = None
<1>1. NoCard \in CardRecord
  BY DEF NoCard, CardRecord
<1>2. PowerOn \in IosRecord
  BY DEF PowerOn, IosRecord
<1>3. PowerOff \in IosRecord
  BY <1>2 DEF PowerOff, IosRecord
<1>4. Off \in PhysRecord
  BY DEF Off, PhysRecord
<1>5. Powered \in PhysRecord
  BY <1>4 DEF Powered, PhysRecord
<1>6. Left18 \in PhysRecord
  BY <1>4 DEF Left18, PhysRecord
<1>7. Quiet \in OpRecord /\ Quiet.name = None /\ Quiet.pc = None
  BY ConstantsAssumption DEF Quiet, OpRecord
<1>8. QED
  BY <1>1, <1>2, <1>3, <1>4, <1>5, <1>6, <1>7

LEMMA BeginTypes ==
  ASSUME NEW name \in {"attach", "resume", "reset"}, Begin(name)
  PROVE  op' \in OpRecord /\ OpAt'
<1>1. op' = [Quiet EXCEPT !.name = name, !.pc = "cid", !.retries = Retries]
  BY DEF Begin
<1>2. Retries \in 0..Retries
  BY ConstantsAssumption
<1>3. op' \in OpRecord
  BY <1>1, <1>2, Records DEF OpRecord, Commands
<1>4. op'.name = name /\ op'.pc = "cid"
  BY <1>1 DEF Quiet
<1>5. QED
  BY <1>3, <1>4 DEF OpAt, None

LEMMA FreeCardTypes ==
  ASSUME TypeInv, FreeCard, host' = host
  PROVE  TypeInv'
<1> USE DEF TypeInv
<1>1. phys' \in PhysRecord
  BY Records DEF FreeCard, Reset, PhysRecord
<1>2. ios' \in IosRecord
  BY Records DEF FreeCard, drive, IosRecord
<1>3. card' \in CardRecord
  BY Records DEF FreeCard, drive, CardRecord
<1>4. op' \in OpRecord /\ OpAt'
  BY Records DEF FreeCard, OpAt, None
<1>5. QED
  BY <1>1, <1>2, <1>3, <1>4 DEF FreeCard, drive

LEMMA FixupTypes ==
  ASSUME TypeInv, FixupFails, host' = host, op.pc # None
  PROVE  TypeInv'
<1> USE DEF TypeInv
<1>1. phys' \in PhysRecord
  BY ConstantsAssumption, Records DEF FixupFails, Reset, PhysRecord
<1>2. ios' \in IosRecord
  BY ConstantsAssumption, Records DEF FixupFails, drive, IosRecord
<1>3. card' \in CardRecord
  BY ConstantsAssumption, Records DEF FixupFails, drive, CardRecord
<1>4. op' \in OpRecord /\ OpAt'
  <2>1. op' = [op EXCEPT !.pc = "cid", !.retries = Retries, !.fixup_failed = TRUE]
    BY DEF FixupFails
  <2>2. Retries \in 0..Retries
    BY ConstantsAssumption
  <2>3. op' \in OpRecord
    BY <2>1, <2>2 DEF OpRecord, Commands
  <2>4. op'.name = op.name /\ op'.pc = "cid"
    BY <2>1 DEF OpRecord
  <2>5. QED
    BY <2>3, <2>4 DEF OpAt, None
<1>5. QED
  BY <1>1, <1>2, <1>3, <1>4, ConstantsAssumption DEF FixupFails, drive

(* The end of an initialisation, here and for each invariant below. *)
LEMMA FinishTypes ==
  ASSUME TypeInv, NEW cache \in BOOLEAN, Finish(cache),
         UNCHANGED <<host, slot, flushed>>
  PROVE  TypeInv'
<1>1. phys' \in PhysRecord
  <2>1. [phys EXCEPT !.cache = cache] \in PhysRecord
    BY DEF TypeInv, PhysRecord
  <2>2. phys' \in {[phys EXCEPT !.cache = cache], Reset(Off)}
    BY DEF Finish
  <2>3. QED
    BY <2>1, <2>2, Records DEF Reset
<1>2. ios' \in IosRecord
  BY Records DEF Finish, TypeInv
<1>3. card' \in CardRecord
  <2>1. [cid |-> slot, suspended |-> FALSE, cache |-> cache] \in CardRecord
    BY DEF TypeInv, CardRecord
  <2>2. [card EXCEPT !.suspended = FALSE, !.cache = cache] \in CardRecord
    BY DEF TypeInv, CardRecord
  <2>3. QED
    BY <2>1, <2>2, Records DEF Finish
<1>4. op' \in OpRecord /\ OpAt'
  BY Records DEF Finish, OpAt, None
<1>5. good' \in BOOLEAN
  BY DEF Finish
<1>6. QED
  BY <1>1, <1>2, <1>3, <1>4, <1>5 DEF TypeInv

LEMMA TypeStep == TypeInv /\ [Next]_vars => TypeInv'
<1> SUFFICES ASSUME TypeInv, [Next]_vars PROVE TypeInv'
  OBVIOUS
<1> USE ConstantsAssumption DEF TypeInv
<1>1. CASE OpCond
  <2>1. host' = host /\ op.pc # None
    BY <1>1 DEF OpCond, At, None
  <2>2. CASE FreeCard
    BY <2>1, <2>2, FreeCardTypes
  <2>3. CASE ~FreeCard
    <3>1. phys' \in PhysRecord
      BY <1>1, <2>3, Records
      DEF OpCond, Ready, At, Goto, drive, Reset, PhysRecord
    <3>2. ios' \in IosRecord
      BY <1>1, <2>3, Records DEF OpCond, Ready, drive
    <3>3. card' \in CardRecord
      BY <1>1, <2>3, Records DEF OpCond, Ready, drive
    <3>4. op' \in OpRecord /\ OpAt'
      BY <1>1, <2>3, Records
      DEF OpCond, Ready, At, Goto, drive, OpAt, OpRecord, Commands, None
    <3>5. QED
      BY <3>1, <3>2, <3>3, <3>4, <1>1, <2>3 DEF OpCond, At, drive
  <2>4. QED
    BY <2>2, <2>3
<1>2. CASE SetUhsVoltage
  <2>1. phys' \in PhysRecord
    BY <1>2, Records
    DEF SetUhsVoltage, AgainLeft, At, Goto, drive, Reset, PhysRecord
  <2>2. ios' \in IosRecord
    BY <1>2, Records DEF SetUhsVoltage, AgainLeft, At, Goto, drive, IosRecord
  <2>3. card' \in CardRecord
    BY <1>2, Records DEF SetUhsVoltage, AgainLeft, CardRecord
  <2>4. op' \in OpRecord /\ OpAt'
    <3>1. op.pc = "volt" /\ op.retries \in 1..Retries
      BY <1>2 DEF SetUhsVoltage, At, OpAt, OpRecord
    <3>2. CASE op' = [op EXCEPT !.pc = "send_cid"]
      BY <3>1, <3>2 DEF OpRecord, OpAt, Commands, None
    <3>3. ASSUME NEW tries \in 0..Retries,
                 op' = [op EXCEPT !.retries = tries, !.pc = "cid"]
          PROVE  op' \in OpRecord /\ OpAt'
      BY <3>1, <3>3 DEF OpRecord, OpAt, Commands, None
    <3>4. AgainLeft \in 0..Retries /\ 0 \in 0..Retries
      BY <3>1 DEF AgainLeft
    <3>5. QED
      BY <1>2, <3>2, <3>3, <3>4 DEF SetUhsVoltage, Goto
  <2>5. QED
    BY <2>1, <2>2, <2>3, <2>4, <1>2 DEF SetUhsVoltage, AgainLeft, At
<1>3. CASE SendCid
  <2>1. host' = host /\ op.pc # None
    BY <1>3 DEF SendCid, At, None
  <2>2. CASE FreeCard
    BY <2>1, <2>2, FreeCardTypes
  <2>3. CASE ~FreeCard
    <3>1. phys' \in PhysRecord
      BY <1>3, <2>3, Records DEF SendCid, SameCard, PhysRecord
    <3>2. ios' \in IosRecord
      BY <1>3, <2>3, Records DEF SendCid, SameCard, drive
    <3>3. card' \in CardRecord
      BY <1>3, <2>3, Records DEF SendCid, SameCard, drive
    <3>4. op' \in OpRecord /\ OpAt'
      BY <1>3, <2>3, Records
      DEF SendCid, At, Goto, OpAt, OpRecord, Commands, None
    <3>5. QED
      BY <3>1, <3>2, <3>3, <3>4, <1>3, <2>3 DEF SendCid, At, drive
  <2>4. QED
    BY <2>2, <2>3
<1>4. CASE RelativeAddr
  <2>1. host' = host /\ op.pc # None
    BY <1>4 DEF RelativeAddr, At, None
  <2>2. CASE FreeCard
    BY <2>1, <2>2, FreeCardTypes
  <2>3. CASE ~FreeCard
    <3>1. phys' \in PhysRecord
      BY <1>4, <2>3, Records DEF RelativeAddr, Goto, PhysRecord
    <3>2. ios' \in IosRecord
      BY <1>4, <2>3, Records DEF RelativeAddr, drive, IosRecord
    <3>3. card' \in CardRecord
      BY <1>4, <2>3, Records DEF RelativeAddr, drive, CardRecord
    <3>4. op' \in OpRecord /\ OpAt'
      BY <1>4, <2>3, Records
      DEF RelativeAddr, At, Goto, OpAt, OpRecord, Commands, None
    <3>5. QED
      BY <3>1, <3>2, <3>3, <3>4, <1>4, <2>3 DEF RelativeAddr, At, drive
  <2>4. QED
    BY <2>2, <2>3
<1>5. CASE Select
  <2>1. host' = host /\ op.pc # None
    BY <1>5 DEF Select, At, None
  <2>2. CASE FreeCard
    BY <2>1, <2>2, FreeCardTypes
  <2>3. CASE ~FreeCard
    <3>1. phys' \in PhysRecord
      BY <1>5, <2>3, Records DEF Select, Goto, PhysRecord
    <3>2. ios' \in IosRecord
      BY <1>5, <2>3, Records DEF Select, drive, IosRecord
    <3>3. card' \in CardRecord
      BY <1>5, <2>3, Records DEF Select, drive, CardRecord
    <3>4. op' \in OpRecord /\ OpAt'
      BY <1>5, <2>3, Records
      DEF Select, At, Goto, OpAt, OpRecord, Commands, None
    <3>5. QED
      BY <3>1, <3>2, <3>3, <3>4, <1>5, <2>3 DEF Select, At, drive
  <2>4. QED
    BY <2>2, <2>3
<1>6. CASE Setup
  <2>1. host' = host /\ op.pc # None
    BY <1>6 DEF Setup, At, None
  <2>2. CASE FreeCard
    BY <2>1, <2>2, FreeCardTypes
  <2>3. CASE ~FreeCard
    <3>1. phys' \in PhysRecord
      BY <1>6, <2>3, Records DEF Setup, StillAt18, Goto
    <3>2. ios' \in IosRecord
      BY <1>6, <2>3, Records DEF Setup, StillAt18, drive
    <3>3. card' \in CardRecord
      BY <1>6, <2>3, Records DEF Setup, StillAt18, drive
    <3>4. op' \in OpRecord /\ OpAt'
      BY <1>6, <2>3, Records
      DEF Setup, At, Goto, OpAt, OpRecord, Commands, None
    <3>5. QED
      BY <3>1, <3>2, <3>3, <3>4, <1>6, <2>3 DEF Setup, At, drive
  <2>4. QED
    BY <2>2, <2>3
<1>7. CASE FixVolt
  <2>1. host' = host /\ op.pc # None
    BY <1>7 DEF FixVolt, At, None
  <2>2. CASE FixupFails
    BY <2>1, <2>2, FixupTypes
  <2>3. CASE ~FixupFails
    <3>1. phys' \in PhysRecord
      BY <1>7, <2>3, Records DEF FixVolt, Goto, Reset
    <3>2. ios' \in IosRecord
      BY <1>7, <2>3, Records DEF FixVolt, At, Goto, drive, IosRecord
    <3>3. card' \in CardRecord
      BY <1>7, <2>3, Records DEF FixVolt, Goto, CardRecord
    <3>4. op' \in OpRecord /\ OpAt'
      BY <1>7, <2>3, Records
      DEF FixVolt, At, Goto, OpAt, OpRecord, Commands, None
    <3>5. QED
      BY <3>1, <3>2, <3>3, <3>4, <1>7, <2>3 DEF FixVolt, At, Goto
  <2>4. QED
    BY <2>2, <2>3
<1>8. CASE UhsWide("fix_wide", "fix_mode", FixupFails)
  <2>1. host' = host /\ op.pc # None
    BY <1>8 DEF UhsWide, At, None
  <2>2. CASE FixupFails
    BY <2>1, <2>2, FixupTypes
  <2>3. CASE ~FixupFails
    <3>1. phys' \in PhysRecord
      BY <1>8, <2>3, Records DEF UhsWide, At, Goto, drive, Reset, PhysRecord
    <3>2. ios' \in IosRecord
      BY <1>8, <2>3, Records DEF UhsWide, At, Goto, drive, IosRecord
    <3>3. card' \in CardRecord
      BY <1>8, <2>3, Records DEF UhsWide, Goto, CardRecord
    <3>4. op' \in OpRecord /\ OpAt'
      BY <1>8, <2>3, Records
      DEF UhsWide, At, Goto, OpAt, OpRecord, Commands, None
    <3>5. QED
      BY <3>1, <3>2, <3>3, <3>4, <1>8, <2>3 DEF UhsWide, At, Goto
  <2>4. QED
    BY <2>2, <2>3
<1>9. CASE UhsMode("fix_mode", FixupFails)
  <2>1. host' = host /\ op.pc # None
    BY <1>9 DEF UhsMode, At, None
  <2>2. CASE FixupFails
    BY <2>1, <2>2, FixupTypes
  <2>3. CASE ~FixupFails
    <3>1. phys' \in PhysRecord
      BY <1>9, <2>3, Records DEF UhsMode, Goto, PhysRecord
    <3>2. ios' \in IosRecord
      BY <1>9, <2>3, Records DEF UhsMode, Goto, IosRecord
    <3>3. card' \in CardRecord
      BY <1>9, <2>3, Records DEF UhsMode, Goto, CardRecord
    <3>4. op' \in OpRecord /\ OpAt'
      BY <1>9, <2>3, Records
      DEF UhsMode, At, Goto, OpAt, OpRecord, Commands, None
    <3>5. QED
      BY <3>1, <3>2, <3>3, <3>4, <1>9, <2>3 DEF UhsMode, At, Goto
  <2>4. QED
    BY <2>2, <2>3
<1>10. CASE UhsWide("uhs_wide", "uhs_mode", FreeCard)
  <2>1. host' = host /\ op.pc # None
    BY <1>10 DEF UhsWide, At, None
  <2>2. CASE FreeCard
    BY <2>1, <2>2, FreeCardTypes
  <2>3. CASE ~FreeCard
    <3>1. phys' \in PhysRecord
      BY <1>10, <2>3, Records DEF UhsWide, At, Goto, drive, Reset, PhysRecord
    <3>2. ios' \in IosRecord
      BY <1>10, <2>3, Records DEF UhsWide, At, Goto, drive, IosRecord
    <3>3. card' \in CardRecord
      BY <1>10, <2>3, Records DEF UhsWide, Goto, CardRecord
    <3>4. op' \in OpRecord /\ OpAt'
      BY <1>10, <2>3, Records
      DEF UhsWide, At, Goto, OpAt, OpRecord, Commands, None
    <3>5. QED
      BY <3>1, <3>2, <3>3, <3>4, <1>10, <2>3 DEF UhsWide, At, Goto
  <2>4. QED
    BY <2>2, <2>3
<1>11. CASE UhsMode("uhs_mode", FreeCard)
  <2>1. host' = host /\ op.pc # None
    BY <1>11 DEF UhsMode, At, None
  <2>2. CASE FreeCard
    BY <2>1, <2>2, FreeCardTypes
  <2>3. CASE ~FreeCard
    <3>1. phys' \in PhysRecord
      BY <1>11, <2>3, Records DEF UhsMode, Goto, PhysRecord
    <3>2. ios' \in IosRecord
      BY <1>11, <2>3, Records DEF UhsMode, Goto, IosRecord
    <3>3. card' \in CardRecord
      BY <1>11, <2>3, Records DEF UhsMode, Goto, CardRecord
    <3>4. op' \in OpRecord /\ OpAt'
      BY <1>11, <2>3, Records
      DEF UhsMode, At, Goto, OpAt, OpRecord, Commands, None
    <3>5. QED
      BY <3>1, <3>2, <3>3, <3>4, <1>11, <2>3 DEF UhsMode, At, Goto
  <2>4. QED
    BY <2>2, <2>3
<1>12. CASE SwitchHs
  <2>1. host' = host /\ op.pc # None
    BY <1>12 DEF SwitchHs, At, None
  <2>2. CASE FreeCard
    BY <2>1, <2>2, FreeCardTypes
  <2>3. CASE ~FreeCard
    <3>1. phys' \in PhysRecord
      BY <1>12, <2>3, Records DEF SwitchHs, Goto, PhysRecord
    <3>2. ios' \in IosRecord
      BY <1>12, <2>3, Records DEF SwitchHs, Goto, IosRecord
    <3>3. card' \in CardRecord
      BY <1>12, <2>3, Records DEF SwitchHs, Goto, CardRecord
    <3>4. op' \in OpRecord /\ OpAt'
      BY <1>12, <2>3, Records
      DEF SwitchHs, At, Goto, OpAt, OpRecord, Commands, None
    <3>5. QED
      BY <3>1, <3>2, <3>3, <3>4, <1>12, <2>3 DEF SwitchHs, At, Goto
  <2>4. QED
    BY <2>2, <2>3
<1>13. CASE Wide
  <2>1. host' = host /\ op.pc # None
    BY <1>13 DEF Wide, UhsWide, At, None
  <2>2. CASE FreeCard
    BY <2>1, <2>2, FreeCardTypes
  <2>3. CASE ~FreeCard
    <3>1. phys' \in PhysRecord
      BY <1>13, <2>3, Records
      DEF Wide, UhsWide, At, Goto, drive, Reset, PhysRecord
    <3>2. ios' \in IosRecord
      BY <1>13, <2>3, Records DEF Wide, UhsWide, At, Goto, drive, IosRecord
    <3>3. card' \in CardRecord
      BY <1>13, <2>3, Records DEF Wide, UhsWide, CardRecord
    <3>4. op' \in OpRecord /\ OpAt'
      BY <1>13, <2>3, Records
      DEF Wide, UhsWide, At, Goto, OpAt, OpRecord, Commands, None
    <3>5. QED
      BY <3>1, <3>2, <3>3, <3>4, <1>13, <2>3 DEF Wide, UhsWide, At
  <2>4. QED
    BY <2>2, <2>3
<1>14. CASE ReadExtRegs
  <2>1. host' = host /\ op.pc # None
    BY <1>14 DEF ReadExtRegs, At, None
  <2>2. CASE FreeCard
    BY <2>1, <2>2, FreeCardTypes
  <2>3. CASE Finish(FALSE) /\ UNCHANGED <<slot, flushed>>
    BY <2>1, <2>3, FinishTypes
  <2>4. CASE Goto("cache") /\ UNCHANGED <<slot, phys, drive, flushed>>
    <3>1. op' \in OpRecord /\ OpAt'
      BY <1>14, <2>4 DEF ReadExtRegs, At, Goto, OpAt, OpRecord, Commands, None
    <3>2. QED
      BY <2>1, <2>4, <3>1 DEF drive
  <2>5. QED
    BY <1>14, <2>2, <2>3, <2>4 DEF ReadExtRegs
<1>15. CASE EnableCache
  <2>1. CASE Finish(TRUE) /\ UNCHANGED <<slot, flushed>>
    BY <1>15, <2>1, FinishTypes DEF EnableCache, At
  <2>2. CASE /\ CacheFails /\ UNCHANGED <<slot, flushed>>
             /\ \E reached \in {FALSE, Answers({"tran"})} :
                  phys' = IF ~ios'.on THEN Reset(Off)
                          ELSE [phys EXCEPT !.cache = reached]
    <3>1. phys' \in PhysRecord
      <4>1. \A b \in BOOLEAN : [phys EXCEPT !.cache = b] \in PhysRecord
        BY DEF PhysRecord
      <4>2. Answers({"tran"}) \in BOOLEAN
        BY DEF Answers
      <4>3. QED
        BY <2>2, <4>1, <4>2, Records DEF Reset
    <3>2. ios' \in IosRecord
      BY <2>2, Records DEF CacheFails, IosRecord
    <3>3. card' \in CardRecord
      <4>1. [card EXCEPT !.suspended = FALSE, !.cache = FALSE] \in CardRecord
        BY DEF CardRecord
      <4>2. QED
        BY <2>2, <4>1, Records DEF CacheFails
    <3>4. op' \in OpRecord /\ OpAt'
      BY <2>2, Records DEF CacheFails, OpAt, None
    <3>5. QED
      BY <1>15, <2>2, <3>1, <3>2, <3>3, <3>4 DEF EnableCache, CacheFails, At
  <2>3. QED
    BY <1>15, <2>1, <2>2 DEF EnableCache
<1>16. CASE PullOut
  <2>1. phys' \in PhysRecord
    BY <1>16, Records DEF PullOut, Reset, PhysRecord
  <2>2. ios' \in IosRecord
    BY <1>16, Records DEF PullOut, drive, IosRecord
  <2>3. card' \in CardRecord
    BY <1>16, Records DEF PullOut, drive, CardRecord
  <2>4. op' \in OpRecord /\ OpAt'
    BY <1>16, Records DEF PullOut, OpAt, Commands
  <2>5. QED
    BY <2>1, <2>2, <2>3, <2>4, <1>16 DEF PullOut, drive
<1>17. CASE Attach
  <2>1. phys' \in PhysRecord
    BY <1>17, Records DEF Attach, PowerUp, Reset
  <2>2. ios' \in IosRecord
    BY <1>17, Records DEF Attach, PowerUp, Begin
  <2>3. card' \in CardRecord
    BY <1>17, Records DEF Attach, PowerUp, Begin
  <2>4. op' \in OpRecord /\ OpAt'
    BY <1>17, BeginTypes DEF Attach
  <2>5. QED
    BY <2>1, <2>2, <2>3, <2>4, <1>17 DEF Attach, Free, PowerUp
<1>18. CASE Detect
  <2>1. phys' \in PhysRecord
    BY <1>18, Records DEF Detect, Running, Reset
  <2>2. ios' \in IosRecord
    BY <1>18, Records DEF Detect, Running, Free
  <2>3. card' \in CardRecord
    BY <1>18, Records DEF Detect, Running, Free
  <2>4. op' \in OpRecord /\ OpAt'
    BY <1>18, Records DEF Detect, OpAt, Commands
  <2>5. QED
    BY <2>1, <2>2, <2>3, <2>4, <1>18 DEF Detect, Running, Free, InUse, drive
<1>19. CASE Suspend
  <2>1. phys' \in PhysRecord
    <3>1. [phys EXCEPT !.st = "stby"] \in PhysRecord
      BY DEF PhysRecord
    <3>2. phys' \in {Reset(Off), phys, [phys EXCEPT !.st = "stby"]}
      BY <1>19 DEF Suspend, CutPower
    <3>3. QED
      BY <3>1, <3>2, Records DEF Reset
  <2>2. ios' \in IosRecord
    BY <1>19, Records DEF Suspend, CutPower
  <2>3. card' \in CardRecord
    BY <1>19 DEF Suspend, CutPower, CardRecord
  <2>4. op' = op /\ OpAt'
    BY <1>19 DEF Suspend, OpAt
  <2>5. QED
    BY <2>1, <2>2, <2>3, <2>4, <1>19 DEF Suspend, Running, Free
<1>20. CASE Resume
  <2>1. phys' \in PhysRecord
    BY <1>20, Records DEF Resume, PowerUp, Reset
  <2>2. ios' \in IosRecord
    BY <1>20, Records DEF Resume, PowerUp, Begin
  <2>3. card' \in CardRecord
    BY <1>20, Records DEF Resume, PowerUp, Begin
  <2>4. op' \in OpRecord /\ OpAt'
    BY <1>20, BeginTypes DEF Resume
  <2>5. QED
    BY <2>1, <2>2, <2>3, <2>4, <1>20 DEF Resume, Free, PowerUp
<1>21. CASE HwReset
  <2>1. phys' \in PhysRecord
    BY <1>21, Records DEF HwReset, Begin, Reset
  <2>2. ios' \in IosRecord
    BY <1>21, Records DEF HwReset, Running, Begin
  <2>3. card' \in CardRecord
    BY <1>21, Records DEF HwReset, Running, Begin
  <2>4. op' \in OpRecord /\ OpAt'
    BY <1>21, BeginTypes DEF HwReset
  <2>5. QED
    BY <2>1, <2>2, <2>3, <2>4, <1>21 DEF HwReset, Running, Free
<1>22. CASE Shutdown
  <2>1. phys' \in PhysRecord
    BY <1>22, Records DEF Shutdown, CutPower, Reset
  <2>2. ios' \in IosRecord
    BY <1>22, Records
    DEF Shutdown, Running, Free, InUse, CutPower, drive, IosRecord
  <2>3. card' \in CardRecord
    BY <1>22, Records
    DEF Shutdown, Running, Free, InUse, CutPower, drive, CardRecord
  <2>4. op' \in OpRecord /\ OpAt'
    BY <1>22, Records DEF Shutdown, Running, Free, OpAt, OpRecord
  <2>5. QED
    BY <2>1, <2>2, <2>3, <2>4, <1>22 DEF Shutdown, Running, Free
<1>23. CASE Write
  <2>1. phys' \in PhysRecord
    BY <1>23, Records DEF Write, Running, PhysRecord
  <2>2. ios' \in IosRecord
    BY <1>23, Records DEF Write, Running, drive
  <2>3. card' \in CardRecord
    BY <1>23, Records DEF Write, Running, drive
  <2>4. op' \in OpRecord /\ OpAt'
    BY <1>23, Records DEF Write, OpAt, Commands
  <2>5. QED
    BY <2>1, <2>2, <2>3, <2>4, <1>23 DEF Write, Running, Free, drive
<1>24. CASE Flush
  <2>1. phys' \in PhysRecord
    BY <1>24, Records
    DEF Flush, Running, Free, InUse, drive, Reset, PhysRecord
  <2>2. ios' \in IosRecord
    BY <1>24, Records DEF Flush, Running, drive
  <2>3. card' \in CardRecord
    BY <1>24, Records DEF Flush, Running, drive
  <2>4. op' \in OpRecord /\ OpAt'
    BY <1>24, Records DEF Flush, OpAt, Commands
  <2>5. QED
    BY <2>1, <2>2, <2>3, <2>4, <1>24 DEF Flush, Running, Free, drive
<1>25. ASSUME NEW c \in Cids, Insert(c) PROVE TypeInv'
  <2>1. phys' \in PhysRecord
    BY <1>25, Records DEF Insert, Reset, PhysRecord
  <2>2. ios' \in IosRecord
    BY <1>25, Records DEF Insert, drive, IosRecord
  <2>3. card' \in CardRecord
    BY <1>25, Records DEF Insert, drive, CardRecord
  <2>4. op' \in OpRecord /\ OpAt'
    BY <1>25, Records DEF Insert, OpAt, Commands
  <2>5. QED
    BY <2>1, <2>2, <2>3, <2>4, <1>25 DEF Insert, drive
<1>26. CASE UNCHANGED vars
  <2>1. phys' \in PhysRecord
    BY <1>26, Records DEF vars, Reset, PhysRecord
  <2>2. ios' \in IosRecord
    BY <1>26, Records DEF vars, drive, IosRecord
  <2>3. card' \in CardRecord
    BY <1>26, Records DEF vars, drive, CardRecord
  <2>4. op' \in OpRecord /\ OpAt'
    BY <1>26, Records DEF vars, OpAt, Commands
  <2>5. QED
    BY <2>1, <2>2, <2>3, <2>4, <1>26 DEF vars, drive
<1>27. QED
  BY <1>1, <1>2, <1>3, <1>4, <1>5, <1>6, <1>7, <1>8, <1>9, <1>10, <1>11,
     <1>12, <1>13, <1>14, <1>15, <1>16, <1>17, <1>18, <1>19, <1>20, <1>21,
     <1>22, <1>23, <1>24, <1>25, <1>26
  DEF Next, Command, User

-----------------------------------------------------------------------------
(* host->card and the card in the slot *)

LEMMA CardFreeCard ==
  ASSUME TypeInv, CardInv, FreeCard, host' = host
  PROVE  CardInv'
  BY DEF TypeInv, FreeCard, CardInv, Old, CardRecord, NoCard, Quiet, None

LEMMA CardFixup ==
  ASSUME TypeInv, CardInv, FixupFails, host' = host, op.pc # None
  PROVE  CardInv'
  BY DEF FixupFails, CardInv, Old

LEMMA CardFinish ==
  ASSUME TypeInv, CardInv, NEW cache \in BOOLEAN, Finish(cache), slot # None,
         UNCHANGED slot
  PROVE  CardInv'
<1>1. op' = Quiet
  BY DEF Finish
<1>2. card'.cid # None \/ card' = NoCard
  <2>1. CASE Old /\ card' = [card EXCEPT !.suspended = FALSE, !.cache = cache]
    BY <2>1 DEF TypeInv, CardInv, CardRecord
  <2>2. CASE card' = [cid |-> slot, suspended |-> FALSE, cache |-> cache]
    BY <2>2
  <2>3. QED
    BY <2>1, <2>2 DEF Finish
<1>3. QED
  BY <1>1, <1>2 DEF CardInv, Old, Quiet, NoCard, None

LEMMA CardStep == TypeInv /\ CardInv /\ [Next]_vars => CardInv'
<1> SUFFICES ASSUME TypeInv, CardInv, [Next]_vars PROVE CardInv'
  OBVIOUS
<1> USE DEF TypeInv
<1>1. CASE OpCond
  BY <1>1, CardFreeCard DEF OpCond, At, drive, CardInv, Old, OpRecord
<1>2. CASE SetUhsVoltage
  BY <1>2 DEF SetUhsVoltage, Goto, CardInv, Old, OpRecord
<1>3. CASE SendCid
  BY <1>3, CardFreeCard DEF SendCid, At, Goto, drive, CardInv, Old, OpRecord
<1>4. CASE RelativeAddr
  BY <1>4, CardFreeCard
  DEF RelativeAddr, At, Goto, drive, CardInv, Old, OpRecord
<1>5. CASE Select
  BY <1>5, CardFreeCard DEF Select, At, Goto, drive, CardInv, Old, OpRecord
<1>6. CASE Setup
  BY <1>6, CardFreeCard DEF Setup, At, Goto, drive, CardInv, Old, OpRecord
<1>7. CASE FixVolt
  BY <1>7, CardFixup DEF FixVolt, At, Goto, CardInv, Old, OpRecord, None
<1>8. CASE UhsWide("fix_wide", "fix_mode", FixupFails)
  BY <1>8, CardFixup DEF UhsWide, At, Goto, CardInv, Old, OpRecord, None
<1>9. CASE UhsMode("fix_mode", FixupFails)
  BY <1>9, CardFixup DEF UhsMode, At, Goto, CardInv, Old, OpRecord, None
<1>10. CASE UhsWide("uhs_wide", "uhs_mode", FreeCard)
  BY <1>10, CardFreeCard DEF UhsWide, At, Goto, CardInv, Old, OpRecord
<1>11. CASE UhsMode("uhs_mode", FreeCard)
  BY <1>11, CardFreeCard DEF UhsMode, At, Goto, CardInv, Old, OpRecord
<1>12. CASE SwitchHs
  BY <1>12, CardFreeCard DEF SwitchHs, At, Goto, CardInv, Old, OpRecord
<1>13. CASE Wide
  BY <1>13, CardFreeCard DEF Wide, UhsWide, At, Goto, CardInv, Old, OpRecord
<1>14. CASE ReadExtRegs
  <2>1. CASE Finish(FALSE) /\ slot # None /\ UNCHANGED slot
    BY <2>1, CardFinish
  <2>2. CASE ~(Finish(FALSE) /\ slot # None /\ UNCHANGED slot)
    BY <1>14, <2>2, CardFreeCard
    DEF ReadExtRegs, At, Goto, drive, CardInv, Old, OpRecord, Answers
  <2>3. QED
    BY <2>1, <2>2
<1>15. CASE EnableCache
  <2>1. CASE Finish(TRUE) /\ slot # None /\ UNCHANGED slot
    BY <2>1, CardFinish
  <2>2. CASE CacheFails /\ card' = NoCard
    BY <2>2 DEF CacheFails, CardInv, Old, Quiet, None
  <2>3. CASE /\ CacheFails /\ op.name # "attach"
             /\ card' = [card EXCEPT !.suspended = FALSE, !.cache = FALSE]
    <3>1. Old
      BY <1>15, <2>3 DEF EnableCache, At, OpAt, Old, None
    <3>2. card'.cid # None
      BY <2>3, <3>1 DEF CardInv, CardRecord
    <3>3. QED
      BY <2>3, <3>2 DEF CacheFails, CardInv, Quiet, None
  <2>4. QED
    BY <1>15, <2>1, <2>2, <2>3 DEF EnableCache, CacheFails, Answers
<1>16. CASE PullOut
  BY <1>16 DEF PullOut, drive, CardInv, Old
<1>17. CASE Attach
  BY <1>17 DEF Attach, Begin, CardInv, Old, NoCard
<1>18. CASE Detect
  BY <1>18 DEF Detect, Running, Free, CardInv, Old, OpAt, Quiet
<1>19. CASE Suspend
  <2>1. op' = op /\ card.cid # None
    BY <1>19 DEF Suspend, Running, InUse, CardInv
  <2>2. card'.cid = card.cid
    BY <1>19 DEF Suspend, CutPower, CardRecord
  <2>3. QED
    BY <2>1, <2>2 DEF CardInv, Old
<1>20. CASE Resume
  BY <1>20 DEF Resume, Begin, CardInv
<1>21. CASE HwReset
  BY <1>21 DEF HwReset, Running, InUse, Begin, CardInv
<1>22. CASE Shutdown
  BY <1>22 DEF Shutdown, Running, InUse, CutPower, CardInv, CardRecord
<1>23. CASE Write
  BY <1>23 DEF Write, Running, InUse, drive, CardInv
<1>24. CASE Flush
  BY <1>24 DEF Flush, Running, InUse, drive, CardInv
<1>25. ASSUME NEW c \in Cids, Insert(c) PROVE CardInv'
  BY <1>25 DEF Insert, drive, CardInv, Old
<1>26. CASE UNCHANGED vars
  BY <1>26 DEF vars, drive, CardInv, Old
<1>27. QED
  BY <1>1, <1>2, <1>3, <1>4, <1>5, <1>6, <1>7, <1>8, <1>9, <1>10, <1>11,
     <1>12, <1>13, <1>14, <1>15, <1>16, <1>17, <1>18, <1>19, <1>20, <1>21,
     <1>22, <1>23, <1>24, <1>25, <1>26
  DEF Next, Command, User

LEMMA OwnFreeCard ==
  ASSUME TypeInv, CardInv, OwnInv, FreeCard, host' = host
  PROVE  OwnInv'
  BY DEF TypeInv, FreeCard, OwnInv, CardRecord, NoCard

LEMMA OwnFixup ==
  ASSUME TypeInv, CardInv, OwnInv, FixupFails, host' = host, op.pc # None
  PROVE  OwnInv'
  BY DEF FixupFails, Reset, OwnInv, Off, Powered

LEMMA OwnFinish ==
  ASSUME TypeInv, OwnInv, NEW cache \in BOOLEAN, Finish(cache),
         UNCHANGED <<host, slot>>
  PROVE  OwnInv'
<1>1. CASE card' = [cid |-> slot, suspended |-> FALSE, cache |-> cache]
  BY <1>1 DEF OwnInv
<1>2. CASE card' = NoCard
  BY <1>2 DEF OwnInv, NoCard
<1>3. CASE /\ card' = [card EXCEPT !.suspended = FALSE, !.cache = cache]
           /\ phys' = [phys EXCEPT !.cache = cache]
  <2>1. card'.cid = card.cid /\ phys'.st = phys.st
    BY <1>3 DEF TypeInv, CardRecord, PhysRecord
  <2>2. QED
    BY <2>1 DEF OwnInv
<1>4. QED
  BY <1>1, <1>2, <1>3 DEF Finish

LEMMA OwnStep == TypeInv /\ CardInv /\ OwnInv /\ [Next]_vars => OwnInv'
<1> SUFFICES ASSUME TypeInv, CardInv, OwnInv, [Next]_vars PROVE OwnInv'
  OBVIOUS
<1> USE DEF TypeInv
<1>1. CASE OpCond
  BY <1>1, OwnFreeCard DEF OpCond, Ready, At, OwnInv, Off, Powered
<1>2. CASE SetUhsVoltage
  BY <1>2 DEF SetUhsVoltage, Reset, OwnInv, Answers, PhysRecord, Off, Powered
<1>3. CASE SendCid
  BY <1>3, OwnFreeCard
  DEF SendCid, SameCard, At, drive, CardInv, OwnInv, Old, OpAt, None
<1>4. CASE RelativeAddr
  BY <1>4, OwnFreeCard DEF RelativeAddr, At, drive, OwnInv, Answers
<1>5. CASE Select
  BY <1>5, OwnFreeCard DEF Select, At, drive, OwnInv, Answers
<1>6. CASE Setup
  BY <1>6, OwnFreeCard DEF Setup, At, drive, OwnInv
<1>7. CASE FixVolt
  BY <1>7, OwnFixup DEF FixVolt, At, OwnInv, None
<1>8. CASE UhsWide("fix_wide", "fix_mode", FixupFails)
  BY <1>8, OwnFixup DEF UhsWide, At, OwnInv, Answers, None
<1>9. CASE UhsMode("fix_mode", FixupFails)
  BY <1>9, OwnFixup DEF UhsMode, At, OwnInv, Answers, None
<1>10. CASE UhsWide("uhs_wide", "uhs_mode", FreeCard)
  BY <1>10, OwnFreeCard DEF UhsWide, At, OwnInv, Answers
<1>11. CASE UhsMode("uhs_mode", FreeCard)
  BY <1>11, OwnFreeCard DEF UhsMode, At, OwnInv, Answers
<1>12. CASE SwitchHs
  BY <1>12, OwnFreeCard DEF SwitchHs, At, OwnInv, Answers
<1>13. CASE Wide
  BY <1>13, OwnFreeCard DEF Wide, UhsWide, At, OwnInv, Answers
<1>14. CASE ReadExtRegs
  <2>1. CASE Finish(FALSE) /\ UNCHANGED <<host, slot>>
    BY <2>1, OwnFinish
  <2>2. CASE ~(Finish(FALSE) /\ UNCHANGED <<host, slot>>)
    BY <1>14, <2>2, OwnFreeCard DEF ReadExtRegs, At, drive, OwnInv
  <2>3. QED
    BY <2>1, <2>2
<1>15. CASE EnableCache
  <2>1. slot' = slot /\ host' = host
    BY <1>15 DEF EnableCache, At
  <2>2. CASE Finish(TRUE)
    BY <2>1, <2>2, OwnFinish
  <2>3. CASE card' = NoCard
    BY <2>3 DEF OwnInv, NoCard
  <2>4. CASE /\ ~Finish(TRUE)
             /\ card' = [card EXCEPT !.suspended = FALSE, !.cache = FALSE]
    <3>1. card'.cid = card.cid
      BY <2>4 DEF CardRecord
    <3>2. \/ phys' = Reset(Off)
          \/ \E b \in BOOLEAN : phys' = [phys EXCEPT !.cache = b]
      BY <1>15, <2>4 DEF EnableCache, Answers
    <3>3. phys'.st = "off" \/ phys'.st = phys.st
      BY <3>2 DEF Reset, Off, PhysRecord
    <3>4. QED
      BY <2>1, <3>1, <3>3 DEF OwnInv
  <2>5. QED
    BY <1>15, <2>2, <2>3, <2>4 DEF EnableCache, CacheFails, Answers
<1>16. CASE PullOut
  BY <1>16 DEF PullOut, OwnInv, Off
<1>17. CASE Attach
  BY <1>17 DEF Attach, OwnInv, NoCard
<1>18. CASE Detect
  BY <1>18 DEF Detect, OwnInv, NoCard
<1>19. CASE Suspend
  BY <1>19 DEF Suspend, Running, Free, CutPower, Reset, OwnInv, Off, Answers, PhysRecord,
               CardRecord
<1>20. CASE Resume
  BY <1>20 DEF Resume, Free, PowerUp, Reset, OwnInv, Off, Powered
<1>21. CASE HwReset
  BY <1>21 DEF HwReset, Reset, OwnInv, Off, Powered
<1>22. CASE Shutdown
  BY <1>22 DEF Shutdown, Running, Free, CutPower, Reset, OwnInv, Off
<1>23. CASE Write
  BY <1>23 DEF Write, Running, Free, drive, OwnInv
<1>24. CASE Flush
  BY <1>24 DEF Flush, Running, Free, drive, OwnInv, Answers
<1>25. ASSUME NEW c \in Cids, Insert(c) PROVE OwnInv'
  BY <1>25 DEF Insert, OwnInv, Off, Powered
<1>26. CASE UNCHANGED vars
  BY <1>26 DEF vars, drive, OwnInv
<1>27. QED
  BY <1>1, <1>2, <1>3, <1>4, <1>5, <1>6, <1>7, <1>8, <1>9, <1>10, <1>11,
     <1>12, <1>13, <1>14, <1>15, <1>16, <1>17, <1>18, <1>19, <1>20, <1>21,
     <1>22, <1>23, <1>24, <1>25, <1>26
  DEF Next, Command, User

-----------------------------------------------------------------------------
(* What card and host agree on *)

(* Four wires on both sides: what UhsWide does when the card answers. *)
LEMMA BusWide ==
  ASSUME TypeInv, BusInv,
         NEW to \in {"fix_mode", "uhs_mode", "ext"},
         op.pc \in {"fix_wide", "uhs_wide", "wide"},
         phys' = [phys EXCEPT !.wide = TRUE], ios' = [ios EXCEPT !.wide = TRUE],
         op' = [op EXCEPT !.pc = to], host' = host,
         phys.st = "tran"
  PROVE  BusInv'
<1>1. phys'.wide = TRUE /\ phys'.mode = phys.mode /\ phys'.v18 = phys.v18
  BY DEF TypeInv, PhysRecord
<1>2. ios'.wide = TRUE /\ ios'.mode = ios.mode /\ ios'.v18 = ios.v18
  BY DEF TypeInv, IosRecord
<1>3. /\ op'.pc = to /\ op'.fixup_failed = op.fixup_failed
      /\ op'.s18a = op.s18a /\ op' # Quiet
  BY DEF TypeInv, Quiet, None
<1>4. SameWires /\ SameVolt
  BY DEF BusInv
<1>5. SameWires' /\ SameVolt'
  BY <1>1, <1>2, <1>4 DEF SameWires, SameVolt
<1>6. phys.v18 => host.uhs
  BY DEF BusInv
<1>7. op.s18a => host.uhs
  BY DEF BusInv
<1>8. op.fixup_failed => (phys.v18 => ios.v18)
  BY DEF BusInv
<1>9. QED
  BY <1>1, <1>2, <1>3, <1>5, <1>6, <1>7, <1>8 DEF BusInv, InUse

LEMMA BusFreeCard ==
  ASSUME TypeInv, CardInv, BusInv, FreeCard, host' = host
  PROVE  BusInv'
  BY DEF FreeCard, Reset, BusInv, Quiet, Off, None

LEMMA BusFixup ==
  ASSUME TypeInv, CardInv, BusInv, FixupFails, host' = host, op.pc # None
  PROVE  BusInv'
  BY DEF FixupFails, Reset, BusInv, Off, Powered

LEMMA BusFinish ==
  ASSUME TypeInv, BusInv, NEW cache \in BOOLEAN, Finish(cache), op.pc \in {"ext", "cache"},
         UNCHANGED <<host, slot>>
  PROVE  BusInv'
<1>1. CASE phys' = Reset(Off) /\ good' = FALSE
  BY <1>1 DEF Finish, Reset, BusInv, Quiet, Off, None
<1>2. CASE phys' = [phys EXCEPT !.cache = cache] /\ ios' = ios
  <2>1. /\ phys'.v18 = phys.v18 /\ phys'.wide = phys.wide /\ phys'.mode = phys.mode
        /\ phys'.st = phys.st /\ op' = Quiet
    BY <1>2 DEF TypeInv, PhysRecord, Finish
  <2>2. QED
    BY <1>2, <2>1 DEF BusInv, SameWires, SameVolt, Quiet, None
<1>3. QED
  BY <1>1, <1>2 DEF Finish

LEMMA BusStep == TypeInv /\ CardInv /\ BusInv /\ [Next]_vars => BusInv'
<1> SUFFICES ASSUME TypeInv, CardInv, BusInv, [Next]_vars PROVE BusInv'
  OBVIOUS
<1> USE DEF TypeInv
<1>1. CASE OpCond
  <2>1. host' = host /\ op.pc # None
    BY <1>1 DEF OpCond, At, None
  <2>2. CASE FreeCard
    BY <2>1, <2>2, BusFreeCard
  <2>3. CASE ~FreeCard
    <3>1. host' = host /\ ios' = ios /\ ios = PowerOn
      BY <1>1, <2>1, <2>3 DEF OpCond, At, drive, BusInv
    <3>2. /\ phys'.v18 = phys.v18 /\ phys'.wide = FALSE /\ phys'.mode = "ds"
          /\ phys'.st # "idle"
      BY <1>1, <2>3 DEF OpCond, Powered, Off, Ready, PhysRecord
    <3>3. \E s \in BOOLEAN :
            /\ op' = [op EXCEPT !.s18a = s, !.pc = IF s THEN "volt" ELSE "send_cid"]
            /\ s => host.uhs
      <4> DEFINE s == op.retries > 0 /\ host.uhs /\ slot \in Uhs /\ ~phys.v18
      <4>1. s \in BOOLEAN /\ (s => host.uhs)
        OBVIOUS
      <4>2. op' = [op EXCEPT !.s18a = s, !.pc = IF s THEN "volt" ELSE "send_cid"]
        BY <1>1, <2>3 DEF OpCond
      <4>3. QED
        BY <4>1, <4>2
    <3>4. /\ (op'.s18a \/ op'.pc = "volt" => host.uhs)
          /\ (op'.s18a => op'.pc = "volt")
          /\ op'.pc \in {"volt", "send_cid"} /\ op' # Quiet
          /\ op'.fixup_failed = op.fixup_failed
      <4>1. PICK s \in BOOLEAN :
              /\ op' = [op EXCEPT !.s18a = s,
                                  !.pc = IF s THEN "volt" ELSE "send_cid"]
              /\ s => host.uhs
        BY <3>3
      <4>2. /\ op'.s18a = s /\ op'.fixup_failed = op.fixup_failed
            /\ op'.pc = IF s THEN "volt" ELSE "send_cid"
        BY <4>1 DEF OpRecord
      <4>3. op'.pc # Quiet.pc
        BY <4>2 DEF Quiet, None
      <4>4. CASE s
        BY <4>1, <4>2, <4>3, <4>4
      <4>5. CASE ~s
        BY <4>2, <4>3, <4>5
      <4>6. QED
        BY <4>4, <4>5
    <3>5. (phys.v18 => host.uhs) /\ (op.fixup_failed => (phys.v18 => ios.v18))
      BY DEF BusInv
    <3>6. SameWires' /\ ~ios'.v18 /\ ~ios'.wide /\ ios'.mode = "ds"
      BY <3>1, <3>2 DEF PowerOn, SameWires
    <3>7. QED
      BY <3>1, <3>2, <3>4, <3>5, <3>6 DEF BusInv, InUse
  <2>4. QED
    BY <2>2, <2>3
<1>2. CASE SetUhsVoltage
  <2>1. /\ host' = host /\ op.pc = "volt"
        /\ ~ios.wide /\ ios.mode = "ds" /\ (op.s18a => host.uhs)
        /\ (phys.v18 => host.uhs)
    BY <1>2 DEF SetUhsVoltage, At, BusInv
  <2>2. CASE /\ phys' = [phys EXCEPT !.v18 = TRUE]
             /\ ios' = [ios EXCEPT !.v18 = TRUE]
             /\ Goto("send_cid") /\ Answers({"ready"})
    <3>1. phys'.v18 = TRUE /\ phys'.wide = phys.wide /\ phys'.mode = phys.mode
      BY <2>2 DEF PhysRecord
    <3>2. ios'.v18 = TRUE /\ ios'.wide = ios.wide /\ ios'.mode = ios.mode
      BY <2>2 DEF IosRecord
    <3>3. /\ op'.pc = "send_cid" /\ op'.s18a = op.s18a /\ op' # Quiet
          /\ op'.fixup_failed = op.fixup_failed
      BY <2>2 DEF Goto, Quiet, None
    <3>4. SameWires /\ phys.st = "ready"
      BY <2>1, <2>2 DEF Answers, BusInv, Spoken
    <3>5. SameWires'
      BY <3>1, <3>2, <3>4 DEF SameWires
    <3>6. host.uhs
      BY <1>2, <2>1 DEF BusInv
    <3>7. QED
      BY <2>1, <3>1, <3>2, <3>3, <3>5, <3>6 DEF BusInv, InUse
  <2>3. CASE /\ phys' = Reset(Powered) /\ ios' = PowerOn
             /\ \E tries \in {AgainLeft, 0} :
                  op' = [op EXCEPT !.retries = tries, !.pc = "cid"]
    <3>1. ~phys'.v18
      BY <2>3 DEF Reset, Powered, Off
    <3>2. /\ op'.pc = "cid" /\ op'.s18a = op.s18a /\ op' # Quiet
          /\ op'.fixup_failed = op.fixup_failed
      <4>1. PICK tries \in {AgainLeft, 0} :
              op' = [op EXCEPT !.retries = tries, !.pc = "cid"]
        BY <2>3
      <4>2. QED
        BY <4>1 DEF OpRecord, Quiet, None
    <3>3. QED
      BY <2>1, <2>3, <3>1, <3>2 DEF BusInv, InUse
  <2>4. QED
    BY <1>2, <2>2, <2>3 DEF SetUhsVoltage
<1>3. CASE SendCid
  BY <1>3, BusFreeCard
  DEF SendCid, At, Goto, drive, BusInv, Spoken, SameWires, InUse, Answers,
      Ready, PhysRecord, OpRecord, OpAt, Quiet
<1>4. CASE RelativeAddr
  BY <1>4, BusFreeCard
  DEF RelativeAddr, At, Goto, drive, BusInv, Spoken, SameWires, Answers,
      PhysRecord, OpRecord
<1>5. CASE Select
  BY <1>5, BusFreeCard
  DEF Select, At, Goto, drive, BusInv, Spoken, SameWires, InUse, Answers,
      PhysRecord, OpRecord, OpAt, Quiet
<1>6. CASE Setup
  <2>1. host' = host /\ op.pc # None
    BY <1>6 DEF Setup, At, None
  <2>2. CASE FreeCard
    BY <2>1, <2>2, BusFreeCard
  <2>3. CASE ~FreeCard
    <3>1. phys.st = "tran" /\ op.pc = "setup" /\ phys' = phys /\ ios' = ios
      BY <1>6, <2>3 DEF Setup, At, Answers, drive
    <3>2. SameWires /\ (ios.v18 => phys.v18) /\ (op.s18a => ios.v18)
      BY <3>1 DEF BusInv, Spoken
    <3>3. /\ (phys.v18 => host.uhs) /\ (op.s18a => host.uhs)
          /\ (op.fixup_failed => (phys.v18 => ios.v18))
      BY DEF BusInv
    <3>4. /\ op'.pc = IF StillAt18 THEN "fix_volt"
                     ELSE IF op.s18a THEN "uhs_wide" ELSE "hs"
          /\ op'.fixup_failed = op.fixup_failed /\ op'.s18a = op.s18a
      BY <1>6, <2>3 DEF Setup, Goto, OpRecord
    <3>5. op' # Quiet
      BY <3>4 DEF Quiet, None
    <3>6. phys.v18 \in BOOLEAN /\ ios.v18 \in BOOLEAN
      BY DEF PhysRecord, IosRecord
    <3>7. CASE StillAt18
      BY <2>1, <3>1, <3>2, <3>3, <3>4, <3>5, <3>7
      DEF StillAt18, BusInv, SameWires, InUse
    <3>8. CASE ~StillAt18
      <4>1. SameVolt
        BY <3>2, <3>3, <3>6, <3>8 DEF StillAt18, SameVolt
      <4>2. SameVolt' /\ SameWires'
        BY <3>1, <3>2, <4>1 DEF SameVolt, SameWires
      <4>3. QED
        BY <2>1, <3>1, <3>3, <3>4, <3>5, <3>8, <4>2 DEF BusInv, InUse
    <3>9. QED
      BY <3>7, <3>8
  <2>4. QED
    BY <2>2, <2>3
<1>7. CASE FixVolt
  <2>1. host' = host /\ op.pc # None
    BY <1>7 DEF FixVolt, At, None
  <2>2. CASE FixupFails
    BY <2>1, <2>2, BusFixup
  <2>3. CASE ~FixupFails
    <3>1. phys' = phys /\ ios' = [ios EXCEPT !.v18 = TRUE] /\ Goto("fix_wide")
      BY <1>7, <2>3 DEF FixVolt
    <3>2. ios'.v18 = TRUE /\ ios'.wide = ios.wide /\ ios'.mode = ios.mode
      BY <3>1 DEF IosRecord
    <3>3. /\ op'.pc = "fix_wide" /\ op'.s18a = op.s18a /\ op' # Quiet
          /\ op'.fixup_failed = op.fixup_failed
      BY <3>1 DEF Goto, Quiet, None
    <3>4. phys.st = "tran" => SameWires /\ phys.v18
      BY <1>7 DEF FixVolt, At, BusInv
    <3>5. phys'.st = "tran" => SameWires' /\ SameVolt'
      BY <3>1, <3>2, <3>4 DEF SameWires, SameVolt, PhysRecord
    <3>6. (phys.v18 => host.uhs) /\ (op.s18a => host.uhs)
      BY DEF BusInv
    <3>7. QED
      BY <2>1, <3>1, <3>2, <3>3, <3>5, <3>6 DEF BusInv, InUse
  <2>4. QED
    BY <2>2, <2>3
<1>8. CASE UhsWide("fix_wide", "fix_mode", FixupFails)
  <2>1. host' = host /\ op.pc # None
    BY <1>8 DEF UhsWide, At, None
  <2>2. CASE FixupFails
    BY <2>1, <2>2, BusFixup
  <2>3. CASE ~FixupFails
    BY <1>8, <2>3, <2>1, BusWide DEF UhsWide, At, Goto, Answers
  <2>4. QED
    BY <2>2, <2>3
<1>9. CASE UhsMode("fix_mode", FixupFails)
  BY <1>9, BusFixup
  DEF UhsMode, At, Goto, BusInv, SameWires, SameVolt, PhysRecord, IosRecord,
      OpRecord, None
<1>10. CASE UhsWide("uhs_wide", "uhs_mode", FreeCard)
  <2>1. host' = host /\ op.pc # None
    BY <1>10 DEF UhsWide, At, None
  <2>2. CASE FreeCard
    BY <2>1, <2>2, BusFreeCard
  <2>3. CASE ~FreeCard
    BY <1>10, <2>3, <2>1, BusWide DEF UhsWide, At, Goto, Answers
  <2>4. QED
    BY <2>2, <2>3
<1>11. CASE UhsMode("uhs_mode", FreeCard)
  BY <1>11, BusFreeCard
  DEF UhsMode, At, Goto, BusInv, SameWires, SameVolt, PhysRecord, IosRecord,
      OpRecord
<1>12. CASE SwitchHs
  BY <1>12, BusFreeCard
  DEF SwitchHs, At, Goto, BusInv, SameWires, SameVolt, PhysRecord, IosRecord,
      OpRecord
<1>13. CASE Wide
  <2>1. host' = host /\ op.pc # None
    BY <1>13 DEF Wide, UhsWide, At, None
  <2>2. CASE FreeCard
    BY <2>1, <2>2, BusFreeCard
  <2>3. CASE ~FreeCard
    BY <1>13, <2>3, <2>1, BusWide DEF Wide, UhsWide, At, Goto, Answers
  <2>4. QED
    BY <2>2, <2>3
<1>14. CASE ReadExtRegs
  <2>1. CASE Finish(FALSE) /\ UNCHANGED slot
    BY <1>14, <2>1, BusFinish DEF ReadExtRegs, At
  <2>2. CASE FreeCard
    BY <1>14, <2>2, BusFreeCard DEF ReadExtRegs, At
  <2>3. CASE Goto("cache") /\ UNCHANGED <<phys, drive>>
    <3>1. /\ op.pc = "ext" /\ op'.pc = "cache" /\ op'.s18a = op.s18a
          /\ op'.fixup_failed = op.fixup_failed /\ ~InUse'
      BY <1>14, <2>3 DEF ReadExtRegs, At, Goto, OpRecord, InUse, Quiet, None
    <3>2. host' = host /\ phys' = phys /\ ios' = ios
      BY <1>14, <2>3 DEF ReadExtRegs, At, drive
    <3>3. QED
      BY <3>1, <3>2 DEF BusInv, SameWires, SameVolt
  <2>4. QED
    BY <1>14, <2>1, <2>2, <2>3 DEF ReadExtRegs
<1>15. CASE EnableCache
  <2>1. CASE Finish(TRUE) /\ UNCHANGED slot
    BY <1>15, <2>1, BusFinish DEF EnableCache, At
  <2>2. CASE /\ CacheFails
             /\ \E reached \in {FALSE, Answers({"tran"})} :
                  phys' = IF ~ios'.on THEN Reset(Off)
                          ELSE [phys EXCEPT !.cache = reached]
    <3>1. /\ op.pc = "cache" /\ op' = Quiet /\ good' = FALSE /\ host' = host
          /\ \/ phys' = Reset(Off)
             \/ \E reached \in {FALSE, Answers({"tran"})} :
                  phys' = [phys EXCEPT !.cache = reached]
      BY <1>15, <2>2 DEF EnableCache, CacheFails, At
    <3>2. CASE phys' = Reset(Off)
      BY <3>1, <3>2 DEF Reset, BusInv, Quiet, Off, None
    <3>3. CASE \E reached \in {FALSE, Answers({"tran"})} :
                 phys' = [phys EXCEPT !.cache = reached]
      <4>1. phys'.v18 = phys.v18 /\ phys'.dirty = phys.dirty
        BY <3>3 DEF PhysRecord
      <4>2. QED
        BY <3>1, <4>1 DEF BusInv, Quiet, None
    <3>4. QED
      BY <3>1, <3>2, <3>3
  <2>3. QED
    BY <1>15, <2>1, <2>2 DEF EnableCache
<1>16. CASE PullOut
  BY <1>16 DEF PullOut, drive, BusInv, Spoken, Off
<1>17. CASE Attach
  BY <1>17
  DEF Attach, Free, PowerUp, Begin, Reset, BusInv, InUse, Quiet, Off, Powered
<1>18. CASE Detect
  BY <1>18 DEF Detect, Running, Free, Reset, BusInv, Quiet, Off, None
<1>19. CASE Suspend
  <2>1. op.pc = None /\ op' = op /\ good' = good /\ ~op.fixup_failed /\ ~op.s18a
        /\ host' = host
    BY <1>19 DEF Suspend, Running, Free, Quiet
  <2>2. CASE phys' = Reset(Off)
    BY <2>1, <2>2 DEF Reset, BusInv, Off, None
  <2>3. CASE phys' = phys /\ UNCHANGED <<ios, card>>
    BY <2>1, <2>3 DEF BusInv, SameWires, SameVolt, InUse
  <2>4. CASE phys' = [phys EXCEPT !.st = "stby"]
    BY <2>1, <2>4 DEF BusInv, PhysRecord, None
  <2>5. QED
    BY <1>19, <2>2, <2>3, <2>4 DEF Suspend, CutPower
<1>20. CASE Resume
  BY <1>20
  DEF Resume, Free, PowerUp, Begin, Reset, BusInv, InUse, Quiet, Off, Powered
<1>21. CASE HwReset
  BY <1>21 DEF HwReset, Running, Free, Begin, Reset, BusInv, Off, Powered
<1>22. CASE Shutdown
  BY <1>22
  DEF Shutdown, Running, Free, InUse, CutPower, Reset, BusInv, Quiet, Off,
      None
<1>23. CASE Write
  BY <1>23 DEF Write, Running, Free, drive, BusInv, SameWires, SameVolt
<1>24. CASE Flush
  BY <1>24
  DEF Flush, Running, Free, drive, BusInv, SameWires, SameVolt, PhysRecord
<1>25. ASSUME NEW c \in Cids, Insert(c) PROVE BusInv'
  BY <1>25 DEF Insert, drive, BusInv, Spoken, Off, Powered
<1>26. CASE UNCHANGED vars
  BY <1>26 DEF vars, drive, BusInv, SameWires, SameVolt, InUse
<1>27. QED
  BY <1>1, <1>2, <1>3, <1>4, <1>5, <1>6, <1>7, <1>8, <1>9, <1>10, <1>11,
     <1>12, <1>13, <1>14, <1>15, <1>16, <1>17, <1>18, <1>19, <1>20, <1>21,
     <1>22, <1>23, <1>24, <1>25, <1>26
  DEF Next, Command, User

-----------------------------------------------------------------------------
(* The cache *)

LEMMA CacheFreeCard ==
  ASSUME TypeInv, CardInv, BusInv, CacheInv, FreeCard, host' = host
  PROVE  CacheInv'
  BY DEF FreeCard, Reset, CacheInv, Quiet, Off

LEMMA CacheFixup ==
  ASSUME TypeInv, CardInv, BusInv, CacheInv, FixupFails, host' = host, op.pc # None
  PROVE  CacheInv'
  BY DEF FixupFails, Reset, CacheInv, Off, Powered

LEMMA CacheFinish ==
  ASSUME TypeInv, CacheInv, NEW cache \in BOOLEAN, Finish(cache),
         op.pc \in {"ext", "cache"}, UNCHANGED flushed
  PROVE  CacheInv'
<1>1. ~phys.cache /\ ~phys.dirty /\ op' = Quiet
  BY DEF CacheInv, Finish, None
<1>2. CASE phys' = Reset(Off) /\ good' = FALSE
  BY <1>1, <1>2 DEF Reset, CacheInv, Quiet, Off, None
<1>3. CASE /\ phys' = [phys EXCEPT !.cache = cache]
           /\ card' = [cid |-> slot, suspended |-> FALSE, cache |-> cache] \/ good' = FALSE
  <2>1. phys'.cache = cache /\ phys'.dirty = phys.dirty
    BY <1>3 DEF TypeInv, PhysRecord
  <2>2. QED
    BY <1>1, <1>3, <2>1 DEF CacheInv, Quiet, None
<1>4. QED
  BY <1>2, <1>3 DEF Finish

LEMMA CacheStep ==
  TypeInv /\ CardInv /\ BusInv /\ CacheInv /\ [Next]_vars => CacheInv'
<1> SUFFICES ASSUME TypeInv, CardInv, BusInv, CacheInv, [Next]_vars PROVE CacheInv'
  OBVIOUS
<1> USE DEF TypeInv
<1>1. CASE OpCond
  BY <1>1, CacheFreeCard DEF OpCond, At, CacheInv, Off, Powered
<1>2. CASE SetUhsVoltage
  BY <1>2
  DEF SetUhsVoltage, At, Reset, CacheInv, PhysRecord, Off, Powered, None
<1>3. CASE SendCid
  BY <1>3, CacheFreeCard DEF SendCid, At, CacheInv, PhysRecord, None
<1>4. CASE RelativeAddr
  BY <1>4, CacheFreeCard DEF RelativeAddr, At, CacheInv, PhysRecord, None
<1>5. CASE Select
  BY <1>5, CacheFreeCard DEF Select, At, CacheInv, PhysRecord, None
<1>6. CASE Setup
  BY <1>6, CacheFreeCard DEF Setup, At, CacheInv, None
<1>7. CASE FixVolt
  BY <1>7, CacheFixup DEF FixVolt, At, CacheInv, None
<1>8. CASE UhsWide("fix_wide", "fix_mode", FixupFails)
  BY <1>8, CacheFixup DEF UhsWide, At, CacheInv, PhysRecord, None
<1>9. CASE UhsMode("fix_mode", FixupFails)
  BY <1>9, CacheFixup DEF UhsMode, At, CacheInv, PhysRecord, None
<1>10. CASE UhsWide("uhs_wide", "uhs_mode", FreeCard)
  BY <1>10, CacheFreeCard DEF UhsWide, At, CacheInv, PhysRecord, None
<1>11. CASE UhsMode("uhs_mode", FreeCard)
  BY <1>11, CacheFreeCard DEF UhsMode, At, CacheInv, PhysRecord, None
<1>12. CASE SwitchHs
  BY <1>12, CacheFreeCard DEF SwitchHs, At, CacheInv, PhysRecord, None
<1>13. CASE Wide
  BY <1>13, CacheFreeCard DEF Wide, UhsWide, At, CacheInv, PhysRecord, None
<1>14. CASE ReadExtRegs
  <2>1. CASE Finish(FALSE) /\ UNCHANGED flushed
    BY <1>14, <2>1, CacheFinish DEF ReadExtRegs, At
  <2>2. CASE FreeCard
    BY <1>14, <2>2, CacheFreeCard DEF ReadExtRegs, At
  <2>3. CASE Goto("cache") /\ UNCHANGED <<phys, drive>>
    <3>1. op.pc = "ext" /\ ~InUse' /\ phys' = phys
      BY <1>14, <2>3 DEF ReadExtRegs, At, Goto, OpRecord, InUse, Quiet, None
    <3>2. QED
      BY <3>1 DEF CacheInv, None
  <2>4. QED
    BY <1>14, <2>1, <2>2, <2>3 DEF ReadExtRegs
<1>15. CASE EnableCache
  <2>1. CASE Finish(TRUE) /\ UNCHANGED flushed
    BY <1>15, <2>1, CacheFinish DEF EnableCache, At
  <2>2. CASE /\ CacheFails
             /\ \E reached \in {FALSE, Answers({"tran"})} :
                  phys' = IF ~ios'.on THEN Reset(Off)
                          ELSE [phys EXCEPT !.cache = reached]
    <3>1. /\ op.pc = "cache" /\ op' = Quiet /\ good' = FALSE /\ host' = host
          /\ \/ phys' = Reset(Off)
             \/ \E reached \in {FALSE, Answers({"tran"})} :
                  phys' = [phys EXCEPT !.cache = reached]
      BY <1>15, <2>2 DEF EnableCache, CacheFails, At
    <3>2. CASE phys' = Reset(Off)
      BY <3>1, <3>2 DEF Reset, CacheInv, Quiet, Off, None
    <3>3. CASE \E reached \in {FALSE, Answers({"tran"})} :
                 phys' = [phys EXCEPT !.cache = reached]
      <4>1. phys'.v18 = phys.v18 /\ phys'.dirty = phys.dirty
        BY <3>3 DEF PhysRecord
      <4>2. QED
        BY <3>1, <4>1 DEF CacheInv, Quiet, None
    <3>4. QED
      BY <3>1, <3>2, <3>3
  <2>3. QED
    BY <1>15, <2>1, <2>2 DEF EnableCache
<1>16. CASE PullOut
  BY <1>16 DEF PullOut, CacheInv, Off
<1>17. CASE Attach
  BY <1>17 DEF Attach, PowerUp, Begin, Reset, CacheInv, InUse, Off, Powered
<1>18. CASE Detect
  BY <1>18 DEF Detect, Reset, CacheInv, Off
<1>19. CASE Suspend
  BY <1>19
  DEF Suspend, Running, Free, InUse, CutPower, Reset, CacheInv, Quiet, Off, PhysRecord, None
<1>20. CASE Resume
  BY <1>20 DEF Resume, PowerUp, Begin, Reset, CacheInv, InUse, Off, Powered
<1>21. CASE HwReset
  BY <1>21 DEF HwReset, Reset, CacheInv, Off, Powered
<1>22. CASE Shutdown
  BY <1>22 DEF Shutdown, Running, Free, CutPower, Reset, CacheInv, Off
<1>23. CASE Write
  BY <1>23 DEF Write, Running, drive, CacheInv, None
<1>24. CASE Flush
  BY <1>24 DEF Flush, Running, drive, CacheInv, PhysRecord
<1>25. ASSUME NEW c \in Cids, Insert(c) PROVE CacheInv'
  BY <1>25 DEF Insert, CacheInv, Off, Powered
<1>26. CASE UNCHANGED vars
  BY <1>26 DEF vars, drive, CacheInv, InUse
<1>27. QED
  BY <1>1, <1>2, <1>3, <1>4, <1>5, <1>6, <1>7, <1>8, <1>9, <1>10, <1>11,
     <1>12, <1>13, <1>14, <1>15, <1>16, <1>17, <1>18, <1>19, <1>20, <1>21,
     <1>22, <1>23, <1>24, <1>25, <1>26
  DEF Next, Command, User

-----------------------------------------------------------------------------
(* Theorems *)

LEMMA InitHolds == Init => TypeInv /\ Inv /\ BusInv /\ CacheInv
<1> SUFFICES ASSUME Init PROVE TypeInv /\ Inv /\ BusInv /\ CacheInv
  OBVIOUS
<1> USE DEF Init
<1>1. TypeInv
  BY Records, ConstantsAssumption DEF TypeInv, OpAt, None
<1>2. phys = Off \/ (phys = Left18 /\ host.uhs)
  OBVIOUS
<1>3. Inv
  BY <1>2, Records DEF Inv, CardInv, OwnInv, NoCard, Old, None
<1>4. BusInv
  BY <1>2, Records DEF BusInv, Off, Quiet, None
<1>5. CacheInv
  <2>1. /\ Off.dirty = FALSE /\ Off.cache = FALSE
        /\ Left18.dirty = FALSE /\ Left18.cache = FALSE
    BY DEF Off, Left18
  <2>2. op.pc = None /\ good = FALSE
    BY Records
  <2>3. QED
    BY <1>2, <2>1, <2>2 DEF CacheInv
<1>6. QED
  BY <1>1, <1>3, <1>4, <1>5

(* Every variable keeps to the values the driver knows (sd.c). *)
THEOREM TypeCorrect == Spec => []TypeOK
<1>1. TypeInv => TypeOK
  BY DEF TypeInv, TypeOK, PhysRecord, IosRecord, CardRecord, OpRecord
<1>2. QED
  BY <1>1, InitHolds, TypeStep, PTL DEF Spec

(* What is written to the card the system knows never reaches another one in
   the native slot: mmc_sd_get_cid compares the identities before a card is
   selected (sd.c:1417-1423), and an exchanged card has lost its state. *)
THEOREM OwnCard == Spec => []OnlyOwnCard
<1>1. CardInv /\ OwnInv => OnlyOwnCard
  BY DEF CardInv, OwnInv, OnlyOwnCard, InUse
<1>2. QED
  BY <1>1, InitHolds, TypeStep, CardStep, OwnStep, PTL DEF Spec, Inv

(* Card and host agree on voltage, wires and mode while the card is in use,
   after whatever failed switches (sd.c:623-715, 815-884, 1403-1576). *)
THEOREM BusAgrees == Spec => []SameBus
<1>1. BusInv => SameBus
  BY DEF BusInv, SameBus, SameWires, SameVolt
<1>2. QED
  BY <1>1, InitHolds, TypeStep, CardStep, BusStep, PTL DEF Spec, Inv

(* A flush that reported success left nothing behind: a cache the driver takes
   for off is off (sd.c:1307-1396). *)
THEOREM FlushEmpties == Spec => []FlushIsReal
<1>1. CacheInv => FlushIsReal
  BY DEF CacheInv, FlushIsReal
<1>2. QED
  BY <1>1, InitHolds, TypeStep, CardStep, BusStep, CacheStep, PTL
  DEF Spec, Inv

-----------------------------------------------------------------------------
(* A step of the kernel tree is one of a part, or leaves it alone. *)
LEMMA KernelStep ==
  [KernelNext]_everything =>
    /\ [Scroll!Next]_(Scroll!vars)
    /\ [Map!Next]_(Map!vars)
    /\ [Overlay!Next]_(Overlay!vars)
    /\ [Kbd!Next]_(Kbd!vars)
<1> USE DEF KernelNext, everything, scrolling, mapping, overlaying, typing, SdStep,
        ScrollStep, MapStep, OverlayStep, KeyStep, AtRest
<1>1. [KernelNext]_everything => [Scroll!Next]_(Scroll!vars)
  BY DEF Scroll!vars, Scroll!pointers, Scroll!history
<1>2. [KernelNext]_everything => [Map!Next]_(Map!vars)
  BY DEF Map!vars, Map!maps, Map!console
<1>3. [KernelNext]_everything => [Overlay!Next]_(Overlay!vars)
  BY DEF Overlay!vars, Overlay!overlay, Overlay!world, Overlay!ghosts
<1>4. [KernelNext]_everything => [Kbd!Next]_(Kbd!vars)
  BY DEF Kbd!vars, Kbd!shifts, Kbd!mouse
<1>5. QED
  BY <1>1, <1>2, <1>3, <1>4

-----------------------------------------------------------------------------
(* Overlays.  While no two writers met, one at most is at work, what exists is what
   the item knows, and an item that may be written knows nothing; but for the
   overlays half applied or removed in vain. *)
Working(w) == pc[w] # "idle"

OneWriter == \A v, w \in Writers : Working(v) /\ Working(w) => v = w

NothingApplied == applied \subseteq refused \cup half

Known ==
  /\ applied \subseteq refused \cup half \cup {ov_id} /\ loaded \subseteq {fw, dtbo}
  /\ item # "made" => NothingApplied /\ loaded = {}
  /\ Overlay!Unset /\ (\A w \in Writers : ~Working(w))
       => NothingApplied /\ loaded = {}
  /\ \A w \in Writers :
       /\ Working(w) => NothingApplied
       /\ pc[w] \in {"set_path", "load", "copy", "drop"} => loaded = {}
       /\ pc[w] \in {"load", "apply_path"} => path
       /\ pc[w] = "apply_path" => loaded \subseteq {fw}
       /\ pc[w] = "apply_dtbo" => loaded \subseteq {dtbo} /\ dtbo # 0

OverlayInv ==
  /\ pc \in [Writers -> {"idle", "set_path", "load", "apply_path", "copy",
                         "apply_dtbo", "drop"}]
  /\ next \in Nat \ {0}
  /\ item # "made" => \A w \in Writers : ~Working(w)
  /\ ~raced => OneWriter /\ Known

LEMMA OverlayInit == Overlay!Init => OverlayInv
BY DEF Overlay!Init, OverlayInv, OneWriter, Known, Working, NothingApplied

(* A writer that finds nothing set where nobody works is alone; otherwise two have
   met. *)
LEMMA CheckAlone ==
  ASSUME NEW w \in Writers, NEW at, Overlay!Check(w, at), ~raced'
  PROVE  ~raced /\ \A v \in Writers : ~Working(v)
BY DEF Overlay!Check, Working

LEMMA OverlayNext ==
  OverlayInv /\ [Overlay!Next]_(Overlay!vars) => OverlayInv'
<1> SUFFICES ASSUME OverlayInv, [Overlay!Next]_(Overlay!vars)
             PROVE  OverlayInv'
  OBVIOUS
<1> USE DEF OverlayInv, OneWriter, Known, Working, NothingApplied, Overlay!Unset,
        Overlay!overlay, Overlay!world, Overlay!ghosts, Overlay!Goes
<1>1. CASE Overlay!MakeItem
  BY <1>1 DEF Overlay!MakeItem
<1>2. CASE Overlay!Release
  BY <1>2 DEF Overlay!Release
<1>3. ASSUME NEW w \in Writers, Overlay!PathStore(w) \/ Overlay!DtboWrite(w)
      PROVE  OverlayInv'
  BY <1>3, CheckAlone DEF Overlay!PathStore, Overlay!DtboWrite, Overlay!Check
<1>4. ASSUME NEW w \in Writers,
             Overlay!SetPath(w) \/ Overlay!LoadFails(w) \/ Overlay!Drop(w)
      PROVE  OverlayInv'
  BY <1>4 DEF Overlay!SetPath, Overlay!LoadFails, Overlay!Drop
<1>5. ASSUME NEW w \in Writers, Overlay!Load(w) \/ Overlay!Copy(w)
      PROVE  OverlayInv'
  BY <1>5 DEF Overlay!Load, Overlay!Copy
<1>6. ASSUME NEW w \in Writers, Overlay!PathFails(w)
      PROVE  OverlayInv'
  BY <1>6 DEF Overlay!PathFails, Overlay!Fails
<1>7. ASSUME NEW w \in Writers, Overlay!DtboFails(w)
      PROVE  OverlayInv'
  BY <1>7 DEF Overlay!DtboFails, Overlay!Fails
<1>8. ASSUME NEW w \in Writers, Overlay!Apply(w)
      PROVE  OverlayInv'
  BY <1>8 DEF Overlay!Apply
<1>9. CASE UNCHANGED Overlay!vars
  BY <1>9 DEF Overlay!vars
<1>10. QED
  BY <1>1, <1>2, <1>3, <1>4, <1>5, <1>6, <1>7, <1>8, <1>9 DEF Overlay!Next

(* Whatever the order of mkdir, the writes to "path" and "dtbo" and rmdir, and
   whichever of them fails, an item that is gone has left no firmware, no copy and
   no overlay, unless two processes wrote it at once, and but for an overlay that
   was half applied or that of_overlay_remove refused to remove: the driver drops
   its error (configfs.c:56-97, 140-191). *)
THEOREM OverlaysGoAway == KernelSpec => []NothingLeaks
<1>1. KernelInit => OverlayInv
  BY OverlayInit DEF KernelInit
<1>2. OverlayInv => NothingLeaks
  BY DEF OverlayInv, Known, NothingApplied, NothingLeaks, Overlay!NothingLeaks
<1>3. QED
  BY <1>1, <1>2, OverlayNext, KernelStep, PTL DEF KernelSpec

-----------------------------------------------------------------------------
(* Frame buffers and consoles.  None is no frame buffer. *)
MapType ==
  /\ registered \subseteq Fbs
  /\ info_idx \in registered \cup {Map!None}
  /\ con2fb_map \in [Consoles -> Fbs \cup {Map!None}]
  /\ opens \in [Fbs -> Int]
  /\ leaving \in Fbs \cup {Map!None}

(* What holds until one of the two exceptions happens.  A bound driver is one
   fbcon knows of, with a default frame buffer; between the two sections of a
   removal no console is on the frame buffer that leaves; and a driver that was
   unbound through sysfs, which fbcon does not learn, has no console mapped. *)
Mapped ==
  /\ bound => driver /\ fbcon_has_console_bind /\ info_idx # Map!None
  /\ bound => \A c \in Consoles : con2fb_map[c] \in registered \ {leaving}
  /\ \A f \in Fbs :
       opens[f] = IF bound /\ Map!search_fb_in_map(con2fb_map, f) THEN 1 ELSE 0
  /\ ~bound /\ fbcon_has_console_bind =>
       /\ leaving = Map!None
       /\ \A c \in Consoles : con2fb_map[c] = Map!None

MapInv ==
  /\ MapType
  /\ ~unbind_raced /\ ~rebound => Mapped

LEMMA MapInit == Map!Init => MapInv
BY DEF Map!Init, MapInv, MapType, Mapped, Map!None, Map!search_fb_in_map

LEMMA NoneIsNoFb == Map!None \notin Fbs
BY ConsolesAssumption DEF Map!None

(* A takeover of a driver that had no frame buffer open. *)
LEMMA TakeoverInv ==
  ASSUME MapInv, ~unbind_raced, ~rebound, NEW f \in Fbs,
         ~bound, registered' \subseteq Fbs, f \in registered',
         registered \subseteq registered',
         Map!Takeover(f), UNCHANGED leaving
  PROVE  MapType' /\ (f # leaving => Mapped')
<1> USE ConsolesAssumption, NoneIsNoFb
    DEF MapInv, MapType, Mapped, Map!search_fb_in_map, Map!AllMapped
<1>1. \A g \in Fbs : opens[g] = 0
  OBVIOUS
<1>2. CASE /\ info_idx' = f
           /\ con2fb_map' = Map!AllMapped(f)
           /\ opens' = Map!Opened(opens, f)
           /\ driver' = TRUE /\ bound' = TRUE /\ fbcon_has_console_bind' = TRUE
  <2>1. \A g \in Fbs : opens'[g] = IF g = f THEN 1 ELSE 0
    BY <1>1, <1>2 DEF Map!Opened
  <2>2. opens' \in [Fbs -> Int]
    BY <1>2 DEF Map!Opened
  <2>3. \A c \in Consoles : con2fb_map'[c] = f
    BY <1>2
  <2>4. MapType'
    BY <1>2, <2>2
  <2>5. f # leaving => Mapped'
    BY <1>2, <2>1, <2>3
  <2>6. QED
    BY <2>4, <2>5
<1>3. CASE /\ ~driver
           /\ info_idx' = Map!None
           /\ con2fb_map' = Map!AllMapped(Map!None)
           /\ UNCHANGED <<opens, driver, bound, fbcon_has_console_bind>>
  BY <1>3
<1>4. QED
  BY <1>2, <1>3 DEF Map!Takeover, Map!console

(* Consoles of a bound driver move to a frame buffer that is registered. *)
LEMMA SetMapsInv ==
  ASSUME MapInv, ~unbind_raced, ~rebound, NEW f \in Fbs, f # leaving',
         NEW which \in SUBSET Consoles, bound, registered' \subseteq Fbs, f \in registered',
         registered \subseteq registered',
         Map!SetMaps(which, f), UNCHANGED <<driver, bound, fbcon_has_console_bind>>,
         leaving' \in Fbs \cup {Map!None},
         \A c \in Consoles \ which : con2fb_map[c] # leaving'
  PROVE  MapType' /\ Mapped'
<1> DEFINE map == [c \in Consoles |-> IF c \in which THEN f ELSE con2fb_map[c]]
           unused == {g \in registered \ {f} :
                      /\ Map!search_fb_in_map(con2fb_map, g)
                      /\ ~Map!search_fb_in_map(map, g)}
<1> USE ConsolesAssumption, NoneIsNoFb DEF MapInv, MapType
<1>1. /\ con2fb_map' = map
      /\ opens' = [g \in Fbs |->
           IF g \in unused THEN opens[g] - 1
           ELSE IF g = f /\ ~Map!search_fb_in_map(con2fb_map, f) /\ which # {}
             THEN opens[g] + 1 ELSE opens[g]]
      /\ info_idx' = IF which = {} \/ Map!search_fb_in_map(map, info_idx)
                     THEN info_idx ELSE f
  BY DEF Map!SetMaps
<1>2. /\ con2fb_map' \in [Consoles -> Fbs]
      /\ \A c \in Consoles : con2fb_map'[c] \in registered' \ {leaving'}
  BY <1>1 DEF Mapped
<1>3. ASSUME NEW g \in Fbs
      PROVE  opens'[g] = IF Map!search_fb_in_map(con2fb_map', g) THEN 1 ELSE 0
  <2>1. opens[g] = IF Map!search_fb_in_map(con2fb_map, g) THEN 1 ELSE 0
    BY DEF Mapped
  <2>2. CASE g = f
    <3>1. CASE which = {}
      BY <1>1, <2>1, <2>2, <3>1 DEF Map!search_fb_in_map
    <3>2. CASE which # {}
      <4>1. Map!search_fb_in_map(map, f)
        BY <3>2 DEF Map!search_fb_in_map
      <4> HIDE DEF map
      <4>2. QED
        BY <1>1, <2>1, <2>2, <3>2, <4>1
    <3>3. QED
      BY <3>1, <3>2
  <2>3. CASE g # f
    <3>1. Map!search_fb_in_map(map, g) => Map!search_fb_in_map(con2fb_map, g)
      BY <2>3 DEF Map!search_fb_in_map
    <3>2. Map!search_fb_in_map(con2fb_map, g) => g \in registered
      BY DEF Map!search_fb_in_map, Mapped
    <3> HIDE DEF map
    <3>3. QED
      BY <1>1, <2>1, <2>3, <3>1, <3>2
  <2>4. QED
    BY <2>2, <2>3
<1>4. opens' \in [Fbs -> Int]
  BY <1>1
<1>5. info_idx' \in registered' /\ info_idx' # Map!None
  BY <1>1 DEF Mapped
<1> HIDE DEF map, unused
<1>6. MapType'
  BY <1>2, <1>4, <1>5
<1>7. Mapped'
  BY <1>2, <1>3, <1>5 DEF Mapped
<1>8. QED
  BY <1>6, <1>7

(* A console of a bound driver moves to another frame buffer. *)
LEMMA SetMapInv ==
  ASSUME MapInv, ~unbind_raced, ~rebound, NEW c \in Consoles, NEW f \in Fbs,
         Map!SetMap(c, f), UNCHANGED <<registered, leaving>>
  PROVE  MapType' /\ (f # leaving => Mapped')
<1> DEFINE old == con2fb_map[c]
           map == [con2fb_map EXCEPT ![c] = f]
           o == IF Map!search_fb_in_map(con2fb_map, f) THEN opens
                ELSE Map!Opened(opens, f)
<1> USE ConsolesAssumption, NoneIsNoFb DEF MapInv, MapType
<1>1. CASE UNCHANGED <<info_idx, con2fb_map, con2fb_map_boot, opens, driver, bound,
                       fbcon_has_console_bind>>
  BY <1>1 DEF Mapped, Map!search_fb_in_map
<1>2. CASE /\ f \in registered
           /\ ~Map!search_for_mapped_con \/ ~bound
           /\ Map!Takeover(f)
  <2>1. ~bound
    BY <1>2 DEF Map!search_for_mapped_con, Mapped
  <2>2. QED
    BY <1>2, <2>1, TakeoverInv
<1>3. CASE /\ old # f /\ f \in registered /\ bound
           /\ con2fb_map' = map
           /\ opens' = Map!ReleaseOld(map, old, o)
           /\ info_idx' = IF Map!search_fb_in_map(map, info_idx) THEN info_idx ELSE f
           /\ UNCHANGED <<driver, bound, fbcon_has_console_bind>>
  <2>1. old \in registered /\ old \in Fbs /\ old # Map!None
    BY <1>3 DEF Mapped
  <2>2. /\ \A d \in Consoles : map[d] = IF d = c THEN f ELSE con2fb_map[d]
        /\ map \in [Consoles -> Fbs \cup {Map!None}]
    OBVIOUS
  <2>3. o \in [Fbs -> Int] /\ o[f] = 1
        /\ \A g \in Fbs \ {f} : o[g] = opens[g]
    <3>1. opens[f] = IF Map!search_fb_in_map(con2fb_map, f) THEN 1 ELSE 0
      BY <1>3 DEF Mapped
    <3>2. Map!Opened(opens, f) = [opens EXCEPT ![f] = opens[f] + 1]
      BY DEF Map!Opened
    <3>3. QED
      BY <3>1, <3>2
  <2>4. ASSUME NEW g \in Fbs
        PROVE  /\ opens'[g] \in Int
               /\ opens'[g] = IF Map!search_fb_in_map(con2fb_map', g) THEN 1 ELSE 0
    <3>1. CASE g = f
      <4>1. opens'[g] = 1
        BY <1>3, <2>1, <2>3, <3>1 DEF Map!ReleaseOld, Map!Released
      <4>2. Map!search_fb_in_map(con2fb_map', g)
        BY <1>3, <2>2, <3>1 DEF Map!search_fb_in_map
      <4>3. QED
        BY <4>1, <4>2
    <3>2. CASE g = old
      <4>1. o[g] = 1
        BY <1>3, <2>1, <2>3, <3>2 DEF Mapped, Map!search_fb_in_map
      <4>2. opens'[g] = IF Map!search_fb_in_map(map, g) THEN 1 ELSE 0
        BY <1>3, <2>1, <2>3, <3>2, <4>1 DEF Map!ReleaseOld, Map!Released
      <4>3. QED
        BY <1>3, <4>2
    <3>3. CASE g # f /\ g # old
      <4>1. opens'[g] = opens[g]
        BY <1>3, <2>3, <3>3 DEF Map!ReleaseOld, Map!Released
      <4>2. Map!search_fb_in_map(con2fb_map', g) <=> Map!search_fb_in_map(con2fb_map, g)
        BY <1>3, <2>2, <3>3 DEF Map!search_fb_in_map
      <4>3. QED
        BY <1>3, <4>1, <4>2 DEF Mapped
    <3>4. QED
      BY <3>1, <3>2, <3>3
  <2>5. opens' \in [Fbs -> Int]
    <3>1. opens' \in {o, Map!Released(o, old)}
      BY <1>3 DEF Map!ReleaseOld
    <3> HIDE DEF o, old
    <3>2. Map!Released(o, old) \in [Fbs -> Int]
      BY <2>1, <2>3 DEF Map!Released
    <3>3. QED
      BY <2>3, <3>1, <3>2
  <2>6. info_idx' \in registered /\ info_idx' # Map!None
    BY <1>3 DEF Mapped
  <2>7. MapType'
    BY <1>3, <2>2, <2>5, <2>6
  <2>8. f # leaving => Mapped'
    BY <1>3, <2>2, <2>4, <2>6 DEF Mapped
  <2>9. QED
    BY <2>7, <2>8
<1>4. QED
  BY <1>1, <1>2, <1>3 DEF Map!SetMap, Map!maps, Map!console

(* fbcon_deinit of every console, one of which may have been released before. *)
LEMMA UnboundInv ==
  ASSUME MapInv, ~unbind_raced, ~rebound, NEW m, NEW o,
         m \in [Consoles -> registered \cup {Map!None}],
         o \in [Fbs -> Int],
         \A f \in Fbs : o[f] = IF Map!search_fb_in_map(m, f) THEN 1 ELSE 0,
         Map!Unbound(m, o)
  PROVE  /\ con2fb_map' = Map!AllMapped(Map!None)
         /\ opens' \in [Fbs -> Int] /\ \A f \in Fbs : opens'[f] = 0
<1> USE ConsolesAssumption, NoneIsNoFb DEF MapInv, MapType, Map!Unbound
<1>1. con2fb_map' = Map!AllMapped(Map!None)
  BY DEF Map!AllMapped
<1>2. \A f \in Fbs : Map!search_fb_in_map(m, f) => f \in registered
  BY DEF Map!search_fb_in_map
<1>3. \A f \in Fbs : opens'[f] = 0
  BY <1>2
<1>4. opens' \in [Fbs -> Int]
  OBVIOUS
<1>5. QED
  BY <1>1, <1>3, <1>4

LEMMA MapNext == MapInv /\ [Map!Next]_(Map!vars) => MapInv'
<1> SUFFICES ASSUME MapInv, [Map!Next]_(Map!vars)
             PROVE  MapInv'
  OBVIOUS
<1>1. CASE UNCHANGED Map!vars
  BY <1>1 DEF Map!vars, Map!maps, Map!console, MapInv, MapType, Mapped,
     Map!search_fb_in_map
<1>2. CASE Map!Next
  <2>1. ~unbind_raced /\ ~rebound /\ MapType /\ Mapped
    BY <1>2 DEF Map!Next, MapInv
  <2> USE <2>1, ConsolesAssumption, NoneIsNoFb
  <2>2. ASSUME NEW f \in Fbs, Map!Register(f)
        PROVE  MapInv'
    <3> DEFINE mine == {c \in Consoles : con2fb_map_boot[c] = f}
    <3>1. /\ f \notin registered /\ leaving # f /\ registered' = registered \cup {f}
          /\ UNCHANGED <<leaving, unbind_raced, rebound>>
      BY <2>2 DEF Map!Register
    <3>2. f \in registered' /\ registered \subseteq registered' /\ registered' \subseteq Fbs
      BY <3>1 DEF MapType
    <3>3. CASE Map!Takeover(f) /\ ~bound
      BY <3>1, <3>2, <3>3, TakeoverInv DEF MapInv
    <3>4. ASSUME bound, NEW first \in mine, Map!SetMaps({c \in mine : c >= first}, f),
                 UNCHANGED Map!console
          PROVE  MapInv'
      <4>1. {c \in mine : c >= first} \in SUBSET Consoles
        OBVIOUS
      <4>2. \A c \in Consoles : con2fb_map[c] # leaving'
        BY <3>1, <3>4 DEF Mapped
      <4>3. leaving' \in Fbs \cup {Map!None}
        BY <3>1 DEF MapType
      <4>4. MapType' /\ Mapped'
        BY <3>1, <3>2, <3>4, <4>1, <4>2, <4>3, SetMapsInv DEF Map!console
      <4>5. QED
        BY <3>1, <4>4 DEF MapInv
    <3>5. CASE UNCHANGED <<info_idx, Map!maps, opens, Map!console>>
      BY <3>1, <3>2, <3>5
         DEF Map!maps, Map!console, MapInv, MapType, Mapped, Map!search_fb_in_map
    <3>6. info_idx = Map!None => ~bound
      BY DEF Mapped
    <3>7. QED
      BY <2>2, <3>3, <3>4, <3>5, <3>6 DEF Map!Register
  <2>3. ASSUME NEW c \in Consoles, NEW f \in Fbs, Map!Ioctl(c, f)
        PROVE  MapInv'
    <3>1. MapType' /\ (f # leaving => Mapped')
      BY <2>3, SetMapInv DEF Map!Ioctl
    <3>2. f = leaving => unbind_raced'
      BY <2>3, Zenon DEF Map!Ioctl
    <3>3. QED
      BY <3>1, <3>2 DEF MapInv
  <2>4. ASSUME NEW f \in Fbs, Map!FbUnbind(f)
        PROVE  MapInv'
    <3>1. /\ f \in registered /\ leaving = Map!None /\ leaving' = f
          /\ UNCHANGED <<registered, unbind_raced, rebound>>
      BY <2>4 DEF Map!FbUnbind
    <3>2. CASE /\ ~fbcon_has_console_bind
               /\ UNCHANGED <<info_idx, Map!maps, opens, Map!console>>
      BY <3>1, <3>2 DEF Map!maps, Map!console, MapInv, MapType, Mapped,
         Map!search_fb_in_map
    <3>3. ASSUME fbcon_has_console_bind, NEW first \in Map!Others(f),
                 Map!SetMaps({c \in Consoles : con2fb_map[c] = f}, con2fb_map[first]),
                 UNCHANGED Map!console
          PROVE  MapInv'
      <4>1. first \in Consoles /\ con2fb_map[first] # f /\ con2fb_map[first] # Map!None
        BY DEF Map!Others
      <4>2. bound
        BY <3>3, <4>1 DEF Mapped
      <4>3. con2fb_map[first] \in registered /\ con2fb_map[first] \in Fbs
        BY <4>1, <4>2 DEF Mapped, MapType
      <4>4. {c \in Consoles : con2fb_map[c] = f} \in SUBSET Consoles
        OBVIOUS
      <4>5. /\ \A c \in Consoles \ {d \in Consoles : con2fb_map[d] = f} :
                 con2fb_map[c] # leaving'
            /\ leaving' \in Fbs \cup {Map!None}
            /\ registered' \subseteq Fbs /\ con2fb_map[first] \in registered'
            /\ registered \subseteq registered' /\ con2fb_map[first] # leaving'
        BY <3>1, <4>1, <4>3 DEF MapType
      <4>6. MapType' /\ Mapped'
        BY <3>3, <4>2, <4>3, <4>4, <4>5, SetMapsInv DEF Map!console
      <4>7. QED
        BY <4>6 DEF MapInv
    <3>4. CASE /\ fbcon_has_console_bind /\ Map!Others(f) = {}
               /\ Map!Unbound(Map!AllMapped(Map!None),
                    IF Map!search_fb_in_map(con2fb_map, f)
                    THEN Map!Released(opens, f) ELSE opens)
               /\ fbcon_has_console_bind' = FALSE
               /\ UNCHANGED <<info_idx, con2fb_map_boot, driver>>
      <4> DEFINE o == IF Map!search_fb_in_map(con2fb_map, f)
                      THEN Map!Released(opens, f) ELSE opens
      <4>1. \A c \in Consoles : con2fb_map[c] \in {f, Map!None}
        BY <3>4 DEF Map!Others
      <4>2. Map!search_fb_in_map(con2fb_map, f) => bound
        BY <3>1, <3>4 DEF Mapped, Map!search_fb_in_map, MapType
      <4>3. \A g \in Fbs : g # f => opens[g] = 0
        BY <4>1 DEF Mapped, Map!search_fb_in_map
      <4>4. o \in [Fbs -> Int] /\ \A g \in Fbs : o[g] = 0
        <5>1. CASE Map!search_fb_in_map(con2fb_map, f)
          BY <3>1, <4>2, <4>3, <5>1 DEF Mapped, MapType, Map!Released
        <5>2. CASE ~Map!search_fb_in_map(con2fb_map, f)
          BY <3>1, <4>3, <5>2 DEF Mapped, MapType
        <5>3. QED
          BY <5>1, <5>2
      <4>5. /\ Map!AllMapped(Map!None) \in [Consoles -> registered \cup {Map!None}]
            /\ \A g \in Fbs : ~Map!search_fb_in_map(Map!AllMapped(Map!None), g)
        BY DEF Map!AllMapped, Map!search_fb_in_map
      <4> HIDE DEF o
      <4>6. /\ con2fb_map' = Map!AllMapped(Map!None)
            /\ opens' \in [Fbs -> Int] /\ \A g \in Fbs : opens'[g] = 0
        BY <3>4, <4>4, <4>5, UnboundInv DEF o
      <4>7. bound' = FALSE
        BY <3>4 DEF Map!Unbound
      <4>8. MapType'
        BY <3>1, <3>4, <4>6 DEF MapType, Map!AllMapped
      <4>9. Mapped'
        BY <3>4, <4>6, <4>7 DEF Mapped
      <4>10. QED
        BY <4>8, <4>9 DEF MapInv
    <3>5. QED
      BY <2>4, <3>2, <3>3, <3>4 DEF Map!FbUnbind
  <2>5. CASE Map!FbUnregistered
    <3> DEFINE rest == registered \ {leaving}
    <3>1. /\ leaving \in Fbs /\ leaving' = Map!None /\ registered' = rest
          /\ UNCHANGED <<opens, bound, fbcon_has_console_bind, unbind_raced, rebound>>
          /\ driver' = (driver /\ (rest # {} \/ bound))
          /\ con2fb_map' = [c \in Consoles |->
               IF con2fb_map[c] \in {leaving, Map!None} THEN info_idx'
               ELSE con2fb_map[c]]
      BY <2>5 DEF Map!FbUnregistered, MapType
    <3>2. /\ info_idx' \in rest \cup {Map!None}
          /\ info_idx' = Map!None => info_idx = Map!None \/ rest = {}
      BY <2>5 DEF Map!FbUnregistered, MapType
    <3>3. MapType'
      BY <3>1, <3>2 DEF MapType
    <3>4. CASE bound
      <4>1. \A c \in Consoles : con2fb_map'[c] = con2fb_map[c] /\ con2fb_map[c] \in rest
        BY <3>1, <3>4 DEF Mapped, MapType
      <4>2. rest # {}
        BY <4>1
      <4>3. driver' /\ info_idx' # Map!None
        BY <3>1, <3>2, <3>4, <4>2 DEF Mapped
      <4>4. \A g \in Fbs : Map!search_fb_in_map(con2fb_map', g)
                           <=> Map!search_fb_in_map(con2fb_map, g)
        BY <4>1 DEF Map!search_fb_in_map
      <4>5. \A c \in Consoles : con2fb_map'[c] \in registered' \ {leaving'}
        BY <3>1, <4>1 DEF MapType
      <4>6. Mapped'
        BY <3>1, <3>4, <4>3, <4>4, <4>5 DEF Mapped
      <4>7. QED
        BY <3>3, <4>6 DEF MapInv
    <3>5. CASE ~bound
      <4>1. ~fbcon_has_console_bind
        BY <3>1, <3>5 DEF Mapped
      <4>2. Mapped'
        BY <3>1, <3>5, <4>1 DEF Mapped
      <4>3. QED
        BY <3>3, <4>2 DEF MapInv
    <3>6. QED
      BY <3>4, <3>5
  <2>6. CASE Map!SysUnbind
    <3>1. /\ bound /\ Map!Unbound(con2fb_map, opens)
          /\ UNCHANGED <<registered, info_idx, driver, fbcon_has_console_bind, leaving,
                         rebound>>
      BY <2>6 DEF Map!SysUnbind
    <3>2. leaving # Map!None => unbind_raced'
      BY <2>6, Zenon DEF Map!SysUnbind
    <3>3. con2fb_map \in [Consoles -> registered \cup {Map!None}]
      BY <3>1 DEF Mapped, MapType
    <3>4. /\ con2fb_map' = Map!AllMapped(Map!None)
          /\ opens' \in [Fbs -> Int] /\ \A g \in Fbs : opens'[g] = 0
      BY <3>1, <3>3, UnboundInv DEF MapType, Mapped
    <3>5. bound' = FALSE
      BY <3>1 DEF Map!Unbound
    <3>6. MapType'
      BY <3>1, <3>4 DEF MapType, Map!AllMapped
    <3>7. leaving = Map!None => Mapped'
      BY <3>1, <3>4, <3>5 DEF Mapped, Map!AllMapped
    <3>8. QED
      BY <3>2, <3>6, <3>7 DEF MapInv
  <2>7. CASE Map!SysBind
    <3>1. /\ driver /\ ~bound /\ info_idx # Map!None /\ bound' = TRUE
          /\ con2fb_map' = [c \in Consoles |->
               IF con2fb_map[c] = Map!None THEN info_idx ELSE con2fb_map[c]]
          /\ opens' = [g \in Fbs |->
               IF g = info_idx \/ Map!search_fb_in_map(con2fb_map, g)
               THEN opens[g] + 1 ELSE opens[g]]
          /\ UNCHANGED <<registered, info_idx, driver, fbcon_has_console_bind, leaving>>
      BY <2>7 DEF Map!SysBind
    <3>2. ~fbcon_has_console_bind => rebound'
      BY <2>7, Zenon DEF Map!SysBind
    <3>3. MapType'
      BY <3>1 DEF MapType
    <3>4. CASE fbcon_has_console_bind
      <4>1. leaving = Map!None /\ \A c \in Consoles : con2fb_map'[c] = info_idx
        BY <3>1, <3>4 DEF Mapped
      <4>2. \A g \in Fbs : ~Map!search_fb_in_map(con2fb_map, g)
        BY <3>1, <3>4 DEF Mapped, Map!search_fb_in_map
      <4>3. \A g \in Fbs : opens'[g] = IF g = info_idx THEN 1 ELSE 0
        BY <3>1, <4>2 DEF Mapped
      <4>4. \A g \in Fbs : Map!search_fb_in_map(con2fb_map', g) <=> g = info_idx
        BY <4>1 DEF Map!search_fb_in_map
      <4>5. info_idx \in registered \ {Map!None}
        BY <3>1 DEF MapType
      <4>6. Mapped'
        BY <3>1, <3>4, <4>1, <4>3, <4>4, <4>5 DEF Mapped
      <4>7. QED
        BY <3>3, <4>6 DEF MapInv
    <3>5. QED
      BY <3>2, <3>3, <3>4 DEF MapInv
  <2>8. QED
    BY <1>2, <2>2, <2>3, <2>4, <2>5, <2>6, <2>7 DEF Map!Next
<1>3. QED
  BY <1>1, <1>2

(* A frame buffer is open, once, exactly while a console of the bound driver is
   mapped to it, and a bound console is drawn on one that exists, through any
   order of mapping, binding, registering and unregistering, with the two
   exceptions (fbcon.c:712-762, 848-902, 1204-1226, 3159-3250). *)
THEOREM FrameBuffersInUse == KernelSpec => []FbsInUse
<1>1. KernelInit => MapInv
  BY MapInit DEF KernelInit
<1>2. MapInv => FbsInUse
  BY DEF MapInv, Mapped, FbsInUse, Map!FbsInUse, Map!ConsoleHasFb, Map!OpenWhileMapped
<1>3. QED
  BY <1>1, <1>2, MapNext, KernelStep, PTL DEF KernelSpec

-----------------------------------------------------------------------------
(* What a press of k under context s may put down, and whether it may set a
   direction of the pointer. *)
Mute(k, s) == k \in Kbd!NoSymbol /\ (s.shl \/ s.shr)
Moves(k, s) == s.mouse /\ k \in Kbd!Arrows
AsInsert(k, s) == \/ k = "I" /\ s.alt
                  \/ k = "ENTER" /\ (s.shl \/ s.shr)

Puts(k, s) ==
  IF Mute(k, s) THEN {}
  ELSE IF Moves(k, s)
    THEN IF k \in Kbd!Vertical /\ s.shr THEN {Kbd!FnKeycodes[k]} ELSE {}
  ELSE IF s.mouse /\ k \in Kbd!Brackets THEN {Kbd!ButtonOf[k]}
  ELSE IF AsInsert(k, s)
    THEN IF s.shr THEN {} ELSE IF s.shl THEN {"ENTER"} ELSE {"INSERT"}
  ELSE IF k \in Kbd!Rows /\ s.shr THEN {Kbd!FnKeycodes[k]}
  ELSE {k}

Steers(k, s) == Moves(k, s) /\ ~Mute(k, s) /\ ~(k \in Kbd!Vertical /\ s.shr)

(* Keys that are held under the context they were pressed in. *)
Plainly == held \ mixed

(* INSERT is lifted early by a HOLD of I with Alt up. *)
Lifted(k) == IF k = "I" /\ ~virtual_INS THEN {"INSERT"} ELSE {}

(* What is down was put there by a key that is mixed, or by one that is held, under
   the context of its press; the flags of such a key say what that context was. *)
Accounted ==
  /\ \A c \in down \ {"RIGHTSHIFT", "LEFTSHIFT"} :
       \/ \E k \in mixed : c \in Kbd!CodesOf(k)
       \/ \E k \in Plainly : c \in Puts(k, seen[k]) \ Lifted(k)
  /\ mouse_move_dir \subseteq held \cup mixed
  /\ \A k \in Plainly : k \in mouse_move_dir => Steers(k, seen[k])
  /\ keycode2_pressed \subseteq (held \cup mixed) \cap Kbd!Rows
  /\ \A k \in Plainly \cap Kbd!Rows :
       k \in keycode2_pressed <=> seen[k].shr /\ ~Moves(k, seen[k])
  /\ "I" \notin mixed =>
       (virtual_INS => "I" \in held /\ seen["I"].alt /\ ~seen["I"].shr /\ ~seen["I"].shl)

KbdType ==
  /\ held \subseteq Keys /\ mixed \subseteq Keys
  /\ phy_SHR \in BOOLEAN /\ phy_SHL \in BOOLEAN /\ alt \in BOOLEAN
  /\ mouse_mode \in BOOLEAN /\ virtual_INS \in BOOLEAN
  /\ seen \in [Keys -> Kbd!Context]

KbdInv == KbdType /\ Accounted

(* The kinds of keys that the branches tell apart. *)
LEMMA Kinds ==
  /\ Kbd!Vertical \subseteq Kbd!Arrows /\ Kbd!Vertical \subseteq Kbd!Rows
  /\ Kbd!Arrows \cap Kbd!Rows \subseteq Kbd!Vertical
  /\ Kbd!Arrows \cap Kbd!Brackets = {} /\ Kbd!Rows \cap Kbd!Brackets = {}
  /\ Kbd!NoSymbol \cap (Kbd!Rows \cup Kbd!Brackets \cup Kbd!Shared) = {}
  /\ Kbd!Arrows \subseteq Kbd!Vertical \cup Kbd!NoSymbol
  /\ Kbd!Shared \cap (Kbd!Rows \cup Kbd!Arrows \cup Kbd!Brackets) = {}
  /\ Kbd!Shared = {"I", "ENTER"}
<1>1. Kbd!Rows = {"F1", "F2", "F3", "F4", "F5", "ESC", "TAB", "DELETE", "UP", "DOWN"}
  BY DEF Kbd!Rows, Kbd!FnKeycodes
<1>2. Kbd!Brackets = {"LBRACKET", "RBRACKET"}
  BY DEF Kbd!Brackets, Kbd!ButtonOf
<1>3. QED
  BY <1>1, <1>2 DEF Kbd!Vertical, Kbd!Arrows, Kbd!NoSymbol, Kbd!Shared

LEMMA PutsAreCodes ==
  ASSUME NEW k, NEW s \in Kbd!Context
  PROVE  Puts(k, s) \subseteq Kbd!CodesOf(k)
BY Kinds DEF Puts, Mute, Moves, AsInsert, Kbd!CodesOf

(* The context of the present moment. *)
Present == [mouse |-> mouse_mode, shr |-> phy_SHR, shl |-> phy_SHL, alt |-> alt]

LEMMA PresentIsContext ==
  KbdType => /\ Present \in Kbd!Context
             /\ Present.mouse = mouse_mode /\ Present.shr = phy_SHR
             /\ Present.shl = phy_SHL /\ Present.alt = alt
BY DEF KbdType, Present, Kbd!Context

(* What a press notes of it is enough to say what it put down. *)
LEMMA UnderIsEnough ==
  ASSUME KbdType, NEW k \in Keys
  PROVE  /\ Kbd!Under(k) \in Kbd!Context
         /\ Puts(k, Kbd!Under(k)) = Puts(k, Present)
         /\ Steers(k, Kbd!Under(k)) <=> Steers(k, Present)
         /\ Moves(k, Kbd!Under(k)) <=> Moves(k, Present)
         /\ k \in Kbd!Rows => (Kbd!Under(k).shr <=> phy_SHR)
         /\ k = "I" /\ alt =>
              /\ Kbd!Under(k).alt
              /\ Kbd!Under(k).shr <=> phy_SHR
              /\ Kbd!Under(k).shl <=> phy_SHL
<1> DEFINE u == Kbd!Under(k)
<1>1. u \in Kbd!Context
  BY Zenon DEF Kbd!Under, Kbd!Context, KbdType
<1>2. u.mouse <=> mouse_mode /\ k \in Kbd!Arrows \cup Kbd!Brackets
  BY Zenon DEF Kbd!Under
<1>3. u.shr <=> phy_SHR /\ (k \in Kbd!Rows \cup Kbd!NoSymbol \cup {"ENTER"} \/ (k = "I" /\ alt))
  BY Zenon DEF Kbd!Under
<1>4. u.shl <=> phy_SHL /\ (k \in Kbd!NoSymbol \cup {"ENTER"} \/ (k = "I" /\ alt))
  BY Zenon DEF Kbd!Under
<1>5. u.alt <=> alt /\ k = "I"
  BY Zenon DEF Kbd!Under
<1> HIDE DEF u
<1>6. Moves(k, u) <=> Moves(k, Present)
  BY <1>2, PresentIsContext DEF Moves
<1>7. AsInsert(k, u) <=> AsInsert(k, Present)
  BY <1>3, <1>4, <1>5, PresentIsContext DEF AsInsert
<1>8. k \in Kbd!NoSymbol => (Mute(k, u) <=> Mute(k, Present))
  BY <1>3, <1>4, PresentIsContext DEF Mute
<1>9. k \in Kbd!Vertical => k \in Kbd!Rows
  BY Kinds
<1>10. Mute(k, u) <=> Mute(k, Present)
  BY <1>8 DEF Mute
<1>11. AsInsert(k, u) => (u.shr <=> Present.shr) /\ (u.shl <=> Present.shl)
  BY <1>3, <1>4, <1>5, PresentIsContext DEF AsInsert
<1>12. /\ k \in Kbd!Rows => (u.shr <=> Present.shr)
       /\ k \in Kbd!Brackets => (u.mouse <=> Present.mouse)
  BY <1>2, <1>3, PresentIsContext
<1>13. Puts(k, u) = Puts(k, Present)
  BY <1>6, <1>7, <1>9, <1>10, <1>11, <1>12, Zenon DEF Puts
<1>14. Steers(k, u) <=> Steers(k, Present)
  BY <1>6, <1>9, <1>10, <1>12 DEF Steers
<1>15. k = "I" /\ alt => u.alt /\ (u.shr <=> phy_SHR) /\ (u.shl <=> phy_SHL)
  BY <1>3, <1>4, <1>5, Zenon
<1>16. k \in Kbd!Rows => (u.shr <=> phy_SHR)
  BY <1>3, Zenon
<1>17. /\ u \in Kbd!Context /\ Puts(k, u) = Puts(k, Present)
       /\ Steers(k, u) <=> Steers(k, Present)
       /\ Moves(k, u) <=> Moves(k, Present)
  BY <1>1, <1>6, <1>13, <1>14
<1>18. QED
  BY <1>15, <1>16, <1>17, Zenon DEF u

(* An event of a key touches the codes, the direction and the flag of that key. *)
LEMMA SendOwn ==
  ASSUME KbdType, NEW k \in Keys, NEW pressed \in BOOLEAN, Kbd!Send(k, pressed)
  PROVE  /\ down' \subseteq down \cup Kbd!CodesOf(k)
         /\ mouse_move_dir' \subseteq mouse_move_dir \cup {k}
         /\ keycode2_pressed' \subseteq keycode2_pressed \cup {k}
         /\ keycode2_pressed \subseteq keycode2_pressed' \cup {k}
         /\ k \notin Kbd!Rows => keycode2_pressed' = keycode2_pressed
         /\ k # "I" => virtual_INS' = virtual_INS
<1> USE DEF Kbd!mouse, Kbd!CodesOf, Kbd!Reported
<1>1. CASE UNCHANGED <<Kbd!mouse, virtual_INS, keycode2_pressed, down>>
  BY <1>1
<1>2. CASE /\ mouse_mode /\ k \in Kbd!Arrows /\ Kbd!MouseArrow(k, pressed)
           /\ UNCHANGED <<mouse_mode, virtual_INS, keycode2_pressed>>
  BY <1>2, Kinds DEF Kbd!MouseArrow
<1>3. CASE /\ k \in Kbd!Brackets /\ Kbd!MouseButton(k, pressed)
           /\ UNCHANGED <<Kbd!mouse, virtual_INS, keycode2_pressed>>
  BY <1>3 DEF Kbd!MouseButton
<1>4. CASE /\ Kbd!SendsInsert(k) /\ Kbd!Insert(pressed)
           /\ UNCHANGED <<mouse_move_dir, keycode2_pressed>>
  BY <1>4 DEF Kbd!SendsInsert, Kbd!Insert
<1>5. CASE /\ k \in Kbd!Rows /\ Kbd!proccess_fn_key(k, pressed)
           /\ UNCHANGED <<Kbd!mouse, virtual_INS>>
  BY <1>5 DEF Kbd!proccess_fn_key
<1>6. CASE /\ ~Kbd!SendsInsert(k) /\ Kbd!Plain(k, pressed)
           /\ UNCHANGED <<Kbd!mouse, keycode2_pressed>>
  BY <1>6 DEF Kbd!Plain
<1>7. QED
  BY <1>1, <1>2, <1>3, <1>4, <1>5, <1>6 DEF Kbd!Send, Kbd!key_report_event

(* A press puts down what its context says. *)
LEMMA PressSends ==
  ASSUME KbdType, NEW k \in Keys, Kbd!Send(k, TRUE), k = "I" => ~virtual_INS
  PROVE  /\ down' \subseteq down \cup Puts(k, Present)
         /\ k \in mouse_move_dir' => k \in mouse_move_dir \/ Steers(k, Present)
         /\ k \in keycode2_pressed' <=>
              \/ k \in keycode2_pressed
              \/ k \in Kbd!Rows /\ phy_SHR /\ ~Moves(k, Present)
         /\ k = "I" => (virtual_INS' <=> alt /\ ~phy_SHR /\ ~phy_SHL)
<1> USE Kinds, PresentIsContext DEF Kbd!mouse, Kbd!Reported, Puts, Steers, Mute, Moves, AsInsert
<1>1. CASE Kbd!Silent(k)
  BY <1>1 DEF Kbd!Send, Kbd!Silent
<1>2. CASE /\ ~Kbd!Silent(k)
           /\ mouse_mode /\ k \in Kbd!Arrows /\ Kbd!MouseArrow(k, TRUE)
           /\ UNCHANGED <<mouse_mode, virtual_INS, keycode2_pressed>>
  BY <1>2 DEF Kbd!MouseArrow, Kbd!Silent
<1>3. CASE /\ ~Kbd!Silent(k)
           /\ mouse_mode /\ k \in Kbd!Brackets /\ Kbd!MouseButton(k, TRUE)
           /\ UNCHANGED <<Kbd!mouse, virtual_INS, keycode2_pressed>>
  BY <1>3 DEF Kbd!MouseButton, Kbd!Silent
<1>4. CASE /\ ~Kbd!Silent(k)
           /\ Kbd!SendsInsert(k) /\ Kbd!Insert(TRUE)
           /\ UNCHANGED <<mouse_move_dir, keycode2_pressed>>
  BY <1>4 DEF Kbd!SendsInsert, Kbd!Insert, Kbd!Silent
<1>5. CASE /\ ~Kbd!Silent(k)
           /\ k \in Kbd!Rows /\ ~(mouse_mode /\ k \in Kbd!Arrows)
           /\ Kbd!proccess_fn_key(k, TRUE)
           /\ UNCHANGED <<Kbd!mouse, virtual_INS>>
  BY <1>5 DEF Kbd!proccess_fn_key, Kbd!Silent
<1>6. CASE /\ ~Kbd!Silent(k)
           /\ k \notin Kbd!Rows /\ ~(mouse_mode /\ k \in Kbd!Arrows \cup Kbd!Brackets)
           /\ ~Kbd!SendsInsert(k) /\ Kbd!Plain(k, TRUE)
           /\ UNCHANGED <<Kbd!mouse, keycode2_pressed>>
  BY <1>6 DEF Kbd!Plain, Kbd!Silent, Kbd!SendsInsert
<1>7. QED
  BY <1>1, <1>2, <1>3, <1>4, <1>5, <1>6 DEF Kbd!Send, Kbd!key_report_event

(* A release under the context of the press takes it all back. *)
LEMMA ReleaseSends ==
  ASSUME KbdType, NEW k \in Keys, Kbd!Send(k, FALSE), ~Kbd!Differs(k, FALSE),
         k \in mouse_move_dir => Steers(k, seen[k]),
         k \in keycode2_pressed <=>
           k \in Kbd!Rows /\ seen[k].shr /\ ~Moves(k, seen[k]),
         k = "I" => (virtual_INS => seen[k].alt /\ ~seen[k].shr /\ ~seen[k].shl)
  PROVE  /\ down' \subseteq down \ (Puts(k, seen[k]) \ Lifted(k))
         /\ k \notin mouse_move_dir'
         /\ k \notin keycode2_pressed'
         /\ k = "I" => ~virtual_INS'
<1> DEFINE s == seen[k]
<1>1. /\ s \in Kbd!Context
      /\ s.mouse \in BOOLEAN /\ s.shr \in BOOLEAN /\ s.shl \in BOOLEAN /\ s.alt \in BOOLEAN
  BY DEF KbdType, Kbd!Context
<1>2. /\ k \in Kbd!Arrows \cup Kbd!Brackets => s.mouse = mouse_mode
      /\ k \in Kbd!Vertical /\ mouse_mode => s.shr = phy_SHR
      /\ k \in Kbd!NoSymbol \cup {"ENTER"} => s.shr = phy_SHR /\ s.shl = phy_SHL
      /\ k = "I" => \/ ~s.alt /\ ~alt
                    \/ /\ s.alt /\ s.shr = phy_SHR /\ s.shl = phy_SHL
                       /\ alt \/ ~(s.shr \/ s.shl)
  BY <1>1 DEF Kbd!Differs, KbdType
<1> HIDE DEF s
<1> USE Kinds, <1>1, <1>2
    DEF Kbd!mouse, Kbd!Reported, Puts, Steers, Mute, Moves, AsInsert, Lifted, KbdType
<1>3. CASE Kbd!Silent(k)
  BY <1>3 DEF Kbd!Send, Kbd!Silent, s
<1>4. CASE /\ ~Kbd!Silent(k)
           /\ mouse_mode /\ k \in Kbd!Arrows /\ Kbd!MouseArrow(k, FALSE)
           /\ UNCHANGED <<mouse_mode, virtual_INS, keycode2_pressed>>
  BY <1>4 DEF Kbd!MouseArrow, Kbd!Silent, s
<1>5. CASE /\ ~Kbd!Silent(k)
           /\ mouse_mode /\ k \in Kbd!Brackets /\ Kbd!MouseButton(k, FALSE)
           /\ UNCHANGED <<Kbd!mouse, virtual_INS, keycode2_pressed>>
  BY <1>5 DEF Kbd!MouseButton, Kbd!Silent, s
<1>6. CASE /\ ~Kbd!Silent(k)
           /\ Kbd!SendsInsert(k) /\ Kbd!Insert(FALSE)
           /\ UNCHANGED <<mouse_move_dir, keycode2_pressed>>
  BY <1>6 DEF Kbd!SendsInsert, Kbd!Insert, Kbd!Silent, s
<1>7. CASE /\ ~Kbd!Silent(k)
           /\ k \in Kbd!Rows /\ ~(mouse_mode /\ k \in Kbd!Arrows)
           /\ Kbd!proccess_fn_key(k, FALSE)
           /\ UNCHANGED <<Kbd!mouse, virtual_INS>>
  BY <1>7 DEF Kbd!proccess_fn_key, Kbd!Silent, s
<1>8. CASE /\ ~Kbd!Silent(k)
           /\ k \notin Kbd!Rows /\ ~(mouse_mode /\ k \in Kbd!Arrows \cup Kbd!Brackets)
           /\ ~Kbd!SendsInsert(k) /\ Kbd!Plain(k, FALSE)
           /\ UNCHANGED <<Kbd!mouse, keycode2_pressed>>
  BY <1>8 DEF Kbd!Plain, Kbd!Silent, Kbd!SendsInsert, s
<1>9. QED
  BY <1>3, <1>4, <1>5, <1>6, <1>7, <1>8 DEF Kbd!Send, Kbd!key_report_event

(* A key that is not marked repeats what its press did. *)
LEMMA RepeatIsPress ==
  ASSUME KbdType, NEW k \in Keys, k \notin Kbd!Shared, ~Kbd!Differs(k, TRUE)
  PROVE  /\ Puts(k, Present) = Puts(k, seen[k])
         /\ Steers(k, Present) => Steers(k, seen[k])
         /\ k \in Kbd!Rows => phy_SHR = seen[k].shr
         /\ Moves(k, Present) = Moves(k, seen[k])
<1> DEFINE s == seen[k]
<1>1. /\ s \in Kbd!Context
      /\ s.mouse \in BOOLEAN /\ s.shr \in BOOLEAN /\ s.shl \in BOOLEAN /\ s.alt \in BOOLEAN
  BY DEF KbdType, Kbd!Context
<1>2. /\ k \in Kbd!Arrows \cup Kbd!Brackets => s.mouse = mouse_mode
      /\ k \in Kbd!Rows => s.shr = phy_SHR
      /\ k \in Kbd!NoSymbol => s.shr = phy_SHR /\ s.shl = phy_SHL
  BY <1>1 DEF Kbd!Differs, KbdType
<1> HIDE DEF s
<1>3. QED
  BY Kinds, PresentIsContext, <1>1, <1>2 DEF s, Puts, Steers, Mute, Moves, AsInsert

LEMMA KbdInit == Kbd!Init => KbdInv
<1> SUFFICES ASSUME Kbd!Init PROVE KbdInv
  OBVIOUS
<1>1. Kbd!Unpressed \in Kbd!Context
  BY DEF Kbd!Unpressed, Kbd!Context
<1>2. KbdType
  BY <1>1, Zenon DEF Kbd!Init, KbdType
<1>3. Accounted
  BY DEF Kbd!Init, Accounted, Plainly
<1>4. QED
  BY <1>2, <1>3 DEF KbdInv

LEMMA KbdTypeNext == KbdType /\ [Kbd!Next]_(Kbd!vars) => KbdType'
<1> SUFFICES ASSUME KbdType, [Kbd!Next]_(Kbd!vars)
             PROVE  KbdType'
  OBVIOUS
<1>1. Kbd!Unpressed \in Kbd!Context
  BY DEF Kbd!Unpressed, Kbd!Context
<1>2. ASSUME NEW k \in Keys, NEW pressed \in BOOLEAN, Kbd!Send(k, pressed)
      PROVE  mouse_mode' \in BOOLEAN /\ virtual_INS' \in BOOLEAN
  BY <1>2, Zenon DEF Kbd!Send, Kbd!key_report_event, Kbd!MouseArrow, Kbd!MouseButton,
     Kbd!Insert, Kbd!proccess_fn_key, Kbd!Plain, Kbd!mouse, KbdType
<1>7. ASSUME NEW k \in Keys, Kbd!Hold(k)
      PROVE  KbdType'
  <2>1. UNCHANGED <<held, mixed, phy_SHR, phy_SHL, alt, mouse_mode, seen>>
    BY <1>7 DEF Kbd!Hold, Kbd!shifts, Kbd!mouse
  <2>2. virtual_INS' \in BOOLEAN
    BY <1>7 DEF Kbd!Hold, Kbd!Plain, KbdType
  <2>3. QED
    BY <2>1, <2>2 DEF KbdType
<1>3. ASSUME NEW k \in Keys, Kbd!Press(k) \/ Kbd!Repeat(k) \/ Kbd!Release(k)
      PROVE  KbdType'
  <2>1. mouse_mode' \in BOOLEAN /\ virtual_INS' \in BOOLEAN
    BY <1>2, <1>3 DEF Kbd!Press, Kbd!Repeat, Kbd!Release
  <2>2. UNCHANGED Kbd!shifts /\ held' \subseteq Keys /\ mixed' \subseteq Keys
    BY <1>3 DEF Kbd!Press, Kbd!Repeat, Kbd!Release, Kbd!Mark, KbdType
  <2>3. seen' \in [Keys -> Kbd!Context]
    BY <1>1, <1>3, UnderIsEnough DEF Kbd!Press, Kbd!Repeat, Kbd!Release, KbdType
  <2>4. QED
    BY <2>1, <2>2, <2>3 DEF KbdType, Kbd!shifts
<1>4. CASE Kbd!RShift \/ Kbd!LShift \/ Kbd!Alt
  <2>1. phy_SHR' \in BOOLEAN /\ phy_SHL' \in BOOLEAN /\ alt' \in BOOLEAN
    BY <1>4, Zenon DEF Kbd!RShift, Kbd!LShift, Kbd!Alt, KbdType
  <2>2. UNCHANGED <<held, mixed, mouse_mode, virtual_INS, seen>>
    BY <1>4 DEF Kbd!RShift, Kbd!LShift, Kbd!Alt, Kbd!mouse
  <2>3. QED
    BY <2>1, <2>2 DEF KbdType
<1>5. CASE UNCHANGED Kbd!vars
  BY <1>5 DEF Kbd!vars, Kbd!shifts, Kbd!mouse, KbdType
<1>6. QED
  BY <1>3, <1>4, <1>5, <1>7 DEF Kbd!Next

(* The keys other than the one of an event keep their context and their flag. *)
LEMMA AccountedNext ==
  KbdInv /\ [Kbd!Next]_(Kbd!vars) => Accounted'
<1> SUFFICES ASSUME KbdInv, [Kbd!Next]_(Kbd!vars)
             PROVE  Accounted'
  OBVIOUS
<1> USE DEF KbdInv, Plainly
<1>1. ASSUME NEW k \in Keys, Kbd!Press(k)
      PROVE  Accounted'
  <2>1. /\ k \notin held /\ held' = held \cup {k} /\ mixed' = mixed
        /\ seen' = [seen EXCEPT ![k] = Kbd!Under(k)] /\ Kbd!Send(k, TRUE)
    BY <1>1 DEF Kbd!Press
  <2>2. /\ seen'[k] = Kbd!Under(k)
        /\ \A j \in Keys \ {k} : seen'[j] = seen[j]
    BY <2>1 DEF KbdType
  <2>3. /\ down' \subseteq down \cup Kbd!CodesOf(k)
        /\ mouse_move_dir' \subseteq mouse_move_dir \cup {k}
        /\ keycode2_pressed' \subseteq keycode2_pressed \cup {k}
        /\ keycode2_pressed \subseteq keycode2_pressed' \cup {k}
        /\ k \notin Kbd!Rows => keycode2_pressed' = keycode2_pressed
        /\ k # "I" => virtual_INS' = virtual_INS
    BY <2>1, SendOwn
  <2>4. k \notin mixed =>
          /\ down' \subseteq down \cup Puts(k, Present)
          /\ k \in mouse_move_dir' => Steers(k, Present)
          /\ k \in keycode2_pressed' <=> k \in Kbd!Rows /\ phy_SHR /\ ~Moves(k, Present)
          /\ k = "I" => (virtual_INS' <=> alt /\ ~phy_SHR /\ ~phy_SHL)
    BY <2>1, PressSends DEF Accounted
  <2>10. /\ \A j \in Keys \ {k} : Lifted(j)' = Lifted(j)
         /\ k \notin mixed => Puts(k, Present) \cap Lifted(k)' = {}
    <3>1. k = "I" /\ k \notin mixed => ("INSERT" \in Puts(k, Present) => virtual_INS')
      BY <2>4, PresentIsContext, Kinds DEF Puts, Mute, Moves, AsInsert
    <3>2. QED
      BY <2>3, <3>1 DEF Lifted
  <2>5. \A c \in down' \ {"RIGHTSHIFT", "LEFTSHIFT"} :
          \/ \E j \in mixed' : c \in Kbd!CodesOf(j)
          \/ \E j \in Plainly' : c \in Puts(j, seen'[j]) \ Lifted(j)'
    BY <2>1, <2>2, <2>3, <2>4, <2>10, UnderIsEnough DEF Accounted, KbdType
  <2>6. /\ mouse_move_dir' \subseteq held' \cup mixed'
        /\ \A j \in Plainly' : j \in mouse_move_dir' => Steers(j, seen'[j])
    BY <2>1, <2>2, <2>3, <2>4, UnderIsEnough DEF Accounted, KbdType
  <2>7. /\ keycode2_pressed' \subseteq (held' \cup mixed') \cap Kbd!Rows
        /\ \A j \in Plainly' \cap Kbd!Rows :
             j \in keycode2_pressed' <=> seen'[j].shr /\ ~Moves(j, seen'[j])
    BY <2>1, <2>2, <2>3, <2>4, UnderIsEnough, PresentIsContext DEF Accounted, KbdType
  <2>8. "I" \notin mixed' =>
          (virtual_INS' => /\ "I" \in held' /\ seen'["I"].alt
                            /\ ~seen'["I"].shr /\ ~seen'["I"].shl)
    <3>1. CASE k # "I"
      <4>1. virtual_INS' /\ "I" \notin mixed' =>
              "I" \in held /\ seen["I"].alt /\ ~seen["I"].shr /\ ~seen["I"].shl
        BY <2>1, <2>3, <3>1 DEF Accounted
      <4>2. "I" \in held => "I" \in Keys \ {k} /\ "I" \in held'
        BY <2>1, <3>1 DEF KbdType
      <4>3. QED
        BY <2>2, <4>1, <4>2, Zenon
    <3>2. CASE k = "I" /\ "I" \notin mixed'
      <4>1. virtual_INS' <=> alt /\ ~phy_SHR /\ ~phy_SHL
        BY <2>1, <2>4, <3>2
      <4>2. k = "I" /\ alt =>
              /\ Kbd!Under(k).alt
              /\ Kbd!Under(k).shr <=> phy_SHR
              /\ Kbd!Under(k).shl <=> phy_SHL
        BY UnderIsEnough, Zenon
      <4>3. seen'["I"] = Kbd!Under(k) /\ "I" \in held'
        BY <2>1, <2>2, <3>2
      <4>4. QED
        BY <3>2, <4>1, <4>2, <4>3, Zenon
    <3>3. QED
      BY <3>1, <3>2, Zenon
  <2>9. QED
    BY <2>5, <2>6, <2>7, <2>8 DEF Accounted
<1>2. ASSUME NEW k \in Keys, Kbd!Repeat(k)
      PROVE  Accounted'
  <2>1. /\ k \in held /\ k \notin Kbd!Shared /\ UNCHANGED <<held, seen>>
        /\ mixed' = (IF Kbd!Differs(k, TRUE) THEN mixed \cup {k} ELSE mixed)
        /\ Kbd!Send(k, TRUE)
    BY <1>2 DEF Kbd!Repeat, Kbd!Mark
  <2>2. k # "I"
    BY <2>1, Kinds
  <2>3. /\ down' \subseteq down \cup Kbd!CodesOf(k)
        /\ mouse_move_dir' \subseteq mouse_move_dir \cup {k}
        /\ keycode2_pressed' \subseteq keycode2_pressed \cup {k}
        /\ keycode2_pressed \subseteq keycode2_pressed' \cup {k}
        /\ k \notin Kbd!Rows => keycode2_pressed' = keycode2_pressed
        /\ virtual_INS' = virtual_INS
    BY <2>1, <2>2, SendOwn
  <2>4. k \notin mixed' =>
          /\ down' \subseteq down \cup Puts(k, seen[k])
          /\ k \in mouse_move_dir' => Steers(k, seen[k])
          /\ k \in Kbd!Rows =>
               (k \in keycode2_pressed' <=> seen[k].shr /\ ~Moves(k, seen[k]))
    BY <2>1, <2>2, PressSends, RepeatIsPress DEF Accounted
  <2>5. /\ \A j \in Keys : Puts(j, seen[j]) \subseteq Kbd!CodesOf(j)
        /\ mixed \subseteq mixed'
        /\ Lifted(k) = {} /\ \A j : Lifted(j)' = Lifted(j)
    BY <2>1, <2>2, <2>3, PutsAreCodes DEF KbdType, Lifted
  <2>6. \A c \in down' \ {"RIGHTSHIFT", "LEFTSHIFT"} :
          \/ \E j \in mixed' : c \in Kbd!CodesOf(j)
          \/ \E j \in Plainly' : c \in Puts(j, seen'[j]) \ Lifted(j)'
    BY <2>1, <2>3, <2>4, <2>5 DEF Accounted, KbdType
  <2>7. /\ mouse_move_dir' \subseteq held' \cup mixed'
        /\ \A j \in Plainly' : j \in mouse_move_dir' => Steers(j, seen'[j])
    BY <2>1, <2>3, <2>4, <2>5 DEF Accounted
  <2>8. /\ keycode2_pressed' \subseteq (held' \cup mixed') \cap Kbd!Rows
        /\ \A j \in Plainly' \cap Kbd!Rows :
             j \in keycode2_pressed' <=> seen'[j].shr /\ ~Moves(j, seen'[j])
    BY <2>1, <2>3, <2>4, <2>5 DEF Accounted
  <2>9. QED
    BY <2>1, <2>3, <2>5, <2>6, <2>7, <2>8 DEF Accounted
<1>3. ASSUME NEW k \in Keys, Kbd!Release(k)
      PROVE  Accounted'
  <2>1. /\ k \in held /\ held' = held \ {k}
        /\ mixed' = (IF Kbd!Differs(k, FALSE) THEN mixed \cup {k} ELSE mixed)
        /\ seen' = [seen EXCEPT ![k] = Kbd!Unpressed] /\ Kbd!Send(k, FALSE)
    BY <1>3 DEF Kbd!Release, Kbd!Mark
  <2>2. /\ \A j \in Keys \ {k} : seen'[j] = seen[j]
        /\ mixed \subseteq mixed'
    BY <2>1 DEF KbdType
  <2>3. /\ down' \subseteq down \cup Kbd!CodesOf(k)
        /\ mouse_move_dir' \subseteq mouse_move_dir \cup {k}
        /\ keycode2_pressed' \subseteq keycode2_pressed \cup {k}
        /\ keycode2_pressed \subseteq keycode2_pressed' \cup {k}
        /\ k \notin Kbd!Rows => keycode2_pressed' = keycode2_pressed
        /\ k # "I" => virtual_INS' = virtual_INS
    BY <2>1, SendOwn
  <2>4. k \notin mixed' =>
          /\ down' \subseteq down \ (Puts(k, seen[k]) \ Lifted(k))
          /\ k \notin mouse_move_dir' /\ k \notin keycode2_pressed'
          /\ k = "I" => ~virtual_INS'
    BY <2>1, ReleaseSends DEF Accounted
  <2>5. \A j \in Keys : Puts(j, seen[j]) \subseteq Kbd!CodesOf(j)
    BY PutsAreCodes DEF KbdType
  <2>11. \A j \in Keys \ {k} : Lifted(j)' = Lifted(j)
    BY <2>3 DEF Lifted
  <2>6. \A c \in down' \ {"RIGHTSHIFT", "LEFTSHIFT"} :
          \/ \E j \in mixed' : c \in Kbd!CodesOf(j)
          \/ \E j \in Plainly' : c \in Puts(j, seen'[j]) \ Lifted(j)'
    BY <2>1, <2>2, <2>3, <2>4, <2>5, <2>11 DEF Accounted, KbdType
  <2>7. /\ mouse_move_dir' \subseteq held' \cup mixed'
        /\ \A j \in Plainly' : j \in mouse_move_dir' => Steers(j, seen'[j])
    BY <2>1, <2>2, <2>3, <2>4 DEF Accounted, KbdType
  <2>8. /\ keycode2_pressed' \subseteq (held' \cup mixed') \cap Kbd!Rows
        /\ \A j \in Plainly' \cap Kbd!Rows :
             j \in keycode2_pressed' <=> seen'[j].shr /\ ~Moves(j, seen'[j])
    BY <2>1, <2>2, <2>3, <2>4 DEF Accounted, KbdType
  <2>9. "I" \notin mixed' =>
          (virtual_INS' => /\ "I" \in held' /\ seen'["I"].alt
                            /\ ~seen'["I"].shr /\ ~seen'["I"].shl)
    <3>1. CASE k = "I"
      BY <2>1, <2>4, <3>1
    <3>2. CASE k # "I"
      <4>1. "I" \in held' <=> "I" \in held
        BY <2>1, <3>2
      <4>2. "I" \in held => seen'["I"] = seen["I"]
        BY <2>2, <3>2 DEF KbdType
      <4>3. QED
        BY <2>2, <2>3, <3>2, <4>1, <4>2 DEF Accounted
    <3>3. QED
      BY <3>1, <3>2
  <2>10. QED
    BY <2>6, <2>7, <2>8, <2>9 DEF Accounted
<1>4. CASE Kbd!RShift \/ Kbd!LShift \/ Kbd!Alt
  <2>1. /\ UNCHANGED <<held, Kbd!mouse, virtual_INS, keycode2_pressed, seen, mixed>>
        /\ down' \subseteq down \cup {"RIGHTSHIFT", "LEFTSHIFT"}
    BY <1>4 DEF Kbd!RShift, Kbd!LShift, Kbd!Alt, Kbd!Reported, Kbd!mouse
  <2>2. QED
    BY <2>1 DEF Accounted, Lifted, Kbd!mouse
<1>5. CASE UNCHANGED Kbd!vars
  BY <1>5 DEF Kbd!vars, Kbd!shifts, Kbd!mouse, Accounted, Lifted
<1>6. ASSUME NEW k \in Keys, Kbd!Hold(k)
      PROVE  Accounted'
  <2>1. /\ UNCHANGED <<held, Kbd!mouse, keycode2_pressed, seen, mixed>>
        /\ down' \subseteq down
        /\ \/ UNCHANGED virtual_INS
           \/ ~virtual_INS' /\ "INSERT" \notin down'
    BY <1>6 DEF Kbd!Hold, Kbd!Plain
  <2>2. QED
    BY <2>1 DEF Accounted, Lifted, Kbd!mouse
<1>7. QED
  BY <1>1, <1>2, <1>3, <1>4, <1>5, <1>6 DEF Kbd!Next

(* In the driver for firmware 1.2 a key that is up has left no key code down,
   whatever was pressed between its press and its release, unless the mode or the
   shifts it was pressed under changed (its picocalc_kbd.c:274-311, 331-434,
   441-483). *)
THEOREM OldKeysLetGo == KernelSpec => []UpLeavesNothing
<1>1. KernelInit => KbdInv
  BY KbdInit DEF KernelInit
<1>2. KbdInv /\ [Kbd!Next]_(Kbd!vars) => KbdInv'
  BY KbdTypeNext, AccountedNext DEF KbdInv
<1>3. KbdInv => UpLeavesNothing
  <2>1. ASSUME KbdInv PROVE \A j \in Keys : Puts(j, seen[j]) \subseteq Kbd!CodesOf(j)
    BY <2>1, PutsAreCodes DEF KbdInv, KbdType
  <2>2. QED
    BY <2>1 DEF KbdInv, KbdType, Accounted, Plainly, UpLeavesNothing, Kbd!UpLeavesNothing
<1>4. QED
  BY <1>1, <1>2, <1>3, KernelStep, PTL DEF KernelSpec

-----------------------------------------------------------------------------
(* Scrollback.  A set of natural numbers that is not empty has a least one. *)
LEMMA NatMin ==
  ASSUME NEW T, T \subseteq Nat, T # {}
  PROVE  \E n \in T : \A m \in T : n <= m
<1>1. PICK x \in T : \A y \in T : ~(<<y, x>> \in OpToRel(<, Nat))
  BY NatLessThanWellFounded, WFMin, Zenon
<1>2. \A y \in T : ~(y < x)
  BY <1>1, Zenon DEF OpToRel
<1>3. QED
  BY <1>2

(* Induction over the natural numbers, from the theorem that they are well
   founded, with a set in place of the property. *)
LEMMA NatSteps ==
  ASSUME NEW S, 0 \in S, \A n \in Nat : n \in S => n + 1 \in S
  PROVE  \A n \in Nat : n \in S
<1> SUFFICES ASSUME Nat \ S # {} PROVE FALSE
  OBVIOUS
<1>1. PICK n \in Nat \ S : \A m \in Nat \ S : n <= m
  BY NatMin
<1>2. n - 1 \in Nat /\ n - 1 \in S
  BY <1>1
<1>3. QED
  BY <1>1, <1>2

(* What is less than two turns wraps once. *)
LEMMA WrapOnce ==
  ASSUME NEW v \in Int, 0 <= v, v < Lines + Lines
  PROVE  v % Lines = IF v < Lines THEN v ELSE v - Lines
<1>1. Lines \in Nat /\ Lines > 0
  BY RowsAssumption
<1>2. QED
  BY <1>1, SMT

(* A row of the ring, the row k before it and the row after it. *)
Slot == 0..(Lines - 1)

LEMMA BackIs ==
  ASSUME NEW p \in Slot, NEW k \in 0..Lines
  PROVE  /\ Scroll!Back(p, k) = IF k <= p THEN p - k ELSE p + Lines - k
         /\ Scroll!Back(p, k) \in Slot
<1>1. Lines \in Nat /\ Lines > 0
  BY RowsAssumption
<1>2. /\ p + Lines - k \in Int
      /\ 0 <= p + Lines - k /\ p + Lines - k < Lines + Lines
  BY <1>1 DEF Slot
<1>3. QED
  BY <1>1, <1>2, WrapOnce DEF Scroll!Back, Slot

LEMMA NextIs ==
  ASSUME NEW p \in Slot
  PROVE  /\ Scroll!Next1(p) = IF p + 1 = Lines THEN 0 ELSE p + 1
         /\ Scroll!Next1(p) \in Slot
<1>1. Lines \in Nat /\ Lines > 0
  BY RowsAssumption
<1>2. p + 1 \in Int /\ 0 <= p + 1 /\ p + 1 < Lines + Lines
  BY <1>1 DEF Slot
<1>3. QED
  BY <1>1, <1>2, WrapOnce DEF Scroll!Next1, Slot

-----------------------------------------------------------------------------
(* fbcon_softback_note: the buffer it starts from, and f, which holds what there
   is after each of its rows.  There is such a function, and Noted is its last. *)
Start == [ring |-> ring, in |-> in, top |-> top]

Notes(f, above, count) ==
  f = [k \in 0..count |-> IF k = 0 THEN Start
                          ELSE Scroll!Pushed(f[k - 1], screen[above + k])]

LEMMA NotesExist ==
  ASSUME NEW above \in Nat
  PROVE  \A count \in Nat : \E f : Notes(f, above, count)
<1> DEFINE S == {n \in Nat : \E f : Notes(f, above, n)}
<1>1. 0 \in S
  <2>1. Notes([k \in 0..0 |-> Start], above, 0)
    BY DEF Notes
  <2>2. QED
    BY <2>1
<1>2. ASSUME NEW n \in Nat, n \in S PROVE n + 1 \in S
  <2>1. PICK f : Notes(f, above, n)
    BY <1>2
  <2> DEFINE g == [k \in 0..(n + 1) |->
                     IF k <= n THEN f[k] ELSE Scroll!Pushed(f[n], screen[above + k])]
  <2>2. ASSUME NEW k \in 0..(n + 1)
        PROVE  g[k] = IF k = 0 THEN Start ELSE Scroll!Pushed(g[k - 1], screen[above + k])
    <3>1. CASE k = 0
      BY <2>1, <3>1 DEF Notes
    <3>2. CASE k # 0 /\ k <= n
      <4>1. k \in 0..n /\ k - 1 \in 0..(n + 1) /\ k - 1 <= n
        BY <3>2
      <4>2. f[k] = Scroll!Pushed(f[k - 1], screen[above + k])
        BY <2>1, <3>2, <4>1 DEF Notes
      <4>3. QED
        BY <3>2, <4>1, <4>2
    <3>3. CASE k = n + 1
      BY <3>3
    <3>4. QED
      BY <3>1, <3>2, <3>3
  <2>3. Notes(g, above, n + 1)
    BY <2>2 DEF Notes
  <2>4. QED
    BY <2>3
<1>. HIDE DEF S
<1>3. \A n \in Nat : n \in S
  BY <1>1, <1>2, NatSteps
<1>4. QED
  BY <1>3 DEF S

LEMMA NotedIs ==
  ASSUME NEW above \in Nat, NEW count \in Nat
  PROVE  \E f : Notes(f, above, count) /\ Scroll!Noted(above, count) = f[count]
<1>1. \E f : Notes(f, above, count)
  BY NotesExist
<1>2. QED
  BY <1>1, Zenon DEF Notes, Start, Scroll!Noted

-----------------------------------------------------------------------------
(* A buffer: its ring and the two pointers. *)
Buffer == [ring : [Slot -> Int], in : Slot, top : Slot]

(* The rows it holds, and the j-th of them from the newest. *)
HeldIn(b) == Scroll!Back(b.in, b.top)
FromNewest(b, j) == b.ring[Scroll!Back(b.in, j)]

(* One more row is held, up to the room there is, and it is the newest. *)
LEMMA PushedIs ==
  ASSUME NEW b \in Buffer, NEW text \in Int
  PROVE  LET p == Scroll!Pushed(b, text)
         IN  /\ p \in Buffer
             /\ HeldIn(p) = IF HeldIn(b) = Lines - 1 THEN Lines - 1 ELSE HeldIn(b) + 1
             /\ FromNewest(p, 1) = text
             /\ \A j \in 2..(Lines - 1) : FromNewest(p, j) = FromNewest(b, j - 1)
<1> DEFINE p == Scroll!Pushed(b, text)
           i == Scroll!Next1(b.in)
<1>0. Lines \in Nat /\ Lines > 0
  BY RowsAssumption
<1>1. /\ b.in \in Slot /\ b.top \in Slot /\ b.ring \in [Slot -> Int]
  BY DEF Buffer
<1>2. /\ i = IF b.in + 1 = Lines THEN 0 ELSE b.in + 1
      /\ i \in Slot
  BY <1>1, NextIs
<1>3. /\ p.ring = [b.ring EXCEPT ![b.in] = text]
      /\ p.in = i
      /\ p.top = IF i = b.top THEN Scroll!Next1(b.top) ELSE b.top
      /\ p = [ring |-> p.ring, in |-> p.in, top |-> p.top]
  BY DEF Scroll!Pushed
<1>4. /\ Scroll!Next1(b.top) = IF b.top + 1 = Lines THEN 0 ELSE b.top + 1
      /\ Scroll!Next1(b.top) \in Slot
  BY <1>1, NextIs
<1>5. p.ring \in [Slot -> Int] /\ p.top \in Slot /\ p.in \in Slot
  BY <1>1, <1>2, <1>3, <1>4
<1>a. /\ b.in \in Int /\ 0 <= b.in /\ b.in < Lines
      /\ b.top \in Int /\ 0 <= b.top /\ b.top < Lines
  BY <1>0, <1>1 DEF Slot
<1>b. p.in = i /\ p.top = IF i = b.top THEN (IF b.top + 1 = Lines THEN 0 ELSE b.top + 1)
                         ELSE b.top
  BY <1>3, <1>4, Zenon
<1>. HIDE DEF p, i
<1>6. p \in Buffer
  <2>1. [ring |-> p.ring, in |-> p.in, top |-> p.top] \in Buffer
    BY <1>5 DEF Buffer
  <2>2. QED
    BY <1>3, <2>1, Zenon
<1>7. HeldIn(p) = IF HeldIn(b) = Lines - 1 THEN Lines - 1 ELSE HeldIn(b) + 1
  <2>1. HeldIn(b) = IF b.top <= b.in THEN b.in - b.top ELSE b.in + Lines - b.top
    <3>1. b.top \in 0..Lines
      BY <1>0, <1>1 DEF Slot
    <3>2. QED
      BY <1>1, <3>1, BackIs DEF HeldIn
  <2>2. HeldIn(p) = IF p.top <= p.in THEN p.in - p.top ELSE p.in + Lines - p.top
    <3>1. p.top \in 0..Lines
      BY <1>0, <1>5 DEF Slot
    <3>2. QED
      BY <1>5, <3>1, BackIs DEF HeldIn
  <2>3. QED
    BY <1>0, <1>a, <1>2, <1>b, <2>1, <2>2
<1>8. ASSUME NEW j \in 1..Lines
      PROVE  Scroll!Back(i, j) = IF j = 1 THEN b.in ELSE Scroll!Back(b.in, j - 1)
  <2>1. Scroll!Back(i, j) = IF j <= i THEN i - j ELSE i + Lines - j
    BY <1>0, <1>2, BackIs
  <2>2. Scroll!Back(b.in, j - 1) = IF j - 1 <= b.in THEN b.in - (j - 1)
                                   ELSE b.in + Lines - (j - 1)
    BY <1>0, <1>1, BackIs
  <2>3. QED
    BY <1>0, <1>a, <1>2, <2>1, <2>2
<1>9. FromNewest(p, 1) = text
  BY <1>0, <1>1, <1>3, <1>8 DEF FromNewest
<1>10. ASSUME NEW j \in 2..(Lines - 1) PROVE FromNewest(p, j) = FromNewest(b, j - 1)
  <2>1. Scroll!Back(i, j) = Scroll!Back(b.in, j - 1)
    BY <1>0, <1>8
  <2>2. /\ Scroll!Back(b.in, j - 1) \in Slot
        /\ Scroll!Back(b.in, j - 1) # b.in
    <3>1. j - 1 \in 0..Lines
      BY <1>0
    <3>2. Scroll!Back(b.in, j - 1) = IF j - 1 <= b.in THEN b.in - (j - 1)
                                     ELSE b.in + Lines - (j - 1)
      BY <1>1, <3>1, BackIs
    <3>3. Scroll!Back(b.in, j - 1) \in Slot
      BY <1>1, <3>1, BackIs
    <3>4. QED
      BY <1>0, <1>a, <3>2, <3>3
  <2>3. QED
    BY <1>1, <1>3, <2>1, <2>2 DEF FromNewest
<1>11. QED
  BY <1>6, <1>7, <1>9, <1>10 DEF p

Least(a, c) == IF a <= c THEN a ELSE c

(* After k rows the buffer holds them before what it held. *)
HoldsNotes(b, above, k) ==
  /\ b \in Buffer
  /\ HeldIn(b) = Least(HeldIn(Start) + k, Lines - 1)
  /\ \A j \in 1..HeldIn(b) :
       FromNewest(b, j) = IF j <= k THEN screen[above + k - j + 1]
                          ELSE FromNewest(Start, j - k)

LEMMA NotedHolds ==
  ASSUME NEW above \in Nat, NEW count \in Nat, Start \in Buffer,
         \A k \in 1..count : screen[above + k] \in Int
  PROVE  HoldsNotes(Scroll!Noted(above, count), above, count)
<1>1. PICK f : Notes(f, above, count) /\ Scroll!Noted(above, count) = f[count]
  BY NotedIs
<1>0. Lines \in Nat /\ Lines > 0
  BY RowsAssumption
<1>2. /\ f[0] = Start
      /\ \A k \in 1..count : f[k] = Scroll!Pushed(f[k - 1], screen[above + k])
  BY <1>1 DEF Notes
<1>3. HeldIn(Start) \in Slot
  <2>1. Start.in \in Slot /\ Start.top \in Slot
    BY DEF Buffer
  <2>2. Start.top \in 0..Lines
    BY <1>0, <2>1 DEF Slot
  <2>3. QED
    BY <2>1, <2>2, BackIs DEF HeldIn
<1> DEFINE S == {n \in Nat : n <= count => HoldsNotes(f[n], above, n)}
<1>4. 0 \in S
  <2>1. HoldsNotes(f[0], above, 0)
    BY <1>0, <1>2, <1>3 DEF HoldsNotes, Least, Slot
  <2>2. QED
    BY <2>1
<1>5. ASSUME NEW n \in Nat, n \in S PROVE n + 1 \in S
  <2> SUFFICES ASSUME n + 1 <= count PROVE HoldsNotes(f[n + 1], above, n + 1)
    OBVIOUS
  <2>1. HoldsNotes(f[n], above, n)
    BY <1>5
  <2>2. f[n + 1] = Scroll!Pushed(f[n], screen[above + (n + 1)])
    <3>1. n + 1 \in 1..count /\ (n + 1) - 1 = n
      OBVIOUS
    <3>2. QED
      BY <1>2, <3>1
  <2>3. f[n] \in Buffer /\ screen[above + (n + 1)] \in Int
    BY <2>1 DEF HoldsNotes
  <2> DEFINE h == HeldIn(Start)
             b == f[n]
             p == f[n + 1]
  <2>4. /\ p \in Buffer
        /\ HeldIn(p) = IF HeldIn(b) = Lines - 1 THEN Lines - 1 ELSE HeldIn(b) + 1
        /\ FromNewest(p, 1) = screen[above + (n + 1)]
        /\ \A j \in 2..(Lines - 1) : FromNewest(p, j) = FromNewest(b, j - 1)
    BY <2>2, <2>3, PushedIs
  <2>5. /\ HeldIn(b) = Least(h + n, Lines - 1)
        /\ \A j \in 1..HeldIn(b) :
             FromNewest(b, j) = IF j <= n THEN screen[above + n - j + 1]
                                ELSE FromNewest(Start, j - n)
    BY <2>1 DEF HoldsNotes
  <2>6. h \in Int /\ 0 <= h /\ h <= Lines - 1
    BY <1>0, <1>3 DEF Slot
  <2>. HIDE DEF b, p, h
  <2>7. HeldIn(p) = Least(h + (n + 1), Lines - 1)
    BY <1>0, <2>4, <2>5, <2>6 DEF Least
  <2>8. ASSUME NEW j \in 1..HeldIn(p)
        PROVE  FromNewest(p, j) = IF j <= n + 1 THEN screen[above + (n + 1) - j + 1]
                                  ELSE FromNewest(Start, j - (n + 1))
    <3>1. CASE j = 1
      BY <2>4, <3>1
    <3>2. CASE j # 1
      <4>1. j \in 2..(Lines - 1) /\ j - 1 \in 1..HeldIn(b)
        BY <1>0, <2>5, <2>6, <2>7, <3>2 DEF Least
      <4>2. FromNewest(p, j) = IF j - 1 <= n THEN screen[above + n - (j - 1) + 1]
                               ELSE FromNewest(Start, (j - 1) - n)
        BY <2>4, <2>5, <4>1
      <4>3. /\ above + n - (j - 1) + 1 = above + (n + 1) - j + 1
            /\ (j - 1) - n = j - (n + 1)
            /\ j - 1 <= n <=> j <= n + 1
        BY <4>1
      <4>4. QED
        BY <4>2, <4>3
    <3>3. QED
      BY <3>1, <3>2
  <2>9. QED
    BY <2>4, <2>7, <2>8 DEF HoldsNotes, h, p
<1>. HIDE DEF S
<1>6. \A n \in Nat : n \in S
  BY <1>4, <1>5, NatSteps
<1>7. QED
  BY <1>1, <1>6 DEF S

-----------------------------------------------------------------------------
(* A window, and where a move takes it. *)
Windows == [in : Slot, top : Slot, curr : Slot, lines : Int,
            screen : [Scroll!Row -> Int], shown : [Scroll!Row -> Int], left : Int]

(* "lines" says how far above the screen the window is, and it is not above
   the oldest line. *)
Placed(w) ==
  /\ w.lines = Scroll!Back(w.in, w.curr)
  /\ w.lines <= Scroll!Back(w.in, w.top)

SetAt(w, c, n) == [w EXCEPT !.curr = c, !.lines = n]

LEMMA SetAtIs ==
  ASSUME NEW w \in Windows, NEW c \in Slot, NEW n \in Int
  PROVE  /\ SetAt(w, c, n) \in Windows
         /\ SetAt(w, c, n).curr = c /\ SetAt(w, c, n).lines = n
         /\ SetAt(w, c, n).in = w.in /\ SetAt(w, c, n).top = w.top
         /\ SetAt(w, c, n).screen = w.screen /\ SetAt(w, c, n).shown = w.shown
         /\ SetAt(w, c, n).left = w.left
BY DEF SetAt, Windows

(* A move ends between the oldest line and the screen, and still says how far
   above the screen it is; a move by softback_lines ends on the screen. *)
LEMMA MovedIs ==
  ASSUME NEW w \in Windows, Placed(w), NEW delta \in (-Lines)..Lines
  PROVE  \E c \in Slot, n \in Int :
           /\ Scroll!Moved(w, delta) = SetAt(w, c, n)
           /\ n = Scroll!Back(w.in, c) /\ n <= Scroll!Back(w.in, w.top)
           /\ delta = w.lines => c = w.in /\ n = 0
<1>0. Lines \in Nat /\ Lines > 0 /\ delta \in Int /\ -Lines <= delta /\ delta <= Lines
  BY RowsAssumption
<1>1. w.in \in Slot /\ w.top \in Slot /\ w.curr \in Slot
  BY DEF Windows
<1>2. /\ w.in \in Int /\ 0 <= w.in /\ w.in < Lines
      /\ w.top \in Int /\ 0 <= w.top /\ w.top < Lines
      /\ w.curr \in Int /\ 0 <= w.curr /\ w.curr < Lines
  BY <1>0, <1>1 DEF Slot
<1>3. ASSUME NEW c \in Slot
      PROVE  Scroll!Back(w.in, c) = IF c <= w.in THEN w.in - c ELSE w.in + Lines - c
  <2>1. c \in 0..Lines
    BY <1>0 DEF Slot
  <2>2. QED
    BY <1>1, <2>1, BackIs
<1>4. /\ w.lines = IF w.curr <= w.in THEN w.in - w.curr ELSE w.in + Lines - w.curr
      /\ w.lines <= IF w.top <= w.in THEN w.in - w.top ELSE w.in + Lines - w.top
  BY <1>1, <1>3 DEF Placed
<1> DEFINE n == w.curr + delta
           lines == w.lines - delta
           Good(c, m) == /\ c \in Int /\ 0 <= c /\ c < Lines /\ m \in Int
                         /\ m = (IF c <= w.in THEN w.in - c ELSE w.in + Lines - c)
                         /\ m <= (IF w.top <= w.in THEN w.in - w.top
                                  ELSE w.in + Lines - w.top)
                         /\ delta = w.lines => c = w.in /\ m = 0
<1> SUFFICES \E c, m : Scroll!Moved(w, delta) = SetAt(w, c, m) /\ Good(c, m)
  <2>1. PICK c, m : Scroll!Moved(w, delta) = SetAt(w, c, m) /\ Good(c, m)
    OBVIOUS
  <2>2. c \in Slot /\ m \in Int
    BY <1>0, <2>1 DEF Slot
  <2>3. /\ m = Scroll!Back(w.in, c) /\ m <= Scroll!Back(w.in, w.top)
        /\ delta = w.lines => c = w.in /\ m = 0
    BY <1>1, <1>3, <2>1, <2>2
  <2>4. QED
    BY <2>1, <2>2, <2>3
<1>5. CASE delta < 0 /\ w.curr < w.top /\ n < 0 /\ n + Lines < w.top
  <2>1. Scroll!Moved(w, delta) = SetAt(w, w.top, lines - (w.top - (n + Lines)))
    BY <1>0, <1>2, <1>5 DEF Scroll!Moved, Scroll!Stopped, SetAt
  <2>2. Good(w.top, lines - (w.top - (n + Lines)))
    BY <1>0, <1>2, <1>4, <1>5
  <2>3. QED
    BY <2>1, <2>2
<1>6. CASE delta < 0 /\ w.curr < w.top /\ n < 0 /\ ~(n + Lines < w.top)
  <2>1. Scroll!Moved(w, delta) = SetAt(w, n + Lines, lines)
    BY <1>0, <1>2, <1>6 DEF Scroll!Moved, SetAt
  <2>2. Good(n + Lines, lines)
    BY <1>0, <1>2, <1>4, <1>6
  <2>3. QED
    BY <2>1, <2>2
<1>7. CASE delta < 0 /\ w.curr >= w.top /\ n < w.top
  <2>1. Scroll!Moved(w, delta) = SetAt(w, w.top, lines - (w.top - n))
    BY <1>0, <1>2, <1>7 DEF Scroll!Moved, Scroll!Stopped, SetAt
  <2>2. Good(w.top, lines - (w.top - n))
    BY <1>0, <1>2, <1>4, <1>7
  <2>3. QED
    BY <2>1, <2>2
<1>8. CASE delta >= 0 /\ w.curr > w.in /\ n >= Lines /\ n - Lines > w.in
  <2>1. Scroll!Moved(w, delta) = SetAt(w, w.in, 0)
    BY <1>0, <1>2, <1>8 DEF Scroll!Moved, SetAt
  <2>2. Good(w.in, 0)
    BY <1>0, <1>2, <1>4, <1>8
  <2>3. QED
    BY <2>1, <2>2
<1>9. CASE delta >= 0 /\ w.curr > w.in /\ n >= Lines /\ ~(n - Lines > w.in)
  <2>1. Scroll!Moved(w, delta) = SetAt(w, n - Lines, lines)
    BY <1>0, <1>2, <1>9 DEF Scroll!Moved, SetAt
  <2>2. Good(n - Lines, lines)
    BY <1>0, <1>2, <1>4, <1>9
  <2>3. QED
    BY <2>1, <2>2
<1>10. CASE delta >= 0 /\ w.curr <= w.in /\ n > w.in
  <2>1. Scroll!Moved(w, delta) = SetAt(w, w.in, 0)
    BY <1>0, <1>2, <1>10 DEF Scroll!Moved, SetAt
  <2>2. Good(w.in, 0)
    BY <1>0, <1>2, <1>4, <1>10
  <2>3. QED
    BY <2>1, <2>2
<1>11. CASE /\ ~(delta < 0 /\ w.curr < w.top /\ n < 0)
            /\ ~(delta < 0 /\ w.curr >= w.top /\ n < w.top)
            /\ ~(delta >= 0 /\ w.curr > w.in /\ n >= Lines)
            /\ ~(delta >= 0 /\ w.curr <= w.in /\ n > w.in)
  <2>1. Scroll!Moved(w, delta) = SetAt(w, n, lines)
    BY <1>0, <1>2, <1>11 DEF Scroll!Moved, SetAt
  <2>2. Good(n, lines)
    BY <1>0, <1>2, <1>4, <1>11
  <2>3. QED
    BY <2>1, <2>2
<1>12. QED
  BY <1>5, <1>6, <1>7, <1>8, <1>9, <1>10, <1>11

-----------------------------------------------------------------------------
(* What a window shows. *)
ViewOf(w, buf) == [r \in Scroll!Row |-> Scroll!View(w.curr, w.in, buf, w.screen, r)]

Sees(w, buf) == w \in Windows /\ Placed(w) /\ w.shown = ViewOf(w, buf)

AtHome(w) == w.curr = w.in /\ w.lines = 0

(* The sizes, as the proofs below use them. *)
LEMMA RowsAre ==
  /\ ConsoleRows \in Nat /\ ConsoleRows > 0
  /\ Scroll!Row = 1..ConsoleRows
  /\ Lines \in Nat /\ Lines > 0
BY RowsAssumption DEF Scroll!Row

LEMMA DistanceIs ==
  ASSUME NEW i \in Slot, NEW c \in Slot
  PROVE  /\ (i + Lines - c) % Lines = Scroll!Back(i, c)
         /\ Scroll!Back(i, c) = IF c <= i THEN i - c ELSE i + Lines - c
         /\ Scroll!Back(i, c) \in Slot
         /\ Scroll!Back(i, c) \in Int /\ 0 <= Scroll!Back(i, c) /\ Scroll!Back(i, c) < Lines
         /\ Scroll!Back(i, c) = 0 => c = i
<1>1. c \in 0..Lines
  BY RowsAre DEF Slot
<1>2. /\ Scroll!Back(i, c) = IF c <= i THEN i - c ELSE i + Lines - c
      /\ Scroll!Back(i, c) \in Slot
  BY <1>1, BackIs
<1>3. i \in Int /\ i < Lines /\ c \in Int /\ 0 <= c
  BY RowsAre DEF Slot
<1>4. Scroll!Back(i, c) \in Int /\ 0 <= Scroll!Back(i, c) /\ Scroll!Back(i, c) < Lines
  BY RowsAre, <1>2 DEF Slot
<1>5. (i + Lines - c) % Lines = Scroll!Back(i, c)
  BY DEF Scroll!Back
<1>6. Scroll!Back(i, c) = 0 => c = i
  BY RowsAre, <1>2, <1>3, SMT DEF Slot
<1>7. QED
  BY <1>2, <1>4, <1>5, <1>6

LEMMA ViewIs ==
  ASSUME NEW i \in Slot, NEW c \in Slot, NEW buf \in [Slot -> Int],
         NEW scr \in [Scroll!Row -> Int], NEW r \in Scroll!Row
  PROVE  /\ Scroll!View(c, i, buf, scr, r) \in Int
         /\ c = i => Scroll!View(c, i, buf, scr, r) = scr[r]
<1> DEFINE d == Scroll!Back(i, c)
<1>1. /\ (i + Lines - c) % Lines = d /\ d \in Int /\ 0 <= d /\ d < Lines
      /\ d = IF c <= i THEN i - c ELSE i + Lines - c
  BY DistanceIs
<1>2. r \in Int /\ 1 <= r /\ r <= ConsoleRows
  BY RowsAre
<1>3. Scroll!View(c, i, buf, scr, r) =
        IF r <= d THEN buf[(c + r - 1) % Lines] ELSE scr[r - d]
  BY <1>1, Zenon DEF Scroll!View
<1>4. c \in Int /\ 0 <= c /\ c < Lines /\ i \in Int
  BY RowsAre DEF Slot
<1>. HIDE DEF d
<1>5. ASSUME r <= d PROVE (c + r - 1) % Lines \in Slot
  <2>1. c + r - 1 \in Int /\ 0 <= c + r - 1 /\ c + r - 1 < Lines + Lines
    BY RowsAre, <1>1, <1>2, <1>4, <1>5
  <2>2. QED
    BY RowsAre, <2>1, WrapOnce DEF Slot
<1>6. ASSUME ~(r <= d) PROVE r - d \in Scroll!Row
  <2>1. d \in Int /\ 0 <= d
    BY <1>1
  <2>2. r - d \in 1..ConsoleRows
    BY RowsAre, <1>2, <1>6, <2>1
  <2>3. QED
    BY RowsAre, <2>2
<1>7. c = i => d = 0
  BY <1>1, <1>4
<1>8. c = i => Scroll!View(c, i, buf, scr, r) = scr[r]
  BY <1>2, <1>3, <1>7
<1>9. QED
  BY <1>3, <1>5, <1>6, <1>8

(* A window that is at home shows the screen. *)
LEMMA HomeShows ==
  ASSUME NEW w \in Windows, AtHome(w), NEW buf \in [Slot -> Int]
  PROVE  ViewOf(w, buf) = w.screen /\ Placed(w)
<1>1. /\ w.in \in Slot /\ w.curr \in Slot /\ w.top \in Slot
      /\ w.screen \in [Scroll!Row -> Int]
  BY DEF Windows
<1>2. \A r \in Scroll!Row : Scroll!View(w.curr, w.in, buf, w.screen, r) = w.screen[r]
  BY <1>1, ViewIs DEF AtHome
<1>3. ViewOf(w, buf) = w.screen
  BY <1>1, <1>2 DEF ViewOf
<1>4. Scroll!Back(w.in, w.in) = 0 /\ 0 <= Scroll!Back(w.in, w.top)
  <2>1. w.in \in Int
    BY <1>1 DEF Slot
  <2>2. QED
    BY <1>1, <2>1, DistanceIs
<1>5. QED
  BY <1>3, <1>4 DEF Placed, AtHome

(* A move draws the rows that change: what is shown is what the new window sees. *)
LEMMA MoveIs ==
  ASSUME NEW w, Sees(w, ring), ring \in [Slot -> Int], NEW delta \in (-Lines)..Lines
  PROVE  LET m == Scroll!Move(w, delta)
         IN  /\ Sees(m, ring)
             /\ m.in = w.in /\ m.top = w.top /\ m.screen = w.screen /\ m.left = w.left
             /\ delta = w.lines => AtHome(m)
<1>1. w \in Windows /\ Placed(w) /\ w.shown = ViewOf(w, ring)
  BY DEF Sees
<1>2. PICK c \in Slot, n \in Int :
        /\ Scroll!Moved(w, delta) = SetAt(w, c, n)
        /\ n = Scroll!Back(w.in, c) /\ n <= Scroll!Back(w.in, w.top)
        /\ delta = w.lines => c = w.in /\ n = 0
  BY <1>1, MovedIs
<1> DEFINE v == SetAt(w, c, n)
           Was(r) == Scroll!View(w.curr, w.in, ring, w.screen, r)
           New(r) == Scroll!View(v.curr, v.in, ring, v.screen, r)
           sh == [r \in Scroll!Row |-> IF New(r) = Was(r) THEN w.shown[r] ELSE New(r)]
           m == Scroll!Move(w, delta)
<1>3. m = [v EXCEPT !.shown = sh]
  BY <1>2, Zenon DEF Scroll!Move
<1>4. /\ v \in Windows /\ v.curr = c /\ v.lines = n /\ v.in = w.in /\ v.top = w.top
      /\ v.screen = w.screen /\ v.left = w.left
  BY <1>1, SetAtIs
<1>5. \A r \in Scroll!Row : w.shown[r] = Was(r)
  BY <1>1 DEF ViewOf
<1>6. sh = [r \in Scroll!Row |-> New(r)]
  BY <1>5
<1>7. sh \in [Scroll!Row -> Int]
  <2>1. /\ v.curr \in Slot /\ v.in \in Slot /\ v.screen \in [Scroll!Row -> Int]
    BY <1>4 DEF Windows
  <2>2. \A r \in Scroll!Row : New(r) \in Int
    BY <2>1, ViewIs
  <2>3. QED
    BY <1>6, <2>2
<1>. HIDE DEF v, sh
<1>8. /\ m \in Windows /\ m.shown = sh
      /\ m.curr = c /\ m.lines = n /\ m.in = w.in /\ m.top = w.top
      /\ m.screen = w.screen /\ m.left = w.left
  BY <1>3, <1>4, <1>7 DEF Windows
<1>9. m.shown = ViewOf(m, ring)
  BY <1>4, <1>6, <1>8 DEF ViewOf
<1>10. QED
  BY <1>2, <1>8, <1>9 DEF Sees, Placed, AtHome

LEMMA HomeIs ==
  ASSUME NEW w, Sees(w, ring), ring \in [Slot -> Int]
  PROVE  LET h == Scroll!Home(w)
         IN  /\ Sees(h, ring) /\ AtHome(h)
             /\ h.in = w.in /\ h.top = w.top /\ h.screen = w.screen /\ h.left = w.left
<1>1. w \in Windows /\ Placed(w) /\ w.in \in Slot /\ w.curr \in Slot
  BY DEF Sees, Windows
<1>2. /\ w.lines = Scroll!Back(w.in, w.curr)
      /\ w.lines \in Int /\ 0 <= w.lines /\ w.lines < Lines
      /\ w.lines = 0 => w.curr = w.in
  BY <1>1, DistanceIs DEF Placed
<1>3. CASE w.lines = 0
  BY <1>2, <1>3 DEF Scroll!Home, AtHome
<1>4. CASE w.lines # 0
  <2>1. w.lines \in (-Lines)..Lines
    BY RowsAre, <1>2
  <2>2. Scroll!Home(w) = Scroll!Move(w, w.lines)
    BY <1>4 DEF Scroll!Home
  <2>3. QED
    BY <2>1, <2>2, MoveIs
<1>5. QED
  BY <1>3, <1>4

(* The logo goes: its rows take back the newest lines of the ring. *)
LEMMA NoLogoIs ==
  ASSUME NEW w, Sees(w, ring), AtHome(w), w.left = Scroll!Back(w.in, w.top),
         ring \in [Slot -> Int]
  PROVE  LET taken == Least(w.left, Logo)
             v == Scroll!NoLogo(w)
         IN  /\ Sees(v, ring) /\ AtHome(v)
             /\ v.in = Scroll!Back(w.in, taken) /\ v.top = w.top
             /\ v.left = w.left - taken /\ v.left = Scroll!Back(v.in, v.top)
             /\ v.screen = [r \in Scroll!Row |->
                              IF r <= Logo /\ r > Logo - taken
                              THEN ring[Scroll!Back(w.in, Logo - r + 1)] ELSE w.screen[r]]
<1> DEFINE have == Scroll!Back(w.in, w.top)
           taken == Least(w.left, Logo)
           i == Scroll!Back(w.in, taken)
           scr == [r \in Scroll!Row |->
                     IF r <= Logo /\ r > Logo - taken
                     THEN ring[Scroll!Back(w.in, Logo - r + 1)] ELSE w.screen[r]]
           sh == [r \in Scroll!Row |-> IF r <= Logo THEN scr[r] ELSE w.shown[r]]
           v == Scroll!NoLogo(w)
<1>1. /\ w \in Windows /\ w.in \in Slot /\ w.top \in Slot /\ w.curr = w.in /\ w.lines = 0
      /\ w.screen \in [Scroll!Row -> Int] /\ w.shown = w.screen
  BY HomeShows DEF Sees, Windows, AtHome
<1>2. Logo \in Nat /\ Logo <= ConsoleRows
  BY RowsAre, RowsAssumption
<1>3. /\ (w.in + Lines - w.top) % Lines = have
      /\ have = IF w.top <= w.in THEN w.in - w.top ELSE w.in + Lines - w.top
      /\ have \in Int /\ 0 <= have /\ have < Lines
  BY <1>1, DistanceIs
<1>4. /\ taken = IF have <= Logo THEN have ELSE Logo
      /\ taken \in Int /\ 0 <= taken /\ taken <= have /\ taken <= Logo
  BY <1>2, <1>3 DEF Least
<1>5. v = [w EXCEPT !.in = i, !.curr = i, !.screen = scr, !.shown = sh,
                    !.left = w.left - taken]
  <2>. HIDE DEF have
  <2>1. taken = Scroll!AtMost((w.in + Lines - w.top) % Lines, Logo)
    BY <1>3, <1>4 DEF Scroll!AtMost
  <2>2. QED
    BY <2>1, Zenon DEF Scroll!NoLogo
<1>6. i \in Slot /\ i = IF taken <= w.in THEN w.in - taken ELSE w.in + Lines - taken
  <2>1. taken \in 0..Lines
    BY RowsAre, <1>3, <1>4
  <2>2. QED
    BY <1>1, <2>1, BackIs
<1>7. scr \in [Scroll!Row -> Int]
  <2>1. ASSUME NEW r \in Scroll!Row, r <= Logo, r > Logo - taken
        PROVE  ring[Scroll!Back(w.in, Logo - r + 1)] \in Int
    <3>1. Logo - r + 1 \in 0..Lines
      BY RowsAre, <1>2, <1>3, <1>4, <2>1
    <3>2. QED
      BY <1>1, <3>1, BackIs
  <2>2. QED
    BY <1>1, <2>1
<1>8. sh = scr
  <2>1. \A r \in Scroll!Row : ~(r <= Logo) => scr[r] = w.shown[r]
    BY <1>1
  <2>2. \A r \in Scroll!Row : sh[r] = scr[r]
    BY <2>1
  <2>3. QED
    BY <2>2
<1>9. w.left - taken \in Int /\ w.left = have
  BY <1>3, <1>4
<1>. HIDE DEF scr, sh, i, taken, have, v
<1>10. /\ v \in Windows /\ v.in = i /\ v.curr = i /\ v.screen = scr /\ v.shown = sh
       /\ v.left = w.left - taken /\ v.top = w.top /\ v.lines = 0
  <2>1. sh \in [Scroll!Row -> Int]
    BY <1>7, <1>8
  <2>2. QED
    BY <1>1, <1>5, <1>6, <1>7, <1>9, <2>1 DEF Windows
<1>11. AtHome(v)
  BY <1>10 DEF AtHome
<1>12. Sees(v, ring)
  BY <1>8, <1>10, <1>11, HomeShows DEF Sees
<1>13. v.left = Scroll!Back(v.in, v.top)
  <2>1. Scroll!Back(i, w.top) = IF w.top <= i THEN i - w.top ELSE i + Lines - w.top
    BY <1>1, <1>6, DistanceIs
  <2>2. /\ w.in \in Int /\ 0 <= w.in /\ w.in < Lines
        /\ w.top \in Int /\ 0 <= w.top /\ w.top < Lines
    BY RowsAre, <1>1 DEF Slot
  <2>3. have - taken = Scroll!Back(i, w.top)
    <3>1. /\ have = IF w.top <= w.in THEN w.in - w.top ELSE w.in + Lines - w.top
          /\ taken \in Int /\ 0 <= taken /\ taken <= have
          /\ i = IF taken <= w.in THEN w.in - taken ELSE w.in + Lines - taken
          /\ Lines \in Int
      BY RowsAre, <1>3, <1>4, <1>6
    <3>2. QED
      BY <2>1, <2>2, <3>1
  <2>4. QED
    BY <1>9, <1>10, <2>3
<1>14. QED
  BY <1>10, <1>11, <1>12, <1>13 DEF v, i, scr, taken

-----------------------------------------------------------------------------
(* The pointers of the scrollback, and what is shown. *)
Now == Scroll!Window

(* The inductive invariant: the pointers and the texts keep their types, "left"
   counts what is between top and in, a logo that is shown means that nothing
   was scrolled, and, but for what is printed into a scrolled back window, the
   frame buffer shows the window. *)
ScrollInv ==
  /\ Now \in Windows /\ ring \in [Slot -> Int] /\ last \in Int
  /\ left = Scroll!Back(in, top)
  /\ logo => AtHome(Now) /\ ~astray
  /\ ~astray => Sees(Now, ring)

NowIs ==
  /\ Now.in = in /\ Now.top = top /\ Now.curr = curr /\ Now.lines = softback_lines
  /\ Now.screen = screen /\ Now.shown = shown /\ Now.left = left

LEMMA NowHolds == NowIs
BY DEF NowIs, Now, Scroll!Window

LEMMA BecomesIs ==
  ASSUME NEW w \in Windows, Scroll!Becomes(w)
  PROVE  Now' = w
<1>1. w = [in |-> w.in, top |-> w.top, curr |-> w.curr, lines |-> w.lines,
           screen |-> w.screen, shown |-> w.shown, left |-> w.left]
  BY DEF Windows
<1>2. QED
  BY <1>1, Zenon DEF Now, Scroll!Window, Scroll!Becomes

LEMMA ScrollInit == Scroll!Init => ScrollInv
<1> SUFFICES ASSUME Scroll!Init PROVE ScrollInv
  OBVIOUS
<1>1. Lines \in Nat /\ Lines > 0 /\ 0 \in Slot /\ Slot = 0..(Lines - 1)
  BY RowsAre DEF Slot
<1>2. screen \in [Scroll!Row -> Int] /\ shown = screen
  BY RowsAre DEF Scroll!Init, Scroll!Blank
<1>3. ring \in [Slot -> Int]
  BY DEF Scroll!Init, Scroll!Blank, Slot
<1>4. in = 0 /\ top = 0 /\ curr = 0 /\ softback_lines = 0 /\ left = 0 /\ last \in Int
  BY RowsAre DEF Scroll!Init
<1>5. Now \in Windows
  BY <1>1, <1>2, <1>4 DEF Now, Scroll!Window, Windows
<1>6. AtHome(Now)
  BY <1>4, NowHolds DEF AtHome, NowIs
<1>7. Sees(Now, ring)
  BY <1>2, <1>3, <1>5, <1>6, HomeShows, NowHolds DEF Sees, NowIs
<1>8. Scroll!Back(in, top) = 0
  <2>1. Scroll!Back(0, 0) = IF 0 <= 0 THEN 0 - 0 ELSE 0 + Lines - 0
    BY <1>1, DistanceIs
  <2>2. QED
    BY <1>4, <2>1
<1>9. ~astray
  BY DEF Scroll!Init
<1>10. QED
  BY <1>3, <1>4, <1>5, <1>6, <1>7, <1>8, <1>9 DEF ScrollInv

(* What the terminal does to the screen starts from a window that sees it, and is
   at home but for the case that goes astray. *)
LEMMA HiddenIs ==
  ASSUME ScrollInv, Scroll!Outputs
  PROVE  /\ ~astray /\ UNCHANGED <<on, logo>>
         /\ Sees(Scroll!Hidden, ring)
         /\ Scroll!Hidden.in = in /\ Scroll!Hidden.top = top
         /\ Scroll!Hidden.screen = screen /\ Scroll!Hidden.left = left
         /\ ~astray' => AtHome(Scroll!Hidden)
         /\ logo => ~astray'
<1> DEFINE w == Scroll!Hidden
<1>1. /\ Now \in Windows /\ ring \in [Slot -> Int] /\ (logo => AtHome(Now)) /\ NowIs
      /\ in \in Slot
  BY NowHolds DEF ScrollInv, NowIs, Windows
<1>2. /\ ~astray /\ UNCHANGED <<on, logo>> /\ astray' = (~deccm /\ softback_lines # 0)
  BY Zenon DEF Scroll!Outputs
<1>3. Sees(Now, ring)
  BY <1>2 DEF ScrollInv
<1>4. CASE deccm
  <2>1. w = Scroll!Home(Now)
    BY <1>4 DEF Now, Scroll!Hidden
  <2>. HIDE DEF w
  <2>2. QED
    BY <1>1, <1>2, <1>3, <1>4, <2>1, HomeIs DEF NowIs, w
<1>5. CASE ~deccm
  <2>1. w = Now
    BY <1>5 DEF Now, Scroll!Hidden
  <2>2. ASSUME ~astray' PROVE AtHome(w)
    <3>1. softback_lines = 0
      BY <1>2, <1>5, <2>2, Zenon
    <3>2. Now.lines = Scroll!Back(in, curr) /\ Now.lines = 0 /\ curr \in Slot
      BY <1>1, <1>3, <3>1 DEF Sees, Placed, NowIs, Windows
    <3>3. curr = in
      BY <1>1, <3>2, DistanceIs
    <3>4. QED
      BY <1>1, <2>1, <3>2, <3>3 DEF AtHome, NowIs
  <2>3. logo => ~astray'
    <3>1. logo => softback_lines = 0
      BY <1>1 DEF AtHome, NowIs
    <3>2. QED
      BY <1>2, <3>1, Zenon
  <2>. HIDE DEF w
  <2>4. QED
    BY <1>1, <1>2, <1>3, <2>1, <2>2, <2>3 DEF NowIs, w
<1>6. QED
  BY <1>4, <1>5

(* The window that fbcon_redraw leaves; at home it shows the new screen. *)
LEMMA DrawnIs ==
  ASSUME ring \in [Slot -> Int], NEW w, Sees(w, ring), w.screen = screen,
         NEW scr \in [Scroll!Row -> Int], NEW fresh
  PROVE  LET d == Scroll!Drawn(w, scr, fresh)
         IN  /\ d \in Windows /\ d.in = w.in /\ d.top = w.top /\ d.curr = w.curr
             /\ d.lines = w.lines /\ d.screen = scr /\ d.left = w.left
             /\ AtHome(w) => d.shown = scr
<1> DEFINE sh == [r \in Scroll!Row |->
                    IF r \notin fresh /\ scr[r] = screen[r] THEN w.shown[r] ELSE scr[r]]
           d == Scroll!Drawn(w, scr, fresh)
<1>1. w \in Windows /\ w.shown = ViewOf(w, ring)
  BY DEF Sees
<1>2. d = [w EXCEPT !.screen = scr, !.shown = sh]
  BY Zenon DEF Scroll!Drawn
<1>3. sh \in [Scroll!Row -> Int]
  BY <1>1 DEF Windows
<1>4. AtHome(w) => sh = scr
  <2>1. AtHome(w) => w.shown = screen
    BY <1>1, HomeShows
  <2>2. QED
    BY <2>1
<1>. HIDE DEF sh, d
<1>5. /\ d \in Windows /\ d.in = w.in /\ d.top = w.top /\ d.curr = w.curr
      /\ d.lines = w.lines /\ d.screen = scr /\ d.left = w.left /\ d.shown = sh
  BY <1>1, <1>2, <1>3 DEF Windows
<1>6. QED
  BY <1>4, <1>5 DEF d

(* The window the new state has, when the pointers keep what is held. *)
LEMMA LeavesWindow ==
  ASSUME ScrollInv, Scroll!Outputs, last' \in Int, ring' \in [Slot -> Int],
         NEW x \in Windows, Scroll!Becomes(x),
         x.left = Scroll!Back(x.in, x.top),
         AtHome(Scroll!Hidden) => AtHome(x) /\ x.shown = x.screen
  PROVE  ScrollInv'
<1>1. /\ ~astray' => AtHome(Scroll!Hidden)
      /\ logo' => ~astray'
  BY HiddenIs
<1>2. /\ Now' = x /\ in' = x.in /\ top' = x.top /\ left' = x.left
  BY BecomesIs DEF Scroll!Becomes
<1>3. ~astray' => Sees(x, ring')
  BY <1>1, HomeShows DEF Sees
<1>4. QED
  BY <1>1, <1>2, <1>3 DEF ScrollInv

(* The screen after SM_UP, and what Output writes. *)
MovedUp(t, b, count, text) ==
  [r \in Scroll!Row |->
     CASE r <= t \/ r > b -> screen[r]
       [] r > t /\ r <= b - count -> screen[r + count]
       [] OTHER -> text[r]]

TextOf(count, r) == ((last + r - (ConsoleRows - count) - 1) % Texts) + 1

(* What scrolls up and out of a region is noted. *)
LEMMA UpIs ==
  ASSUME ScrollInv, NEW t \in Nat, NEW b \in Scroll!Row, NEW count \in Scroll!Row,
         NEW text \in [Scroll!Row -> Int], Scroll!Up(t, b, count, text), last' \in Int
  PROVE  /\ t + count < b
         /\ screen' = MovedUp(t, b, count, text) /\ screen' \in [Scroll!Row -> Int]
         /\ UNCHANGED <<on, logo>>
         /\ on => /\ HoldsNotes(Scroll!Noted(t, count), t, count)
                  /\ Start' = Scroll!Noted(t, count)
                  /\ left' = Least(left + count, Lines - 1)
                  /\ gone' = [k \in 1..(Lines - 1) |->
                                IF k <= count THEN screen[t + count - k + 1]
                                ELSE gone[k - count]]
         /\ ScrollInv'
<1> DEFINE w == Scroll!Hidden
           scr == MovedUp(t, b, count, text)
           fresh == (b - count + 1)..b
           drawn == Scroll!Drawn(w, scr, fresh)
           noted == Scroll!Noted(t, count)
<1>1. /\ Now \in Windows /\ ring \in [Slot -> Int]
      /\ left = Scroll!Back(in, top) /\ NowIs
      /\ screen \in [Scroll!Row -> Int] /\ in \in Slot /\ top \in Slot
  BY NowHolds DEF ScrollInv, NowIs, Windows
<1>2. /\ t + count < b /\ Scroll!Outputs
      /\ on => gone' = [k \in 1..(Lines - 1) |->
                          IF k <= count THEN screen[t + count - k + 1]
                          ELSE gone[k - count]]
  BY Zenon DEF Scroll!Up
<1>3. /\ on => /\ ring' = noted.ring
               /\ Scroll!Becomes([drawn EXCEPT
                    !.in = noted.in, !.top = noted.top, !.curr = noted.in,
                    !.left = Least(left + count, Lines - 1)])
      /\ ~on => ring' = ring /\ Scroll!Becomes(drawn)
  <2>1. Least(left + count, Lines - 1) = Scroll!AtMost(left + count, Lines - 1)
    BY Zenon DEF Least, Scroll!AtMost
  <2>2. QED
    BY <2>1, Zenon DEF Scroll!Up, MovedUp
<1>4. count \in Nat /\ count > 0 /\ b \in Nat /\ b <= ConsoleRows
  BY RowsAre
<1>5. scr \in [Scroll!Row -> Int]
  <2>1. ASSUME NEW r \in Scroll!Row, r <= b - count
        PROVE  screen[r + count] \in Int
    <3>1. r + count \in Scroll!Row
      BY RowsAre, <1>4, <2>1
    <3>2. QED
      BY <1>1, <3>1
  <2>2. QED
    BY <1>1, <2>1 DEF MovedUp
<1>6. /\ Sees(w, ring) /\ w.in = in /\ w.top = top /\ w.screen = screen /\ w.left = left
      /\ UNCHANGED <<on, logo>>
  BY <1>2, HiddenIs
<1>. HIDE DEF w, scr, fresh
<1>7. /\ drawn \in Windows /\ drawn.in = in /\ drawn.top = top /\ drawn.curr = w.curr
      /\ drawn.lines = w.lines /\ drawn.screen = scr /\ drawn.left = left
      /\ AtHome(w) => drawn.shown = scr
  BY <1>1, <1>5, <1>6, DrawnIs
<1>. HIDE DEF drawn
<1>8. CASE on
  <2>1. Start \in Buffer
    BY <1>1 DEF Start, Buffer
  <2>2. \A k \in 1..count : screen[t + k] \in Int
    <3>1. \A k \in 1..count : t + k \in Scroll!Row
      BY RowsAre, <1>2, <1>4
    <3>2. QED
      BY <1>1, <3>1
  <2>3. HoldsNotes(noted, t, count)
    BY <1>4, <2>1, <2>2, NotedHolds
  <2>4. noted \in Buffer
    BY <2>3 DEF HoldsNotes
  <2>5. HeldIn(noted) = Least(left + count, Lines - 1)
    <3>1. HeldIn(Start) = left
      BY <1>1 DEF HeldIn, Start
    <3>2. QED
      BY <2>3, <3>1 DEF HoldsNotes
  <2> DEFINE h == Least(left + count, Lines - 1)
             x == [drawn EXCEPT !.in = noted.in, !.top = noted.top, !.curr = noted.in,
                                !.left = h]
  <2>6. noted.in \in Slot /\ noted.top \in Slot /\ noted.ring \in [Slot -> Int]
        /\ noted = [ring |-> noted.ring, in |-> noted.in, top |-> noted.top]
    BY <2>4 DEF Buffer
  <2>7. h = Scroll!Back(noted.in, noted.top) /\ h \in Int
    BY <2>5, <2>6, DistanceIs DEF HeldIn
  <2>8. Scroll!Becomes(x) /\ ring' = noted.ring
    BY <1>3, <1>8
  <2>. HIDE DEF h, noted
  <2>9. /\ x \in Windows /\ x.in = noted.in /\ x.top = noted.top /\ x.curr = noted.in
        /\ x.left = h /\ x.screen = scr /\ x.shown = drawn.shown /\ x.lines = w.lines
    BY <1>7, <2>6, <2>7 DEF Windows
  <2>. HIDE DEF x
  <2>10. in' = noted.in /\ top' = noted.top /\ screen' = scr /\ left' = h
    BY <2>8, <2>9, Zenon DEF Scroll!Becomes
  <2>11. ring' \in [Slot -> Int]
    BY <2>6, <2>8
  <2>12. AtHome(w) => AtHome(x) /\ x.shown = x.screen
    BY <1>7, <2>9 DEF AtHome
  <2>13. ScrollInv'
    BY <1>2, <2>7, <2>8, <2>9, <2>11, <2>12, LeavesWindow DEF w
  <2>14. Start' = noted
    BY <2>6, <2>8, <2>10 DEF Start
  <2>15. QED
    BY <1>2, <1>5, <1>6, <1>8, <2>3, <2>10, <2>13, <2>14 DEF h, scr, noted
<1>9. CASE ~on
  <2>1. Scroll!Becomes(drawn) /\ ring' = ring /\ screen' = scr
    BY <1>3, <1>7, <1>9 DEF Scroll!Becomes
  <2>2. AtHome(w) => AtHome(drawn) /\ drawn.shown = drawn.screen
    BY <1>6, <1>7 DEF AtHome
  <2>3. ScrollInv'
    BY <1>1, <1>2, <1>7, <2>1, <2>2, LeavesWindow DEF w
  <2>4. QED
    BY <1>2, <1>5, <1>6, <1>9, <2>1, <2>3 DEF scr
<1>10. QED
  BY <1>8, <1>9

(* What is written, cleared or moved down leaves the ring alone. *)
LEMMA EditIs ==
  ASSUME ScrollInv, Scroll!Outputs, last' \in Int, ring' = ring,
         NEW scr \in [Scroll!Row -> Int], NEW fresh,
         Scroll!Becomes(Scroll!Drawn(Scroll!Hidden, scr, fresh))
  PROVE  ScrollInv' /\ UNCHANGED <<on, in, top, left, logo>>
<1> DEFINE w == Scroll!Hidden
           drawn == Scroll!Drawn(w, scr, fresh)
<1>1. ring \in [Slot -> Int] /\ left = Scroll!Back(in, top)
  BY DEF ScrollInv
<1>2. /\ Sees(w, ring) /\ w.in = in /\ w.top = top /\ w.screen = screen /\ w.left = left
      /\ UNCHANGED <<on, logo>>
  BY HiddenIs
<1>. HIDE DEF w
<1>3. /\ drawn \in Windows /\ drawn.in = in /\ drawn.top = top /\ drawn.curr = w.curr
      /\ drawn.lines = w.lines /\ drawn.screen = scr /\ drawn.left = left
      /\ AtHome(w) => drawn.shown = scr
  BY <1>1, <1>2, DrawnIs
<1>4. Scroll!Becomes(drawn)
  BY DEF w
<1>. HIDE DEF drawn
<1>5. in' = in /\ top' = top /\ left' = left
  BY <1>3, <1>4, Zenon DEF Scroll!Becomes
<1>6. AtHome(w) => AtHome(drawn) /\ drawn.shown = drawn.screen
  BY <1>2, <1>3 DEF AtHome
<1>7. ScrollInv'
  BY <1>1, <1>3, <1>4, <1>6, LeavesWindow DEF w
<1>8. QED
  BY <1>2, <1>5, <1>7

(* What is printed scrolls the screen below the logo. *)
Scrolled(count) ==
  [r \in Scroll!Row |->
     CASE r <= Scroll!Above -> screen[r]
       [] r > Scroll!Above /\ r <= ConsoleRows - count -> screen[r + count]
       [] OTHER -> TextOf(count, r)]

LEMMA OutputIs ==
  ASSUME ScrollInv, NEW count \in Scroll!Row, Scroll!Output(count)
  PROVE  /\ Scroll!Above \in Nat /\ Scroll!Above + count < ConsoleRows
         /\ screen' = Scrolled(count) /\ screen' \in [Scroll!Row -> Int]
         /\ last' = ((last + count - 1) % Texts) + 1
         /\ since' = Scroll!AtMost(since + count, ConsoleRows - Scroll!Above + left')
         /\ UNCHANGED <<on, logo>>
         /\ on => /\ HoldsNotes(Scroll!Noted(Scroll!Above, count), Scroll!Above, count)
                  /\ Start' = Scroll!Noted(Scroll!Above, count)
                  /\ left' = Least(left + count, Lines - 1)
                  /\ gone' = [k \in 1..(Lines - 1) |->
                                IF k <= count THEN screen[Scroll!Above + count - k + 1]
                                ELSE gone[k - count]]
         /\ ScrollInv'
<1> DEFINE text == [r \in Scroll!Row |-> TextOf(count, r)]
<1>1. /\ Scroll!Up(Scroll!Above, ConsoleRows, count, text)
      /\ last' = ((last + count - 1) % Texts) + 1
      /\ since' = Scroll!AtMost(since + count, ConsoleRows - Scroll!Above + left')
  BY Zenon DEF Scroll!Output, TextOf
<1>2. last \in Int /\ count \in Int /\ Texts \in Nat \ {0}
  BY RowsAre, RowsAssumption DEF ScrollInv
<1>3. last' \in Int
  BY <1>1, <1>2
<1>4. text \in [Scroll!Row -> Int]
  BY RowsAre, <1>2 DEF TextOf
<1>5. Scroll!Above \in Nat /\ ConsoleRows \in Scroll!Row
  BY RowsAre, RowsAssumption DEF Scroll!Above
<1>6. MovedUp(Scroll!Above, ConsoleRows, count, text) = Scrolled(count)
  <2>1. ASSUME NEW r \in Scroll!Row
        PROVE  MovedUp(Scroll!Above, ConsoleRows, count, text)[r] = Scrolled(count)[r]
    <3>1. r \in Int /\ r <= ConsoleRows /\ ConsoleRows \in Int /\ text[r] = TextOf(count, r)
      BY RowsAre
    <3>. HIDE DEF text
    <3>2. QED
      BY <1>2, <1>5, <3>1 DEF MovedUp, Scrolled
  <2>2. QED
    BY <2>1, Zenon DEF MovedUp, Scrolled
<1>. HIDE DEF text
<1>7. QED
  BY <1>1, <1>3, <1>4, <1>5, <1>6, UpIs

LEMMA ScrollUpIs ==
  ASSUME ScrollInv, NEW t \in 0..ConsoleRows, NEW b \in Scroll!Row,
         NEW count \in Scroll!Row, Scroll!ScrollUp(t, b, count)
  PROVE  /\ UNCHANGED <<on, last>> /\ since' = 0 /\ ScrollInv'
         /\ on => /\ HoldsNotes(Scroll!Noted(t, count), t, count)
                  /\ Start' = Scroll!Noted(t, count)
                  /\ left' = Least(left + count, Lines - 1)
                  /\ gone' = [k \in 1..(Lines - 1) |->
                                IF k <= count THEN screen[t + count - k + 1]
                                ELSE gone[k - count]]
<1> DEFINE text == [r \in Scroll!Row |-> Scroll!Blank]
<1>1. Scroll!Up(t, b, count, text) /\ last' = last /\ since' = 0
  BY Zenon DEF Scroll!ScrollUp, Scroll!Edit
<1>2. last' \in Int /\ t \in Nat
  BY RowsAre, <1>1 DEF ScrollInv
<1>3. text \in [Scroll!Row -> Int]
  BY DEF Scroll!Blank
<1>. HIDE DEF text
<1>4. QED
  BY <1>1, <1>2, <1>3, UpIs

LEMMA ScrollDownIs ==
  ASSUME ScrollInv, NEW t \in 0..ConsoleRows, NEW b \in Scroll!Row,
         NEW count \in Scroll!Row, Scroll!ScrollDown(t, b, count)
  PROVE  ScrollInv' /\ since' = 0 /\ UNCHANGED <<on, ring, in, left, last, gone>>
<1> DEFINE scr == [r \in Scroll!Row |->
                     CASE r <= t \/ r > b -> screen[r]
                       [] r > t + count /\ r <= b -> screen[r - count]
                       [] OTHER -> Scroll!Blank]
<1>1. /\ Scroll!Outputs /\ UNCHANGED <<ring, last, gone>> /\ since' = 0
      /\ Scroll!Becomes(Scroll!Drawn(Scroll!Hidden, scr, (t + 1)..(t + count)))
  BY Zenon DEF Scroll!ScrollDown, Scroll!Edit
<1>2. last' \in Int /\ screen \in [Scroll!Row -> Int]
  BY <1>1, NowHolds DEF ScrollInv, NowIs, Windows
<1>3. scr \in [Scroll!Row -> Int]
  <2>1. ASSUME NEW r \in Scroll!Row, r > t + count PROVE screen[r - count] \in Int
    <3>1. r - count \in Scroll!Row
      BY RowsAre, <2>1
    <3>2. QED
      BY <1>2, <3>1
  <2>2. QED
    BY <1>2, <2>1 DEF Scroll!Blank
<1>. HIDE DEF scr
<1>4. QED
  BY <1>1, <1>2, <1>3, EditIs

LEMMA WriteIs ==
  ASSUME ScrollInv, NEW r \in Scroll!Row, NEW text \in {Scroll!Blank, (last % Texts) + 1},
         Scroll!Write(r, text)
  PROVE  /\ ScrollInv' /\ since' = 0 /\ UNCHANGED <<on, ring, in, left, gone>>
         /\ last' \in {last, (last % Texts) + 1}
<1> DEFINE scr == [screen EXCEPT ![r] = text]
<1>1. /\ Scroll!Outputs /\ UNCHANGED <<ring, gone>> /\ since' = 0
      /\ Scroll!Becomes(Scroll!Drawn(Scroll!Hidden, scr, {r}))
      /\ last' = IF text = Scroll!Blank THEN last ELSE text
  BY Zenon DEF Scroll!Write, Scroll!Edit
<1>2. last \in Int /\ (last % Texts) + 1 \in Int /\ screen \in [Scroll!Row -> Int]
  BY RowsAre, RowsAssumption, NowHolds DEF ScrollInv, NowIs, Windows
<1>3. text \in Int
  BY <1>2 DEF Scroll!Blank
<1>4. last' \in Int /\ last' \in {last, (last % Texts) + 1}
  BY <1>1, <1>2
<1>5. scr \in [Scroll!Row -> Int]
  BY <1>2, <1>3
<1>. HIDE DEF scr
<1>6. QED
  BY <1>1, <1>4, <1>5, EditIs

(* What scrolling does to the history: nothing, but for the rows of the logo. *)
LEMMA ScrolldeltaIs ==
  ASSUME ScrollInv, NEW delta \in (-Lines)..Lines, Scroll!Scrolldelta(delta)
  PROVE  LET taken == IF logo THEN Least(left, Logo) ELSE 0
         IN  /\ ScrollInv'
             /\ in' = Scroll!Back(in, taken) /\ left' = left - taken
             /\ UNCHANGED <<on, ring, last, since>> /\ ~logo' /\ top' = top
             /\ gone' = [k \in 1..(Lines - 1) |->
                           IF k + taken < Lines THEN gone[k + taken] ELSE Scroll!Blank]
             /\ screen' = [r \in Scroll!Row |->
                             IF r <= Logo /\ r > Logo - taken
                             THEN ring[Scroll!Back(in, Logo - r + 1)] ELSE screen[r]]
<1> DEFINE taken == IF logo THEN Least(left, Logo) ELSE 0
           scr == [r \in Scroll!Row |->
                     IF r <= Logo /\ r > Logo - taken
                     THEN ring[Scroll!Back(in, Logo - r + 1)] ELSE screen[r]]
           w == IF logo THEN Scroll!NoLogo(Scroll!Window) ELSE Scroll!Window
           m == Scroll!Move(w, delta)
<1>1. /\ Now \in Windows /\ ring \in [Slot -> Int] /\ last \in Int
      /\ left = Scroll!Back(in, top) /\ (logo => AtHome(Now)) /\ NowIs
      /\ screen \in [Scroll!Row -> Int] /\ in \in Slot /\ top \in Slot
  BY NowHolds DEF ScrollInv, NowIs, Windows
<1>2. /\ ~astray /\ Scroll!Becomes(m) /\ ~logo' /\ UNCHANGED <<on, ring, last, since>>
      /\ astray' = astray
      /\ gone' = [k \in 1..(Lines - 1) |->
                    IF k + Scroll!Taken < Lines THEN gone[k + Scroll!Taken]
                    ELSE Scroll!Blank]
  BY Zenon DEF Scroll!Scrolldelta
<1>3. Sees(Now, ring)
  BY <1>2 DEF ScrollInv
<1>4. Logo \in Int /\ left \in Int /\ Scroll!Taken = taken
  <2>1. Logo \in Int /\ left \in Int
    BY RowsAssumption, <1>1, DistanceIs
  <2>2. Scroll!Held = left
    BY <1>1, Zenon DEF Scroll!Held, Scroll!Back
  <2>3. QED
    BY <2>1, <2>2, Zenon DEF Scroll!Taken, Scroll!AtMost, Least
<1>5. /\ Sees(w, ring) /\ w.in = Scroll!Back(in, taken) /\ w.top = top
      /\ w.left = left - taken /\ w.left = Scroll!Back(w.in, w.top)
      /\ w.screen = scr
  <2>1. CASE logo
    <3>1. w = Scroll!NoLogo(Now) /\ taken = Least(Now.left, Logo)
      BY <1>1, <2>1 DEF Now, NowIs
    <3>2. AtHome(Now) /\ Now.left = Scroll!Back(Now.in, Now.top)
      BY <1>1, <2>1 DEF NowIs
    <3>. HIDE DEF w, taken
    <3>3. QED
      BY <1>1, <1>3, <3>1, <3>2, NoLogoIs DEF NowIs
  <2>2. CASE ~logo
    <3>1. w = Now /\ taken = 0
      BY <2>2 DEF Now
    <3>2. in = Scroll!Back(in, 0) /\ left - 0 = left
      <4>1. in \in Int /\ 0 <= in /\ 0 \in 0..Lines
        BY RowsAre, <1>1 DEF Slot
      <4>2. QED
        BY <1>1, <1>4, <4>1, BackIs
    <3>3. scr = screen
      <4>1. \A r \in Scroll!Row : scr[r] = screen[r]
        BY RowsAre, <1>4, <3>1
      <4>2. QED
        BY <1>1, <4>1
    <3>. HIDE DEF w, taken, scr
    <3>4. QED
      BY <1>1, <1>3, <3>1, <3>2, <3>3 DEF NowIs
  <2>3. QED
    BY <2>1, <2>2
<1>. HIDE DEF w, scr, taken
<1>6. /\ Sees(m, ring) /\ m.in = w.in /\ m.top = w.top /\ m.screen = w.screen
      /\ m.left = w.left
  BY <1>1, <1>5, MoveIs
<1>. HIDE DEF m
<1>7. m \in Windows
  BY <1>6 DEF Sees
<1>8. Now' = m /\ in' = m.in /\ top' = m.top /\ screen' = m.screen /\ left' = m.left
  BY <1>2, <1>7, BecomesIs DEF Scroll!Becomes
<1>9. ScrollInv'
  BY <1>1, <1>2, <1>5, <1>6, <1>7, <1>8 DEF ScrollInv
<1>10. QED
  BY <1>2, <1>4, <1>5, <1>6, <1>8, <1>9 DEF scr, taken

LEMMA ShowCursorIs ==
  ASSUME ScrollInv, NEW visible \in BOOLEAN, Scroll!ShowCursor(visible)
  PROVE  ScrollInv' /\ UNCHANGED <<on, ring, in, top, screen, logo, last, left, gone,
                                 since>>
<1> DEFINE w == Scroll!Hidden
<1>1. /\ Now \in Windows /\ ring \in [Slot -> Int] /\ last \in Int
      /\ left = Scroll!Back(in, top) /\ (logo => AtHome(Now)) /\ NowIs
  BY NowHolds DEF ScrollInv
<1>2. /\ ~astray /\ Scroll!Becomes(w) /\ UNCHANGED <<on, ring, logo, last, gone, since>>
      /\ astray' = astray
  BY Zenon DEF Scroll!ShowCursor
<1>3. Sees(Now, ring)
  BY <1>2 DEF ScrollInv
<1>4. /\ Sees(w, ring) /\ w.in = in /\ w.top = top /\ w.screen = screen /\ w.left = left
      /\ logo => AtHome(w)
  <2>1. CASE deccm
    <3>1. w = Scroll!Home(Now)
      BY <2>1 DEF Now, Scroll!Hidden
    <3>2. QED
      BY <1>1, <1>3, <3>1, HomeIs DEF NowIs
  <2>2. CASE ~deccm
    <3>1. w = Now
      BY <2>2 DEF Now, Scroll!Hidden
    <3>2. QED
      BY <1>1, <1>3, <3>1 DEF NowIs
  <2>3. QED
    BY <2>1, <2>2
<1>. HIDE DEF w
<1>5. w \in Windows
  BY <1>4 DEF Sees
<1>6. Now' = w /\ in' = in /\ top' = top /\ screen' = screen /\ left' = left
  BY <1>2, <1>4, <1>5, BecomesIs DEF Scroll!Becomes
<1>7. ScrollInv'
  BY <1>1, <1>2, <1>4, <1>5, <1>6 DEF ScrollInv
<1>8. QED
  BY <1>2, <1>6, <1>7

LEMMA SwitchIs ==
  ASSUME ScrollInv, NEW l \in {5, Lines}, Scroll!Switch(l)
  PROVE  /\ ScrollInv'
         /\ on' => on
         /\ left' = 0 /\ ~logo' /\ UNCHANGED <<screen, last>>
         /\ since' = Scroll!AtMost(since, ConsoleRows - Scroll!Above)
<1>1. /\ in' = 0 /\ top' = 0 /\ curr' = 0 /\ softback_lines' = 0 /\ ~logo'
      /\ shown' = screen /\ left' = 0 /\ UNCHANGED <<screen, last>>
      /\ ring' = [i \in 0..(Lines - 1) |-> Scroll!Blank]
  BY Zenon DEF Scroll!Switch
<1>2. (on' => on) /\ since' = Scroll!AtMost(since, ConsoleRows - Scroll!Above)
  BY Zenon DEF Scroll!Switch
<1>3. 0 \in Slot /\ ring' \in [Slot -> Int]
  BY RowsAre, <1>1 DEF Slot, Scroll!Blank
<1>4. Now' = [in |-> 0, top |-> 0, curr |-> 0, lines |-> 0,
              screen |-> screen, shown |-> screen, left |-> 0]
  BY <1>1, Zenon DEF Now, Scroll!Window
<1> DEFINE x == Now'
<1>5. screen \in [Scroll!Row -> Int] /\ last \in Int
  BY NowHolds DEF ScrollInv, NowIs, Windows
<1>6. x \in Windows /\ AtHome(x) /\ x.shown = x.screen
  BY <1>3, <1>4, <1>5 DEF Windows, AtHome
<1>7. Sees(x, ring')
  BY <1>3, <1>6, HomeShows DEF Sees
<1>8. Scroll!Back(0, 0) = 0
  <2>1. Scroll!Back(0, 0) = IF 0 <= 0 THEN 0 - 0 ELSE 0 + Lines - 0
    BY <1>3, DistanceIs
  <2>2. QED
    BY <2>1
<1>9. ScrollInv'
  BY <1>1, <1>3, <1>5, <1>6, <1>7, <1>8 DEF ScrollInv
<1>10. QED
  BY <1>1, <1>2, <1>9

LEMMA SameScroll ==
  ASSUME ScrollInv, UNCHANGED Scroll!vars
  PROVE  ScrollInv' /\ UNCHANGED <<on, ring, in, top, screen, logo, last, left, gone,
                                 since>>
<1>1. /\ UNCHANGED <<on, ring, in, top, screen, logo, last, left, gone, since, astray>>
      /\ Now' = Now
  BY DEF Scroll!vars, Scroll!pointers, Scroll!history, Now, Scroll!Window
<1>2. QED
  BY <1>1 DEF ScrollInv

LEMMA ScrollNext ==
  ASSUME ScrollInv, [Scroll!Next]_(Scroll!vars)
  PROVE  ScrollInv'
BY ScrolldeltaIs, OutputIs, ScrollUpIs, ScrollDownIs, WriteIs, ShowCursorIs, SwitchIs,
   SameScroll, Zenon DEF Scroll!Next

(* A position in the window is found again, and the walk goes on to the next. *)
LEMMA RegionsAre ==
  ASSUME ScrollInv, ~astray
  PROVE  Scroll!RegionsFollowWindow
<1>1. /\ in \in Slot /\ curr \in Slot /\ softback_lines = Scroll!Back(in, curr)
  BY NowHolds DEF ScrollInv, Sees, Placed, NowIs, Windows
<1>2. /\ softback_lines = IF curr <= in THEN in - curr ELSE in + Lines - curr
      /\ softback_lines \in Int /\ 0 <= softback_lines /\ softback_lines < Lines
  BY <1>1, DistanceIs
<1>3. /\ in \in Int /\ 0 <= in /\ in < Lines /\ curr \in Int /\ 0 <= curr /\ curr < Lines
      /\ Lines \in Int
  BY RowsAre, <1>1 DEF Slot
<1> SUFFICES ASSUME NEW line \in 0..(ConsoleRows - 1)
             PROVE  /\ Scroll!GetY(Scroll!ScreenPos(line)) = line
                    /\ line < ConsoleRows - 1 =>
                         Scroll!RowAfter(Scroll!ScreenPos(line)) = Scroll!ScreenPos(line + 1)
  BY DEF Scroll!RegionsFollowWindow
<1>4. line \in Int /\ 0 <= line
  BY RowsAre
<1>5. CASE softback_lines = 0
  BY <1>4, <1>5 DEF Scroll!GetY, Scroll!ScreenPos, Scroll!RowAfter
<1>6. CASE softback_lines # 0 /\ line >= softback_lines
  BY <1>2, <1>4, <1>6 DEF Scroll!GetY, Scroll!ScreenPos, Scroll!RowAfter
<1>7. CASE softback_lines # 0 /\ line < softback_lines
  <2>1. (curr + line) % Lines = IF curr + line < Lines THEN curr + line
                                ELSE curr + line - Lines
    BY <1>2, <1>3, <1>4, <1>7, WrapOnce
  <2> DEFINE q == (curr + line) % Lines
  <2>2. q \in Slot
    BY <1>2, <1>3, <1>4, <1>7, <2>1 DEF Slot
  <2>3. Scroll!ScreenPos(line) = <<"ring", q>>
    BY <1>4, <1>2, <1>7 DEF Scroll!ScreenPos
  <2>4. Scroll!Next1(q) = IF q + 1 = Lines THEN 0 ELSE q + 1
    BY <2>2, NextIs
  <2>5. Scroll!GetY(<<"ring", q>>) = IF q < curr THEN q - curr + Lines ELSE q - curr
    BY <1>7 DEF Scroll!GetY
  <2>6. Scroll!RowAfter(<<"ring", q>>) = IF Scroll!Next1(q) = in THEN <<"screen", 0>>
                                         ELSE <<"ring", Scroll!Next1(q)>>
    BY DEF Scroll!RowAfter
  <2>7. CASE line + 1 >= softback_lines
    <3>1. line + 1 = softback_lines
      BY <1>2, <1>4, <1>7, <2>7
    <3>2. Scroll!ScreenPos(line + 1) = <<"screen", 0>>
      BY <1>2, <1>7, <3>1 DEF Scroll!ScreenPos
    <3>. HIDE DEF q
    <3>3. q \in Int /\ q = IF curr + line < Lines THEN curr + line ELSE curr + line - Lines
      BY <2>1, <2>2, RowsAre DEF q, Slot
    <3>4. Scroll!Next1(q) = in
      BY <1>2, <1>3, <1>4, <2>4, <3>1, <3>3
    <3>5. Scroll!GetY(<<"ring", q>>) = line
      BY <1>2, <1>3, <1>4, <1>7, <2>5, <3>3
    <3>6. QED
      BY <2>3, <2>6, <3>2, <3>4, <3>5
  <2>8. CASE line + 1 < softback_lines
    <3>1. (curr + (line + 1)) % Lines = IF curr + (line + 1) < Lines
                                        THEN curr + (line + 1)
                                        ELSE curr + (line + 1) - Lines
      BY <1>2, <1>3, <1>4, <1>7, <2>8, WrapOnce
    <3>2. Scroll!ScreenPos(line + 1) = <<"ring", (curr + (line + 1)) % Lines>>
      BY <1>2, <1>4, <1>7, <2>8 DEF Scroll!ScreenPos
    <3>. HIDE DEF q
    <3>3. q \in Int /\ q = IF curr + line < Lines THEN curr + line ELSE curr + line - Lines
      BY <2>1, <2>2, RowsAre DEF q, Slot
    <3>4. Scroll!Next1(q) = (curr + (line + 1)) % Lines
      BY <1>2, <1>3, <1>4, <2>4, <3>1, <3>3
    <3>5. Scroll!Next1(q) # in
      BY <1>2, <1>3, <1>4, <2>4, <2>8, <3>3
    <3>6. Scroll!GetY(<<"ring", q>>) = line
      BY <1>2, <1>3, <1>4, <1>7, <2>5, <3>3
    <3>7. QED
      BY <2>3, <2>6, <3>2, <3>4, <3>5, <3>6
  <2>9. QED
    BY <1>2, <1>4, <2>7, <2>8
<1>8. QED
  BY <1>2, <1>4, <1>5, <1>6, <1>7

(* The frame buffer shows the window softback_lines above the screen, though a
   move draws only what changes, unless a program prints with the cursor off into
   a scrolled back window; and selections and redraws walk over the rows of that
   window (fbcon.c:1365-1396, 1604-1695, 2806-2862). *)
THEOREM ScreenShowsWindow == KernelSpec => []WindowIsTrue
<1>1. KernelInit => ScrollInv
  BY ScrollInit, Zenon DEF KernelInit
<1>2. ScrollInv /\ [KernelNext]_everything => ScrollInv'
  BY ScrollNext, KernelStep
<1>3. ScrollInv => WindowIsTrue
  <2> SUFFICES ASSUME ScrollInv PROVE WindowIsTrue
    OBVIOUS
  <2>1. Scroll!RegionsFollowWindow
    <3>1. CASE astray
      BY <3>1 DEF Scroll!RegionsFollowWindow
    <3>2. CASE ~astray
      BY <3>2, RegionsAre
    <3>3. QED
      BY <3>1, <3>2
  <2>2. Scroll!WhatYouSee
    <3> SUFFICES ASSUME ~astray
                 PROVE  /\ softback_lines = (in + Lines - curr) % Lines
                        /\ shown = [r \in Scroll!Row |->
                                      Scroll!View(curr, in, ring, screen, r)]
      BY DEF Scroll!WhatYouSee
    <3>1. Sees(Now, ring) /\ NowIs
      BY NowHolds DEF ScrollInv
    <3>2. softback_lines = Scroll!Back(in, curr)
      BY <3>1 DEF Sees, Placed, NowIs
    <3>3. shown = [r \in Scroll!Row |-> Scroll!View(curr, in, ring, screen, r)]
      BY <3>1 DEF Sees, ViewOf, NowIs
    <3>4. QED
      BY <3>2, <3>3, Zenon DEF Scroll!Back
  <2>3. QED
    BY <2>1, <2>2 DEF WindowIsTrue, Scroll!WindowIsTrue
<1>4. QED
  BY <1>1, <1>2, <1>3, PTL DEF KernelSpec

-----------------------------------------------------------------------------
(* The history of the scrollback.  A number has one rest. *)
LEMMA SameRest ==
  ASSUME NEW n \in Nat \ {0}, NEW k \in Int, NEW r \in 0..(n - 1), NEW u \in Int,
         u = k * n + r
  PROVE  u % n = r
<1> DEFINE q == u \div n
           s == u % n
           e == k - q
<1>1. u = q * n + s /\ q \in Int /\ s \in 0..(n - 1)
  BY SMT
<1>. HIDE DEF q, s
<1>2. e \in Int /\ k = q + e
  BY <1>1
<1>. HIDE DEF e
<1>3. (q + e) * n = q * n + e * n
  BY <1>1, <1>2, SMT
<1>4. e * n = s - r
  BY <1>1, <1>2, <1>3
<1>5. e >= 1 => e * n >= n
  BY <1>2, SMT
<1>6. e <= -1 => e * n <= -n
  BY <1>2, SMT
<1>7. e = 0
  BY <1>1, <1>2, <1>4, <1>5, <1>6
<1>8. e * n = 0
  BY <1>7
<1>9. QED
  BY <1>1, <1>4, <1>8 DEF s

(* A rest is subtracted from as the number is. *)
LEMMA ModMinus ==
  ASSUME NEW a \in Int, NEW d \in Int, NEW n \in Nat \ {0}
  PROVE  ((a % n) - d) % n = (a - d) % n
<1> DEFINE q == a \div n
           b == a % n
           x == (a - d) % n
           y == (a - d) \div n
           e == y - q
<1>1. a = q * n + b /\ q \in Int /\ b \in Int
  BY SMT
<1>2. a - d \in Int /\ a - d = y * n + x /\ y \in Int /\ x \in 0..(n - 1)
  BY SMT
<1>3. e \in Int /\ y = q + e
  BY <1>1, <1>2
<1>. HIDE DEF q, b, x, y, e
<1>4. (q + e) * n = q * n + e * n
  BY <1>1, <1>3, SMT
<1>5. b - d = e * n + x /\ b - d \in Int
  BY <1>1, <1>2, <1>3, <1>4
<1> DEFINE u == b - d
<1>6. u % n = x
  <2>1. u = e * n + x /\ u \in Int
    BY <1>5
  <2>2. e \in Int /\ x \in 0..(n - 1)
    BY <1>2, <1>3
  <2>. HIDE DEF u
  <2>3. QED
    BY <2>1, <2>2, SameRest
<1>7. QED
  BY <1>6 DEF b, x, u

(* Two facts of arithmetic about the rows beyond the screen. *)
LEMMA PastText ==
  ASSUME NEW u \in Int, NEW v \in Int, NEW x \in Int, v <= u, u < v + x
  PROVE  u - v + 1 \in Int /\ u - v + 1 >= 1 /\ u - v + 1 <= x
OBVIOUS

(* The lesser of two numbers, and what is below a number. *)
LEMMA AtMostIs ==
  ASSUME NEW n \in Nat, NEW m \in Nat
  PROVE  /\ Scroll!AtMost(n, m) \in Nat
         /\ Scroll!AtMost(n, m) <= n /\ Scroll!AtMost(n, m) <= m
BY DEF Scroll!AtMost

LEMMA BelowIs ==
  ASSUME NEW n \in Nat, NEW d \in 0..(n - 1), NEW m \in Nat, n <= m
  PROVE  d \in Nat /\ d < n /\ d < m /\ d \in 0..(m - 1)
OBVIOUS

(* The rows of the screen that hold text, and the lines there are. *)
TextRows == ConsoleRows - Scroll!Above
LineCount == TextRows + left

(* The line d lines above the newest, on the screen below the logo or else in the
   ring. *)
LineAt(d) == IF d < TextRows THEN screen[ConsoleRows - d]
             ELSE ring[Scroll!Back(in, d - TextRows + 1)]

(* The ring holds, from its newest row, those that left the screen. *)
RingHolds == \A k \in 1..left : FromNewest(Start, k) = gone[k]

(* The lines printed since the last edit are where they should be. *)
LinesStand ==
  /\ since \in Nat /\ since <= LineCount
  /\ \A d \in 0..(since - 1) : LineAt(d) = Scroll!TextAt(d)

HistoryInv ==
  /\ last \in 1..Texts
  /\ on => RingHolds /\ LinesStand

LEMMA LinesAre ==
  ASSUME ScrollInv
  PROVE  /\ Scroll!Above \in Nat /\ Scroll!Above <= Logo /\ (~logo => Scroll!Above = 0) /\ (logo => Scroll!Above = Logo)
         /\ TextRows \in Nat /\ TextRows <= ConsoleRows
         /\ left \in Nat /\ left < Lines /\ LineCount \in Nat
         /\ Logo \in Nat /\ Logo <= ConsoleRows
<1>1. Logo \in Nat /\ Logo <= ConsoleRows
  BY RowsAre, RowsAssumption
<1>2. left \in Int /\ 0 <= left /\ left < Lines
  BY NowHolds, DistanceIs DEF ScrollInv, NowIs, Windows
<1>3. QED
  BY RowsAre, <1>1, <1>2 DEF Scroll!Above, TextRows, LineCount

LEMMA HistoryInit ==
  ASSUME Scroll!Init, ScrollInv
  PROVE  HistoryInv
<1>1. /\ left = 0 /\ last = ConsoleRows /\ on
      /\ screen = [r \in Scroll!Row |-> IF logo /\ r <= Logo THEN Scroll!Blank ELSE r]
  BY DEF Scroll!Init
<1>2. last \in 1..Texts /\ Texts \in Nat \ {0}
  BY RowsAre, RowsAssumption, <1>1
<1>3. ASSUME NEW d \in 0..(LineCount - 1)
      PROVE  LineAt(d) = Scroll!TextAt(d) /\ d < ConsoleRows
  <2>0. /\ d \in Int /\ 0 <= d /\ d < TextRows /\ TextRows = ConsoleRows - Scroll!Above
        /\ Scroll!Above \in Int /\ 0 <= Scroll!Above /\ ConsoleRows \in Int
    BY RowsAre, LinesAre, <1>1 DEF LineCount, TextRows
  <2>1. d < TextRows /\ ConsoleRows - d \in Scroll!Row /\ ConsoleRows - d > Scroll!Above
    BY RowsAre, <2>0
  <2>2. LineAt(d) = ConsoleRows - d
    <3>1. LineAt(d) = screen[ConsoleRows - d]
      BY <2>1 DEF LineAt
    <3>2. ~(logo /\ ConsoleRows - d <= Logo)
      BY LinesAre, <2>0, <2>1
    <3>3. QED
      BY <1>1, <2>1, <3>1, <3>2
  <2>3. last - 1 - d \in 0..(Texts - 1)
    BY RowsAre, LinesAre, <1>1, <1>2, <2>1
  <2>4. (last - 1 - d) % Texts = last - 1 - d
    BY <1>2, <2>3, SMT
  <2>5. QED
    BY RowsAre, LinesAre, <1>1, <2>1, <2>2, <2>4 DEF Scroll!TextAt
<1>4. since \in Nat /\ since = LineCount
  <2>1. since = ConsoleRows - Scroll!Above
    BY Zenon DEF Scroll!Init
  <2>2. LineCount = ConsoleRows - Scroll!Above /\ LineCount \in Nat
    BY RowsAre, LinesAre, <1>1 DEF LineCount, TextRows
  <2>3. QED
    BY <2>1, <2>2
<1>5. RingHolds
  BY <1>1 DEF RingHolds
<1>6. LinesStand
  BY LinesAre, <1>3, <1>4 DEF LinesStand
<1>7. QED
  BY <1>2, <1>5, <1>6 DEF HistoryInv

(* The rows scrolled up and out are in the ring, or are the oldest and given up. *)
LEMMA RingUp ==
  ASSUME ScrollInv, ScrollInv', RingHolds, NEW t \in Nat, NEW count \in Scroll!Row,
         HoldsNotes(Scroll!Noted(t, count), t, count),
         Start' = Scroll!Noted(t, count),
         left' = Least(left + count, Lines - 1),
         gone' = [k \in 1..(Lines - 1) |->
                    IF k <= count THEN screen[t + count - k + 1] ELSE gone[k - count]]
  PROVE  RingHolds'
<1>1. count \in Nat /\ count > 0 /\ left \in Nat /\ Lines \in Nat
  BY RowsAre, LinesAre
<1>2. left' \in Nat /\ left' <= left + count /\ left' <= Lines - 1
  BY <1>1, RowsAre, LinesAre DEF Least
<1>3. HeldIn(Start') = left'
  BY DEF ScrollInv, HeldIn, Start
<1> SUFFICES ASSUME NEW k \in 1..left' PROVE FromNewest(Start', k) = gone'[k]
  BY DEF RingHolds
<1>4. k \in 1..(Lines - 1) /\ k \in Int
  BY <1>1, <1>2
<1>5. FromNewest(Start', k) = IF k <= count THEN screen[t + count - k + 1]
                              ELSE FromNewest(Start, k - count)
  BY <1>3 DEF HoldsNotes
<1>6. ~(k <= count) => k - count \in 1..left
  BY <1>1, <1>2
<1>7. QED
  BY <1>4, <1>5, <1>6 DEF RingHolds

(* What is printed makes the history longer by count lines: those that leave the
   screen are in the ring, or are the oldest and given up. *)
LEMMA HistoryOutput ==
  ASSUME ScrollInv, HistoryInv, NEW count \in Scroll!Row, Scroll!Output(count)
  PROVE  HistoryInv'
<1>1. /\ Scroll!Above + count < ConsoleRows /\ Scroll!Above \in Nat
      /\ screen' = Scrolled(count) /\ ScrollInv'
      /\ last' = ((last + count - 1) % Texts) + 1
      /\ since' = Scroll!AtMost(since + count, TextRows + left')
      /\ UNCHANGED <<on, logo>>
      /\ on => /\ HoldsNotes(Scroll!Noted(Scroll!Above, count), Scroll!Above, count)
               /\ Start' = Scroll!Noted(Scroll!Above, count)
               /\ left' = Least(left + count, Lines - 1)
               /\ gone' = [k \in 1..(Lines - 1) |->
                             IF k <= count THEN screen[Scroll!Above + count - k + 1]
                             ELSE gone[k - count]]
  BY OutputIs, Zenon DEF TextRows
<1>2. /\ count \in Nat /\ count > 0 /\ count <= ConsoleRows
      /\ Texts \in Nat \ {0} /\ last \in Int
  BY RowsAre, RowsAssumption DEF HistoryInv
<1>3. /\ Scroll!Above' = Scroll!Above /\ TextRows' = TextRows
  BY <1>1 DEF Scroll!Above, TextRows
<1>4. /\ left \in Nat /\ left < Lines /\ TextRows = ConsoleRows - Scroll!Above
      /\ TextRows \in Nat /\ LineCount = TextRows + left
      /\ LineCount' = TextRows + left'
  BY LinesAre, <1>1, <1>3 DEF TextRows, LineCount
<1>5. last' \in 1..Texts
  BY <1>1, <1>2
<1>6. ASSUME NEW d \in Int
      PROVE  Scroll!TextAt(d)' = ((last + count - 1 - d) % Texts) + 1
  <2> DEFINE a == last + count - 1
             b == a % Texts
  <2>1. a \in Int /\ b \in Int
    BY <1>2
  <2>2. (b - d) % Texts = (a - d) % Texts
    <3>. HIDE DEF a
    <3>1. QED
      BY <1>2, <2>1, ModMinus, Zenon
  <2>3. last' = b + 1
    BY <1>1
  <2>. HIDE DEF b
  <2>4. last' - 1 - d = b - d
    BY <2>1, <2>3
  <2>5. Scroll!TextAt(d)' = ((b - d) % Texts) + 1
    BY <2>4, Zenon DEF Scroll!TextAt
  <2>. HIDE DEF a
  <2>6. Scroll!TextAt(d)' = ((a - d) % Texts) + 1
    BY <2>2, <2>5
  <2>7. a - d = last + count - 1 - d
    BY <1>2 DEF a
  <2>8. QED
    BY <2>6, <2>7
<1>7. ASSUME on PROVE RingHolds' /\ LinesStand'
  <2>1. RingHolds /\ LinesStand
    BY <1>7 DEF HistoryInv
  <2>2. /\ left' <= left + count /\ left' \in Nat
        /\ left' = IF left + count <= Lines - 1 THEN left + count ELSE Lines - 1
    BY RowsAre, <1>1, <1>2, <1>4, <1>7 DEF Least
  <2>3. ASSUME NEW d \in 0..(LineCount' - 1)
        PROVE  LineAt(d)' = IF d < count THEN Scroll!TextAt(d)' ELSE LineAt(d - count)
    <3>1. CASE d < TextRows
      <4>1. ConsoleRows - d \in Scroll!Row /\ ConsoleRows - d > Scroll!Above
        BY RowsAre, <1>1, <1>4, <3>1
      <4>2. LineAt(d)' = Scrolled(count)[ConsoleRows - d]
        BY <1>1, <1>3, <3>1 DEF LineAt
      <4>3. CASE d < count
        <5>1. Scrolled(count)[ConsoleRows - d] = TextOf(count, ConsoleRows - d)
          BY RowsAre, <1>1, <1>2, <4>1, <4>3 DEF Scrolled
        <5>2. last + (ConsoleRows - d) - (ConsoleRows - count) - 1 = last + count - 1 - d
          BY RowsAre, <1>2
        <5>3. QED
          BY <1>6, <4>2, <4>3, <5>1, <5>2 DEF TextOf
      <4>4. CASE ~(d < count)
        <5>1. Scrolled(count)[ConsoleRows - d] = screen[(ConsoleRows - d) + count]
          BY RowsAre, <1>1, <1>2, <4>1, <4>4 DEF Scrolled
        <5>2. (ConsoleRows - d) + count = ConsoleRows - (d - count) /\ d - count < TextRows
          BY RowsAre, <1>2, <1>4, <3>1
        <5>3. QED
          BY <4>2, <4>4, <5>1, <5>2 DEF LineAt
      <4>5. QED
        BY <4>3, <4>4
    <3>2. CASE ~(d < TextRows)
      <4> DEFINE j == d - TextRows + 1
      <4>0. /\ d \in Int /\ TextRows \in Int /\ TextRows <= d
            /\ Scroll!Above + count < ConsoleRows
            /\ Scroll!Above \in Int /\ count \in Int /\ ConsoleRows \in Int /\ left' \in Int
        BY RowsAre, <1>1, <1>2, <1>4, <2>2, <3>2
      <4>a. TextRows = ConsoleRows - Scroll!Above
        BY <1>4
      <4>b. count <= d
        BY <4>0, <4>a
      <4>c. d < TextRows + left'
        BY <1>4, <2>2
      <4>d. d \in Int /\ TextRows \in Int /\ TextRows <= d /\ left' \in Int
        BY <4>0
      <4>e. j \in Int /\ j >= 1 /\ j <= left'
        BY <4>c, <4>d, PastText, Zenon
      <4>f. ~(d < count)
        BY <4>0, <4>b
      <4>1. ~(d < count) /\ j \in Int /\ j >= 1 /\ j <= left'
        BY <4>e, <4>f
      <4>2. LineAt(d)' = FromNewest(Start', j)
        BY <1>3, <3>2 DEF LineAt, FromNewest, Start
      <4>3. HeldIn(Start') = left'
        BY <1>1, <1>7 DEF ScrollInv, HeldIn, Start
      <4>4. FromNewest(Start', j) = IF j <= count THEN screen[Scroll!Above + count - j + 1]
                                    ELSE FromNewest(Start, j - count)
        BY <1>1, <1>7, <4>1, <4>3 DEF HoldsNotes
      <4>5. CASE j <= count
        <5>1. /\ d - count < TextRows
              /\ Scroll!Above + count - j + 1 = ConsoleRows - (d - count)
          BY RowsAre, <1>1, <1>2, <1>4, <4>5
        <5>2. QED
          BY <4>1, <4>2, <4>4, <4>5, <5>1 DEF LineAt
      <4>6. CASE ~(j <= count)
        <5>1. ~(d - count < TextRows) /\ j - count = (d - count) - TextRows + 1
          BY <1>2, <1>4, <4>6
        <5>2. QED
          BY <4>1, <4>2, <4>4, <4>6, <5>1 DEF LineAt, FromNewest, Start
      <4>7. QED
        BY <4>5, <4>6
    <3>3. QED
      BY <3>1, <3>2
  <2>4. /\ since' \in Nat /\ since' <= since + count /\ since' <= LineCount'
        /\ since \in Nat
    <3>1. since \in Nat
      BY <2>1 DEF LinesStand
    <3>2. LineCount' = TextRows + left' /\ TextRows + left' \in Nat
      BY <1>4, <2>2
    <3>3. since' = Scroll!AtMost(since + count, TextRows + left')
      BY <1>1
    <3>4. since + count \in Nat
      BY <1>2, <3>1
    <3>5. QED
      BY <3>1, <3>2, <3>3, <3>4, AtMostIs, Zenon
  <2>5. ASSUME NEW d \in 0..(since' - 1)
        PROVE  LineAt(d)' = Scroll!TextAt(d)'
    <3>0. LineCount' \in Nat
      BY <1>4, <2>2
    <3>1. d \in Nat /\ d < since' /\ d \in 0..(LineCount' - 1)
      BY <2>4, <3>0, BelowIs, Zenon
    <3>2. CASE d < count
      BY <2>3, <3>1, <3>2
    <3>3. CASE ~(d < count)
      <4>1. d - count \in 0..(since - 1)
        BY <1>2, <2>4, <3>1, <3>3
      <4>2. LineAt(d - count) = Scroll!TextAt(d - count)
        BY <2>1, <4>1 DEF LinesStand
      <4>3. Scroll!TextAt(d - count) = Scroll!TextAt(d)'
        <5>1. last - 1 - (d - count) = last + count - 1 - d
          BY <1>2, <3>1
        <5>2. QED
          BY <1>6, <3>1, <5>1 DEF Scroll!TextAt
      <4>4. QED
        BY <2>3, <3>1, <3>3, <4>2, <4>3
    <3>4. QED
      BY <3>2, <3>3
  <2>6. LinesStand'
    BY <2>4, <2>5 DEF LinesStand
  <2>7. RingHolds'
    BY <1>1, <1>7, <2>1, RingUp
  <2>8. QED
    BY <2>6, <2>7
<1>8. QED
  BY <1>1, <1>5, <1>7 DEF HistoryInv

LEMMA RingSame ==
  ASSUME RingHolds, UNCHANGED <<ring, in, left, gone>>
  PROVE  RingHolds'
BY DEF RingHolds, FromNewest, Start

(* Nothing is left of what was printed before the screen was changed. *)
LEMMA LinesGone ==
  ASSUME ScrollInv', since' = 0
  PROVE  LinesStand'
<1>1. left' \in Int /\ 0 <= left' /\ ConsoleRows - Scroll!Above' \in Nat
  <2>1. in' \in Slot /\ top' \in Slot /\ left' = Scroll!Back(in', top')
    <3>1. NowIs'
      BY DEF NowIs, Now, Scroll!Window
    <3>2. QED
      BY <3>1 DEF ScrollInv, NowIs, Windows
  <2>2. QED
    BY RowsAre, RowsAssumption, <2>1, DistanceIs DEF Scroll!Above
<1>2. QED
  BY <1>1 DEF LinesStand, LineCount, TextRows

LEMMA HistoryEdit ==
  ASSUME ScrollInv, HistoryInv,
         \/ \E t \in 0..ConsoleRows, b, count \in Scroll!Row :
              Scroll!ScrollUp(t, b, count) \/ Scroll!ScrollDown(t, b, count)
         \/ \E r \in Scroll!Row : \E text \in {Scroll!Blank, (last % Texts) + 1} :
              Scroll!Write(r, text)
  PROVE  HistoryInv'
<1>1. ASSUME NEW t \in 0..ConsoleRows, NEW b \in Scroll!Row, NEW count \in Scroll!Row,
             Scroll!ScrollUp(t, b, count)
      PROVE  HistoryInv'
  <2>1. /\ UNCHANGED <<on, last>> /\ since' = 0 /\ ScrollInv' /\ t \in Nat
        /\ on => /\ HoldsNotes(Scroll!Noted(t, count), t, count)
                 /\ Start' = Scroll!Noted(t, count)
                 /\ left' = Least(left + count, Lines - 1)
                 /\ gone' = [k \in 1..(Lines - 1) |->
                               IF k <= count THEN screen[t + count - k + 1]
                               ELSE gone[k - count]]
    BY RowsAre, <1>1, ScrollUpIs
  <2>2. on => RingHolds'
    BY <2>1, RingUp DEF HistoryInv
  <2>3. QED
    BY <2>1, <2>2, LinesGone DEF HistoryInv
<1>2. ASSUME NEW t \in 0..ConsoleRows, NEW b \in Scroll!Row, NEW count \in Scroll!Row,
             Scroll!ScrollDown(t, b, count)
      PROVE  HistoryInv'
  <2>1. ScrollInv' /\ since' = 0 /\ UNCHANGED <<on, ring, in, left, last, gone>>
    BY <1>2, ScrollDownIs
  <2>2. QED
    BY <2>1, RingSame, LinesGone DEF HistoryInv
<1>3. ASSUME NEW r \in Scroll!Row, NEW text \in {Scroll!Blank, (last % Texts) + 1},
             Scroll!Write(r, text)
      PROVE  HistoryInv'
  <2>1. /\ ScrollInv' /\ since' = 0 /\ UNCHANGED <<on, ring, in, left, gone>>
        /\ last' \in {last, (last % Texts) + 1}
    BY <1>3, WriteIs
  <2>2. last' \in 1..Texts
    BY <2>1, RowsAssumption DEF HistoryInv
  <2>3. QED
    BY <2>1, <2>2, RingSame, LinesGone DEF HistoryInv
<1>4. QED
  BY <1>1, <1>2, <1>3, Zenon

LEMMA HistorySame ==
  ASSUME HistoryInv, UNCHANGED <<on, ring, in, screen, logo, last, left, gone, since>>
  PROVE  HistoryInv'
<1>1. /\ on' = on /\ ring' = ring /\ in' = in /\ screen' = screen /\ logo' = logo
      /\ last' = last /\ left' = left /\ since' = since /\ gone' = gone
  OBVIOUS
<1>2. LineCount' = LineCount
  BY <1>1 DEF LineCount, TextRows, Scroll!Above
<1>3. \A d : LineAt(d)' = LineAt(d) /\ Scroll!TextAt(d)' = Scroll!TextAt(d)
  BY <1>1 DEF LineAt, Scroll!TextAt, TextRows, Scroll!Above
<1>4. LinesStand => LinesStand'
  BY <1>1, <1>2, <1>3 DEF LinesStand
<1>5. QED
  BY <1>1, <1>4, RingSame DEF HistoryInv

(* A switch keeps what is on the screen. *)
LEMMA HistorySwitch ==
  ASSUME ScrollInv, HistoryInv, NEW l \in {5, Lines}, Scroll!Switch(l)
  PROVE  HistoryInv'
<1>1. /\ on' => on
      /\ left' = 0 /\ ~logo' /\ screen' = screen /\ last' = last
      /\ since' = Scroll!AtMost(since, TextRows)
  BY SwitchIs, Zenon DEF TextRows
<1>2. TextRows \in Nat /\ TextRows <= ConsoleRows
  BY LinesAre
<1>3. LineCount' = ConsoleRows /\ TextRows' = ConsoleRows
  BY RowsAre, <1>1 DEF LineCount, TextRows, Scroll!Above
<1>4. \A d : Scroll!TextAt(d)' = Scroll!TextAt(d)
  BY <1>1 DEF Scroll!TextAt
<1>5. RingHolds'
  BY <1>1 DEF RingHolds
<1>6. ASSUME on' PROVE LinesStand'
  <2>1. LinesStand
    BY <1>1, <1>6 DEF HistoryInv
  <2>2. since' \in Nat /\ since' <= since /\ since' <= TextRows /\ since \in Nat
    <3>1. since \in Nat
      BY <2>1 DEF LinesStand
    <3>2. QED
      BY <1>1, <1>2, <3>1, AtMostIs, Zenon
  <2>3. ASSUME NEW d \in 0..(since' - 1) PROVE LineAt(d)' = Scroll!TextAt(d)'
    <3>0. d \in Nat /\ d < TextRows /\ d \in 0..(since - 1)
      BY <1>2, <2>2, BelowIs, Zenon
    <3>1. d < TextRows /\ d < ConsoleRows /\ d \in 0..(since - 1)
      BY RowsAre, <1>2, <3>0
    <3>2. LineAt(d)' = screen[ConsoleRows - d] /\ LineAt(d) = screen[ConsoleRows - d]
      BY <1>1, <1>3, <3>1 DEF LineAt
    <3>3. QED
      BY <1>4, <2>1, <3>1, <3>2 DEF LinesStand
  <2>4. since' <= LineCount'
    BY RowsAre, <1>2, <1>3, <2>2
  <2>5. QED
    BY <2>2, <2>3, <2>4 DEF LinesStand
<1>7. QED
  BY <1>1, <1>5, <1>6 DEF HistoryInv

LEMMA BackAgain ==
  ASSUME NEW p \in Slot, NEW t \in Nat, NEW j \in Nat, t + j <= Lines
  PROVE  Scroll!Back(Scroll!Back(p, t), j) = Scroll!Back(p, t + j)
<1> DEFINE q == Scroll!Back(p, t)
<1>0. Lines \in Int /\ p \in Int /\ 0 <= p /\ p < Lines /\ Lines > 0
  BY RowsAre DEF Slot
<1>1. t \in 0..Lines /\ j \in 0..Lines /\ t + j \in 0..Lines
  BY <1>0
<1>2. q \in Slot /\ q = IF t <= p THEN p - t ELSE p + Lines - t
  BY <1>1, BackIs
<1>3. Scroll!Back(p, t + j) = IF t + j <= p THEN p - (t + j) ELSE p + Lines - (t + j)
  BY <1>1, BackIs
<1>. HIDE DEF q
<1>4. Scroll!Back(q, j) = IF j <= q THEN q - j ELSE q + Lines - j
  BY <1>1, <1>2, BackIs
<1>5. Scroll!Back(q, j) = Scroll!Back(p, t + j)
  BY <1>0, <1>2, <1>3, <1>4
<1>6. QED
  BY <1>5 DEF q

(* The logo goes: its rows take the newest lines of the ring, or stay as they are. *)
LEMMA HistoryScrolldelta ==
  ASSUME ScrollInv, HistoryInv, NEW delta \in (-Lines)..Lines, Scroll!Scrolldelta(delta)
  PROVE  HistoryInv'
<1> DEFINE taken == IF logo THEN Least(left, Logo) ELSE 0
           New(r) == IF r <= Logo /\ r > Logo - taken
                     THEN ring[Scroll!Back(in, Logo - r + 1)] ELSE screen[r]
<1>1. /\ in' = Scroll!Back(in, taken) /\ left' = left - taken
      /\ UNCHANGED <<on, ring, last, since>> /\ ~logo'
      /\ gone' = [k \in 1..(Lines - 1) |->
                    IF k + taken < Lines THEN gone[k + taken] ELSE Scroll!Blank]
      /\ screen' = [r \in Scroll!Row |-> New(r)]
  BY ScrolldeltaIs
<1>2. /\ Scroll!Above \in Int /\ 0 <= Scroll!Above /\ Scroll!Above <= Logo /\ (~logo => Scroll!Above = 0)
      /\ (logo => Scroll!Above = Logo) /\ TextRows = ConsoleRows - Scroll!Above
      /\ TextRows \in Nat /\ left \in Nat /\ left < Lines /\ LineCount = TextRows + left
      /\ Logo \in Nat /\ Logo <= ConsoleRows
  BY LinesAre DEF TextRows, LineCount
<1>3. in \in Slot /\ screen \in [Scroll!Row -> Int]
  BY NowHolds DEF ScrollInv, NowIs, Windows
<1>4. last' \in 1..Texts /\ \A d : Scroll!TextAt(d)' = Scroll!TextAt(d)
  BY <1>1 DEF Scroll!TextAt, HistoryInv
<1>5. taken \in Nat /\ taken <= left /\ taken <= Logo /\ (~logo => taken = 0)
  BY <1>2 DEF Least
<1>. HIDE DEF taken
<1>6. RingHolds => RingHolds'
  <2> SUFFICES ASSUME RingHolds, NEW k \in 1..left'
               PROVE  FromNewest(Start', k) = gone'[k]
    BY DEF RingHolds
  <2>1. /\ k \in Nat /\ k \in 1..(Lines - 1) /\ taken + k <= Lines
        /\ k + taken < Lines /\ k + taken \in 1..left /\ taken + k = k + taken
    <3>1. left' \in Int /\ left' = left - taken
      BY <1>1, <1>2, <1>5
    <3>2. k \in Int /\ 1 <= k /\ k <= left - taken
      BY <3>1
    <3>3. QED
      BY RowsAre, <1>2, <1>5, <3>2
  <2>2. FromNewest(Start', k) = ring[Scroll!Back(in', k)]
    BY <1>1 DEF FromNewest, Start
  <2>3. Scroll!Back(in', k) = Scroll!Back(in, k + taken)
    BY <1>1, <1>3, <1>5, <2>1, BackAgain
  <2>4. ring[Scroll!Back(in, k + taken)] = gone[k + taken]
    BY <2>1 DEF RingHolds, FromNewest, Start
  <2>5. gone'[k] = gone[k + taken]
    BY <1>1, <2>1
  <2>6. QED
    BY <2>2, <2>3, <2>4, <2>5
<1>7. ASSUME NEW d \in 0..(LineCount - 1)
      PROVE  LineAt(d)' = LineAt(d)
  <2>0. /\ TextRows' = ConsoleRows /\ d \in Int /\ 0 <= d /\ d < TextRows + left
        /\ ConsoleRows \in Nat /\ Lines \in Nat
    BY RowsAre, <1>1, <1>2 DEF TextRows, Scroll!Above
  <2>1. CASE d < TextRows
    <3>1. ConsoleRows - d \in Scroll!Row /\ d < ConsoleRows
          /\ (logo => ~(ConsoleRows - d <= Logo))
      BY RowsAre, <1>2, <2>0, <2>1
    <3>2. New(ConsoleRows - d) = screen[ConsoleRows - d]
      BY RowsAre, <1>2, <1>5, <2>0, <3>1
    <3>3. LineAt(d)' = screen[ConsoleRows - d]
      BY <1>1, <2>0, <3>1, <3>2 DEF LineAt
    <3>4. QED
      BY <2>1, <3>3 DEF LineAt
  <2>2. CASE ~(d < TextRows) /\ d < ConsoleRows
    <3> DEFINE r == ConsoleRows - d
    <3>0. logo
      BY <1>2, <2>0, <2>2
    <3>1. r \in Scroll!Row /\ r <= Logo /\ r \in Int /\ Logo - r + 1 = d - TextRows + 1
      BY RowsAre, <1>2, <2>0, <2>2, <3>0
    <3>2. r > Logo - taken
      <4>1. taken = (IF left <= Logo THEN left ELSE Logo)
        BY <3>0 DEF taken, Least
      <4>2. QED
        BY <1>2, <2>0, <2>2, <3>0, <3>1, <4>1
    <3>3. LineAt(d)' = New(r)
      BY <1>1, <2>0, <2>2, <3>1 DEF LineAt
    <3>4. QED
      BY <2>2, <3>1, <3>2, <3>3 DEF LineAt
  <2>3. CASE ~(d < ConsoleRows)
    <3> DEFINE j == d - ConsoleRows + 1
    <3>1. Scroll!Above = taken
      <4>1. CASE logo
        <5>1. taken = (IF left <= Logo THEN left ELSE Logo)
          BY <4>1 DEF taken, Least
        <5>2. QED
          BY <1>2, <2>0, <2>3, <4>1, <5>1
      <4>2. QED
        BY <1>2, <1>5, <4>1
    <3>2. j \in Nat /\ taken + j <= Lines /\ taken + j = d - TextRows + 1
          /\ ~(d < TextRows)
      BY <1>2, <1>5, <2>0, <2>3, <3>1
    <3>3. LineAt(d)' = ring[Scroll!Back(in', j)]
      BY <1>1, <2>0, <2>3 DEF LineAt
    <3>4. Scroll!Back(in', j) = Scroll!Back(in, taken + j)
      BY <1>1, <1>3, <1>5, <3>2, BackAgain
    <3>5. LineAt(d) = ring[Scroll!Back(in, taken + j)]
      BY <3>2 DEF LineAt
    <3>6. QED
      BY <3>3, <3>4, <3>5
  <2>4. QED
    BY <2>0, <2>1, <2>2, <2>3
<1>8. LinesStand => LinesStand'
  <2> SUFFICES ASSUME LinesStand PROVE LinesStand'
    OBVIOUS
  <2>1. LineCount <= LineCount' /\ LineCount' \in Nat
    BY RowsAre, <1>1, <1>2, <1>5 DEF LineCount, TextRows, Scroll!Above
  <2>2. since \in Nat /\ since <= LineCount
    BY DEF LinesStand
  <2>3. \A d \in 0..(since - 1) : d \in 0..(LineCount - 1)
    BY <1>2, <2>2
  <2>4. QED
    BY <1>1, <1>2, <1>4, <1>7, <2>1, <2>2, <2>3 DEF LinesStand
<1>9. QED
  BY <1>1, <1>4, <1>6, <1>8 DEF HistoryInv

LEMMA HistoryNext ==
  ASSUME ScrollInv, HistoryInv, [Scroll!Next]_(Scroll!vars)
  PROVE  HistoryInv'
<1>1. ASSUME NEW delta \in (-Lines)..Lines, Scroll!Scrolldelta(delta) PROVE HistoryInv'
  BY <1>1, HistoryScrolldelta
<1>2. ASSUME NEW count \in Scroll!Row, Scroll!Output(count) PROVE HistoryInv'
  BY <1>2, HistoryOutput
<1>3. ASSUME NEW visible \in BOOLEAN, Scroll!ShowCursor(visible) PROVE HistoryInv'
  BY <1>3, ShowCursorIs, HistorySame
<1>4. ASSUME NEW l \in {5, Lines}, Scroll!Switch(l) PROVE HistoryInv'
  BY <1>4, HistorySwitch
<1>5. CASE UNCHANGED Scroll!vars
  BY <1>5, SameScroll, HistorySame
<1>6. QED
  BY <1>1, <1>2, <1>3, <1>4, <1>5, HistoryEdit, Zenon DEF Scroll!Next

LEMMA HistoryIs ==
  ASSUME ScrollInv, HistoryInv
  PROVE  HistoryInOrder
<1> SUFFICES ASSUME on
             PROVE  /\ Scroll!Held = left
                    /\ \A k \in 1..left : ring[Scroll!Back(in, k)] = gone[k]
                    /\ \A d \in 0..(since - 1) : Scroll!LineAt(d) = Scroll!TextAt(d)
  BY Zenon DEF HistoryInOrder, Scroll!HistoryInOrder
<1>1. RingHolds /\ LinesStand
  BY DEF HistoryInv
<1>2. Scroll!Held = left
  BY Zenon DEF ScrollInv, Scroll!Held, Scroll!Back
<1>3. \A k \in 1..left : ring[Scroll!Back(in, k)] = gone[k]
  BY <1>1 DEF RingHolds, FromNewest, Start
<1>4. \A d : Scroll!LineAt(d) = LineAt(d)
  BY Zenon DEF Scroll!LineAt, LineAt, TextRows
<1>5. QED
  BY <1>1, <1>2, <1>3, <1>4 DEF LinesStand

(* The ring holds the rows that were scrolled up and out of any region of the
   screen, and the ring and the screen together hold the lines printed since the
   screen was last changed in any other way, in order and with none missing,
   whatever scrolling, wrapping and the removal of the logo did to the pointers
   (fbcon.c:1836-1859, 1926-2118, 2894-2923). *)
THEOREM HistoryIsKept == KernelSpec => []HistoryInOrder
<1>1. KernelInit => ScrollInv /\ HistoryInv
  BY ScrollInit, HistoryInit, Zenon DEF KernelInit
<1>2. ScrollInv /\ HistoryInv /\ [KernelNext]_everything => ScrollInv' /\ HistoryInv'
  BY ScrollNext, HistoryNext, KernelStep
<1>3. ScrollInv /\ HistoryInv => HistoryInOrder
  BY HistoryIs
<1>4. QED
  BY <1>1, <1>2, <1>3, PTL DEF KernelSpec
=============================================================================
