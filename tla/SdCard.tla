------------------------------- MODULE SdCard -------------------------------
(***************************************************************************)
(* The SD card driver of the kernel (drivers/mmc/core/sd.c): attaching,    *)
(* initialising, suspending, resuming, resetting and detaching a card that *)
(* the user may pull out or exchange at any time, over a bus whose every   *)
(* command may fail.  One action per command, in the order the code sends  *)
(* them.  host.spi tells the two slots of the PicoCalc apart: the native   *)
(* one and the one behind SPI; host.uhs is a host with 1.8 V modes.        *)
(*                                                                         *)
(* What the driver believes (ios, card) and what the card does (phys) are  *)
(* separate.  The core (mmc_power_up, the claim of the host, the rescan)   *)
(* and the card itself are outside sd.c and modelled as the SD             *)
(* specification and the calls need: a card answers only in the state the  *)
(* command is for, never at 1.8 V before it switched; cutting the power    *)
(* resets it.                                                              *)
(***************************************************************************)
EXTENDS Naturals

CONSTANTS
  Cids,        \* the cards
  Uhs,         \* those with 1.8 V modes
  Cached,      \* those with a volatile cache (performance extension)
  Retries      \* attempts at the voltage switch (10 in the code)

ASSUME ConstantsAssumption == Uhs \subseteq Cids /\ Retries \in Nat

VARIABLES
  host,        \* [spi, uhs], fixed
  slot, phys,  \* the card in the slot and its state
  ios,         \* what the host drives: [on, v18, wide, mode]
  card,        \* host->card: [cid, suspended, cache], or NoCard
  good,        \* ghost: the last initialisation of host->card completed
  op,          \* [name, pc, retries, fixup_failed, s18a]
  flushed      \* what the last flush returned

None == "none"
drive == <<ios, card, good>>
vars == <<host, slot, phys, drive, op, flushed>>

Off == [st |-> "off", v18 |-> FALSE, wide |-> FALSE, mode |-> "ds",
        cache |-> FALSE, dirty |-> FALSE]
Powered == [Off EXCEPT !.st = "idle"]
\* as the boot loader may leave it, its power never cut
Left18 == [Off EXCEPT !.st = "tran", !.v18 = TRUE]
PowerOn == [on |-> TRUE, v18 |-> FALSE, wide |-> FALSE, mode |-> "ds"]
PowerOff == [PowerOn EXCEPT !.on = FALSE]
NoCard == [cid |-> None, suspended |-> FALSE, cache |-> FALSE]
Quiet == [name |-> None, pc |-> None, retries |-> 0,
          fixup_failed |-> FALSE, s18a |-> FALSE]

TypeOK ==
  /\ host \in [spi : BOOLEAN, uhs : BOOLEAN]
  /\ slot \in Cids \cup {None}
  /\ phys \in [st : {"off", "idle", "ready", "ident", "stby", "tran"},
               v18 : BOOLEAN, wide : BOOLEAN, mode : {"ds", "hs", "uhs"},
               cache : BOOLEAN, dirty : BOOLEAN]
  /\ ios \in [on : BOOLEAN, v18 : BOOLEAN, wide : BOOLEAN,
              mode : {"ds", "hs", "uhs"}]
  /\ card \in [cid : Cids \cup {None}, suspended : BOOLEAN, cache : BOOLEAN]
  /\ good \in BOOLEAN
  /\ op.retries \in 0..Retries
  /\ flushed \in {None, "ok", "err"}

Init ==
  /\ host \in {h \in [spi : BOOLEAN, uhs : BOOLEAN] : ~(h.spi /\ h.uhs)}
  /\ \/ slot \in Cids \cup {None} /\ phys = Off
     \/ slot \in Uhs /\ host.uhs /\ phys = Left18
  /\ ios = PowerOff
  /\ card = NoCard /\ good = FALSE
  /\ op = Quiet
  /\ flushed = None

-----------------------------------------------------------------------------
(* The card and the user. *)

Insert(c) ==
  /\ slot = None
  /\ slot' = c
  /\ phys' = IF ios.on THEN Powered ELSE Off
  /\ UNCHANGED <<host, drive, op, flushed>>

PullOut ==
  /\ slot # None
  /\ slot' = None
  /\ phys' = Off
  /\ UNCHANGED <<host, drive, op, flushed>>

\* The card answers a command of the states "from".
Answers(from) ==
  /\ slot # None /\ phys.st \in from
  /\ ios.v18 => phys.v18

\* In SPI mode a card is in its transfer state once it is initialised.
Ready == IF host.spi THEN "tran" ELSE "ready"

Reset(p) == IF slot = None THEN Off ELSE p

-----------------------------------------------------------------------------
(* Where an operation stands. *)

At(pc) == op.pc = pc /\ UNCHANGED host
Goto(pc) == op' = [op EXCEPT !.pc = pc]
Old == op.name \in {"resume", "reset"}

Begin(name) ==
  op' = [Quiet EXCEPT !.name = name, !.pc = "cid", !.retries = Retries]

\* free_card, and what the callers of mmc_sd_init_card do with the error:
\* mmc_attach_sd detaches the bus (and the rescan cuts the power),
\* _mmc_sd_resume and mmc_sd_hw_reset keep the card
FreeCard ==
  /\ op' = Quiet
  /\ good' = FALSE
  /\ IF op.name = "attach"
       THEN card' = NoCard /\ ios' = PowerOff /\ phys' = Reset(Off)
       ELSE /\ card' = [card EXCEPT !.suspended = FALSE]
            /\ UNCHANGED <<ios, phys>>
  /\ UNCHANGED <<slot, flushed>>


-----------------------------------------------------------------------------
(* mmc_sd_get_cid *)

\* go_idle, send_if_cond, send_app_op_cond
OpCond ==
  /\ At("cid")
  /\ \/ /\ slot # None /\ ios.on
        /\ ~(ios.v18 /\ ~phys.v18)
        /\ LET asked == op.retries > 0 /\ host.uhs
               s18a == asked /\ slot \in Uhs /\ ~phys.v18
           IN op' = [op EXCEPT !.s18a = s18a,
                               !.pc = IF s18a THEN "volt" ELSE "send_cid"]
        /\ phys' = [Powered EXCEPT !.st = Ready, !.v18 = phys.v18]
        /\ UNCHANGED <<slot, drive, flushed>>
     \/ FreeCard

\* Seeded fault: a failed switch does not use up an attempt.
AgainLeft_All == op.retries
AgainLeft == op.retries - 1

\* mmc_set_uhs_voltage: a failure cycles the power; -EAGAIN is tried again,
\* another one gives the switch up
SetUhsVoltage ==
  /\ At("volt")
  /\ \/ /\ Answers({"ready"})
        /\ phys' = [phys EXCEPT !.v18 = TRUE]
        /\ ios' = [ios EXCEPT !.v18 = TRUE]
        /\ Goto("send_cid")
     \/ /\ phys' = Reset(Powered)
        /\ ios' = PowerOn
        /\ \E left \in {AgainLeft, 0} :
             op' = [op EXCEPT !.retries = left, !.pc = "cid"]
  /\ UNCHANGED <<slot, card, good, flushed>>

\* Seeded fault: the identity of the card is not compared.
SameCard_Any == TRUE

\* memcmp(cid, oldcard->raw_cid)
SameCard == slot = card.cid

SendCid ==
  /\ At("send_cid")
  /\ \/ /\ Answers({Ready})
        /\ Old => SameCard
        /\ phys' = [phys EXCEPT !.st = IF host.spi THEN "tran" ELSE "ident"]
        /\ Goto(IF host.spi THEN "setup" ELSE "rca")
        /\ UNCHANGED <<slot, drive, flushed>>
     \/ FreeCard

-----------------------------------------------------------------------------
(* mmc_sd_init_card *)

\* mmc_send_relative_addr, mmc_sd_get_csd, mmc_select_card
RelativeAddr ==
  /\ At("rca")
  /\ \/ /\ Answers({"ident"})
        /\ phys' = [phys EXCEPT !.st = "stby"]
        /\ Goto("select")
        /\ UNCHANGED <<slot, drive, flushed>>
     \/ FreeCard

Select ==
  /\ At("select")
  /\ \/ /\ Answers({"stby"})
        /\ phys' = [phys EXCEPT !.st = "tran"]
        /\ Goto("setup")
        /\ UNCHANGED <<slot, drive, flushed>>
     \/ FreeCard

\* Seeded fault: a card left at 1.8 V by a warm start is not noticed.
StillAt18_Never == FALSE

\* mmc_sd_card_using_v18: only a card at 1.8 V lists its 1.8 V modes
StillAt18 ==
  /\ ~op.fixup_failed /\ host.uhs
  /\ phys.v18 /\ ~ios.v18

\* mmc_sd_setup_card, and the choice of how to go on
Setup ==
  /\ At("setup")
  /\ \/ /\ Answers({"tran"})
        /\ Goto(IF StillAt18 THEN "fix_volt"
                ELSE IF op.s18a THEN "uhs_wide" ELSE "hs")
        /\ UNCHANGED <<slot, phys, drive, flushed>>
     \/ FreeCard

\* The fix-up failed: the power is cycled and everything tried again.
FixupFails ==
  /\ phys' = Reset(Powered)
  /\ ios' = PowerOn
  /\ op' = [op EXCEPT !.pc = "cid", !.retries = Retries, !.fixup_failed = TRUE]
  /\ UNCHANGED <<slot, card, good, flushed>>

\* mmc_host_set_uhs_voltage
FixVolt ==
  /\ At("fix_volt")
  /\ \/ /\ ios' = [ios EXCEPT !.v18 = TRUE]
        /\ Goto("fix_wide")
        /\ UNCHANGED <<slot, phys, card, good, flushed>>
     \/ FixupFails

\* mmc_sd_init_uhs_card: four wires, drive strength and current, the mode,
\* tuning.  A mode the card does not confirm is left alone with a warning.
UhsWide(at, next, Failed) ==
  /\ At(at)
  /\ \/ /\ Answers({"tran"})
        /\ phys' = [phys EXCEPT !.wide = TRUE]
        /\ ios' = [ios EXCEPT !.wide = TRUE]
        /\ Goto(next)
        /\ UNCHANGED <<slot, card, good, flushed>>
     \/ Failed

UhsMode(at, Failed) ==
  /\ At(at)
  /\ \/ /\ Answers({"tran"})
        /\ \E mode \in {"ds", "uhs"} :
             /\ phys' = [phys EXCEPT !.mode = mode]
             /\ ios' = [ios EXCEPT !.mode = mode]
        /\ Goto("ext")
        /\ UNCHANGED <<slot, card, good, flushed>>
     \/ Failed

\* mmc_sd_switch_hs and the clock: 1, 0 or an error
SwitchHs ==
  /\ At("hs")
  /\ \/ /\ Answers({"tran"})
        /\ \E mode \in {"ds", "hs"} :
             /\ phys' = [phys EXCEPT !.mode = mode]
             /\ ios' = [ios EXCEPT !.mode = mode]
        /\ Goto(IF host.spi THEN "ext" ELSE "wide")
        /\ UNCHANGED <<slot, card, good, flushed>>
     \/ FreeCard

Wide == UhsWide("wide", "ext", FreeCard)

\* The initialisation is complete: host->card = card.  mmc_attach_sd adds the
\* card to the system and takes it back if that fails.  A host that avoids 3.3 V
\* refuses a card that stays there, with everything set up.
Finish(cache) ==
  /\ op' = Quiet
  /\ \/ /\ card' = [cid |-> slot, suspended |-> FALSE, cache |-> cache]
        /\ good' = TRUE
        /\ phys' = [phys EXCEPT !.cache = cache] /\ UNCHANGED ios
     \/ /\ op.name = "attach"
        /\ card' = NoCard /\ good' = FALSE
        /\ ios' = PowerOff /\ phys' = Reset(Off)
     \/ /\ Old /\ ~ios.v18
        /\ card' = [card EXCEPT !.suspended = FALSE, !.cache = cache]
        /\ good' = FALSE
        /\ phys' = [phys EXCEPT !.cache = cache] /\ UNCHANGED ios

HasCache == slot \in Cached /\ ~host.spi

\* sd_read_ext_regs
ReadExtRegs ==
  /\ At("ext")
  /\ \/ /\ Answers({"tran"})
        /\ IF HasCache
             THEN Goto("cache") /\ UNCHANGED <<phys, drive>>
             ELSE Finish(FALSE)
        /\ UNCHANGED <<slot, flushed>>
     \/ FreeCard

\* Seeded fault: a card that does not confirm its cache is used without one.
CacheFails_GoesOn ==
  /\ op' = Quiet /\ good' = TRUE
  /\ card' = [cid |-> slot, suspended |-> FALSE, cache |-> FALSE]
  /\ UNCHANGED ios

\* The write of the enable bit may have reached the card all the same.
CacheFails ==
  /\ op' = Quiet
  /\ good' = FALSE
  /\ IF op.name = "attach"
       THEN card' = NoCard /\ ios' = PowerOff
       ELSE card' = [card EXCEPT !.suspended = FALSE, !.cache = FALSE]
            /\ UNCHANGED ios

\* sd_enable_cache
EnableCache ==
  /\ At("cache")
  /\ \/ /\ Answers({"tran"})
        /\ Finish(TRUE)
        /\ UNCHANGED <<slot, flushed>>
     \/ /\ CacheFails
        /\ \E reached \in {FALSE, Answers({"tran"})} :
             phys' = IF ~ios'.on THEN Reset(Off)
                     ELSE [phys EXCEPT !.cache = reached]
        /\ UNCHANGED <<slot, flushed>>

-----------------------------------------------------------------------------
(* The operations of mmc_sd_ops. *)

Free == op = Quiet /\ UNCHANGED host
InUse == op = Quiet /\ card # NoCard /\ ~card.suspended
Running == Free /\ InUse

\* mmc_power_up: a card whose power was never cut keeps its voltage
PowerUp ==
  /\ ios' = PowerOn
  /\ phys' = Reset(IF phys.st = "off" THEN Powered ELSE phys)

\* The rescan of the core calls mmc_attach_sd.
Attach ==
  /\ Free /\ card = NoCard /\ slot # None
  /\ PowerUp
  /\ Begin("attach")
  /\ UNCHANGED <<slot, card, good, flushed>>

\* mmc_sd_detect: the card does not answer, mmc_sd_remove and power off
Detect ==
  /\ Running /\ ~Answers({"stby", "tran"})
  /\ card' = NoCard /\ good' = FALSE
  /\ ios' = PowerOff /\ phys' = Reset(Off)
  /\ UNCHANGED <<slot, op, flushed>>

CutPower ==
  /\ ios' = PowerOff /\ phys' = Reset(Off)
  /\ card' = [card EXCEPT !.suspended = TRUE]

\* _mmc_sd_suspend: sd_poweroff_notify or mmc_deselect_cards, then the power.  If
\* that fails the power stays, and the card may be deselected all the same.
Suspend ==
  /\ Running
  /\ \/ CutPower
     \/ UNCHANGED <<phys, ios, card>>
     \/ /\ ~host.spi /\ Answers({"tran"})
        /\ phys' = [phys EXCEPT !.st = "stby"]
        /\ UNCHANGED <<ios, card>>
  /\ UNCHANGED <<slot, good, op, flushed>>

\* _mmc_sd_resume; mmc_sd_runtime_resume drops its error
Resume ==
  /\ Free /\ card # NoCard /\ card.suspended
  /\ PowerUp
  /\ Begin("resume")
  /\ UNCHANGED <<slot, card, good, flushed>>

\* mmc_sd_hw_reset
HwReset ==
  /\ Running
  /\ ios' = PowerOn /\ phys' = Reset(Powered)
  /\ Begin("reset")
  /\ UNCHANGED <<slot, card, good, flushed>>

\* _mmc_sd_shutdown: the signal voltage is noted as 3.3 V, cut or not
Shutdown ==
  /\ Running
  /\ \/ CutPower
     \/ ios' = [ios EXCEPT !.v18 = FALSE] /\ UNCHANGED <<phys, card>>
  /\ op' = [Quiet EXCEPT !.name = "down"]
  /\ UNCHANGED <<slot, good, flushed>>

\* A write of the block layer.
Write ==
  /\ Running /\ Answers({"tran"})
  /\ phys' = [phys EXCEPT !.dirty = phys.cache]
  /\ flushed' = None
  /\ UNCHANGED <<slot, drive, op>>

\* sd_flush_cache: set the bit, wait, see it cleared
Flush ==
  /\ Running
  /\ \/ /\ ~card.cache
        /\ flushed' = "ok" /\ UNCHANGED phys
     \/ /\ card.cache /\ Answers({"tran"})
        /\ phys' = [phys EXCEPT !.dirty = FALSE]
        /\ flushed' \in {"ok", "err"}
     \/ /\ card.cache
        /\ flushed' = "err" /\ UNCHANGED phys
  /\ UNCHANGED <<slot, drive, op>>

Command ==
  \/ OpCond \/ SetUhsVoltage \/ SendCid \/ RelativeAddr \/ Select \/ Setup
  \/ FixVolt
  \/ UhsWide("fix_wide", "fix_mode", FixupFails) \/ UhsMode("fix_mode", FixupFails)
  \/ UhsWide("uhs_wide", "uhs_mode", FreeCard) \/ UhsMode("uhs_mode", FreeCard)
  \/ SwitchHs \/ Wide \/ ReadExtRegs \/ EnableCache

User == PullOut \/ \E c \in Cids : Insert(c)

Next ==
  \/ Command \/ User
  \/ Attach \/ Detect \/ Suspend \/ Resume \/ HwReset \/ Shutdown
  \/ Write \/ Flush

\* Every command the core sends completes, with an answer or an error.
Spec == Init /\ [][Next]_vars /\ WF_vars(Command)

-----------------------------------------------------------------------------
(* Properties *)

\* A card in use signals at the voltage, over the wires and in the mode the
\* host drives, whatever attempts at another one failed on the way
\* (sd.c:623-715, 815-884, 1403-1576).
SameBus ==
  InUse /\ good /\ phys.st = "tran" =>
    /\ phys.v18 = ios.v18 /\ phys.wide = ios.wide /\ phys.mode = ios.mode

\* In the native slot, what the system writes to the card it knows never
\* reaches one that was exchanged for it, even while the power was off
\* (sd.c:1417-1423).
OnlyOwnCard ==
  ~host.spi /\ InUse /\ phys.st = "tran" => slot = card.cid

\* A flush that reported success left nothing in the cache of a card whose
\* last initialisation completed (sd.c:1307-1396).
FlushIsReal ==
  flushed = "ok" /\ good /\ InUse => ~phys.dirty

\* An initialisation ends, whatever fails: the attempts at 1.8 V are bounded
\* and the fix-up is tried once (sd.c:815-884, 1488-1500).
InitEnds ==
  (op.name \in {"attach", "resume", "reset"}) ~> (op.name \in {None, "down"})

=============================================================================
