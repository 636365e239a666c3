------------------------------ MODULE KbdConfig ------------------------------
(***************************************************************************)
(* What the Linux keyboard driver writes to the firmware's configuration   *)
(* and power-off registers (picocalc_kbd.c): the set-up of REG_ID_CFG in   *)
(* input_probe, the read-modify-write of the sysfs file fw_use_mods, which *)
(* several processes may write at once, the sysfs file poweroff, and the   *)
(* power-off sent at the end of a shutdown.  Any transfer may fail.        *)
(***************************************************************************)
EXTENDS Naturals

CONSTANT Writers   \* processes that write fw_use_mods

\* CFG_USE_MODS and CFG_REPORT_MODS; CFG_KEY_INT goes with the latter.
Config == [use : BOOLEAN, report : BOOLEAN]

VARIABLES
  cfg,        \* REG_ID_CFG in the firmware
  bound,      \* the driver is probed
  store,      \* per writer: "idle", or "write" with the value to write
  value,
  g_system_powering_off,
  shutdown,   \* the shutdown under way: "none", a code, or "done"
  off,        \* who has sent REG_ID_OFF: "file", "shutdown"
  asked, failed, code   \* ghosts: USE_MODS was asked for, a transfer failed, the
                        \* last shutdown announced

system == <<g_system_powering_off, shutdown, off, code>>
vars == <<cfg, bound, store, value, system, asked, failed>>

Codes == {"POWER_OFF", "RESTART", "HALT"}

TypeOK ==
  /\ cfg \in Config /\ bound \in BOOLEAN
  /\ store \in [Writers -> {"idle", "write"}]
  /\ value \in [Writers -> Config]
  /\ g_system_powering_off \in BOOLEAN
  /\ shutdown \in {"none", "announced", "done"} /\ code \in Codes
  /\ off \subseteq {"file", "shutdown"} /\ asked \in BOOLEAN /\ failed \in BOOLEAN

\* reg_init: the firmware starts with both bits set
Init ==
  /\ cfg = [use |-> TRUE, report |-> TRUE]
  /\ bound = FALSE
  /\ store = [p \in Writers |-> "idle"]
  /\ value = [p \in Writers |-> cfg]
  /\ g_system_powering_off = FALSE
  /\ shutdown = "none" /\ off = {} /\ code = "RESTART"
  /\ asked = FALSE /\ failed = FALSE

\* input_probe: without an answer the register stays as it is.
Probe ==
  /\ shutdown = "none" /\ ~bound
  /\ bound' = TRUE
  /\ \/ cfg' = [cfg EXCEPT !.use = FALSE, !.report = TRUE] /\ UNCHANGED failed
     \/ failed' = TRUE /\ UNCHANGED cfg
  /\ UNCHANGED <<store, value, system, asked>>

Remove ==
  /\ shutdown = "none" /\ bound
  /\ \A p \in Writers : store[p] = "idle"
  /\ bound' = FALSE
  /\ asked' = FALSE /\ failed' = FALSE
  /\ UNCHANGED <<cfg, store, value, system>>

\* Seeded fault: the byte written holds the one bit only.
StoreRead_OneBit(p) ==
  /\ bound /\ store[p] = "idle"
  /\ \E v \in BOOLEAN :
       /\ value' = [value EXCEPT ![p] = [use |-> v, report |-> FALSE]]
       /\ asked' = (asked \/ v)
  /\ store' = [store EXCEPT ![p] = "write"]
  /\ UNCHANGED <<cfg, bound, system, failed>>

\* fw_use_mods_store reads the register, or starts from 0 when that fails,
StoreRead(p) ==
  /\ bound /\ store[p] = "idle"
  /\ \E v \in BOOLEAN :
       /\ \/ /\ value' = [value EXCEPT ![p] = [cfg EXCEPT !.use = v]]
             /\ UNCHANGED failed
          \/ /\ value' = [value EXCEPT ![p] = [use |-> v, report |-> FALSE]]
             /\ failed' = TRUE
       /\ asked' = (asked \/ v)
  /\ store' = [store EXCEPT ![p] = "write"]
  /\ UNCHANGED <<cfg, bound, system>>

\* and writes it back.
StoreWrite(p) ==
  /\ store[p] = "write"
  /\ store' = [store EXCEPT ![p] = "idle"]
  /\ \/ cfg' = value[p] /\ UNCHANGED failed
     \/ failed' = TRUE /\ UNCHANGED cfg
  /\ UNCHANGED <<bound, value, system, asked>>

\* poweroff_store, for a value of 6 or more
PowerOff ==
  /\ bound
  /\ \/ off' = off \cup {"file"} /\ UNCHANGED failed
     \/ failed' = TRUE /\ UNCHANGED off
  /\ UNCHANGED <<cfg, bound, store, value, g_system_powering_off, shutdown, code, asked>>

-----------------------------------------------------------------------------

\* picocalc_reboot_notify; a shutdown may be announced again before the devices
\* are shut down
RebootNotify ==
  /\ shutdown # "done"
  /\ code' \in Codes
  /\ g_system_powering_off' = (code' = "POWER_OFF")
  /\ shutdown' = "announced"
  /\ UNCHANGED <<cfg, bound, store, value, off, asked, failed>>

\* picocalc_kbd_shutdown, once every process has ended; the machine stops.
Shutdown ==
  /\ shutdown = "announced"
  /\ shutdown' = "done"
  /\ \/ UNCHANGED failed
        /\ off' = IF g_system_powering_off /\ bound THEN off \cup {"shutdown"} ELSE off
     \/ failed' = TRUE /\ UNCHANGED off
  /\ UNCHANGED <<cfg, bound, store, value, g_system_powering_off, code, asked>>

Next ==
  \/ Probe \/ Remove \/ PowerOff \/ RebootNotify \/ Shutdown
  \/ \E p \in Writers : StoreRead(p) \/ StoreWrite(p)

Spec == Init /\ [][Next]_vars

-----------------------------------------------------------------------------

\* Two writers of fw_use_mods may overtake each other, but while no transfer
\* fails the modifiers go on being reported, and the firmware sends raw
\* scancodes as long as nobody asked for the other mode (picocalc_kbd.c:1110-1115,
\* 1197-1201).
ConfigKept ==
  bound /\ ~failed => cfg.report /\ (cfg.use => asked)

\* The end of a shutdown tells the firmware to cut the power in a power-off and in
\* nothing else, and always in a power-off of a bound driver whose transfer does not fail
\* (picocalc_kbd.c:1306-1325).
OffOnlyOnPowerOff ==
  shutdown = "done" /\ ~failed => ("shutdown" \in off <=> code = "POWER_OFF" /\ bound)

\* Both: what the firmware was told is what was asked for.
ToldAsAsked == ConfigKept /\ OffOnlyOnPowerOff
=============================================================================
