------------------------------ MODULE LinuxKbd ------------------------------
(***************************************************************************)
(* Five parts of the Linux keyboard driver, of which a run takes those in  *)
(* Parts: the keyboard backlight (KbdBacklight), probe and remove          *)
(* (KbdLifecycle), the configuration register and the shutdown (KbdConfig),*)
(* the way of an event from the firmware's FIFO (KeyLink) and the movement *)
(* of the pointer (MouseMove).  The driver's own locks and queues keep     *)
(* their variables apart, so their interleavings would show nothing: a     *)
(* behaviour is one of one part, and the variables of the others stay as   *)
(* they start.  The dispatch of keys has a run of its own (KbdDispatch).   *)
(***************************************************************************)
EXTENDS KbdBacklight

CONSTANTS Parts,                                    \* of "light", "life", "config", "link", "mouse"
          Writers,                                  \* of KbdConfig
          LinkKeys, NoKey, FifoSize, BatchSize,     \* of KeyLink
          ArrowKeys, Unit, Incs, MaxPx              \* of MouseMove

\* inc_fp of a tick is no more than MaxPx pixels and never negative: the sysfs files
\* refuse a negative speed, and the speeds meant here are those below 838861, whose
\* product by 10 * 256 fits an int (picocalc_kbd.c:542, 996, 1038).
ASSUME PixelsAssumption ==
  /\ Unit \in Nat \ {0} /\ MaxPx \in Nat
  /\ Incs \subseteq 0..(Unit * MaxPx)

\* The firmware's FIFO has a slot, and an event has a key.
ASSUME LinkAssumption == FifoSize \in Nat \ {0} /\ NoKey \notin LinkKeys

VARIABLES
  part,
  old, bus, g_ctx, live, timer, work, work_pending, dw, files, handler, fault,
  early, probe_failed, rearmed, unsynced,
  cfg, bound, store, value, g_system_powering_off, shutdown, off, asked,
  cfg_failed, code,
  slots, count, read_idx, write_idx, kpc, reg, item, batch, lpc, held, down, lost,
  slipped,
  mouse_dir, starting, sub, mpc, axis, mreg, inc, dir, step_px, tested, released, rel

Lifecycle == INSTANCE KbdLifecycle WITH pc <- bus, failed <- probe_failed
Config == INSTANCE KbdConfig WITH failed <- cfg_failed
Link == INSTANCE KeyLink WITH Keys <- LinkKeys, pc <- lpc
Mouse == INSTANCE MouseMove WITH Keys <- ArrowKeys, pc <- mpc, reg <- mreg

lighting == vars
living == <<old, bus, g_ctx, live, timer, work, work_pending, dw, files, handler,
            fault, early, probe_failed, rearmed, unsynced>>
configuring == <<cfg, bound, store, value, g_system_powering_off, shutdown, off,
                 asked, cfg_failed, code>>
linking == <<slots, count, read_idx, write_idx, kpc, reg, item, batch, lpc, held,
             down, lost, slipped>>
moving == <<mouse_dir, starting, sub, mpc, axis, mreg, inc, dir, step_px, tested,
            released, rel>>
everything == <<part, lighting, living, configuring, linking, moving>>

LinuxKbdInit ==
  /\ part \in Parts
  /\ Init
  /\ Lifecycle!Init /\ (part # "life" => ~old)
  /\ Config!Init /\ Link!Init /\ Mouse!Init

LightStep(A) ==
  part = "light" /\ A /\ UNCHANGED <<part, living, configuring, linking, moving>>
LifeStep(A) ==
  part = "life" /\ A /\ UNCHANGED <<part, lighting, configuring, linking, moving>>
ConfigStep(A) ==
  part = "config" /\ A /\ UNCHANGED <<part, lighting, living, linking, moving>>
LinkStep(A) ==
  part = "link" /\ A /\ UNCHANGED <<part, lighting, living, configuring, moving>>
MouseStep(A) ==
  part = "mouse" /\ A /\ UNCHANGED <<part, lighting, living, configuring, linking>>

\* A driver whose probe failed stays so, and a machine that was shut down stops.
AtRest ==
  /\ \/ part = "life" /\ bus = "failed"
     \/ part = "config" /\ shutdown = "done"
  /\ UNCHANGED everything

LinuxKbdNext ==
  \/ LightStep(Next)
  \/ LifeStep(Lifecycle!Next)
  \/ ConfigStep(Config!Next)
  \/ LinkStep(Link!Next)
  \/ MouseStep(Mouse!Next)
  \/ AtRest

\* The fairness of the keyboard backlight; the other parts need none.
LinuxKbdSpec ==
  /\ LinuxKbdInit /\ [][LinuxKbdNext]_everything
  /\ WF_everything(LightStep(InputWork)) /\ WF_everything(LightStep(Restore))

-----------------------------------------------------------------------------
(* The properties of the parts, beside those of KbdBacklight. *)

\* No timer, work or handler uses a context that is not there, but for the four
\* ways in which the code lets one (picocalc_kbd.c:1242-1300, 876-880; the old
\* driver's picocalc_kbd.c:712-735).
LifecycleSafe == Lifecycle!LifecycleSafe

\* Linux holds down exactly the keys that are held, but for those whose last
\* event was refused or swallowed, until the firmware's interrupt loses an update
\* of count (fifo.ino:18-58, picocalc_keyboard.ino:90-104, picocalc_kbd.c:423-446).
DownIfHeld == Link!DownIfHeld

\* Writers of fw_use_mods may overtake each other, but while no transfer fails
\* modifiers go on being reported and scancodes stay raw until somebody asks; and
\* the firmware is told to cut the power exactly when the machine powers off
\* (picocalc_kbd.c:1110-1115, 1197-1201, 1306-1325).
ToldAsAsked == Config!ToldAsAsked

\* The pointer moves where a held key points, unless one was released before the
\* sign was chosen, and carries less than a pixel over (picocalc_kbd.c:511-556).
PointerTrue == Mouse!PointerTrue
=============================================================================
