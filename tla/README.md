# PicoCalc on the RK3506: a verification project

TLA+ models of the PicoCalc handheld's own software, the TLC configurations
that check them on small instances, and theorems about them checked by TLAPS.
Line numbers are those of the repository; `KBD` stands for
`modules-drivers/picocalc_keyboard_stm_mod/picocalc_kbd.c`, `FW` for
`modules-drivers/picocalc_keyboard_stm_mod/picocalc_keyboard_stm/`, `MCU` for
`src/hal/project/rk3506-mcu/src/main.c`, `KERNEL` for `src/kernel-6.1/`.

## 1. The system

Three processors. An STM32 scans the keyboard, drives the backlights and LEDs
and talks to the power chip; it is an I2C slave of the RK3506, which runs Linux;
a small microcontroller core of the RK3506 makes sound by bit-banging and
shares memory with Linux.

| Component | State it keeps | Operations | Talks to |
|---|---|---|---|
| Firmware key scanner (`FW/keyboard.ino`) | item list (key, state, times), modifiers, caps and num lock | `keyboard_process` -> `next_item_state` -> `transition_to` | calls `key_cb` for each transition |
| Firmware key FIFO (`FW/fifo.ino`) | ring, count, read and write index | enqueue, forced enqueue (main loop); dequeue (I2C interrupt) | filled by `key_cb`, emptied by `receiveEvent` |
| Firmware registers and I2C slave (`FW/reg.ino`, `picocalc_keyboard.ino`) | register file, response buffer, two ticks | `receiveEvent`, `requestEvent` (interrupt); bus watchdog (main loop) | the Linux driver |
| Firmware power and LEDs (`picocalc_keyboard.ino`, `battery.ino`) | `pmu_online`, `pmu_flag`, LED register and pending flag | `check_pmu_int`, `low_bat`, `led_apply` | power chip, main loop, I2C interrupt |
| Linux keyboard driver (`KBD`) | per-key emit mode, modifiers, mouse direction, flash state | input work (poll FIFO, dispatch), two delayed works, sysfs stores, probe/remove, power-off | firmware over I2C; input core |
| Log ring (`drivers/misc/mculog.c`, `MCU`) | head, tail, flag and bytes in shared memory | handshake; `_write` (microcontroller), `mculog_read` (Linux) | each other, without a lock |
| Soft-PWM sound (`sound/pwm/picocalc-softpwm.c`, `MCU`) | PCM pointers, `is_on`, duty registers, `enable`, `flag` | PCM operations, hrtimer; timer interrupt and main loop of the microcontroller | duty registers in shared memory |
| Hardware-PWM sound (`modules-drivers/picocalc_snd_hw_pwm`) | as above, one PWM device | PCM operations, hrtimer | PWM core |
| Overlays (`KERNEL drivers/of/configfs.c`) | per item: path, firmware, blob, overlay id | path store, dtbo write, release | configfs, overlay core |
| Old and simple keyboard drivers | shift and mouse state; last key | poll and report | firmware FIFO, input core |
| SD card driver (`KERNEL drivers/mmc/core/sd.c`) | the card known, the bus settings | attach, initialise, suspend, resume, reset, shutdown, flush, detach | card, MMC core |
| Framebuffer console (`KERNEL drivers/video/fbdev/core/fbcon.c`) | scrollback ring and window; map of consoles to frame buffers | output, scrolling, switching; register, remap, bind, unbind | virtual terminals, frame buffers |
| ILI9488 display drivers | none of their own | register programming | DRM |
| Other kernel files, Buildroot, scripts | - | - | - |

### What is hard, and what must hold

* **FIFO**: two contexts of one core share it without masking interrupts. It
  must be a bounded queue: events in order, lost only when full, count in step
  with the indices.
* **Scanner**: the keys share a short list; modifiers change between press and
  release. Each key has one item, presses and releases alternate, every release
  is reported, a modifier is set exactly while its key is listed.
* **Power and LEDs**: the I2C interrupt writes flags and LED register between any
  two steps of the loop; the power chip's line is edge-triggered. A long press,
  an empty battery and the driver's request must each cut the power; what the
  driver wrote to the LEDs must stay.
* **Watchdog**: an unsigned difference of times, one of them moved by a handler, and
  handlers that run on after the comparison until they are removed.
* **Polling**: a full FIFO or a failed transfer loses an event, and a read may hit the
  enqueue of another; Linux must hold down what is held all the same, but for the keys
  whose last event was lost.
* **Dispatch**: a key is released in another layer than it was pressed in.
  Nothing may be stuck down; the shift supplement must not outlive R-shift; the
  pointer must move while, and only while, an arrow is held, and where it points,
  though the mover re-arms itself in one worker and is cancelled in another.
* **Backlights**: two workers and sysfs write one register; levels are bytes. A
  flash must end and give the level back; a key that brightens must not dim.
* **Probe and remove**: timer, works and sysfs handlers outlive what they use
  unless they are stopped in the right order.
* **Log ring**: each side works with a stale copy of the other's index. Unread
  bytes must survive, a write may be cut short only by a full ring, a fault must
  not consume bytes. The handshake must not take an old answer for a new one.
* **Sound**: the timer callback takes no lock, so START, STOP, closing and removal
  run beside it on another core, and the microcontroller's interrupt beside its
  main loop. A STOP must silence the pin, a period must be reported where the
  pointer is, the callback must read within a buffer that is there. A system suspend is
  refused by the triggers and happens all the same.
* **SD card**: any command may fail and the card may be exchanged at any time;
  card and host must agree on voltage, width and mode, data must not reach another card.
* **Console**: the ring wraps under a window that may stand anywhere in it, and takes
  in rows from whatever region of the screen scrolls up; frame buffers come and go
  under consoles.
* **Overlays**: what fails half way, or is written twice, must not stay behind.

`PROJECT.json` lists every hazard at its line with the properties that cover it.

## 2. The modules

| Module | Models | State and actions against the code |
|---|---|---|
| `EventQueue` | what the key FIFO promises | an ideal queue; accept, refuse, lose oldest or newest, pop. Its own two theorems say that pops come in order |
| `KeyFifo` | `FW/fifo.ino`, `key_cb` | `fifo`, `count`, `read_idx`, `write_idx` are the struct; `pc` and `reg` are the main loop's place and register. One action per memory access; `Dequeue` and `WriteCfg` are the interrupt, which runs wherever `IsrPoints` lets it in |
| `KeyScan` | `FW/keyboard.ino` | `entry`, `state` are the list, `mods` and the locks as in the struct; one `Scan` step treats one pin, by `Press`, `Rest`, `Hold`, `Wait`, `Release` or `Free`. `Report` is `transition_to` |
| `FwPower` | `loop`, `setup`, `check_pmu_int`, `led_apply`, the LED and power cases of `receiveEvent`; `battery.ino` | one step of the loop is what it does between two accesses to what an interrupt writes; the power chip raises events into `status` and pulls its line |
| `BusWatchdog` | the watchdog in `loop`, `ResetI2CBus`, the ticks of the two handlers | `at` is what `millis()` returned last; a handler may run before the tick is loaded, and after a comparison that said late until `ResetI2CBus` removes it. The ticks may be as old as the boot when the watchdog sets in (`Start`) |
| `KeyLink` | `key_cb`, the enqueue and dequeue of `FW/fifo.ino`, `input_fw_read_fifo`, `input_workqueue_handler` | the ring as in `KeyFifo` with overflow off, in the steps of the enqueue a read can tell apart; a read takes an event out of it and may fail; the batch is dispatched after it is read, and HOLD is swallowed there |
| `KbdDispatch` | `key_dispatch`, `mouse_emit_rel` in `KBD` | one action per branch of the dispatch; `MouseExpire` and `MouseRearm` are the two halves of the delayed work; `down` is what the input core has been told |
| `MouseMove` | `mouse_emit_rel`, `mouse_start_move`, `mouse_stop_move` | one step per load or store of `mouse_dir` or of a fraction; a first direction resets the two fractions one after the other |
| `KbdBacklight` | flash, restore, cycle, sysfs in `KBD`; `FW/backlight.ino` | `pc` is the input work in `trigger_backlight_flash`, `rpc` the restoring work; one action per I2C transfer or assignment |
| `ScreenBacklight` | `screen_backlight_adjust`, sysfs, firmware clamp | read, 8-bit add and clamp, write; either transfer may fail |
| `KbdLifecycle` | probe and remove of `KBD` and of the old driver | `bus` steps through probe and remove; timer, input work, delayed works and a sysfs handler run beside it. `fault` is the first use of a context that is not there |
| `KbdConfig` | set-up of the configuration register, `fw_use_mods`, `poweroff`, the notifier, the end of a shutdown | a store is a read and a write transfer |
| `OldKbd` | `key_report_event` of the old driver | one action per press, repeat, HOLD and release, through `proccess_fn_key` and the branches of mouse mode |
| `BytePipe` | what the log ring promises | bytes accepted and returned in order, at most `Room` in between |
| `McuLog` | `_write` in `MCU`, `mculog_read` | `wpc` and `rpc` step through the two functions, one access to a shared index or half a wrapped copy at a time |
| `McuHandshake` | `mculog_probe`, the start of `main` | stores of Linux are pending until they reach memory, in any order up to the barrier |
| `SoftPwm` | `picocalc-softpwm.c`; `main` and `timer_isr` in `MCU` | `tpc` is ALSA in the trigger (which refuses SUSPEND), `cb` the timer callback on another core, `mpc` and `isr` the microcontroller's loop and interrupt; one action per access to the stream, the duty or the timer |
| `SndStream` | both sound drivers from probe to remove | open, hw_params, START, STOP, hw_free, close around the callback, and SUSPEND, which `trigger` refuses; `hw` tells the drivers apart |
| `OverlayItem` | `configfs.c` | each writer stands at a step of its write; the test that nothing is set and the setting are two. `of_overlay_remove` may fail unseen |
| `SdCard` | `sd.c` | `op.pc` steps through `mmc_sd_get_cid` and `mmc_sd_init_card`, one action per command; `ios` and `card` are what the driver believes, `phys` what the card does |
| `Scrollback` | the software scrollback in `fbcon.c` | the ring in rows, the console and the frame buffer as rows of text; `SM_UP` and `SM_DOWN` of any region, writing a row, moves of the window, cursor and switch are one action each, under the console lock |
| `FbMap` | `con2fb_map` and the opens in `fbcon.c` | one action per section of the console lock |
| `Firmware` | `KeyScan`, `FwPower`, `BusWatchdog` | see below |
| `LinuxKbd` | `KbdBacklight`, `KbdLifecycle`, `KbdConfig`, `KeyLink`, `MouseMove` | see below |
| `LogRing` | `McuLog`, `McuHandshake` | see below |
| `Sound` | `SoftPwm`, `SndStream` | see below |
| `Kernel` | `SdCard`, `Scrollback`, `FbMap`, `OverlayItem`, `OldKbd` | see below |
| `KeyFifo_proofs`, `KbdDispatch_proofs`, `Firmware_proofs`, `LinuxKbd_proofs`, `LogRing_proofs`, `Sound_proofs`, `Kernel_proofs` | - | the theorems of section 5, each of the module it is named after and the parts of it |

The last five collect modules that share a program but no variable: a behaviour
picks one part and leaves the variables of the others as they start, so nothing
is lost and no interleaving explored that could show nothing. `part` says which; of
`LinuxKbd` and `Kernel` a configuration may take some parts only, those in `Parts`.
What does share state is in one module: the FIFO with the interrupt, both workers of the flash
with the register they write, ALSA with the callback and the microcontroller,
both ends of the ring. `KeyLink` has the ring of `KeyFifo` again, with keys in place of
numbers, because what an event lost in it does to a key shows only at the other end;
dispatch it takes as a key of its own keycode going down and up, as `KbdDispatch` shows.

Abstractions: events are numbered in the order `key_cb` is called, bytes in the
order `_write` accepts them, lines in the order they are printed, so order can be
observed; times are free (a key may be past its hold time whenever it is looked
at, a delayed work may run any time after it is armed), except in `BusWatchdog`;
keys are one representative for each kind the code tells apart. Each module
marks its ghosts: they record what the outside has been told, or that one of the
code's races happened.

## 3. The runs

| Run | Shows | Bounds |
|---|---|---|
| `KeyFifoAtomic` | with the read-modify-writes held off from the interrupt, the ring implements `EventQueue` in both overflow modes, and every event is popped or lost | 3 slots, 6 events: the ring wraps twice |
| `KeyFifoRace` | with the interrupt anywhere, `count` is wrong by exactly the lost updates; as long as overflow is off, as the driver leaves it, it is never too small | same; both builds of `++count` |
| `KeyFifoOrder` | **violation**: the lost update hands the host old slots, out of order | same |
| `KbdDispatch` | nothing stuck, a held key down when it shares no keycode, shift supplement, mouse ownership; the mover goes on moving | 5 keys (one of each table, two sharing a keycode), R-shift, Caps, one plain modifier |
| `KbdDispatchFnShift` | **violation**: Fn keycode reported with shift down | 2 keys |
| `LinuxKbd` | a flash is always ended and, alone, gives the level back; no use of a context that is gone; configuration and power-off as asked; what is held is down, with the interrupt at any step of the enqueue and transfers that fail; the pointer goes where the keys point | 2 sysfs levels, failing transfers; any number of probes and removes; 2 writers; 2 keys, ring and batch of 2: full, wrapped and empty; 3 arrows, 2 units a pixel |
| `KbdBacklightRace` | **violation**: toggle inside the restore loses the level | none needed |
| `ScreenBacklightUp` | **violation**: 240 + 16 wraps | none |
| `Firmware` | one item a key, modifiers exact, what was reported down is what the list says, every release reported, with `CFG_USE_MODS` switched at any time; LEDs as the driver wrote, the power cut when it is to be, no interrupt line stuck; the watchdog resets an idle bus only | 3 keys, 2 items; 3 battery levels, 4 events of the chip, 2 at a time; 9 ticks, the watchdog from 2 on, a timeout of 2 |
| `LogRing` | refusal only when full, implements `BytePipe`; the device is bound only by an answer to its own probe, the microcontroller prints only into a ring that is set up | ring of 4, 7 bytes: wraps on both sides; any first contents of the flag |
| `Sound` | a STOP silences the sound, periods are reported where the pointer is, the pin follows the duty on and off; the callback stays within a buffer that is there over whole lives of either driver, suspends included | buffer of 4, period of 2, samples 0 and 255; buffers of 2 and 3 |
| `Kernel` | card and host agree, only the own card is written, a successful flush leaves nothing, an initialisation ends; history in order and the window true; frame buffers open exactly while in use; no overlay left behind; no key of the old driver stuck | 2 cards, 2 retries; ring of 6 rows, screen of 3, 1 edit that is no printed line; 3 frame buffers, 3 consoles; 2 writers, 4 numbers of files, copies and overlays; 5 keys, one of each kind, 2 held, 1 of them mixed |

The bounds are small but every branch is reached in them (each action of each
module fires): a ring of 2, 3, 4 or 6 is empty, partly full, wrapped and full; the
list of the scanner is shorter than the keys; two keys share a keycode on
purpose; a card with 1.8 V modes and a cache is exchanged for one without, in
either slot. Bounds that the program does not have are `MaxKeys`, `MaxBytes`, `MaxLen`,
`MaxCount`, `MaxPending`, `MaxTime`, `MaxId`, `MaxEdits`, `MaxHeld`, `MaxMixed` and
`MaxPx`; they appear in guards. `ListSize`, `Size`, `max_size`, `Retries`, `Timeout`,
`Lines` and the like are the program's own sizes, smaller. `LogRing` may stop,
because the microcontroller need not print again and a handshake may fail; every
other passing run checks for deadlock, with a step that stands still only where the machine is
off, the driver failed to probe, or the bound on time is reached.
Caps Lock and R-shift of the scanner are in the theorems but not among the keys
of the run, which would be too large with a fourth key. A press of `OldKbd` notes
what its branches look at and no more, which keeps its states few. `TypeOK`
documents the types of each module; it is proved where section 5 says so, and is no property
of a run. The theorems take over from the bounds: what a run shows of a safety
property for these values is proved for all of them.

What the disagreements mean:

* `KeyFifoOrder`: one interrupt between the load and the store of `++count`
  leaves `count` one too large for ever; the surplus makes the host pop slots it
  has popped before. `KeyFifoAtomic` shows that masking the interrupt over the
  read-modify-writes is enough.
* `KbdBacklightRace`: `bl_flash_restore` is two steps without a lock. Caps Lock
  toggled between them has its mark wiped, and a third toggle saves the flash
  level as the one to restore. `FlashRestoresAlone` in run `LinuxKbd` says this
  crossing, or a failed transfer, is the only way to lose the level.
* `KbdDispatchFnShift`: R-shift, a letter, then a Fn key: the supplement of the
  letter is still down when the Fn keycode goes out, against `README_EN.md:38`.
* `ScreenBacklightUp`: `val += delta` wraps at 256 before the clamp.

Where a property has an exception, the exception is a race the code has, recorded
by a ghost, and without it the property fails:

| Property | Exception |
|---|---|
| `SilentWhenStopped` | the callback tests `is_on`, STOP clears it and the duty on another core, and the callback sets a duty that nothing clears any more (`crossed`) |
| `PeriodsInStep` | a START resets the pointers under a callback, or of a stream that a system suspend left on (`slipped`) |
| `CallbackSafe` | the same crossings; a START while the timer of the stopped stream is queued (hardware) or before probe initialised it (soft), a removal before it expired; a stream that played through a system suspend, which `trigger` refuses, gets no STOP before it is prepared anew, dropped or closed (`unstopped`) |
| `FlashRestoresAlone` | a toggle met a running restore, or a transfer failed |
| `LifecycleSafe` | the timer, armed before `g_ctx` is set, ran first; a failed probe left it armed; the input work armed a delayed work after remove had cancelled it; the old driver waits for neither timer nor work |
| `DownIfHeld` | the keys whose last event was refused or swallowed (`lost`); everything once an update of `count` is lost (`slipped`), because the host then reads old slots again, as `KeyFifoOrder` shows |
| `PointerTrue` | a key released between the look at an axis and the choice of the sign |
| `PowerIsCut` | the chip reports the press between `getIrqStatus` and `clearIrqStatus`; the host resets the firmware first; the driver holds the LEDs, and `low_bat` returns before it looks at the battery |
| `ResetsApart` | a handler moves its tick past what `millis()` returned: the difference wraps (`raced`); the late transfer comes after the comparison and before its handler is removed (`answered`) |
| `HandshakeHolds` | the flag overtook the ring on its way to memory, or an earlier boot left it |
| `NothingLeaks` | two processes met: each found nothing set before the other had set it, or wrote while a failed one was not done (`raced`); an overlay half applied, or one that `of_overlay_remove` refused to remove (`half`, `refused`) |
| `HistoryInOrder` | none for the ring; the claim about lines printed starts anew when a program scrolls a region, scrolls down, or writes elsewhere on the screen, for these do change the text |
| `WindowIsTrue` | a program prints with the cursor off into a scrolled back window |
| `FbsInUse` | remapping or binding between `fbcon_fb_unbind` and `fbcon_fb_unregistered`; a driver bound through sysfs after the first had unbound it |
| `FlushIsReal` | the last initialisation failed and the card is used all the same |
| `UpLeavesNothing` | mode or shifts changed between press and release, for the keys whose branch looks at them again |

## 4. Fairness

* `KeyFifo`: the main loop goes on once it is in `key_cb`, and the driver polls
  the FIFO every 1/128 s, so `Enqueue` and `Dequeue` are weakly fair. New keys
  are not.
* `KeyScan`: `loop()` calls `keyboard_process` for ever, so `Scan` is weakly
  fair. The user is not.
* `FwPower`: the loop goes on, and 20 s between two looks at the battery are over
  at some time, though other events come between: the poll is strongly fair. The
  host, the user and the battery are not fair.
* `KbdDispatch`: the workqueue runs `mouse_emit_rel` once it is due, and goes on
  in it: `MouseExpire` and `MouseRearm` are weakly fair. Key events are not.
* `KbdBacklight`: the workqueues run the input work once begun and the restoring
  work once armed. Keys and sysfs writes are not fair.
* `SoftPwm`: a trigger once begun ends, the timer of the driver expires and its
  callback runs on, `main` loops and the microcontroller's timer interrupts.
  Starting and stopping a stream is not fair. The one assumption about time is
  that the timer does not expire in the few instructions between `hrtimer_start`
  and `is_on = 1`, 125 us early.
* `SdCard`: every command is answered or times out, so `Command` is weakly fair.
  The user and the core are not.

The other parts need no fairness: their properties say what must not happen.

## 5. The proofs

All for every value of the constants, from the named assumptions of the modules:
sizes positive, sets of keys within those of the code, and

| Assumption | Why the code justifies it |
|---|---|
| `LinuxKbd.LinkAssumption` | the FIFO has a slot; the key of an event without one (`NoKey`) is no key |
| `LogRing.FlagsAssumption` | the two flags differ, `MCUL` and `ULOG` (`mculog.c`) |
| `Firmware.TimesAssumption` | the bound on time lies below the width of `millis()`; the watchdog's differences wrap all the same. It sets in 10 s after the boot, no sooner than its timeout of 2.5 s |
| `Sound.BuffersAssumption` | no buffer is empty: ALSA refuses one |
| `LinuxKbd.PixelsAssumption` | an increment is not negative: the sysfs files refuse a negative speed; see section 6 for the speeds that overflow |
| `Kernel.ConsolesAssumption` | frame buffers and consoles are array indices, at least one console |
| `Kernel.RowsAssumption` | a logo higher than the screen is not shown (`fbcon.c:658`); `Texts`, after which the numbers of the lines start again, is no less than the screen, so that no two lines of it look alike |

**Every safety property of every passing run is stated by a theorem.** So are
`InStep`, `LockHolds`, `MoverNeverLost`, `NothingOverwritten`, `TimerNeverLost`,
and the `TypeCorrect` theorems, properties that no run lists but that the others
rest on.

* `EventQueue`: `Ordered` and `OrderedPops`. The invariant `OrderInv` says that
  the queue increases and lies strictly between the last event popped and the
  last one issued; the event in hand is newer than all of it.
* `KeyFifo_proofs`: `TypeCorrect`; `NeverShort` (as long as overflow is off
  dequeues are the only lost updates, and each leaves count too large);
  `DriftIsExact`, by counting whole turns of the ring between the indices
  instead of a remainder; `InStep`; and, with the interrupt held off over the
  read-modify-writes, `RingIsQueue`: the refinement of `EventQueue` under the
  mapping that reads `count` slots from `read_idx` on. `RingInv` ties write
  index, read index and count modulo the size at every point of the enqueue,
  `ContentInv` says which slots hold what; one lemma per action shows which
  abstract step, or stutter, it is. `HostOrder` follows from `OrderedPops`.
* `KbdDispatch_proofs`: `TypeCorrect`, `LockHolds`, `ShiftNotStuck`,
  `NothingStuck`, `HeldStaysDown`, `MouseNotStuck`, `MoverNeverLost`. `LockInv`
  says what a locked entry may be for each key; `NothingStuck` needs that a
  keycode that is down is the one locked by a key held; `HeldStaysDown` is about
  the keys that are `Alone`: no other key can lock one of their keycodes.
* `Firmware_proofs`
  * scanner: `TypeCorrect`, `OneItem`, `ModifiersExact` for either mode;
    `HeardExact` and `ReleasesMatch` (presses and releases of each key alternate)
    for the behaviours that leave `CFG_USE_MODS` clear. `Inv` adds that a free
    item is idle and a listed key has a single item; the last two need that an
    item reported down stays listed until its release;
  * power and LEDs: `LedsShowDriver`, `IrqWakesLoop`. Both are
    inductive once `PowerInv` adds that `setup`, which darkens the lamps without
    asking, finds no driver holding them;
  * watchdog: `ResetsFarApart`, for any timeout and start. `WatchdogInv` says that no
    tick is ahead of the clock, that the one about to be loaded is not ahead of what
    `millis()` returned either, unless its handler raced, that what a comparison
    found late stays late until its transfer comes, and that the last reset is no
    later than either tick.
* `LinuxKbd_proofs`
  * backlight: `TypeCorrect`; `RestoreNeverLost` (a flash marked active has its
    restore armed, running or about to be scheduled, also where a toggle crosses
    a restore); `AloneRestores`: without a crossing or a failed transfer the flash
    gives the level back. `Places` says that such a flash is in one place at a
    time, the input work, the delay or the restoring work; `Kept` where the level
    to restore is at each of them;
  * probe and remove: `ContextOutlivesUse`. `LifeInv` says for each point of the
    two functions where the context is (`Context`) and which of timer and works are
    at rest there (`Resting`), as long as none of the four exceptions has come
    about (`Orderly`): what is stopped stays so only while nothing that arms it
    still runs;
  * configuration and power-off: `RegisterIsTold`, for any number of writers.
    `ConfigInv` follows the register through the two transfers of a store,
    `ShutdownInv` the notifier through the end of a shutdown;
  * the way of an event: `KeysHeldAreDown`, for any keys, ring and batch. `LinkInv`
    holds until the first lost update of `count`. Until then `InStep` ties count and
    indices at every step of the enqueue, so that the events on their way are a queue
    (`Fifo`: the slots counted, one not counted yet, one not written yet), and the last
    event of a key, in that queue, else in the batch, else what Linux has been told,
    says whether the key is held, unless it was lost;
  * pointer: `PointerIsTrue`. `MouseInv` adds that a fraction at rest is less
    than a pixel (`Fractions`), that what a tick subtracts its pixels from is at least
    those pixels, or a fraction the input work has just reset (`Counted`, `Owed`), and
    that the sign chosen is among the directions that were tested (`Aims`).
* `LogRing_proofs`
  * ring: `TypeCorrect`, `NothingOverwritten`, `FullMeansFull`, `RingIsPipe`, the
    refinement of `BytePipe`. `Bounds` ties head, tail and the two counts modulo
    the size at every step of either copy, and says that a stale index only ever
    underestimates; `Copying` and `Reached` say how much of each copy is done;
  * handshake: `HandshakeAgrees`. `Agreed` says that wherever there is a flag the
    microcontroller may take for this probe's, in memory, on its way or already
    seen, the ring is set up or ahead of it on the way, or an exception holds.
* `Sound_proofs`
  * soft PWM: `TypeCorrect`, `StopSilences`, `TimerNeverLost`, `PeriodsAgree`.
    `Silenced` adds that after a STOP that met no callback none becomes busy
    before the next START; `Enqueued` that the timer stays enqueued until `is_on`
    is set; `Agree` gives the place of the pointer within its period at every
    statement of callback and trigger, from `PlaceAdvances`, the lemma that counts
    modulo the period;
  * stream: `CallbackIsSafe`, for either driver and any buffers. `Undisturbed`
    says that until a START or STOP crosses a callback or comes too early, or a
    suspended stream leaves that state without a STOP, a callback that has seen
    `is_on` is one of the stream that runs or is suspended, and what it has read of
    buffer and pointer is what they are.
* `Kernel_proofs`
  * SD card: `TypeCorrect`, `OwnCard`, `BusAgrees`, `FlushEmpties`, for any cards
    and any number of attempts at 1.8 V, by four invariants, each preserved by
    every action given those before it. `CardInv` says when `host->card` is there
    at all; `OwnInv` that a card past its identification is the one known,
    because an exchanged card has lost its state; `BusInv` says command by
    command what card and host agree on, and carries the one fact the fix-up
    rests on: a second attempt never meets a card at 1.8 V that the host drives
    at 3.3 V; `CacheInv` that an initialisation starts with the cache off and empty;
  * overlays: `OverlaysGoAway`. `OverlayInv` says that until two writers meet there is
    one at most (`OneWriter`), wherever it stands between check and end, and that what
    is loaded or applied is what the item knows of (`Known`), but for the overlays half
    applied or refused;
  * consoles: `FrameBuffersInUse`, for any frame buffers and consoles. `MapInv`
    adds that a bound console is mapped to a frame buffer that is registered and
    not on its way out, and that an unbound driver which still counts as bound has
    emptied the map; the lemmas are about what the loops over the consoles
    close and open;
  * old driver: `OldKeysLetGo`. `KbdInv` accounts for what is down: a code or a
    direction was put there by a mixed key, or by one held, under the mode and
    shift it was pressed in; `Lifted` is the INSERT that a HOLD took back;
  * scrollback: `ScreenShowsWindow` and `HistoryIsKept`, for every size of screen,
    ring and logo. `ScrollInv` keeps the three pointers and what is shown within
    the ring although a move draws only the rows that change. `HistoryInv` has two
    parts. `RingHolds`: the rows in the ring, from the newest, are those that left the
    screen upwards, out of whatever region. `LinesStand`: of the lines printed since the
    screen was last changed otherwise, the one *d* before the newest, on the screen below
    the logo or else in the ring, is the text *d* before the last one printed. Output
    takes lines from the screen into the ring and the removal of the logo takes them
    back; both leave that reading alone.

`fbcon_softback_note` copies its rows in a loop, `Noted` in the model a recursive
function. What holds after every row of it is proved by well-founded induction
over the rows: the set of those for which it fails has no least element (`NatMin`
and `NatSteps`, from `WellFoundedInduction`).

Only model-checked: the liveness properties `EventuallyPopped`, `ReleaseReported`,
`PointerKeepsMoving`, `FlashEnds`, `PinFollows`, `PowerIsCut` and `InitEnds`,
because liveness under fairness is out of the prover's reach; and the four
violations, one of which (`ScreenBacklightUp`) is all that is said of
`ScreenBacklight`.

## 6. Not modelled

* **Display drivers**: they program a panel through the DRM helpers in a straight
  line and keep no state of their own. **Bit blitting and rotation**
  (`bitblit.c`, `fbcon_ud.c`, `fbcon_cw.c`, `fbcon_ccw.c`) are arithmetic on pixels.
* **Console**: fonts, colours, modes, palettes and rotation of `fbcon.c`, and blanked and
  graphics consoles, for which `fbcon_scroll` and the drawing do nothing. Of the ways to
  scroll only `SCROLL_REDRAW` is there, because the panning ones need legacy acceleration,
  which is not built; it is taken as the text that ends up on the screen. `vt.c`, which
  scrolls a region by less than its height and hides the cursor before it draws, is
  outside.
* **SD card**: decoding of CID, CSD, SCR and SSR, the sysfs attributes, and, of the
  bus settings, all but voltage, width, mode and cache.
* **Log ring**: a second reader of `/dev/mculog`, and a print from the timer
  interrupt of the microcontroller into a print of `main`: both break the
  one-reader, one-writer rule the ring is built on, and `PROJECT.json` lists them as
  hazards no property covers. `McuLog` is sequentially consistent; `McuHandshake`
  is not.
* **Sound**: the stereo branches of the soft driver (`channels_max` is 1), the
  `STEREO` build of the microcontroller, the mixer controls.
* **Firmware**: registers that only return a value (version, battery, C64 matrix
  and joystick), the electrical side of the key matrix, start-up of the power
  chip.
* **Linux keyboard drivers**: the overflow of `speed * 10 * 256` in an `int` for
  speeds above 838,860 pixels a second, which the sysfs files accept
  (`KBD:542`, 996, 1038): the increment turns negative, and what `PointerTrue`
  says of the pointer is meant for the speeds below; sysfs files that only read, the LED and mouse-speed
  files, the reference count of the kobject; keymap and probe of the in-kernel
  simple driver; the pointer's steps, Alt's own keycode and the backlight keys of the old
  one.
* **Build side**: Buildroot packages, U-Boot, device trees and scripts.

What would come next: abstract specifications for the parts that so far have
invariants only (`KeyLink` as a lossy queue of key states, `Scrollback` as the
unbounded history of which screen and window show a part, `SdCard` as a card that
is usable or not), each refined by the module that models the code; type
theorems for the parts that have none; and more of the console.
