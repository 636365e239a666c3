------------------------------ MODULE SndStream ------------------------------
(***************************************************************************)
(* The life of a sound stream in the two drivers of the PicoCalc, from     *)
(* probe to remove: picocalc-softpwm.c and, with hw set, picocalc_snd_pwm.c*)
(* ALSA opens the stream, gives it a buffer, starts and stops it, takes the*)
(* buffer back and closes it; the high-resolution timer that plays the     *)
(* samples is started with the stream and never cancelled, but finds is_on *)
(* clear.  A callback takes no lock until the end of a period, so any of   *)
(* this may go on around it on another core.  What the samples do to the   *)
(* sound pin is SoftPwm; the duty of the hardware driver goes to the PWM   *)
(* controller within the callback.  The triggers know START and STOP only: *)
(* they refuse the SUSPEND of a system suspend, which goes on regardless.  *)
(***************************************************************************)
EXTENDS Naturals

CONSTANT Sizes   \* of buffers, in samples

VARIABLES
  hw,            \* which of the drivers this is
  pc,            \* of probe and remove
  stream,        \* "closed", "open", "setup" (has a buffer), or where START stands
  size,          \* of the buffer, 0 without one
  is_on, data_ptr,
  inited,        \* the timer was initialised
  tree,          \* how often the timer is linked into the queue of timers
  cb,            \* where the callback stands
  limit, reg,    \* its copies of the buffer's size and of the pointer
  fault,         \* ghost: the callback used what was not there
  crossed, early, unstopped \* ghosts; see CallbackSafe

Playing == {"reset", "timer", "on", "running", "suspended"}
device == <<hw, pc>>
alsa == <<stream, size, is_on>>
timer == <<inited, tree, cb, limit, reg>>
ghosts == <<fault, crossed, early, unstopped>>
vars == <<device, alsa, data_ptr, timer, ghosts>>

TypeOK ==
  /\ hw \in BOOLEAN /\ pc \in {"out", "card", "bound", "removing", "freed"}
  /\ stream \in {"closed", "open", "setup"} \cup Playing
  /\ size \in Sizes \cup {0} /\ is_on \in BOOLEAN /\ data_ptr \in Nat
  /\ inited \in BOOLEAN /\ tree \in 0..2
  /\ cb \in {"idle", "check", "runtime", "load", "store", "read", "elapsed", "restart"}
  /\ limit \in Sizes \cup {0} /\ reg \in Nat
  /\ {fault, crossed, early, unstopped} \subseteq BOOLEAN

Init ==
  /\ hw \in BOOLEAN /\ pc = "out"
  /\ stream = "closed" /\ size = 0 /\ is_on = FALSE /\ data_ptr = 0
  /\ inited = FALSE /\ tree = 0 /\ cb = "idle" /\ limit = 0 /\ reg = 0
  /\ fault = FALSE /\ crossed = FALSE /\ early = FALSE /\ unstopped = FALSE

\* A callback that has seen is_on and is not done.
Past == cb \in {"runtime", "load", "store", "read", "elapsed", "restart"}

-----------------------------------------------------------------------------
(* probe and remove *)

\* The card is registered: streams can be opened from here.
Probe ==
  /\ pc = "out"
  /\ pc' = "card" /\ is_on' = FALSE /\ data_ptr' = 0 /\ inited' = FALSE
  /\ UNCHANGED <<hw, stream, size, tree, cb, limit, reg, ghosts>>

\* The soft driver initialises its timer only now, whatever it does by then.
ProbeEnds ==
  /\ pc = "card"
  /\ pc' = "bound"
  /\ IF hw THEN UNCHANGED <<inited, tree, early>>
     ELSE inited' = TRUE /\ tree' = 0 /\ early' = (early \/ stream \in Playing)
  /\ UNCHANGED <<hw, alsa, data_ptr, cb, limit, reg, fault, crossed, unstopped>>

\* The duty is cleared and snd_card_free begins: no new open.
Remove ==
  /\ pc = "bound"
  /\ pc' = "removing"
  /\ UNCHANGED <<hw, alsa, data_ptr, timer, ghosts>>

\* snd_card_free has waited for the stream to be closed; devres frees the rest.
Freed ==
  /\ pc = "removing" /\ stream = "closed"
  /\ pc' = "freed"
  /\ early' = (early \/ tree > 0 \/ cb # "idle")
  /\ UNCHANGED <<hw, alsa, data_ptr, timer, fault, crossed, unstopped>>

Again ==
  /\ pc = "freed" /\ tree = 0 /\ cb = "idle"
  /\ pc' = "out"
  /\ UNCHANGED <<hw, alsa, data_ptr, timer, ghosts>>

-----------------------------------------------------------------------------
(* ALSA *)

Open ==
  /\ stream = "closed" /\ pc \in {"card", "bound"}
  /\ stream' = "open"
  /\ UNCHANGED <<device, size, is_on, data_ptr, timer, ghosts>>

\* hw_params and prepare
HwParams ==
  /\ stream \in {"open", "setup"}
  /\ stream' = "setup" /\ size' \in Sizes
  /\ UNCHANGED <<device, is_on, data_ptr, timer, ghosts>>

HwFree ==
  /\ stream = "setup"
  /\ stream' = "open" /\ size' = 0
  /\ UNCHANGED <<device, is_on, data_ptr, timer, ghosts>>

Close ==
  /\ stream = "open"
  /\ stream' = "closed"
  /\ UNCHANGED <<device, size, is_on, data_ptr, timer, ghosts>>

\* trigger(START) sets the first duty,
Start ==
  /\ stream = "setup" /\ pc \in {"card", "bound"}
  /\ stream' = "reset"
  /\ crossed' = (crossed \/ Past)
  /\ UNCHANGED <<device, size, is_on, data_ptr, timer, fault, early, unstopped>>

\* Seeded fault: the stream goes on where the last one stopped.
StartPointer_Kept ==
  /\ stream = "reset"
  /\ stream' = "timer"
  /\ UNCHANGED <<device, size, is_on, data_ptr, timer, ghosts>>

\* the pointers,
StartPointer ==
  /\ stream = "reset"
  /\ data_ptr' = 0
  /\ stream' = "timer"
  /\ UNCHANGED <<device, size, is_on, timer, ghosts>>

\* the timer: hrtimer_start moves one that is queued, but the hardware driver
\* has just wiped it with hrtimer_init, so that it is linked a second time,
StartTimer ==
  /\ stream = "timer"
  /\ IF hw
     THEN /\ inited' = TRUE
          /\ tree' = IF tree = 2 THEN 2 ELSE tree + 1
          /\ early' = (early \/ tree > 0)
     ELSE tree' = 1 /\ early' = (early \/ ~inited) /\ UNCHANGED inited
  /\ stream' = "on"
  /\ UNCHANGED <<device, size, is_on, data_ptr, cb, limit, reg, fault, crossed,
                 unstopped>>

\* and is_on.
StartOn ==
  /\ stream = "on"
  /\ is_on' = TRUE
  /\ stream' = "running"
  /\ UNCHANGED <<device, size, data_ptr, timer, ghosts>>

\* trigger(STOP), by the user or as the card goes
Stop ==
  /\ stream = "running"
  /\ is_on' = FALSE
  /\ stream' = "setup"
  /\ crossed' = (crossed \/ Past)
  /\ UNCHANGED <<device, size, data_ptr, timer, fault, early, unstopped>>

\* The system suspends: trigger(SUSPEND) is -EINVAL and the stream is suspended all
\* the same.  Neither driver can resume it;
Suspend ==
  /\ stream = "running"
  /\ stream' = "suspended"
  /\ UNCHANGED <<device, size, is_on, data_ptr, timer, ghosts>>

\* prepare, drop or close takes it out of that state, and ALSA sends STOP only to
\* a stream that runs.
Unsuspend ==
  /\ stream = "suspended"
  /\ stream' = "setup"
  /\ unstopped' = TRUE
  /\ UNCHANGED <<device, size, is_on, data_ptr, timer, fault, crossed, early>>

Trigger == StartPointer \/ StartTimer \/ StartOn

-----------------------------------------------------------------------------
(* softpwm_hrtimer_callback, or cb1 *)

Expire ==
  /\ tree > 0 /\ cb = "idle" /\ stream # "on"
  /\ tree' = tree - 1
  /\ cb' = "check"
  /\ fault' = (fault \/ pc = "freed")
  /\ UNCHANGED <<device, alsa, data_ptr, inited, limit, reg, crossed, early,
                 unstopped>>

CbCheck ==
  /\ cb = "check"
  /\ cb' = IF is_on THEN "runtime" ELSE "idle"
  /\ UNCHANGED <<device, alsa, data_ptr, inited, tree, limit, reg, ghosts>>

\* The runtime of the substream: its buffer and sizes.  The hardware driver
\* plays the sample at the pointer, the soft one the sample after it.
CbRuntime ==
  /\ cb = "runtime"
  /\ fault' = (fault \/ size = 0 \/ (hw /\ data_ptr >= size))
  /\ limit' = size
  /\ cb' = "load"
  /\ UNCHANGED <<device, alsa, data_ptr, inited, tree, reg, crossed, early,
                 unstopped>>

CbLoad ==
  /\ cb = "load"
  /\ reg' = data_ptr + 1
  /\ cb' = "store"
  /\ UNCHANGED <<device, alsa, data_ptr, inited, tree, limit, ghosts>>

CbStore ==
  /\ cb = "store"
  /\ data_ptr' = IF reg >= limit THEN 0 ELSE reg
  /\ reg' = 0
  /\ cb' = IF hw THEN "elapsed" ELSE "read"
  /\ UNCHANGED <<device, alsa, inited, tree, limit, ghosts>>

CbRead ==
  /\ cb = "read"
  /\ fault' = (fault \/ data_ptr >= size)
  /\ cb' = "elapsed"
  /\ UNCHANGED <<device, alsa, data_ptr, inited, tree, limit, reg, crossed, early,
                 unstopped>>

\* snd_pcm_period_elapsed, at the end of a period only; under the lock of the
\* stream it may stop it.
CbElapsed ==
  /\ cb = "elapsed"
  /\ \/ UNCHANGED <<stream, is_on>>
     \/ stream = "running" /\ stream' = "setup" /\ is_on' = FALSE
  /\ limit' = 0
  /\ cb' = "restart"
  /\ UNCHANGED <<device, size, data_ptr, inited, tree, reg, ghosts>>

\* HRTIMER_RESTART: the timer is queued, unless START has done that.
CbRestart ==
  /\ cb = "restart"
  /\ tree' = IF tree = 0 THEN 1 ELSE tree
  /\ fault' = (fault \/ pc = "freed")
  /\ cb' = "idle"
  /\ UNCHANGED <<device, alsa, data_ptr, inited, limit, reg, crossed, early,
                 unstopped>>

Callback ==
  \/ Expire \/ CbCheck \/ CbRuntime \/ CbLoad \/ CbStore \/ CbRead
  \/ CbElapsed \/ CbRestart

Next ==
  \/ Probe \/ ProbeEnds \/ Remove \/ Freed \/ Again
  \/ Open \/ HwParams \/ HwFree \/ Close
  \/ Start \/ Trigger \/ Stop \/ Suspend \/ Unsuspend
  \/ Callback

Spec == Init /\ [][Next]_vars

-----------------------------------------------------------------------------

\* The callback reads within a buffer that is there and a context that is there,
\* from one stream to the next and whatever their sizes, unless a START or STOP
\* met a callback that had seen is_on, or came too early: a START before the
\* timer of the stopped stream had expired (hardware) or before probe had
\* initialised it (soft), or a removal before it had expired; or unless a stream
\* that played through a system suspend was prepared anew, dropped or closed: it
\* gets no STOP (picocalc-softpwm.c:58-92, 199-200, 321-340; picocalc_snd_pwm.c:80-138,
\* 225-226).
CallbackSafe == fault => crossed \/ early \/ unstopped

=============================================================================
