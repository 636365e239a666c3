------------------------------- MODULE SoftPwm -------------------------------
(***************************************************************************)
(* The sound of the PicoCalc.  The Linux driver (picocalc-softpwm.c) turns *)
(* each sample into a duty in memory shared with the microcontroller, once *)
(* every 125 us in a high-resolution timer; the microcontroller (main.c)   *)
(* raises and lowers the sound pin by that duty from a timer interrupt,    *)
(* which its main loop starts.                                             *)
(*                                                                         *)
(* ALSA calls softpwm_pcm_trigger under the lock of the stream; the timer  *)
(* callback takes no lock until it reports a period, so it may run on      *)
(* another core between any two statements of the trigger.  One step is    *)
(* one access to what the contexts share.  The interrupt preempts main but *)
(* not the other way round.  The driver offers one channel, so the stereo  *)
(* branches are dead and left_duty stands for both duties; the timers' own *)
(* counts are not modelled.                                                *)
(***************************************************************************)
EXTENDS Naturals

CONSTANTS
  BufferSize, PeriodSize,   \* of the stream's runtime, in samples
  Samples                   \* the samples an application plays

ASSUME SizesAssumption ==
  PeriodSize \in Nat \ {0} /\ BufferSize \in Nat /\ BufferSize > PeriodSize
ASSUME SamplesAssumption == Samples \subseteq 0..255

VARIABLES
  is_on, data_ptr, period_ptr,
  suspended,     \* ALSA suspended the stream, and is_on is still set
  queued,        \* the timer is enqueued
  cb,            \* where softpwm_hrtimer_callback stands
  reg,           \* the pointer it has incremented and not stored yet
  tpc,           \* where softpwm_pcm_trigger stands
  duty,          \* left_duty
  enable, flag,  \* of the microcontroller
  mpc, isr,      \* where its main loop and timer_isr stand
  ticking,       \* its timer runs
  pin,           \* the sound pin is high
  crossed,       \* the last STOP met a callback that had seen is_on set
  slipped        \* the last START met a callback of an earlier one, or is_on set

stream == <<is_on, data_ptr, period_ptr, suspended>>
mcu == <<enable, flag, mpc, isr, ticking, pin>>
ghosts == <<crossed, slipped>>
vars == <<stream, queued, cb, reg, tpc, duty, mcu, ghosts>>

DEFAULT_PWM_PERIOD == 375

\* The duty of a sample.
Scale(s) == (s * (DEFAULT_PWM_PERIOD - 1)) \div 255

\* The callback is past its test of is_on and will still set a duty.
Busy == cb \in {"load", "store", "wrap", "duty"}
\* It will still move the period on.
Counting == Busy \/ cb \in {"period", "count"}

\* The pointer is past the buffer only until the callback has wrapped it.
PointersOK ==
  /\ data_ptr \in 0..BufferSize
  /\ data_ptr = BufferSize => cb = "wrap"
  /\ period_ptr \in 0..(PeriodSize - 1)
  /\ reg \in 0..BufferSize

McuOK ==
  /\ enable \in BOOLEAN /\ flag \in BOOLEAN /\ ticking \in BOOLEAN
  /\ pin \in BOOLEAN
  /\ mpc \in {"test", "start", "enable"}
  /\ isr \in {"idle", "test", "leave"}

TypeOK ==
  /\ PointersOK
  /\ McuOK
  /\ is_on \in BOOLEAN /\ queued \in BOOLEAN
  /\ suspended \in BOOLEAN /\ (suspended => is_on)
  /\ cb \in {"idle", "check", "load", "store", "wrap", "duty", "period",
             "count", "elapsed", "restart"}
  /\ tpc \in {"idle", "data", "periods", "timer", "on", "silence"}
  /\ duty \in 0..(DEFAULT_PWM_PERIOD - 1)
  /\ crossed \in BOOLEAN /\ slipped \in BOOLEAN

Init ==
  /\ is_on = FALSE /\ data_ptr = 0 /\ period_ptr = 0 /\ suspended = FALSE
  /\ queued = FALSE /\ cb = "idle" /\ reg = 0
  /\ tpc = "idle"
  /\ duty = 0
  /\ enable = FALSE /\ flag = TRUE
  /\ mpc = "test" /\ isr = "idle" /\ ticking = FALSE /\ pin = FALSE
  /\ crossed = FALSE /\ slipped = FALSE

-----------------------------------------------------------------------------
(* softpwm_pcm_trigger *)

\* START: ALSA starts a stream that is stopped, or that it suspended and prepared
\* anew
Start ==
  /\ tpc = "idle" /\ (~is_on \/ suspended)
  /\ \E s \in Samples : duty' = Scale(s)
  /\ tpc' = "data"
  /\ suspended' = FALSE
  /\ slipped' = (Counting \/ is_on)
  /\ UNCHANGED <<is_on, data_ptr, period_ptr, queued, cb, reg, mcu, crossed>>

StartData ==
  /\ tpc = "data"
  /\ data_ptr' = 0
  /\ tpc' = "periods"
  /\ UNCHANGED <<is_on, period_ptr, suspended, queued, cb, reg, duty, mcu, ghosts>>

\* Seeded fault: the period is not started anew.
StartPeriods_Kept ==
  /\ tpc = "periods"
  /\ tpc' = "timer"
  /\ UNCHANGED <<stream, queued, cb, reg, duty, mcu, ghosts>>

StartPeriods ==
  /\ tpc = "periods"
  /\ period_ptr' = 0
  /\ tpc' = "timer"
  /\ UNCHANGED <<is_on, data_ptr, suspended, queued, cb, reg, duty, mcu, ghosts>>

\* softpwm_enable: the timer is enqueued even while its callback runs
StartTimer ==
  /\ tpc = "timer"
  /\ queued' = TRUE
  /\ tpc' = "on"
  /\ UNCHANGED <<stream, cb, reg, duty, mcu, ghosts>>

StartOn ==
  /\ tpc = "on"
  /\ is_on' = TRUE
  /\ tpc' = "idle"
  /\ UNCHANGED <<data_ptr, period_ptr, suspended, queued, cb, reg, duty, mcu, ghosts>>

\* STOP: ALSA stops a stream that runs
Stop ==
  /\ tpc = "idle" /\ is_on /\ ~suspended
  /\ is_on' = FALSE
  /\ tpc' = "silence"
  /\ crossed' = Busy
  /\ UNCHANGED <<data_ptr, period_ptr, suspended, queued, cb, reg, duty, mcu, slipped>>

StopSilence ==
  /\ tpc = "silence"
  /\ duty' = 0
  /\ tpc' = "idle"
  /\ UNCHANGED <<stream, queued, cb, reg, mcu, ghosts>>

\* SUSPEND: the trigger refuses it, ALSA takes the stream as suspended
Suspend ==
  /\ tpc = "idle" /\ is_on /\ ~suspended
  /\ suspended' = TRUE
  /\ UNCHANGED <<is_on, data_ptr, period_ptr, queued, cb, reg, tpc, duty, mcu, ghosts>>

Trigger ==
  StartData \/ StartPeriods \/ StartTimer \/ StartOn \/ StopSilence

-----------------------------------------------------------------------------
(* softpwm_hrtimer_callback *)

\* The timer cannot expire in the nanoseconds between hrtimer_start and is_on.
Expire ==
  /\ queued /\ cb = "idle" /\ tpc # "on"
  /\ queued' = FALSE
  /\ cb' = "check"
  /\ UNCHANGED <<stream, reg, tpc, duty, mcu, ghosts>>

\* Seeded fault: a stopped stream is played on.
CbCheck_Never ==
  /\ cb = "check"
  /\ cb' = "load"
  /\ UNCHANGED <<stream, queued, reg, tpc, duty, mcu, ghosts>>

CbCheck ==
  /\ cb = "check"
  /\ cb' = IF is_on THEN "load" ELSE "idle"
  /\ UNCHANGED <<stream, queued, reg, tpc, duty, mcu, ghosts>>

CbLoad ==
  /\ cb = "load"
  /\ reg' = data_ptr + 1
  /\ cb' = "store"
  /\ UNCHANGED <<stream, queued, tpc, duty, mcu, ghosts>>

CbStore ==
  /\ cb = "store"
  /\ data_ptr' = reg
  /\ cb' = IF reg >= BufferSize THEN "wrap" ELSE "duty"
  /\ UNCHANGED <<is_on, period_ptr, suspended, queued, reg, tpc, duty, mcu, ghosts>>

CbWrap ==
  /\ cb = "wrap"
  /\ data_ptr' = 0
  /\ cb' = "duty"
  /\ UNCHANGED <<is_on, period_ptr, suspended, queued, reg, tpc, duty, mcu, ghosts>>

CbDuty ==
  /\ cb = "duty"
  /\ \E s \in Samples : duty' = Scale(s)
  /\ cb' = "period"
  /\ reg' = 0
  /\ UNCHANGED <<stream, queued, tpc, mcu, ghosts>>

CbPeriod ==
  /\ cb = "period"
  /\ reg' = period_ptr + 1
  /\ cb' = "count"
  /\ UNCHANGED <<stream, queued, tpc, duty, mcu, ghosts>>

CbCount ==
  /\ cb = "count"
  /\ period_ptr' = IF reg >= PeriodSize THEN 0 ELSE reg
  /\ cb' = IF reg >= PeriodSize THEN "elapsed" ELSE "restart"
  /\ reg' = 0
  /\ UNCHANGED <<is_on, data_ptr, suspended, queued, tpc, duty, mcu, ghosts>>

\* snd_pcm_period_elapsed takes the lock of the stream, and stops the stream
\* if there is nothing left to play
CbElapsed ==
  /\ cb = "elapsed" /\ tpc = "idle"
  /\ \/ UNCHANGED <<is_on, duty, crossed>>
     \/ is_on /\ ~suspended /\ is_on' = FALSE /\ duty' = 0 /\ crossed' = FALSE
  /\ cb' = "restart"
  /\ UNCHANGED <<data_ptr, period_ptr, suspended, queued, reg, tpc, mcu, slipped>>

\* HRTIMER_RESTART
CbRestart ==
  /\ cb = "restart"
  /\ queued' = TRUE
  /\ cb' = "idle"
  /\ UNCHANGED <<stream, reg, tpc, duty, mcu, ghosts>>

Callback ==
  \/ Expire \/ CbCheck \/ CbLoad \/ CbStore \/ CbWrap \/ CbDuty
  \/ CbPeriod \/ CbCount \/ CbElapsed \/ CbRestart

-----------------------------------------------------------------------------
(* The microcontroller: main and timer_isr *)

linux == <<stream, queued, cb, reg, tpc, duty, ghosts>>

MainTest ==
  /\ isr = "idle" /\ mpc = "test"
  /\ duty # 0 /\ ~enable
  /\ mpc' = "start"
  /\ UNCHANGED <<enable, flag, isr, ticking, pin, linux>>

MainStart ==
  /\ isr = "idle" /\ mpc = "start"
  /\ ticking' = TRUE
  /\ mpc' = "enable"
  /\ UNCHANGED <<enable, flag, isr, pin, linux>>

MainEnable ==
  /\ isr = "idle" /\ mpc = "enable"
  /\ enable' = TRUE
  /\ mpc' = "test"
  /\ UNCHANGED <<flag, isr, ticking, pin, linux>>

Main == MainTest \/ MainStart \/ MainEnable

\* HAL_TIMER_Stop_IT, then the pin
IsrEnter ==
  /\ isr = "idle" /\ ticking
  /\ ticking' = FALSE
  /\ pin' = flag
  /\ isr' = IF flag THEN "test" ELSE "leave"
  /\ UNCHANGED <<enable, flag, mpc, linux>>

\* Seeded fault: the pin is left high where the sound stops.
IsrTest_Stays ==
  /\ isr = "test"
  /\ enable' = (enable /\ duty # 0)
  /\ isr' = "leave"
  /\ UNCHANGED <<flag, mpc, ticking, pin, linux>>

IsrTest ==
  /\ isr = "test"
  /\ enable' = (enable /\ duty # 0)
  /\ pin' = (pin /\ duty # 0)
  /\ isr' = "leave"
  /\ UNCHANGED <<flag, mpc, ticking, linux>>

IsrLeave ==
  /\ isr = "leave"
  /\ flag' = ~flag
  /\ ticking' = TRUE
  /\ isr' = "idle"
  /\ UNCHANGED <<enable, mpc, pin, linux>>

Isr == IsrEnter \/ IsrTest \/ IsrLeave

-----------------------------------------------------------------------------
Next == Start \/ Stop \/ Suspend \/ Trigger \/ Callback \/ Main \/ Isr

Spec == Init /\ [][Next]_vars

(* The trigger runs to its end, the timers expire and main loops for ever. *)
FairSpec ==
  /\ Spec
  /\ WF_vars(Trigger) /\ WF_vars(Callback) /\ WF_vars(Main) /\ WF_vars(Isr)

-----------------------------------------------------------------------------
(* Properties *)

(* A stream that is stopped has no duty ("use 0 to implement mute",
   picocalc-softpwm.c:32), unless its last STOP met a callback on another core
   between its test of is_on and its write of the duty: no later callback may
   undo the STOP (picocalc-softpwm.c:58-80, 192-198). *)
SilentWhenStopped == ~is_on /\ tpc = "idle" /\ ~crossed => duty = 0

(* While a stream plays its timer is enqueued or its callback runs, though the
   START may meet the callback of the stream stopped just before
   (picocalc-softpwm.c:58-59, 90-101). *)
TimerAlive == is_on => queued \/ cb # "idle"

(* The end of a period is reported where the pointer ALSA reads is at the end
   of a period, from one START to the next, unless that START met a callback or,
   after a system suspend, a stream still on (picocalc-softpwm.c:64-85, 178-186,
   199-200). *)
PeriodsInStep ==
  BufferSize % PeriodSize = 0 /\ ~slipped /\ tpc = "idle"
    /\ (~Counting \/ cb = "load")
  => data_ptr % PeriodSize = period_ptr

(* Once the stream is stopped for good the pin is low for good, but for the
   moment in which timer_isr finds that there is no duty (main.c:138-158). *)
StopReachesPin ==
  <>[](~is_on /\ ~crossed) => <>[](~pin \/ isr = "test")

(* As long as there is a duty the pin keeps rising and falling, wherever the
   interrupt met the main loop that had started it (main.c:138-158, 228-234). *)
PlayReachesPin == <>[](duty # 0) => []<>pin /\ []<>~pin

(* Both: in the end the pin does what the stream does. *)
PinFollows == StopReachesPin /\ PlayReachesPin
=============================================================================
