----------------------------- MODULE Sound_proofs -----------------------------
(***************************************************************************)
(* Theorems about the sound: the life of a stream and of its timer, for    *)
(* every size of the buffer; and the pin of the soft PWM driver, for every *)
(* size of the buffer and the period and every set of samples.             *)
(***************************************************************************)
EXTENDS Sound, TLAPS

-----------------------------------------------------------------------------
(* The life of a stream.  Until a START or STOP crosses a callback or comes too
   early, or a suspended stream leaves that state without a STOP, a callback that
   has seen is_on is one of a stream that runs or is suspended, whose buffer and
   pointer are those it has read; and a driver that is gone has left no timer
   behind. *)
Undisturbed ==
  /\ ~fault
  /\ on <=> stream_at \in {"running", "suspended"}
  /\ life \in {"out", "freed"} => stream_at = "closed"
  /\ life = "freed" => tree = 0 /\ callback = "idle"
  /\ stream_at \in {"setup"} \cup Stream!Playing => size # 0
  /\ stream_at \in {"timer", "on", "running", "suspended"} => ptr < size
  /\ callback \in {"runtime", "load", "store", "read", "elapsed"}
       => stream_at \in {"running", "suspended"}
  /\ callback \in {"load", "store"} => limit = size

StreamInv ==
  /\ size \in Nat /\ ptr \in Nat /\ limit \in Nat /\ next_ptr \in Nat /\ tree \in Nat
  /\ met \/ early \/ unstopped \/ Undisturbed

LEMMA StreamInit == Stream!Init => StreamInv
BY DEF Stream!Init, StreamInv, Undisturbed, Stream!Playing

(* Once met, early or unstopped, always. *)
LEMMA GhostsStay ==
  ASSUME [Stream!Next]_(Stream!vars)
  PROVE  (met => met') /\ (early => early') /\ (unstopped => unstopped')
<1> USE DEF Stream!ghosts
<1>1. CASE Stream!Start \/ Stream!Stop
  <2>1. UNCHANGED <<early, unstopped>>
    BY <1>1 DEF Stream!Start, Stream!Stop
  <2>2. met => met'
    BY <1>1, Zenon DEF Stream!Start, Stream!Stop
  <2>3. QED
    BY <2>1, <2>2
<1>2. CASE Stream!ProbeEnds \/ Stream!Freed \/ Stream!StartTimer
  <2>1. UNCHANGED <<met, unstopped>>
    BY <1>2 DEF Stream!ProbeEnds, Stream!Freed, Stream!StartTimer
  <2>2. early => early'
    <3>1. early' = early \/ \E b : early' = (early \/ b)
      BY <1>2, Zenon DEF Stream!ProbeEnds, Stream!Freed, Stream!StartTimer
    <3>2. QED
      BY <3>1, Zenon
  <2>3. QED
    BY <2>1, <2>2
<1>3. CASE Stream!Unsuspend
  BY <1>3 DEF Stream!Unsuspend
<1>4. CASE UNCHANGED <<met, early, unstopped>>
  BY <1>4
<1>5. QED
  BY <1>1, <1>2, <1>3, <1>4 DEF Stream!Next, Stream!vars, Stream!Probe,
     Stream!Remove, Stream!Suspend,
     Stream!Again, Stream!Open, Stream!HwParams, Stream!HwFree, Stream!Close,
     Stream!Trigger, Stream!StartPointer, Stream!StartOn, Stream!Callback,
     Stream!Expire, Stream!CbCheck, Stream!CbRuntime, Stream!CbLoad,
     Stream!CbStore, Stream!CbRead, Stream!CbElapsed, Stream!CbRestart

LEMMA StreamNext == StreamInv /\ [Stream!Next]_(Stream!vars) => StreamInv'
<1> SUFFICES ASSUME StreamInv, [Stream!Next]_(Stream!vars)
             PROVE  StreamInv'
  OBVIOUS
<1> USE BuffersAssumption
    DEF StreamInv, Stream!device, Stream!alsa, Stream!timer, Stream!ghosts
<1>1. /\ size' \in Nat /\ ptr' \in Nat /\ limit' \in Nat /\ next_ptr' \in Nat
      /\ tree' \in Nat
  <2>1. CASE Stream!CbLoad
    BY <2>1 DEF Stream!CbLoad
  <2>2. CASE Stream!CbStore
    BY <2>2 DEF Stream!CbStore
  <2>3. CASE Stream!StartTimer \/ Stream!Expire \/ Stream!CbRestart
    BY <2>3 DEF Stream!StartTimer, Stream!Expire, Stream!CbRestart
  <2>4. CASE Stream!Probe \/ Stream!HwParams \/ Stream!HwFree
    <3>1. CASE Stream!HwParams
      <4>1. size' \in Nat
        BY <3>1 DEF Stream!HwParams
      <4>2. QED
        BY <3>1, <4>1 DEF Stream!HwParams
    <3>2. CASE Stream!Probe \/ Stream!HwFree
      BY <3>2 DEF Stream!Probe, Stream!HwFree
    <3>3. QED
      BY <2>4, <3>1, <3>2
  <2>5. CASE Stream!CbRuntime \/ Stream!CbElapsed \/ Stream!StartPointer
    BY <2>5 DEF Stream!CbRuntime, Stream!CbElapsed, Stream!StartPointer
  <2>6. CASE Stream!ProbeEnds
    <3>1. tree' \in {tree, 0} /\ UNCHANGED <<size, ptr, limit, next_ptr>>
      BY <2>6 DEF Stream!ProbeEnds
    <3>2. QED
      BY <3>1
  <2>7. CASE UNCHANGED <<size, ptr, limit, next_ptr, tree>>
    BY <2>7
  <2>8. QED
    BY <2>1, <2>2, <2>3, <2>4, <2>5, <2>6, <2>7
       DEF Stream!Next, Stream!vars, Stream!Remove, Stream!Freed, Stream!Again,
       Stream!Open, Stream!Close, Stream!Start, Stream!Trigger, Stream!StartOn,
       Stream!Stop, Stream!Suspend, Stream!Unsuspend, Stream!Callback,
       Stream!CbCheck, Stream!CbRead
<1>2. ASSUME Undisturbed, ~met', ~early', ~unstopped'
      PROVE  Undisturbed'
  <2> USE <1>2 DEF Undisturbed
  <2>1. CASE Stream!Probe \/ Stream!ProbeEnds \/ Stream!Remove \/ Stream!Again
    BY <2>1 DEF Stream!Probe, Stream!ProbeEnds, Stream!Remove, Stream!Again, Stream!Playing
  <2>2. CASE Stream!Freed
    <3>1. ~(tree > 0) /\ callback = "idle"
      BY <2>2 DEF Stream!Freed
    <3>2. QED
      BY <2>2, <3>1 DEF Stream!Freed, Stream!Playing
  <2>3. CASE Stream!Open \/ Stream!HwParams \/ Stream!HwFree \/ Stream!Close
    BY <2>3 DEF Stream!Open, Stream!HwParams, Stream!HwFree, Stream!Close, Stream!Playing
  <2>4. CASE Stream!Start \/ Stream!Stop
    <3>1. ~Stream!Past
      BY <2>4 DEF Stream!Start, Stream!Stop
    <3>2. QED
      BY <2>4, <3>1 DEF Stream!Start, Stream!Stop, Stream!Past, Stream!Playing
  <2>5. CASE Stream!StartPointer \/ Stream!StartTimer \/ Stream!StartOn
    BY <2>5 DEF Stream!StartPointer, Stream!StartTimer, Stream!StartOn, Stream!Playing
  <2>6. CASE Stream!Expire \/ Stream!CbRestart
    <3>1. life # "freed"
      BY <2>6 DEF Stream!Expire, Stream!CbRestart
    <3>2. ~fault'
      BY <2>6, <3>1, Zenon DEF Stream!Expire, Stream!CbRestart
    <3>3. QED
      BY <2>6, <3>1, <3>2 DEF Stream!Expire, Stream!CbRestart, Stream!Playing
  <2>7. CASE Stream!CbCheck \/ Stream!CbLoad \/ Stream!CbElapsed
    BY <2>7 DEF Stream!CbCheck, Stream!CbLoad, Stream!CbElapsed, Stream!Playing
  <2>8. CASE Stream!CbRuntime
    <3>1. size # 0 /\ ~(ptr >= size)
      BY <2>8 DEF Stream!CbRuntime, Stream!Playing
    <3>2. ~fault'
      BY <2>8, <3>1, Zenon DEF Stream!CbRuntime
    <3>3. QED
      BY <2>8, <3>2 DEF Stream!CbRuntime, Stream!Playing
  <2>9. CASE Stream!CbStore
    BY <2>9 DEF Stream!CbStore, Stream!Playing
  <2>10. CASE Stream!CbRead
    <3>1. ~(ptr >= size)
      BY <2>10 DEF Stream!CbRead
    <3>2. ~fault'
      BY <2>10, <3>1, Zenon DEF Stream!CbRead
    <3>3. QED
      BY <2>10, <3>2 DEF Stream!CbRead, Stream!Playing
  <2>11. CASE Stream!Suspend \/ Stream!Unsuspend
    BY <2>11 DEF Stream!Suspend, Stream!Unsuspend, Stream!Playing
  <2>12. CASE UNCHANGED Stream!vars
    BY <2>12 DEF Stream!vars, Stream!Playing
  <2>13. QED
    BY <2>1, <2>2, <2>3, <2>4, <2>5, <2>6, <2>7, <2>8, <2>9, <2>10, <2>11, <2>12
       DEF Stream!Next, Stream!Trigger, Stream!Callback
<1>3. QED
  BY <1>1, <1>2, GhostsStay

(* A step of the sound is one of the pin's or the stream's, and leaves the other. *)
LEMMA SoundStep == [SoundNext]_everything => [Stream!Next]_(Stream!vars)
BY DEF SoundNext, everything, streaming, PinStep, StreamStep, Stream!vars,
   Stream!device, Stream!alsa, Stream!timer, Stream!ghosts

(* The timer's callback never divides by a size of zero, reads beyond the buffer
   or uses a stream that is closed, up to a START or STOP that crosses it or comes
   too early, or a stream that a system suspend found playing and that was then
   prepared anew, dropped or closed without a STOP (picocalc-softpwm.c:58-92,
   199-200: the callback reads is_on, the runtime and the pointer one after the
   other). *)
THEOREM CallbackIsSafe == SoundSpec => []CallbackSafe
<1>1. SoundInit => StreamInv
  BY StreamInit DEF SoundInit
<1>2. StreamInv => CallbackSafe
  BY DEF StreamInv, Undisturbed, CallbackSafe, Stream!CallbackSafe
<1>3. QED
  BY <1>1, <1>2, StreamNext, SoundStep, PTL DEF SoundSpec

-----------------------------------------------------------------------------
USE SizesAssumption

(* The duty of a sample is one the microcontroller's period has room for. *)
LEMMA ScaleFits ==
  ASSUME NEW s \in Samples
  PROVE  Scale(s) \in 0..(DEFAULT_PWM_PERIOD - 1)
<1>1. s \in 0..255
  BY SamplesAssumption
<1>2. QED
  BY <1>1, SMT DEF Scale, DEFAULT_PWM_PERIOD

(* What the microcontroller does leaves the driver as it is. *)
LEMMA McuLeavesLinux == Main \/ Isr => UNCHANGED linux
BY DEF Main, MainTest, MainStart, MainEnable, Isr, IsrEnter, IsrTest, IsrLeave

(* And the other way round, but for the duty. *)
LEMMA LinuxLeavesMcu == Start \/ Stop \/ Suspend \/ Trigger \/ Callback => UNCHANGED mcu
BY DEF Start, Stop, Suspend, Trigger, StartData, StartPeriods, StartTimer, StartOn,
       StopSilence, Callback, Expire, CbCheck, CbLoad, CbStore, CbWrap, CbDuty,
       CbPeriod, CbCount, CbElapsed, CbRestart

(* Only a START and the callback set a duty other than 0. *)
LEMMA DutySet == [Next]_vars => Start \/ CbDuty \/ duty' \in {0, duty}
BY DEF Next, vars, linux, Stop, Suspend, Trigger, StartData, StartPeriods, StartTimer,
       StartOn, StopSilence, Callback, Expire, CbCheck, CbLoad, CbStore, CbWrap,
       CbPeriod, CbCount, CbElapsed, CbRestart, Main, MainTest, MainStart,
       MainEnable, Isr, IsrEnter, IsrTest, IsrLeave

(* Every variable keeps its type: the pointer leaves the buffer only until the
   callback has wrapped it, and 375 - duty never wraps below zero
   (picocalc-softpwm.c:64-74; main.c:153). *)
THEOREM TypeCorrect == Spec => []TypeOK
<1>1. Init => TypeOK
  <2>1. Init => PointersOK
    BY DEF Init, PointersOK
  <2>2. Init => McuOK
    BY DEF Init, McuOK
  <2>3. Init => duty \in 0..(DEFAULT_PWM_PERIOD - 1)
    BY DEF Init, DEFAULT_PWM_PERIOD
  <2>4. QED
    BY <2>1, <2>2, <2>3 DEF Init, TypeOK
<1>2. TypeOK /\ [Next]_vars => TypeOK'
  <2> SUFFICES ASSUME TypeOK, [Next]_vars
               PROVE  TypeOK'
    OBVIOUS
  <2>1. PointersOK'
    <3> USE DEF TypeOK, PointersOK, stream
    <3>1. CASE Start \/ Stop \/ Suspend
      BY <3>1 DEF Start, Stop, Suspend
    <3>2. CASE Trigger
      BY <3>2 DEF Trigger, StartData, StartPeriods, StartTimer, StartOn,
                  StopSilence
    <3>3. CASE CbLoad \/ CbPeriod
      BY <3>3 DEF CbLoad, CbPeriod
    <3>4. CASE CbStore \/ CbCount \/ CbWrap \/ CbDuty
      BY <3>4 DEF CbStore, CbCount, CbWrap, CbDuty
    <3>5. CASE Expire \/ CbCheck \/ CbElapsed \/ CbRestart
      BY <3>5 DEF Expire, CbCheck, CbElapsed, CbRestart
    <3>6. CASE UNCHANGED linux
      BY <3>6 DEF linux
    <3>7. QED
      BY <3>1, <3>2, <3>3, <3>4, <3>5, <3>6, McuLeavesLinux
         DEF Next, Callback, vars, linux
  <2>2. McuOK'
    <3>1. CASE Main \/ Isr
      BY <3>1 DEF TypeOK, McuOK, Main, MainTest, MainStart, MainEnable, Isr,
                  IsrEnter, IsrTest, IsrLeave
    <3>2. CASE UNCHANGED mcu
      BY <3>2 DEF TypeOK, McuOK, mcu
    <3>3. QED
      BY <3>1, <3>2, LinuxLeavesMcu DEF Next, vars, mcu
  <2>3. duty' \in 0..(DEFAULT_PWM_PERIOD - 1)
    <3>1. CASE Start \/ CbDuty
      BY <3>1, ScaleFits DEF Start, CbDuty
    <3>2. CASE duty' \in {0, duty}
      BY <3>2 DEF TypeOK, DEFAULT_PWM_PERIOD
    <3>3. QED
      BY <3>1, <3>2, DutySet
  <2>4. /\ is_on' \in BOOLEAN /\ queued' \in BOOLEAN
        /\ crossed' \in BOOLEAN /\ slipped' \in BOOLEAN
        /\ tpc' \in {"idle", "data", "periods", "timer", "on", "silence"}
        /\ cb' \in {"idle", "check", "load", "store", "wrap", "duty", "period",
                    "count", "elapsed", "restart"}
    <3> USE DEF TypeOK, stream, ghosts
    <3>1. CASE Start \/ Stop \/ Suspend
      <4>1. Busy \in BOOLEAN /\ Counting \in BOOLEAN
        BY DEF Busy, Counting
      <4>2. QED
        BY <3>1, <4>1 DEF Start, Stop, Suspend
    <3>2. CASE Trigger
      BY <3>2 DEF Trigger, StartData, StartPeriods, StartTimer, StartOn,
                  StopSilence
    <3>3. CASE Callback
      BY <3>3 DEF Callback, Expire, CbCheck, CbLoad, CbStore, CbWrap, CbDuty,
                  CbPeriod, CbCount, CbElapsed, CbRestart
    <3>4. CASE UNCHANGED linux
      BY <3>4 DEF linux
    <3>5. QED
      BY <3>1, <3>2, <3>3, <3>4, McuLeavesLinux DEF Next, vars, linux
  <2>5. suspended' \in BOOLEAN /\ (suspended' => is_on')
    <3> USE DEF TypeOK, stream, ghosts
    <3>1. CASE Start \/ Stop
      <4>1. suspended' = FALSE
        BY <3>1 DEF Start, Stop
      <4>2. QED
        BY <4>1
    <3>2. CASE Suspend
      BY <3>2 DEF Suspend
    <3>3. CASE CbElapsed
      <4>1. UNCHANGED is_on \/ ~suspended
        BY <3>3, Zenon DEF CbElapsed
      <4>2. UNCHANGED suspended
        BY <3>3, Zenon DEF CbElapsed
      <4>3. QED
        BY <4>1, <4>2, Zenon
    <3>4. CASE StartOn
      BY <3>4 DEF StartOn
    <3>5. CASE UNCHANGED <<is_on, suspended>>
      BY <3>5, Zenon
    <3>6. QED
      BY <3>1, <3>2, <3>3, <3>4, <3>5, McuLeavesLinux
         DEF Next, vars, linux, Trigger, StartData, StartPeriods, StartTimer,
             StopSilence, Callback, Expire, CbCheck, CbLoad, CbStore, CbWrap,
             CbDuty, CbPeriod, CbCount, CbRestart
  <2>6. QED
    BY <2>1, <2>2, <2>3, <2>4, <2>5 DEF TypeOK
<1>3. QED
  BY <1>1, <1>2, PTL DEF Spec

-----------------------------------------------------------------------------
(* A stream whose STOP met no callback meets none until the next START. *)
Silenced ==
  ~is_on /\ ~crossed => ~Busy /\ (tpc = "idle" => duty = 0)

(* No later callback undoes a STOP that met none. *)
THEOREM StopSilences == Spec => []SilentWhenStopped
<1>1. Init => Silenced
  BY DEF Init, Silenced, Busy
<1>2. TypeOK /\ Silenced /\ [Next]_vars => Silenced'
  <2> SUFFICES ASSUME TypeOK, Silenced, [Next]_vars
               PROVE  Silenced'
    OBVIOUS
  <2> USE DEF TypeOK, Silenced, Busy, stream, ghosts
  <2>1. CASE Start \/ Stop \/ Suspend
    BY <2>1 DEF Start, Stop, Suspend
  <2>2. CASE Trigger
    BY <2>2 DEF Trigger, StartData, StartPeriods, StartTimer, StartOn,
                StopSilence
  <2>3. CASE Callback
    BY <2>3 DEF Callback, Expire, CbCheck, CbLoad, CbStore, CbWrap, CbDuty,
                CbPeriod, CbCount, CbElapsed, CbRestart
  <2>4. CASE UNCHANGED linux
    BY <2>4 DEF linux
  <2>5. QED
    BY <2>1, <2>2, <2>3, <2>4, McuLeavesLinux DEF Next, vars, linux
<1>3. Silenced => SilentWhenStopped
  BY DEF Silenced, SilentWhenStopped
<1>4. QED
  BY <1>1, <1>2, <1>3, TypeCorrect, PTL DEF Spec

-----------------------------------------------------------------------------
(* The timer a START has enqueued stays so until is_on is set. *)
Enqueued == TimerAlive /\ (tpc = "on" => queued)

(* While a stream plays its timer is never lost. *)
THEOREM TimerNeverLost == Spec => []TimerAlive
<1>1. Init => Enqueued
  BY DEF Init, Enqueued, TimerAlive
<1>2. TypeOK /\ Enqueued /\ [Next]_vars => Enqueued'
  <2> SUFFICES ASSUME TypeOK, Enqueued, [Next]_vars
               PROVE  Enqueued'
    OBVIOUS
  <2> USE DEF TypeOK, Enqueued, TimerAlive, stream, ghosts
  <2>1. CASE Start \/ Stop \/ Suspend
    BY <2>1 DEF Start, Stop, Suspend
  <2>2. CASE Trigger
    BY <2>2 DEF Trigger, StartData, StartPeriods, StartTimer, StartOn,
                StopSilence
  <2>3. CASE Callback
    BY <2>3 DEF Callback, Expire, CbCheck, CbLoad, CbStore, CbWrap, CbDuty,
                CbPeriod, CbCount, CbElapsed, CbRestart
  <2>4. CASE UNCHANGED linux
    BY <2>4 DEF linux
  <2>5. QED
    BY <2>1, <2>2, <2>3, <2>4, McuLeavesLinux DEF Next, vars, linux
<1>3. Enqueued => TimerAlive
  BY DEF Enqueued
<1>4. QED
  BY <1>1, <1>2, <1>3, TypeCorrect, PTL DEF Spec

-----------------------------------------------------------------------------
(* How far into its period sample i is. *)
Place(i) == i % PeriodSize

(* The place after p. *)
After(p) == IF p + 1 >= PeriodSize THEN 0 ELSE p + 1

LEMMA PlaceUnique ==
  ASSUME NEW i \in Nat, NEW q \in Nat, NEW r \in 0..(PeriodSize - 1),
         i = PeriodSize * q + r
  PROVE  Place(i) = r
BY SMTT(60) DEF Place

LEMMA PlaceAdvances ==
  ASSUME NEW i \in Nat
  PROVE  /\ Place(i) \in 0..(PeriodSize - 1)
         /\ Place(i + 1) = After(Place(i))
<1> DEFINE q == i \div PeriodSize
           r == i % PeriodSize
<1>1. q \in Nat /\ r \in 0..(PeriodSize - 1) /\ i = PeriodSize * q + r
  BY SMT
<1>2. Place(i) = r
  BY DEF Place
<1> HIDE DEF q, r
<1>3. CASE r + 1 < PeriodSize
  <2>1. r + 1 \in 0..(PeriodSize - 1) /\ i + 1 = PeriodSize * q + (r + 1)
    BY <1>1, <1>3
  <2>2. Place(i + 1) = r + 1
    BY <1>1, <2>1, PlaceUnique
  <2>3. QED
    BY <1>1, <1>2, <1>3, <2>2 DEF After
<1>4. CASE r + 1 = PeriodSize
  <2>1. PeriodSize * q + PeriodSize = PeriodSize * (q + 1) + 0
    BY <1>1, SMT
  <2>2. 0 \in 0..(PeriodSize - 1) /\ i + 1 = PeriodSize * (q + 1) + 0
    BY <1>1, <1>4, <2>1
  <2>3. Place(i + 1) = 0
    <3>1. i + 1 \in Nat /\ q + 1 \in Nat
      BY <1>1
    <3>2. QED
      BY <2>2, <3>1, PlaceUnique
  <2>4. QED
    BY <1>1, <1>2, <1>4, <2>3 DEF After
<1>5. QED
  BY <1>1, <1>3, <1>4

-----------------------------------------------------------------------------
(* Unless the last START met a callback or a stream still on, the pointer and the period agree at
   every statement of the callback and of the trigger. *)
Quiet == tpc \in {"data", "periods", "timer", "on"} => ~is_on /\ ~Counting

Agree ==
  /\ tpc = "periods" => data_ptr = 0
  /\ tpc \in {"idle", "silence", "timer", "on"} =>
       /\ ~Counting \/ cb \in {"load", "store"} => Place(data_ptr) = period_ptr
       /\ cb = "store" => reg = data_ptr + 1
       /\ cb = "wrap" => After(period_ptr) = 0
       /\ cb \in {"duty", "period", "count"} =>
            Place(data_ptr) = After(period_ptr)
       /\ cb = "count" => reg = period_ptr + 1

InStep == ~slipped => Quiet /\ Agree

LEMMA ZeroPlace == Place(0) = 0
<1>1. 0 \in Nat /\ 0 \in 0..(PeriodSize - 1) /\ 0 = PeriodSize * 0 + 0
  BY SMT
<1>2. QED
  BY <1>1, PlaceUnique

LEMMA StepInStep ==
  ASSUME TypeOK, InStep, [Next]_vars, BufferSize % PeriodSize = 0
  PROVE  InStep'
<1>1. CASE Start
  BY <1>1 DEF Start, InStep, Quiet, Agree, Counting, Busy, stream
<1>2. CASE Stop \/ Suspend
  BY <1>2 DEF Stop, Suspend, InStep, Quiet, Agree, Counting, Busy, ghosts
<1>3. CASE StartData \/ StartTimer \/ StartOn \/ StopSilence
  BY <1>3 DEF StartData, StartTimer, StartOn, StopSilence, InStep, Quiet, Agree,
              Counting, Busy, stream, ghosts
<1>4. CASE StartPeriods
  BY <1>4, ZeroPlace DEF StartPeriods, InStep, Quiet, Agree, Counting, Busy,
                         ghosts
<1>5. CASE Expire \/ CbCheck \/ CbElapsed \/ CbRestart
  BY <1>5 DEF Expire, CbCheck, CbElapsed, CbRestart, InStep, Quiet, Agree,
              Counting, Busy, stream, ghosts
<1>6. CASE CbLoad \/ CbDuty \/ CbPeriod
  BY <1>6 DEF CbLoad, CbDuty, CbPeriod, InStep, Quiet, Agree, Counting, Busy,
              stream, ghosts
<1>7. CASE CbStore
  <2>1. data_ptr \in Nat
    BY DEF TypeOK, PointersOK
  <2>2. Place(data_ptr + 1) = After(Place(data_ptr))
    BY <2>1, PlaceAdvances
  <2>3. Place(BufferSize) = 0
    BY DEF Place
  <2>4. reg \in 0..BufferSize
    BY DEF TypeOK, PointersOK
  <2>5. Quiet => Quiet'
    BY <1>7 DEF CbStore, Quiet, Counting, Busy
  <2>6. ASSUME Quiet, Agree
        PROVE  Agree'
    <3>1. tpc \notin {"data", "periods", "timer", "on"}
      BY <1>7, <2>6 DEF CbStore, Quiet, Counting, Busy
    <3>2. CASE tpc \notin {"idle", "silence"}
      BY <1>7, <3>1, <3>2 DEF CbStore, Agree
    <3>3. CASE tpc \in {"idle", "silence"}
      <4>1. reg = data_ptr + 1 /\ Place(data_ptr) = period_ptr
        BY <1>7, <2>6, <3>3 DEF CbStore, Agree
      <4>2. Place(reg) = After(period_ptr)
        BY <2>2, <4>1
      <4>3. reg >= BufferSize => reg = BufferSize
        BY <2>4
      <4>4. QED
        BY <1>7, <2>3, <3>3, <4>2, <4>3 DEF CbStore, Agree, Counting, Busy
    <3>4. QED
      BY <3>2, <3>3
  <2>7. QED
    BY <1>7, <2>5, <2>6 DEF InStep, CbStore, ghosts
<1>8. CASE CbWrap
  BY <1>8, ZeroPlace DEF CbWrap, InStep, Quiet, Agree, Counting, Busy, ghosts
<1>9. CASE CbCount
  BY <1>9 DEF CbCount, InStep, Quiet, Agree, After, Counting, Busy, ghosts
<1>10. CASE UNCHANGED linux
  BY <1>10 DEF linux, InStep, Quiet, Agree, Counting, Busy, stream, ghosts
<1>11. QED
  BY <1>1, <1>2, <1>3, <1>4, <1>5, <1>6, <1>7, <1>8, <1>9, <1>10,
     McuLeavesLinux DEF Next, Trigger, Callback, vars, linux

(* The end of a period is reported where the pointer is at the end of one. *)
THEOREM PeriodsAgree == Spec => []PeriodsInStep
<1>1. CASE BufferSize % PeriodSize = 0
  <2>1. Init => InStep
    BY ZeroPlace DEF Init, InStep, Quiet, Agree, Counting, Busy
  <2>2. InStep => PeriodsInStep
    BY DEF InStep, Agree, PeriodsInStep, Place
  <2>3. TypeOK /\ InStep /\ [Next]_vars => InStep'
    BY <1>1, StepInStep
  <2>4. QED
    BY <2>1, <2>2, <2>3, TypeCorrect, PTL DEF Spec
<1>2. CASE ~(BufferSize % PeriodSize = 0)
  <2>1. PeriodsInStep
    BY <1>2 DEF PeriodsInStep
  <2>2. QED
    BY <2>1, PTL
<1>3. QED
  BY <1>1, <1>2
=============================================================================
