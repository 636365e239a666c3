--------------------------- MODULE LinuxKbd_proofs ----------------------------
(***************************************************************************)
(* Theorems about the keyboard driver: its life, its settings, its pairs   *)
(* of presses and releases, its mouse, and the keyboard light; for every   *)
(* number of pixels and unit of the fraction, every set of increments and  *)
(* of levels, and whether transfers fail or not.                           *)
(***************************************************************************)
EXTENDS LinuxKbd, Sequences, SequenceTheorems, TLAPS

(* A step of the driver is a step of one part and leaves the others alone. *)
LEMMA LinuxKbdStep ==
  ASSUME [LinuxKbdNext]_everything
  PROVE  /\ [Lifecycle!Next]_(Lifecycle!vars)
         /\ [Config!Next]_(Config!vars)
         /\ [Link!Next]_(Link!vars)
         /\ [Mouse!Next]_(Mouse!vars)
<1> DEFINE SameLife == UNCHANGED living
           SameConfig == UNCHANGED configuring
           SameLink == UNCHANGED linking
           SameMove == UNCHANGED moving
<1>1. /\ Lifecycle!Next \/ SameLife
      /\ Config!Next \/ SameConfig
      /\ Link!Next \/ SameLink
      /\ Mouse!Next \/ SameMove
  BY Zenon DEF LinuxKbdNext, LightStep, LifeStep, ConfigStep, LinkStep, MouseStep,
     AtRest, everything
<1>2. SameLife => UNCHANGED Lifecycle!vars
  BY DEF living, Lifecycle!vars, Lifecycle!bus, Lifecycle!ghosts
<1>3. SameConfig => UNCHANGED Config!vars
  BY DEF configuring, Config!vars, Config!system
<1>4. SameLink => UNCHANGED Link!vars
  BY DEF linking, Link!vars, Link!ring, Link!enqueuing, Link!driver
<1>5. SameMove => UNCHANGED Mouse!vars
  BY DEF moving, Mouse!vars, Mouse!input, Mouse!work, Mouse!ghosts
<1>6. QED
  BY <1>1, <1>2, <1>3, <1>4, <1>5, Zenon

Early == {"out", "timer"}
Registering == {"register", "publish"}
Removing == {"rm_timer", "rm_flash", "rm_mouse", "rm_work", "rm_ctx"}

(* Where the context is while the driver is at each point. *)
Context ==
  /\ live <=> bus # "out"
  /\ g_ctx <=> bus # "out" /\ (old \/ bus \notin Early \cup Registering)
  /\ files => bus = "bound"
  /\ handler => bus = "bound"

(* Which of the timer and the works are at rest there. *)
Resting ==
  /\ bus \in Early => timer = "idle"
  /\ bus \in Registering => timer = "armed"
  /\ bus \in {"rm_flash", "rm_mouse", "rm_work"} \/ (bus = "rm_ctx" /\ ~old) =>
       timer = "idle"
  /\ bus \in Early \cup Registering \/ (bus = "rm_ctx" /\ ~old) =>
       work = "idle" /\ ~work_pending
  /\ old \/ bus \in Early \cup Registering \cup {"rm_mouse", "rm_work", "rm_ctx"} =>
       dw["bl_flash_work"] = "idle"
  /\ old \/ bus \in Early \cup Registering \cup {"rm_work", "rm_ctx"} =>
       dw["mouse_dw"] = "idle"
  /\ old => bus \notin {"publish", "rm_flash", "rm_mouse", "rm_work"}

Orderly == ~early /\ ~probe_failed /\ ~rearmed /\ ~(old /\ unsynced)

BusType ==
  /\ bus \in Early \cup Registering \cup Removing \cup {"sysfs", "bound", "failed"}
  /\ bus = "failed" => probe_failed
  /\ work \in {"idle", "running"}
  /\ DOMAIN dw = Lifecycle!DelayedWorks

LifeInv ==
  /\ BusType
  /\ Orderly => Context /\ Resting /\ ~fault

LEMMA LifeInit == Lifecycle!Init => LifeInv
BY DEF Lifecycle!Init, LifeInv, BusType, Orderly, Context, Resting, Early,
   Registering, Removing, Lifecycle!DelayedWorks

LEMMA LifeNext ==
  ASSUME LifeInv, [Lifecycle!Next]_(Lifecycle!vars)
  PROVE  LifeInv'
<1> USE DEF LifeInv, BusType, Orderly, Context, Resting, Early, Registering, Removing,
            Lifecycle!DelayedWorks, Lifecycle!bus, Lifecycle!ghosts
<1>1. CASE Lifecycle!Probe /\ UNCHANGED old
  BY <1>1 DEF Lifecycle!Probe
<1>2. CASE Lifecycle!AddTimer /\ UNCHANGED old
  BY <1>2 DEF Lifecycle!AddTimer
<1>3. CASE Lifecycle!Register /\ UNCHANGED old
  BY <1>3 DEF Lifecycle!Register, Lifecycle!ProbeFails
<1>4. CASE Lifecycle!Publish /\ UNCHANGED old
  BY <1>4 DEF Lifecycle!Publish
<1>5. CASE Lifecycle!SysfsProbe /\ UNCHANGED old
  BY <1>5 DEF Lifecycle!SysfsProbe, Lifecycle!ProbeFails
<1>6. CASE Lifecycle!Remove /\ UNCHANGED old
  BY <1>6 DEF Lifecycle!Remove
<1>7. CASE Lifecycle!DelTimer /\ UNCHANGED old
  BY <1>7 DEF Lifecycle!DelTimer
<1>8. CASE Lifecycle!DelTimerOld /\ UNCHANGED old
  BY <1>8 DEF Lifecycle!DelTimerOld
<1>9. CASE Lifecycle!CancelFlash /\ UNCHANGED old
  BY <1>9 DEF Lifecycle!CancelFlash, Lifecycle!CancelDelayed
<1>10. CASE Lifecycle!CancelMouse /\ UNCHANGED old
  BY <1>10 DEF Lifecycle!CancelMouse, Lifecycle!CancelDelayed
<1>11. CASE Lifecycle!CancelWork /\ UNCHANGED old
  BY <1>11 DEF Lifecycle!CancelWork
<1>12. CASE Lifecycle!ClearCtx /\ UNCHANGED old
  <2>1. ~unsynced' => ~unsynced /\ timer = "idle" /\ ~work_pending /\ work # "running"
    BY <1>12, Zenon DEF Lifecycle!ClearCtx
  <2>2. unsynced => unsynced'
    BY <1>12, Zenon DEF Lifecycle!ClearCtx
  <2>3. QED
    BY <1>12, <2>1, <2>2 DEF Lifecycle!ClearCtx
<1>13. CASE Lifecycle!TimerQueue
  BY <1>13 DEF Lifecycle!TimerQueue, Lifecycle!Stray
<1>14. CASE Lifecycle!TimerRearm
  BY <1>14 DEF Lifecycle!TimerRearm
<1>15. CASE Lifecycle!WorkBegin
  BY <1>15 DEF Lifecycle!WorkBegin
<1>16. CASE Lifecycle!WorkEnd
  BY <1>16 DEF Lifecycle!WorkEnd
<1>17. CASE Lifecycle!HandlerBegin
  BY <1>17 DEF Lifecycle!HandlerBegin
<1>18. CASE Lifecycle!HandlerUse
  BY <1>18 DEF Lifecycle!HandlerUse, Lifecycle!Stray
<1>19. ASSUME NEW w \in Lifecycle!DelayedWorks, Lifecycle!WorkArms(w) PROVE LifeInv'
  BY <1>19 DEF Lifecycle!WorkArms
<1>20. ASSUME NEW w \in Lifecycle!DelayedWorks, Lifecycle!DelayedBegin(w) PROVE LifeInv'
  BY <1>20 DEF Lifecycle!DelayedBegin
<1>21. ASSUME NEW w \in Lifecycle!DelayedWorks, Lifecycle!DelayedEnd(w) PROVE LifeInv'
  BY <1>21 DEF Lifecycle!DelayedEnd, Lifecycle!Cancelling
<1>22. CASE UNCHANGED Lifecycle!vars
  BY <1>22 DEF Lifecycle!vars
<1>. HIDE DEF LifeInv
<1>23. QED
  BY <1>1, <1>2, <1>3, <1>4, <1>5, <1>6, <1>7, <1>8, <1>9, <1>10, <1>11, <1>12,
     <1>13, <1>14, <1>15, <1>16, <1>17, <1>18, <1>19, <1>20, <1>21, <1>22, Zenon
  DEF Lifecycle!Next, Lifecycle!Bus, Lifecycle!Timer, Lifecycle!Work, Lifecycle!Delayed

(* No timer, work item or handler runs on a context that was freed or not yet set
   up, whatever probe, remove, a failing registration and the work that is queued
   do in whichever order, but for the four ways in which the code lets one
   (picocalc_kbd.c:1242-1300, 876-880; the old driver's picocalc_kbd.c:712-735). *)
THEOREM ContextOutlivesUse == LinuxKbdSpec => []LifecycleSafe
<1>1. LinuxKbdInit => LifeInv
  BY LifeInit, Zenon DEF LinuxKbdInit
<1>2. LifeInv /\ [LinuxKbdNext]_everything => LifeInv'
  BY LifeNext, LinuxKbdStep
<1>3. LifeInv => LifecycleSafe
  BY Zenon DEF LifeInv, Orderly, LifecycleSafe, Lifecycle!LifecycleSafe
<1>4. QED
  BY <1>1, <1>2, <1>3, PTL DEF LinuxKbdSpec

-----------------------------------------------------------------------------
Plain(c) == c.report /\ (c.use => asked)

ConfigTypes ==
  /\ cfg \in Config!Config
  /\ store \in [Writers -> {"idle", "write"}]
  /\ value \in [Writers -> Config!Config]

Writing(p) == store[p] = "write"

ConfigInv ==
  /\ ConfigTypes
  /\ bound /\ ~cfg_failed => Plain(cfg)
  /\ \A p \in Writers : Writing(p) => bound /\ (~cfg_failed => Plain(value[p]))

ShutdownInv ==
  /\ shutdown # "done" => "shutdown" \notin off
  /\ shutdown # "none" => (g_system_powering_off <=> code = "POWER_OFF")
  /\ Config!OffOnlyOnPowerOff


LEMMA ConfigInit == Config!Init => ConfigInv /\ ShutdownInv
BY DEF Config!Init, ConfigInv, ConfigTypes, ShutdownInv, Plain, Writing,
   Config!Config, Config!OffOnlyOnPowerOff

LEMMA ConfigTypesNext ==
  ASSUME ConfigTypes, [Config!Next]_(Config!vars)
  PROVE  ConfigTypes'
<1> USE DEF ConfigTypes, Config!Config
<1>1. CASE Config!Probe
  BY <1>1 DEF Config!Probe
<1>2. CASE Config!Remove \/ Config!PowerOff
  BY <1>2 DEF Config!Remove, Config!PowerOff
<1>3. CASE Config!RebootNotify \/ Config!Shutdown
  BY <1>3 DEF Config!RebootNotify, Config!Shutdown
<1>4. ASSUME NEW p \in Writers, Config!StoreRead(p) PROVE ConfigTypes'
  <2>1. PICK v \in BOOLEAN :
          \/ value' = [value EXCEPT ![p] = [cfg EXCEPT !.use = v]]
          \/ value' = [value EXCEPT ![p] = [use |-> v, report |-> FALSE]]
    BY <1>4, Zenon DEF Config!StoreRead
  <2>2. PICK c \in Config!Config : value' = [value EXCEPT ![p] = c]
    <3>1. /\ [cfg EXCEPT !.use = v] \in Config!Config
          /\ [use |-> v, report |-> FALSE] \in Config!Config
      OBVIOUS
    <3>2. QED
      BY <2>1, <3>1, Zenon
  <2>3. store' = [store EXCEPT ![p] = "write"] /\ UNCHANGED cfg
    BY <1>4, Zenon DEF Config!StoreRead
  <2>4. QED
    BY <2>2, <2>3
<1>5. ASSUME NEW p \in Writers, Config!StoreWrite(p) PROVE ConfigTypes'
  BY <1>5 DEF Config!StoreWrite
<1>6. CASE UNCHANGED Config!vars
  BY <1>6 DEF Config!vars
<1>7. QED
  BY <1>1, <1>2, <1>3, <1>4, <1>5, <1>6, Zenon DEF Config!Next

LEMMA ConfigNext ==
  ASSUME ConfigInv, [Config!Next]_(Config!vars)
  PROVE  ConfigInv'
<1>0. ConfigTypes /\ ConfigTypes'
  BY ConfigTypesNext DEF ConfigInv
<1> USE DEF ConfigInv, Plain, Writing, Config!system
<1>1. CASE Config!Probe
  <2>1. cfg' = [cfg EXCEPT !.use = FALSE, !.report = TRUE] => cfg'.report /\ ~cfg'.use
    BY <1>0 DEF ConfigTypes, Config!Config
  <2>2. QED
    BY <1>0, <1>1, <2>1, Zenon DEF Config!Probe
<1>2. CASE Config!Remove
  <2>1. ~bound' /\ \A p \in Writers : ~Writing(p)'
    BY <1>2 DEF Config!Remove
  <2>2. QED
    BY <1>0, <2>1, Zenon
<1>3. CASE Config!PowerOff
  <2>1. cfg_failed => cfg_failed'
    BY <1>3, Zenon DEF Config!PowerOff
  <2>2. cfg' = cfg /\ bound' = bound /\ store' = store /\ value' = value /\ asked' = asked
    BY <1>3, Zenon DEF Config!PowerOff
  <2>3. QED
    BY <1>0, <2>1, <2>2, Zenon DEF Config!PowerOff
<1>4. CASE Config!RebootNotify
  BY <1>0, <1>4, Zenon DEF Config!RebootNotify
<1>5. CASE Config!Shutdown
  <2>1. cfg_failed => cfg_failed'
    BY <1>5, Zenon DEF Config!Shutdown
  <2>2. cfg' = cfg /\ bound' = bound /\ store' = store /\ value' = value /\ asked' = asked
    BY <1>5, Zenon DEF Config!Shutdown
  <2>3. QED
    BY <1>0, <2>1, <2>2, Zenon
<1>6. ASSUME NEW p \in Writers, Config!StoreRead(p) PROVE ConfigInv'
  <2>1. PICK v \in BOOLEAN :
          /\ \/ /\ value' = [value EXCEPT ![p] = [cfg EXCEPT !.use = v]]
                /\ UNCHANGED cfg_failed
             \/ /\ value' = [value EXCEPT ![p] = [use |-> v, report |-> FALSE]]
                /\ cfg_failed' = TRUE
          /\ asked' = (asked \/ v)
    BY <1>6, Zenon DEF Config!StoreRead
  <2>2. /\ store' = [store EXCEPT ![p] = "write"]
        /\ bound /\ UNCHANGED <<cfg, bound>>
    BY <1>6, Zenon DEF Config!StoreRead, Config!system
  <2>3. cfg_failed => cfg_failed'
    BY <2>1, Zenon
  <2>4. asked => asked'
    BY <2>1, Zenon
  <2>5. bound' /\ ~cfg_failed' => Plain(cfg)'
    BY <2>2, <2>3, <2>4, Zenon
  <2>6. ASSUME ~cfg_failed' PROVE Plain(value[p])'
    <3>1. value' = [value EXCEPT ![p] = [cfg EXCEPT !.use = v]]
      BY <2>1, <2>6, Zenon
    <3>2. value'[p] = [cfg EXCEPT !.use = v]
      BY <1>0, <3>1 DEF ConfigTypes
    <3>3. value'[p].report = cfg.report /\ value'[p].use = v
      BY <1>0, <3>2 DEF ConfigTypes, Config!Config
    <3>4. cfg.report
      BY <2>2, <2>3, <2>6, Zenon
    <3>5. QED
      BY <2>1, <3>3, <3>4, Zenon
  <2>7. ASSUME NEW r \in Writers, r # p, Writing(r)', ~cfg_failed'
        PROVE  Plain(value[r])'
    <3>1. value'[r] = value[r] /\ store'[r] = store[r]
      BY <1>0, <2>1, <2>2, <2>7 DEF ConfigTypes
    <3>2. QED
      BY <2>3, <2>4, <2>7, <3>1, Zenon
  <2>8. QED
    BY <1>0, <2>2, <2>5, <2>6, <2>7, Zenon
<1>7. ASSUME NEW p \in Writers, Config!StoreWrite(p) PROVE ConfigInv'
  <2>1. /\ store[p] = "write" /\ store' = [store EXCEPT ![p] = "idle"]
        /\ \/ cfg' = value[p] /\ UNCHANGED cfg_failed
           \/ cfg_failed' = TRUE /\ UNCHANGED cfg
        /\ UNCHANGED <<bound, value, asked>>
    BY <1>7, Zenon DEF Config!StoreWrite, Config!system
  <2>2. \A r \in Writers : Writing(r)' => Writing(r)
    <3>1. store' = [store EXCEPT ![p] = "idle"]
      BY <2>1, Zenon
    <3>2. QED
      BY <1>0, <3>1 DEF ConfigTypes
  <2>3. /\ cfg_failed => cfg_failed'
        /\ ~cfg_failed' => cfg' = value[p]
    <3>1. CASE cfg' = value[p] /\ UNCHANGED cfg_failed
      BY <3>1, Zenon
    <3>2. CASE cfg_failed' = TRUE
      BY <3>2, Zenon
    <3>3. QED
      BY <2>1, <3>1, <3>2, Zenon
  <2>4. bound' /\ ~cfg_failed' => Plain(cfg)'
    BY <2>1, <2>3, Zenon
  <2>5. QED
    BY <1>0, <2>1, <2>2, <2>3, <2>4, Zenon
<1>8. CASE UNCHANGED Config!vars
  BY <1>0, <1>8, Zenon DEF Config!vars
<1>9. QED
  BY <1>1, <1>2, <1>3, <1>4, <1>5, <1>6, <1>7, <1>8, Zenon DEF Config!Next

LEMMA ShutdownNext ==
  ASSUME ShutdownInv, [Config!Next]_(Config!vars)
  PROVE  ShutdownInv'
<1> USE DEF ShutdownInv, Config!OffOnlyOnPowerOff, Config!system
<1>1. CASE Config!Probe
  BY <1>1 DEF Config!Probe
<1>2. CASE Config!Remove
  BY <1>2 DEF Config!Remove
<1>3. CASE Config!PowerOff
  BY <1>3 DEF Config!PowerOff
<1>4. CASE Config!RebootNotify
  BY <1>4 DEF Config!RebootNotify
<1>5. CASE Config!Shutdown
  BY <1>5 DEF Config!Shutdown
<1>6. ASSUME NEW p \in Writers, Config!StoreRead(p) PROVE ShutdownInv'
  <2>1. cfg_failed => cfg_failed'
    BY <1>6, Zenon DEF Config!StoreRead
  <2>2. UNCHANGED <<shutdown, off, code, g_system_powering_off, bound>>
    BY <1>6, Zenon DEF Config!StoreRead
  <2>3. QED
    BY <2>1, <2>2
<1>7. ASSUME NEW p \in Writers, Config!StoreWrite(p) PROVE ShutdownInv'
  BY <1>7 DEF Config!StoreWrite
<1>8. CASE UNCHANGED Config!vars
  BY <1>8 DEF Config!vars
<1>9. QED
  BY <1>1, <1>2, <1>3, <1>4, <1>5, <1>6, <1>7, <1>8, Zenon DEF Config!Next

(* While no transfer fails, modifiers go on being reported and scancodes stay raw
   until somebody asks, and the firmware is told to cut the power exactly when the
   machine powers off, however the writers of sysfs overtake each other
   (picocalc_kbd.c:1110-1115, 1197-1201, 1306-1325). *)
THEOREM RegisterIsTold == LinuxKbdSpec => []ToldAsAsked
<1>1. LinuxKbdInit => ConfigInv /\ ShutdownInv
  BY ConfigInit, Zenon DEF LinuxKbdInit
<1>2. ConfigInv /\ [LinuxKbdNext]_everything => ConfigInv'
  BY ConfigNext, LinuxKbdStep
<1>3. ShutdownInv /\ [LinuxKbdNext]_everything => ShutdownInv'
  BY ShutdownNext, LinuxKbdStep
<1>4. ConfigInv /\ ShutdownInv => ToldAsAsked
  BY Zenon DEF ConfigInv, ShutdownInv, Plain, ToldAsAsked, Config!ToldAsAsked,
     Config!ConfigKept
<1>5. QED
  BY <1>1, <1>2, <1>3, <1>4, PTL DEF LinuxKbdSpec

-----------------------------------------------------------------------------
NoneIn(q, k) == \A i \in 1..Len(q) : q[i].key # k
LastIn(q, k, i) ==
  i \in 1..Len(q) /\ q[i].key = k /\ \A j \in (i + 1)..Len(q) : q[j].key # k
LastSays(q, k, h) == \A i \in 1..Len(q) : LastIn(q, k, i) => (q[i].pressed <=> k \in h)

(* A slot of the ring, without the remainder. *)
Wrap(i) == IF i < FifoSize THEN i ELSE i - FifoSize

(* What is in the ring, counted or not yet. *)
Filled == IF kpc \in {"load", "store"} THEN count + 1 ELSE count

(* As long as no update of count is lost, the indices and the count agree. *)
InStep ==
  /\ slots \in [0..(FifoSize - 1) -> Link!Items] /\ item \in Link!Items
  /\ kpc \in {"idle", "slot", "load", "store"}
  /\ read_idx \in 0..(FifoSize - 1)
  /\ count \in Nat /\ Filled \in 0..FifoSize
  /\ kpc = "slot" => count < FifoSize
  /\ write_idx = Wrap(read_idx + Filled)

Batched == batch \in Seq(Link!Items) /\ (lpc = "idle" => batch = <<>>)

(* The last event of a key on its way to Linux says whether it is held. *)
LinkInv ==
  /\ slipped \in BOOLEAN
  /\ ~slipped =>
       /\ InStep /\ Batched
       /\ \A k \in LinkKeys \ lost :
            /\ LastSays(Link!Fifo, k, held)
            /\ NoneIn(Link!Fifo, k) => LastSays(batch, k, held)
            /\ NoneIn(Link!Fifo, k) /\ NoneIn(batch, k) => (k \in down <=> k \in held)

LEMMA ModWraps ==
  ASSUME NEW i \in Nat, i < 2 * FifoSize
  PROVE  i % FifoSize = Wrap(i)
BY LinkAssumption, SMT DEF Wrap

LEMMA AdvanceWraps ==
  ASSUME NEW i \in 0..(FifoSize - 1)
  PROVE  Link!Advance(i) = Wrap(i + 1) /\ Wrap(i + 1) \in 0..(FifoSize - 1)
BY LinkAssumption, SMT DEF Link!Advance, Wrap

LEMMA SlotsShape ==
  ASSUME NEW f \in [0..(FifoSize - 1) -> Link!Items], NEW s \in 0..(FifoSize - 1),
         NEW n \in 0..FifoSize
  PROVE  /\ Link!Slots(f, s, n) \in Seq(Link!Items)
         /\ Len(Link!Slots(f, s, n)) = n
         /\ \A k \in 1..n : Link!Slots(f, s, n)[k] = f[Wrap(s + k - 1)]
<1> USE LinkAssumption
<1>1. \A k \in 1..n : (s + k - 1) % FifoSize = Wrap(s + k - 1)
  BY ModWraps
<1>2. \A k \in 1..n : Wrap(s + k - 1) \in 0..(FifoSize - 1)
  BY DEF Wrap
<1>3. Link!Slots(f, s, n) \in [1..n -> Link!Items]
  BY <1>1, <1>2 DEF Link!Slots
<1>4. Link!Slots(f, s, n) \in Seq(Link!Items)
  BY <1>3, SeqDef
<1>5. Len(Link!Slots(f, s, n)) = n
  BY <1>3, <1>4, LenProperties
<1>6. QED
  BY <1>1, <1>4, <1>5 DEF Link!Slots

(* The item written behind n slots is the last of n + 1, *)
LEMMA SlotsWritten ==
  ASSUME NEW f \in [0..(FifoSize - 1) -> Link!Items], NEW s \in 0..(FifoSize - 1),
         NEW n \in 0..(FifoSize - 1), NEW e \in Link!Items
  PROVE  Link!Slots([f EXCEPT ![Wrap(s + n)] = e], s, n + 1)
           = Append(Link!Slots(f, s, n), e)
<1> USE LinkAssumption
<1> DEFINE w == Wrap(s + n)
           g == [f EXCEPT ![w] = e]
           p == Link!Slots(f, s, n)
           q == Link!Slots(g, s, n + 1)
<1>1. /\ w \in 0..(FifoSize - 1)
      /\ \A k \in 1..n : Wrap(s + k - 1) \in 0..(FifoSize - 1) /\ Wrap(s + k - 1) # w
  BY DEF Wrap
<1>2. n \in 0..FifoSize /\ n + 1 \in 0..FifoSize
  OBVIOUS
<1>. HIDE DEF w
<1>3. /\ g \in [0..(FifoSize - 1) -> Link!Items] /\ g[w] = e
      /\ \A i \in 0..(FifoSize - 1) : i # w => g[i] = f[i]
  BY <1>1
<1>. HIDE DEF g
<1>4. /\ p \in Seq(Link!Items) /\ Len(p) = n
      /\ \A k \in 1..n : p[k] = f[Wrap(s + k - 1)]
  BY <1>2, SlotsShape
<1>5. /\ q \in Seq(Link!Items) /\ Len(q) = n + 1
      /\ \A k \in 1..(n + 1) : q[k] = g[Wrap(s + k - 1)]
  <2>1. g \in [0..(FifoSize - 1) -> Link!Items]
    BY <1>3
  <2>2. QED
    BY <1>2, <2>1, SlotsShape
<1>. HIDE DEF p, q
<1>6. ASSUME NEW k \in 1..n PROVE q[k] = p[k]
  BY <1>1, <1>3, <1>4, <1>5
<1>7. q[n + 1] = e
  <2>1. s + (n + 1) - 1 = s + n /\ n + 1 \in 1..(n + 1)
    OBVIOUS
  <2>2. QED
    BY <1>3, <1>5, <2>1 DEF w
<1>8. /\ Append(p, e) \in Seq(Link!Items) /\ Len(Append(p, e)) = n + 1
      /\ \A k \in 1..n : Append(p, e)[k] = p[k]
      /\ Append(p, e)[n + 1] = e
  BY <1>4
<1>9. \A k \in 1..(n + 1) : Append(p, e)[k] = q[k]
  BY <1>6, <1>7, <1>8
<1>10. q = Append(p, e)
  BY <1>5, <1>8, <1>9, SeqEqual
<1>11. QED
  BY <1>10 DEF p, q, g, w

(* and one slot taken from the front leaves the others. *)
LEMMA SlotsTaken ==
  ASSUME NEW f \in [0..(FifoSize - 1) -> Link!Items], NEW s \in 0..(FifoSize - 1),
         NEW n \in 1..FifoSize
  PROVE  /\ Link!Slots(f, s, n) # <<>>
         /\ Head(Link!Slots(f, s, n)) = f[s]
         /\ Link!Slots(f, Wrap(s + 1), n - 1) = Tail(Link!Slots(f, s, n))
<1> USE LinkAssumption
<1> DEFINE t == Wrap(s + 1)
           p == Link!Slots(f, s, n)
           q == Link!Slots(f, t, n - 1)
<1>1. t \in 0..(FifoSize - 1) /\ Wrap(s + 1 - 1) = s
  BY DEF Wrap
<1>2. \A k \in 1..(n - 1) : Wrap(t + k - 1) = Wrap(s + (k + 1) - 1)
  BY DEF Wrap
<1>3. n \in 0..FifoSize /\ n - 1 \in 0..FifoSize
  OBVIOUS
<1>. HIDE DEF t
<1>4. /\ p \in Seq(Link!Items) /\ Len(p) = n
      /\ \A k \in 1..n : p[k] = f[Wrap(s + k - 1)]
  BY <1>3, SlotsShape
<1>5. /\ q \in Seq(Link!Items) /\ Len(q) = n - 1
      /\ \A k \in 1..(n - 1) : q[k] = f[Wrap(t + k - 1)]
  <2>1. t \in 0..(FifoSize - 1)
    BY <1>1
  <2>2. QED
    BY <1>3, <2>1, SlotsShape
<1>. HIDE DEF p, q
<1>6. p # <<>> /\ Head(p) = f[s]
  <2>1. p # <<>> /\ 1 \in 1..n
    BY <1>4
  <2>2. QED
    BY <1>1, <1>4, <2>1, HeadTailProperties
<1>7. /\ Tail(p) \in Seq(Link!Items) /\ Len(Tail(p)) = n - 1
      /\ \A k \in 1..(n - 1) : Tail(p)[k] = f[Wrap(s + (k + 1) - 1)]
  BY <1>4, <1>6, HeadTailProperties
<1>8. q = Tail(p)
  <2>1. \A k \in 1..(n - 1) : q[k] = Tail(p)[k]
    BY <1>2, <1>5, <1>7
  <2>2. QED
    BY <1>5, <1>7, <2>1, SeqEqual
<1>9. QED
  BY <1>6, <1>8 DEF p, q, t

LEMMA FifoShape ==
  ASSUME InStep
  PROVE  Link!Fifo \in Seq(Link!Items)
<1>1. CASE kpc = "slot"
  <2>1. count \in 0..FifoSize
    BY <1>1, LinkAssumption DEF InStep
  <2>2. Link!Slots(slots, read_idx, count) \in Seq(Link!Items)
    BY <2>1, SlotsShape DEF InStep
  <2>3. QED
    BY <1>1, <2>2 DEF InStep, Link!Fifo
<1>2. CASE kpc \in {"load", "store"}
  BY <1>2, SlotsShape DEF InStep, Filled, Link!Fifo
<1>3. CASE kpc = "idle"
  BY <1>3, SlotsShape DEF InStep, Filled, Link!Fifo
<1>4. QED
  BY <1>1, <1>2, <1>3 DEF InStep

LEMMA LinkInit == Link!Init => LinkInv
<1> SUFFICES ASSUME Link!Init PROVE LinkInv
  OBVIOUS
<1> USE LinkAssumption
<1>1. /\ batch = <<>> /\ held = {} /\ down = {} /\ lost = {} /\ slipped = FALSE
      /\ kpc = "idle" /\ count = 0 /\ read_idx = 0 /\ write_idx = 0
      /\ item = Link!Zero /\ slots = [i \in 0..(FifoSize - 1) |-> Link!Zero]
  BY DEF Link!Init
<1>2. InStep
  <2>1. 0 % FifoSize = 0
    BY ModWraps DEF Wrap
  <2>2. QED
    BY <1>1, <2>1 DEF InStep, Filled, Link!Items
<1>3. Link!Fifo = <<>>
  BY <1>1 DEF Link!Fifo, Link!Slots
<1>4. \A k : NoneIn(<<>>, k) /\ LastSays(<<>>, k, held)
  BY DEF LastSays, LastIn, NoneIn
<1>5. Batched
  BY <1>1 DEF Batched
<1>6. QED
  BY <1>1, <1>2, <1>3, <1>4, <1>5 DEF LinkInv

(* An event joins a queue: it is the last of its key. *)
LEMMA Joins ==
  ASSUME NEW q \in Seq(Link!Items), NEW e \in Link!Items, NEW k, NEW h
  PROVE  /\ Append(q, e) \in Seq(Link!Items)
         /\ NoneIn(Append(q, e), k) <=> NoneIn(q, k) /\ e.key # k
         /\ e.key = k => (LastSays(Append(q, e), k, h) <=> (e.pressed <=> k \in h))
         /\ e.key # k => (LastSays(Append(q, e), k, h) <=> LastSays(q, k, h))
<1> DEFINE s == Append(q, e)
<1>1. /\ s \in Seq(Link!Items) /\ Len(s) = Len(q) + 1 /\ Len(q) \in Nat
      /\ \A i \in 1..Len(q) : s[i] = q[i]
      /\ s[Len(q) + 1] = e
  OBVIOUS
<1>. HIDE DEF s
<1>2. NoneIn(s, k) <=> NoneIn(q, k) /\ e.key # k
  <2>1. \A i \in 1..Len(q) : i \in 1..Len(s)
    BY <1>1
  <2>2. \A i \in 1..Len(s) : i \in 1..Len(q) \/ i = Len(q) + 1
    BY <1>1
  <2>3. QED
    BY <1>1, <2>1, <2>2 DEF NoneIn
<1>3. ASSUME e.key = k
      PROVE  \A i \in 1..Len(s) : LastIn(s, k, i) <=> i = Len(s)
  BY <1>1, <1>3 DEF LastIn
<1>4. ASSUME e.key # k
      PROVE  /\ \A i \in 1..Len(s) : LastIn(s, k, i) <=> LastIn(q, k, i)
             /\ \A i \in 1..Len(q) : LastIn(s, k, i) <=> LastIn(q, k, i)
  BY <1>1, <1>4 DEF LastIn
<1>5. Len(s) \in 1..Len(s) /\ s[Len(s)] = e
  BY <1>1
<1>6. ASSUME e.key = k PROVE LastSays(s, k, h) <=> (e.pressed <=> k \in h)
  BY <1>3, <1>5, <1>6 DEF LastSays
<1>7. ASSUME e.key # k PROVE LastSays(s, k, h) <=> LastSays(q, k, h)
  <2>1. \A i : LastIn(s, k, i) => i \in 1..Len(s)
    BY DEF LastIn
  <2>2. \A i : LastIn(q, k, i) => i \in 1..Len(q)
    BY DEF LastIn
  <2>3. QED
    BY <1>1, <1>4, <1>7, <2>1, <2>2 DEF LastSays
<1>8. QED
  BY <1>1, <1>2, <1>6, <1>7 DEF s

(* An event leaves a queue: what follows it of its key is still the last. *)
LEMMA Leaves ==
  ASSUME NEW q \in Seq(Link!Items), q # <<>>, NEW k, NEW h
  PROVE  /\ Head(q) \in Link!Items /\ Tail(q) \in Seq(Link!Items)
         /\ NoneIn(q, k) <=> NoneIn(Tail(q), k) /\ Head(q).key # k
         /\ LastSays(q, k, h) => LastSays(Tail(q), k, h)
         /\ NoneIn(Tail(q), k) /\ Head(q).key = k =>
              (LastSays(q, k, h) => (Head(q).pressed <=> k \in h))
<1> DEFINE s == Tail(q)
<1>1. /\ s \in Seq(Link!Items) /\ Len(s) = Len(q) - 1 /\ Len(q) \in Nat \ {0}
      /\ \A i \in 1..Len(s) : s[i] = q[i + 1]
      /\ q[1] = Head(q) /\ Head(q) \in Link!Items
  OBVIOUS
<1>2. NoneIn(q, k) <=> NoneIn(s, k) /\ q[1].key # k
  <2>. HIDE DEF s
  <2>1. \A i \in 1..Len(s) : i + 1 \in 1..Len(q)
    BY <1>1
  <2>2. 1 \in 1..Len(q)
    BY <1>1
  <2>3. NoneIn(q, k) => NoneIn(s, k) /\ q[1].key # k
    BY <1>1, <2>1, <2>2 DEF NoneIn
  <2>4. \A i \in 1..Len(q) : i = 1 \/ (i - 1 \in 1..Len(s) /\ s[i - 1] = q[i])
    BY <1>1
  <2>5. NoneIn(s, k) /\ q[1].key # k => NoneIn(q, k)
    BY <2>4 DEF NoneIn
  <2>6. QED
    BY <2>3, <2>5
<1>3. LastSays(q, k, h) => LastSays(s, k, h)
  <2>. HIDE DEF s
  <2>1. ASSUME NEW i \in 1..Len(s), LastIn(s, k, i)
        PROVE  i + 1 \in 1..Len(q) /\ LastIn(q, k, i + 1) /\ s[i] = q[i + 1]
    <3>1. i + 1 \in 1..Len(q) /\ s[i] = q[i + 1] /\ s[i].key = k
      BY <1>1, <2>1 DEF LastIn
    <3>2. ASSUME NEW j \in (i + 2)..Len(q) PROVE q[j].key # k
      <4>1. j - 1 \in (i + 1)..Len(s) /\ j - 1 \in 1..Len(s) /\ s[j - 1] = q[j]
        BY <1>1
      <4>2. QED
        BY <2>1, <4>1 DEF LastIn
    <3>3. QED
      BY <1>1, <3>1, <3>2 DEF LastIn
  <2>2. QED
    BY <2>1 DEF LastSays
<1>4. ASSUME NoneIn(s, k), q[1].key = k, LastSays(q, k, h)
      PROVE  q[1].pressed <=> k \in h
  <2>. HIDE DEF s
  <2>1. ASSUME NEW j \in 2..Len(q) PROVE q[j].key # k
    <3>1. j - 1 \in 1..Len(s) /\ s[j - 1] = q[j]
      BY <1>1
    <3>2. QED
      BY <1>4, <3>1 DEF NoneIn
  <2>2. 1 \in 1..Len(q)
    BY <1>1
  <2>3. LastIn(q, k, 1)
    BY <1>4, <2>1, <2>2 DEF LastIn
  <2>4. QED
    BY <1>4, <2>2, <2>3 DEF LastSays
<1>5. QED
  BY <1>1, <1>2, <1>3, <1>4

(* An event that finds room joins what is on its way. *)
LEMMA Accepted ==
  ASSUME InStep, kpc = "idle", NEW e \in Link!Items, Link!Accept(e), UNCHANGED Link!ring
  PROVE  InStep' /\ Link!Fifo' = Append(Link!Fifo, e)
<1>1. InStep'
  BY DEF InStep, Filled, Link!Accept, Link!ring
<1>2. Link!Fifo = Link!Slots(slots, read_idx, count)
  BY DEF Link!Fifo
<1>3. Link!Fifo' = Append(Link!Slots(slots', read_idx', count'), item')
  BY DEF Link!Fifo, Link!Accept
<1>4. slots' = slots /\ read_idx' = read_idx /\ count' = count /\ item' = e
  BY DEF Link!Accept, Link!ring
<1>5. QED
  BY <1>1, <1>2, <1>3, <1>4

(* The steps of the enqueue leave it as it is, *)
LEMMA Enqueued ==
  ASSUME InStep, Link!WriteSlot \/ Link!LoadCount \/ (Link!StoreCount /\ reg = count)
  PROVE  InStep' /\ Link!Fifo' = Link!Fifo
<1> USE LinkAssumption
<1>1. CASE Link!WriteSlot
  <2>1. count \in 0..(FifoSize - 1) /\ Filled = count /\ Filled' = count + 1
    BY <1>1 DEF InStep, Filled, Link!WriteSlot
  <2>2. Link!Slots(slots', read_idx, count + 1)
          = Append(Link!Slots(slots, read_idx, count), item)
    BY <1>1, <2>1, SlotsWritten DEF InStep, Link!WriteSlot
  <2>3. write_idx' = Wrap(read_idx + (count + 1))
    <3>1. write_idx = Wrap(read_idx + count)
      BY <2>1 DEF InStep
    <3>2. write_idx \in 0..(FifoSize - 1) /\ Wrap(write_idx + 1) = Wrap(read_idx + (count + 1))
      BY <2>1, <3>1 DEF InStep, Wrap
    <3>3. QED
      BY <1>1, <3>2, AdvanceWraps DEF Link!WriteSlot
  <2>4. InStep'
    <3>1. item' \in Link!Items /\ slots' \in [0..(FifoSize - 1) -> Link!Items]
      BY <1>1 DEF InStep, Link!WriteSlot, Link!Items
    <3>2. kpc' = "load" /\ read_idx' = read_idx /\ count' = count
      BY <1>1 DEF Link!WriteSlot
    <3>3. QED
      BY <2>1, <2>3, <3>1, <3>2 DEF InStep
  <2>5. QED
    BY <1>1, <2>2, <2>4 DEF Link!WriteSlot, Link!Fifo
<1>2. CASE Link!LoadCount
  BY <1>2 DEF InStep, Filled, Link!LoadCount, Link!ring, Link!Fifo
<1>3. CASE Link!StoreCount /\ reg = count
  BY <1>3 DEF InStep, Filled, Link!StoreCount, Link!Fifo
<1>4. QED
  BY <1>1, <1>2, <1>3

(* and a dequeue takes its first event, if one is counted. *)
LEMMA Dequeued ==
  ASSUME InStep, Link!fifo_dequeue
  PROVE  /\ InStep'
         /\ count = 0 => Link!Fifo' = Link!Fifo /\ Link!Front = Link!Zero
         /\ count > 0 => /\ Link!Fifo # <<>> /\ Link!Fifo' = Tail(Link!Fifo)
                         /\ Head(Link!Fifo) = Link!Front
<1> USE LinkAssumption
<1>1. CASE count = 0
  BY <1>1 DEF InStep, Filled, Link!fifo_dequeue, Link!enqueuing, Link!Fifo, Link!Front
<1>2. CASE count > 0
  <2>1. /\ count' = count - 1 /\ read_idx' = Link!Advance(read_idx)
        /\ UNCHANGED <<slots, write_idx, kpc, reg, item>>
    BY <1>2 DEF Link!fifo_dequeue, Link!enqueuing
  <2>2. Filled \in 1..FifoSize /\ Filled' = Filled - 1 /\ count \in 1..Filled
    BY <1>2, <2>1 DEF InStep, Filled
  <2>3. read_idx' = Wrap(read_idx + 1) /\ read_idx' \in 0..(FifoSize - 1)
    BY <2>1, AdvanceWraps DEF InStep
  <2>4. Wrap(read_idx' + Filled') = Wrap(read_idx + Filled)
    BY <2>2, <2>3 DEF InStep, Wrap
  <2>5. InStep'
    <3>1. count' \in Nat /\ Filled' \in 0..FifoSize /\ count' < count
      BY <2>1, <2>2
    <3>2. QED
      BY <2>1, <2>3, <2>4, <3>1 DEF InStep
  <2>6. \A n \in 1..FifoSize :
          /\ Link!Slots(slots, read_idx, n) # <<>>
          /\ Head(Link!Slots(slots, read_idx, n)) = slots[read_idx]
          /\ Link!Slots(slots', read_idx', n - 1) = Tail(Link!Slots(slots, read_idx, n))
    BY <2>1, <2>3, SlotsTaken DEF InStep
  <2>7. Link!Front = slots[read_idx]
    BY <1>2 DEF Link!Front, InStep
  <2>8. CASE kpc = "slot"
    <3> DEFINE q == Link!Slots(slots, read_idx, count)
    <3>1. q \in Seq(Link!Items) /\ q # <<>> /\ Head(q) = slots[read_idx]
      <4>1. count \in 1..FifoSize /\ count \in 0..FifoSize
        BY <2>2
      <4>2. QED
        BY <2>6, <4>1, SlotsShape DEF InStep
    <3>2. Link!Slots(slots', read_idx', count') = Tail(q)
      BY <2>1, <2>2, <2>6
    <3>3. Link!Fifo = Append(q, item)
      BY <2>8 DEF Link!Fifo
    <3>4. Link!Fifo' = Append(Tail(q), item)
      BY <2>1, <2>8, <3>2 DEF Link!Fifo
    <3>. HIDE DEF q
    <3>5. item \in Link!Items
      BY DEF InStep
    <3>6. Append(q, item) # <<>> /\ Head(Append(q, item)) = Head(q)
          /\ Tail(Append(q, item)) = Append(Tail(q), item)
      BY <3>1, <3>5
    <3>7. QED
      BY <1>2, <2>5, <2>7, <3>1, <3>3, <3>4, <3>6
  <2>9. CASE kpc # "slot"
    <3>1. Link!Fifo = Link!Slots(slots, read_idx, Filled)
      BY <2>9 DEF InStep, Link!Fifo, Filled
    <3>2. Link!Fifo' = Link!Slots(slots', read_idx', Filled - 1)
      BY <2>1, <2>2, <2>9, <2>5 DEF InStep, Link!Fifo, Filled
    <3>3. QED
      BY <1>2, <2>2, <2>5, <2>6, <2>7, <3>1, <3>2 DEF InStep
  <2>10. QED
    BY <2>8, <2>9
<1>3. QED
  BY <1>1, <1>2 DEF InStep

LEMMA LinkNext ==
  ASSUME LinkInv, [Link!Next]_(Link!vars)
  PROVE  LinkInv'
<1> USE LinkAssumption
<1> DEFINE Key(k) == /\ LastSays(Link!Fifo, k, held)
                     /\ NoneIn(Link!Fifo, k) => LastSays(batch, k, held)
                     /\ NoneIn(Link!Fifo, k) /\ NoneIn(batch, k) =>
                          (k \in down <=> k \in held)
           Keys == \A k \in LinkKeys \ lost : Key(k)
<1>1. slipped' \in BOOLEAN /\ (~slipped' => ~slipped)
  <2>1. slipped' = slipped \/ slipped' = (slipped \/ reg # count)
    BY Zenon DEF Link!Next, Link!key_cb, Link!key_cb_hold, Link!WriteSlot, Link!LoadCount,
       Link!StoreCount, Link!Poll, Link!Read, Link!ReadEnd, Link!ReadFails,
       Link!Dispatch, Link!DispatchEnd, Link!fifo_dequeue, Link!vars
  <2>2. CASE slipped' = slipped
    BY <2>2 DEF LinkInv
  <2>3. CASE slipped' = (slipped \/ reg # count)
    <3>1. (slipped' <=> slipped \/ reg # count) /\ slipped' \in BOOLEAN
      BY <2>3, Zenon
    <3>2. QED
      BY <3>1, Zenon
  <2>4. QED
    BY <2>1, <2>2, <2>3, Zenon
<1> SUFFICES ASSUME ~slipped' PROVE InStep' /\ Batched' /\ Keys'
  BY <1>1, Zenon DEF LinkInv
<1>2. ~slipped /\ InStep /\ Batched /\ Link!Fifo \in Seq(Link!Items)
      /\ \A k \in LinkKeys \ lost : Key(k)
  BY <1>1, FifoShape DEF LinkInv
<1>3. CASE Link!key_cb
  <2>1. PICK e \in LinkKeys :
          /\ held' = IF e \in held THEN held \ {e} ELSE held \cup {e}
          /\ \/ /\ Link!Accept([key |-> e, pressed |-> e \notin held])
                /\ lost' = lost \ {e}
             \/ UNCHANGED <<kpc, reg, item>> /\ lost' = lost \cup {e}
    BY <1>3, Zenon DEF Link!key_cb, Link!enqueuing
  <2>2. kpc = "idle" /\ UNCHANGED <<Link!ring, batch, lpc, down>>
    BY <1>3 DEF Link!key_cb, Link!driver
  <2> DEFINE ev == [key |-> e, pressed |-> e \notin held]
  <2>3. ev \in Link!Items /\ ev.key = e /\ (ev.pressed <=> e \notin held)
    BY DEF Link!Events, Link!Items
  <2>. HIDE DEF ev
  <2>4. /\ InStep' /\ Batched'
        /\ \/ Link!Fifo' = Append(Link!Fifo, ev) /\ lost' = lost \ {e}
           \/ Link!Fifo' = Link!Fifo /\ lost' = lost \cup {e}
    <3>1. CASE Link!Accept(ev) /\ lost' = lost \ {e}
      BY <1>2, <2>2, <2>3, <3>1, Accepted DEF Batched
    <3>2. CASE UNCHANGED <<kpc, reg, item>> /\ lost' = lost \cup {e}
      BY <1>2, <2>2, <3>2 DEF InStep, Filled, Batched, Link!ring, Link!Fifo
    <3>3. QED
      BY <2>1, <3>1, <3>2 DEF ev
  <2>5. ASSUME NEW k \in LinkKeys \ lost' PROVE Key(k)'
    <3>1. CASE k = e
      <4>1. Link!Fifo' = Append(Link!Fifo, ev)
        BY <2>4, <2>5, <3>1
      <4>2. ev.pressed <=> k \in held'
        BY <2>1, <2>3, <3>1
      <4>3. LastSays(Link!Fifo', k, held') /\ ~NoneIn(Link!Fifo', k)
        BY <1>2, <2>3, <3>1, <4>1, <4>2, Joins
      <4>4. QED
        BY <4>3
    <3>2. CASE k # e
      <4>1. k \notin lost /\ (k \in held' <=> k \in held)
        BY <2>1, <2>5, <3>2
      <4>2. Key(k)
        BY <1>2, <4>1
      <4>3. \A q : LastSays(q, k, held') <=> LastSays(q, k, held)
        BY <4>1 DEF LastSays
      <4>4. /\ LastSays(Link!Fifo', k, held) <=> LastSays(Link!Fifo, k, held)
            /\ NoneIn(Link!Fifo', k) <=> NoneIn(Link!Fifo, k)
        <5>1. CASE Link!Fifo' = Append(Link!Fifo, ev)
          BY <1>2, <2>3, <3>2, <5>1, Joins
        <5>2. CASE Link!Fifo' = Link!Fifo
          BY <5>2
        <5>3. QED
          BY <2>4, <5>1, <5>2
      <4>5. QED
        BY <2>2, <4>1, <4>2, <4>3, <4>4
    <3>3. QED
      BY <3>1, <3>2
  <2>6. QED
    BY <2>4, <2>5
<1>4. CASE Link!key_cb_hold
  <2>1. Link!Hold \in Link!Items /\ Link!Hold.key = NoKey
    BY DEF Link!Hold, Link!Items
  <2>2. /\ kpc = "idle" /\ Link!Accept(Link!Hold)
        /\ UNCHANGED <<Link!ring, batch, lpc, down, held, lost>>
    BY <1>4 DEF Link!key_cb_hold, Link!driver
  <2>3. InStep' /\ Batched' /\ Link!Fifo' = Append(Link!Fifo, Link!Hold)
    BY <1>2, <2>1, <2>2, Accepted DEF Batched
  <2>4. ASSUME NEW k \in LinkKeys \ lost' PROVE Key(k)'
    <3>1. Key(k) /\ k # NoKey
      BY <1>2, <2>2
    <3>2. /\ NoneIn(Link!Fifo', k) <=> NoneIn(Link!Fifo, k)
          /\ LastSays(Link!Fifo', k, held) <=> LastSays(Link!Fifo, k, held)
      BY <1>2, <2>1, <2>3, <3>1, Joins
    <3>3. QED
      BY <2>2, <3>1, <3>2
  <2>5. QED
    BY <2>3, <2>4
<1>5. CASE Link!WriteSlot \/ Link!LoadCount \/ Link!StoreCount
  <2>1. UNCHANGED <<batch, lpc, down, held, lost>>
    BY <1>5 DEF Link!WriteSlot, Link!LoadCount, Link!StoreCount, Link!driver
  <2>2. Link!StoreCount => reg = count
    BY DEF Link!StoreCount
  <2>3. InStep' /\ Link!Fifo' = Link!Fifo
    BY <1>2, <1>5, <2>2, Enqueued
  <2>4. QED
    BY <1>2, <2>1, <2>3 DEF Batched
<1>6. CASE Link!Poll \/ Link!ReadEnd \/ Link!DispatchEnd
  <2>1. UNCHANGED <<Link!ring, kpc, reg, item, held, down, lost>>
    BY <1>6 DEF Link!Poll, Link!ReadEnd, Link!DispatchEnd, Link!enqueuing
  <2>2. batch' = batch /\ Batched'
    BY <1>2, <1>6 DEF Link!Poll, Link!ReadEnd, Link!DispatchEnd, Batched
  <2>3. InStep' /\ Link!Fifo' = Link!Fifo
    BY <1>2, <2>1 DEF InStep, Filled, Link!ring, Link!Fifo
  <2>4. QED
    BY <1>2, <2>1, <2>2, <2>3
<1>7. CASE Link!Read
  <2>1. /\ Link!fifo_dequeue /\ UNCHANGED <<held, down, lost>>
        /\ lpc = "read"
        /\ \/ Link!Front = Link!Zero /\ batch' = batch /\ lpc' = "dispatch"
           \/ Link!Front # Link!Zero /\ batch' = Append(batch, Link!Front) /\ lpc' = lpc
    BY <1>7 DEF Link!Read
  <2>2. /\ InStep'
        /\ count = 0 => Link!Fifo' = Link!Fifo /\ Link!Front = Link!Zero
        /\ count > 0 => /\ Link!Fifo # <<>> /\ Link!Fifo' = Tail(Link!Fifo)
                        /\ Head(Link!Fifo) = Link!Front
    BY <1>2, <2>1, Dequeued
  <2>3. CASE count = 0
    BY <1>2, <2>1, <2>2, <2>3 DEF Batched
  <2>4. CASE count > 0
    <3> DEFINE e == Link!Front
    <3>1. e \in Link!Items
      BY <1>2, <2>2, <2>4
    <3>2. Batched'
      BY <1>2, <2>1, <3>1 DEF Batched
    <3>3. ASSUME NEW k \in LinkKeys \ lost' PROVE Key(k)'
      <4>1. Key(k) /\ k # NoKey
        BY <1>2, <2>1
      <4>2. /\ NoneIn(Link!Fifo, k) <=> NoneIn(Link!Fifo', k) /\ e.key # k
            /\ LastSays(Link!Fifo', k, held)
            /\ NoneIn(Link!Fifo', k) /\ e.key = k => (e.pressed <=> k \in held)
        <5> DEFINE q == Link!Fifo
        <5>1. q \in Seq(Link!Items) /\ q # <<>> /\ LastSays(q, k, held)
          BY <1>2, <2>2, <2>4, <4>1
        <5>2. Head(q) = e /\ Tail(q) = Link!Fifo'
          BY <2>2, <2>4
        <5>. HIDE DEF q, e
        <5>3. /\ NoneIn(q, k) <=> NoneIn(Tail(q), k) /\ Head(q).key # k
              /\ LastSays(Tail(q), k, held)
              /\ NoneIn(Tail(q), k) /\ Head(q).key = k => (Head(q).pressed <=> k \in held)
          BY <5>1, Leaves
        <5>4. QED
          BY <5>2, <5>3 DEF q
      <4>3. CASE e = Link!Zero /\ batch' = batch
        <5>1. e.key # k
          BY <4>1, <4>3 DEF Link!Zero
        <5>2. QED
          BY <2>1, <4>1, <4>2, <4>3, <5>1
      <4>4. CASE batch' = Append(batch, e)
        <5>1. /\ NoneIn(batch', k) <=> NoneIn(batch, k) /\ e.key # k
              /\ e.key = k =>
                   (LastSays(batch', k, held) <=> (e.pressed <=> k \in held))
              /\ e.key # k => (LastSays(batch', k, held) <=> LastSays(batch, k, held))
          BY <1>2, <3>1, <4>4, Joins DEF Batched
        <5>2. QED
          BY <2>1, <4>1, <4>2, <5>1
      <4>5. QED
        BY <2>1, <4>3, <4>4
    <3>4. QED
      BY <2>2, <3>2, <3>3
  <2>5. QED
    BY <1>2, <2>3, <2>4 DEF InStep
<1>8. CASE Link!ReadFails
  <2>1. held' = held /\ down' = down /\ batch' = batch /\ lpc' = "dispatch"
    BY <1>8 DEF Link!ReadFails
  <2>2. Batched'
    BY <1>2, <2>1 DEF Batched
  <2>3. CASE UNCHANGED <<Link!ring, Link!enqueuing, lost>>
    BY <1>2, <2>1, <2>2, <2>3
    DEF InStep, Filled, Link!ring, Link!enqueuing, Link!Fifo
  <2>4. CASE Link!fifo_dequeue /\ lost' = lost \cup Link!Dropped
    <3>1. /\ InStep'
          /\ count = 0 => Link!Fifo' = Link!Fifo
          /\ count > 0 => Link!Fifo # <<>> /\ Link!Fifo' = Tail(Link!Fifo)
      BY <1>2, <2>4, Dequeued
    <3>2. CASE count = 0
      <4>1. Link!Dropped = {}
        BY <3>2 DEF Link!Dropped
      <4>2. QED
        BY <1>2, <2>1, <2>2, <2>4, <3>1, <3>2, <4>1
    <3>3. CASE count > 0
      <4>1. ASSUME NEW k \in LinkKeys \ lost' PROVE Key(k)'
        <5>1. Key(k) /\ k \notin Link!Dropped
          BY <1>2, <2>4
        <5>2. /\ NoneIn(Link!Fifo, k) <=> NoneIn(Link!Fifo', k) /\ Head(Link!Fifo).key # k
              /\ LastSays(Link!Fifo', k, held)
          <6> DEFINE q == Link!Fifo
          <6>1. q \in Seq(Link!Items) /\ q # <<>> /\ LastSays(q, k, held)
            BY <1>2, <3>1, <3>3, <5>1
          <6>2. Tail(q) = Link!Fifo'
            BY <3>1, <3>3
          <6>. HIDE DEF q
          <6>3. /\ NoneIn(q, k) <=> NoneIn(Tail(q), k) /\ Head(q).key # k
                /\ LastSays(Tail(q), k, held)
            BY <6>1, Leaves
          <6>4. QED
            BY <6>2, <6>3 DEF q
        <5>3. ASSUME NoneIn(Link!Fifo', k), Head(Link!Fifo).key = k PROVE FALSE
          <6> DEFINE q == Link!Fifo
          <6>1. q \in Seq(Link!Items) /\ q # <<>> /\ Head(q) = q[1] /\ Link!Fifo' = Tail(q)
            BY <1>2, <3>1, <3>3
          <6>2. PICK i \in 2..Len(q) : q[i].key = k
            BY <3>3, <5>1, <5>3, <6>1 DEF Link!Dropped
          <6>. HIDE DEF q
          <6>3. i - 1 \in 1..Len(Tail(q)) /\ Tail(q)[i - 1] = q[i]
            BY <6>1
          <6>4. QED
            BY <5>3, <6>1, <6>2, <6>3 DEF NoneIn
        <5>4. QED
          BY <2>1, <5>1, <5>2, <5>3
      <4>2. QED
        BY <2>2, <3>1, <4>1
    <3>4. QED
      BY <1>2, <3>2, <3>3 DEF InStep
  <2>5. QED
    BY <1>8, <2>3, <2>4 DEF Link!ReadFails
<1>9. CASE Link!Dispatch
  <2> DEFINE e == Head(batch)
  <2>1. /\ lpc = "dispatch" /\ batch # <<>> /\ batch' = Tail(batch)
        /\ UNCHANGED <<Link!ring, kpc, reg, item, lpc, held, lost>>
        /\ down' = CASE e = Link!Hold -> down
                     [] e # Link!Hold /\ e.pressed -> down \cup {e.key}
                     [] OTHER -> down \ {e.key}
    BY <1>9 DEF Link!Dispatch, Link!enqueuing
  <2>2. InStep' /\ Link!Fifo' = Link!Fifo
    BY <1>2, <2>1 DEF InStep, Filled, Link!ring, Link!Fifo
  <2>3. Batched'
    BY <1>2, <2>1 DEF Batched
  <2>4. ASSUME NEW k \in LinkKeys \ lost' PROVE Key(k)'
    <3>1. Key(k) /\ k # NoKey
      BY <1>2, <2>1
    <3>2. /\ e \in Link!Items
          /\ NoneIn(batch, k) <=> NoneIn(batch', k) /\ e.key # k
          /\ LastSays(batch, k, held) => LastSays(batch', k, held)
          /\ NoneIn(batch', k) /\ e.key = k =>
               (LastSays(batch, k, held) => (e.pressed <=> k \in held))
      BY <1>2, <2>1, Leaves DEF Batched
    <3>3. CASE e.key = k
      <4>1. e # Link!Hold
        BY <3>1, <3>3 DEF Link!Hold
      <4>2. k \in down' <=> e.pressed
        BY <2>1, <3>3, <4>1
      <4>3. QED
        BY <2>1, <2>2, <3>1, <3>2, <3>3, <4>2
    <3>4. CASE e.key # k
      <4>1. k \in down' <=> k \in down
        BY <2>1, <3>4
      <4>2. QED
        BY <2>1, <2>2, <3>1, <3>2, <3>4, <4>1
    <3>5. QED
      BY <3>3, <3>4
  <2>5. QED
    BY <2>2, <2>3, <2>4
<1>10. CASE UNCHANGED Link!vars
  BY <1>2, <1>10 DEF InStep, Filled, Batched, Link!vars, Link!ring, Link!enqueuing,
     Link!driver, Link!Fifo
<1>11. QED
  BY <1>3, <1>4, <1>5, <1>6, <1>7, <1>8, <1>9, <1>10, Zenon DEF Link!Next

(* Linux holds down exactly the keys that are held, through any delay between the
   firmware's ring and the driver's polls, but for the keys whose last event was
   refused by a full ring or swallowed by the driver, until the interrupt loses an
   update of count (fifo.ino:18-58, picocalc_keyboard.ino:90-104,
   picocalc_kbd.c:423-446). *)
THEOREM KeysHeldAreDown == LinuxKbdSpec => []DownIfHeld
<1>1. LinuxKbdInit => LinkInv
  BY LinkInit, Zenon DEF LinuxKbdInit
<1>2. LinkInv /\ [LinuxKbdNext]_everything => LinkInv'
  BY LinkNext, LinuxKbdStep
<1>3. LinkInv => DownIfHeld
  <2>1. kpc = "idle" /\ count = 0 => Link!Fifo = <<>>
    BY DEF Link!Fifo, Link!Slots
  <2>2. \A k : NoneIn(<<>>, k)
    BY DEF NoneIn
  <2>3. QED
    BY <2>1, <2>2 DEF LinkInv, DownIfHeld, Link!DownIfHeld
<1>4. QED
  BY <1>1, <1>2, <1>3, PTL DEF LinuxKbdSpec

-----------------------------------------------------------------------------
(* Whole pixels and what is left. *)
LEMMA Whole ==
  ASSUME NEW x \in Int, NEW u \in Nat \ {0}
  PROVE  /\ x \div u \in Int
         /\ (x \div u) * u <= x
         /\ x < (x \div u) * u + u
BY SMT

LEMMA FewPixels ==
  ASSUME NEW s \in Int, NEW u \in Nat \ {0}, NEW m \in Nat, s * u < u * (m + 1)
  PROVE  s <= m
BY SMT

MouseTypes ==
  /\ sub \in [Mouse!Axes -> Int] /\ axis \in Mouse!Axes
  /\ starting \in Mouse!Axes \cup {"no"} /\ mreg \in Int
  /\ inc \in Incs \cup {0} /\ dir \in {1, -1} /\ step_px \in Int

(* Between the addition of a tick's fraction and the subtraction of its pixels *)
Adding == {"take", "reload", "report"}

(* What the pixels of a tick are subtracted from: them and less than one more, or
   0 if the input work started anew. *)
Counted(x) == x = 0 \/ (step_px * Unit <= x /\ x < step_px * Unit + Unit)

Fractions ==
  \A a \in Mouse!Axes :
    /\ -(Unit * MaxPx) <= sub[a]
    /\ a # axis \/ mpc \notin Adding => sub[a] < Unit

Owed ==
  /\ mpc = "store" => -(Unit * MaxPx) <= mreg /\ mreg < Unit
  /\ mpc = "take" => sub[axis] < Unit * (MaxPx + 1)
  /\ mpc \in {"reload", "report"} => 0 < step_px /\ step_px <= MaxPx
  /\ mpc = "reload" => Counted(sub[axis])
  /\ mpc = "report" => Counted(mreg)

Ahead == IF dir = 1 THEN Mouse!Forward ELSE Mouse!Dirs \ Mouse!Forward

Aims ==
  /\ mpc \in {"dir", "load", "store", "take", "reload", "report"} =>
       mouse_dir \cap Mouse!AxisDirs[axis] \subseteq tested
  /\ mpc = "dir" => released \/ mouse_dir \cap Mouse!AxisDirs[axis] # {}
  /\ mpc = "dir" /\ ~released => tested \cap Mouse!AxisDirs[axis] \subseteq mouse_dir
  /\ mpc \in {"load", "store", "take", "reload", "report"} =>
       released \/ tested \cap Mouse!AxisDirs[axis] \cap Ahead # {}

MouseInv == MouseTypes /\ Fractions /\ Owed /\ Aims

LEMMA MouseInit == Mouse!Init => MouseInv
<1> SUFFICES ASSUME Mouse!Init PROVE MouseInv
  OBVIOUS
<1>1. MouseTypes
  BY DEF Mouse!Init, MouseTypes, Mouse!Axes
<1>2. 0 <= Unit * MaxPx
  BY PixelsAssumption, SMT
<1>3. Fractions
  BY PixelsAssumption, <1>2 DEF Mouse!Init, Fractions, Adding
<1>4. QED
  BY <1>1, <1>3 DEF Mouse!Init, MouseInv, Owed, Aims

LEMMA MouseTypesNext ==
  ASSUME MouseTypes, [Mouse!Next]_(Mouse!vars)
  PROVE  MouseTypes'
<1> USE DEF MouseTypes, Mouse!Axes, Mouse!input, Mouse!work, Mouse!ghosts
<1>0. Incs \subseteq Int /\ Unit \in Int \ {0} /\ inc \in Int
  BY PixelsAssumption, SMT
<1>1. CASE Mouse!TickBegin
  BY <1>1 DEF Mouse!TickBegin
<1>2. CASE Mouse!TestAxis
  BY <1>2 DEF Mouse!TestAxis, Mouse!NextAxis
<1>3. CASE Mouse!ChooseDir
  BY <1>3 DEF Mouse!ChooseDir
<1>4. CASE Mouse!AddFraction
  BY <1>0, <1>4 DEF Mouse!AddFraction
<1>5. CASE Mouse!TakePixels
  <2>1. sub[axis] \in Int
    OBVIOUS
  <2>2. sub[axis] \div Unit \in Int
    BY <2>1, Whole, PixelsAssumption
  <2>3. QED
    BY <1>5, <2>2 DEF Mouse!TakePixels, Mouse!NextAxis
<1>6. CASE Mouse!Report
  <2>1. step_px * Unit \in Int
    BY <1>0
  <2>2. QED
    BY <1>6, <2>1 DEF Mouse!Report, Mouse!NextAxis
<1>7. ASSUME NEW d \in ArrowKeys, Mouse!mouse_start_move(d) PROVE MouseTypes'
  BY <1>7 DEF Mouse!mouse_start_move
<1>8. ASSUME NEW d \in ArrowKeys, Mouse!mouse_stop_move(d) PROVE MouseTypes'
  BY <1>8 DEF Mouse!mouse_stop_move
<1>9. CASE UNCHANGED Mouse!vars
  BY <1>9 DEF Mouse!vars
<1>10. CASE Mouse!LoadFraction \/ Mouse!ReloadFraction
  BY <1>10 DEF Mouse!LoadFraction, Mouse!ReloadFraction
<1>11. CASE Mouse!StartAnew
  BY <1>11 DEF Mouse!StartAnew
<1>12. QED
  BY <1>1, <1>2, <1>3, <1>4, <1>5, <1>6, <1>7, <1>8, <1>9, <1>10, <1>11, Zenon
  DEF Mouse!Next, Mouse!mouse_emit_rel

(* The fractions: a reset in the middle of a tick only makes them smaller. *)
LEMMA FractionsNext ==
  ASSUME MouseTypes, Fractions, Owed, [Mouse!Next]_(Mouse!vars)
  PROVE  Fractions' /\ Owed'
<1> DEFINE Most == Unit * MaxPx
<1>0. MouseTypes'
  BY MouseTypesNext
<1>1. /\ Unit \in Nat /\ Unit > 0 /\ MaxPx \in Nat /\ Most \in Nat
      /\ Unit * (MaxPx + 1) = Most + Unit
      /\ \A i \in Incs : i \in Int /\ 0 <= i /\ i <= Most
  BY PixelsAssumption, SMT
<1>2. inc \in Int /\ 0 <= inc /\ inc <= Most
  BY <1>1 DEF MouseTypes
<1>3. axis \in Mouse!Axes /\ mreg \in Int /\ \A a \in Mouse!Axes : sub[a] \in Int
  BY DEF MouseTypes
<1> DEFINE Fine ==
             /\ \A a \in Mouse!Axes :
                  /\ -Most <= sub[a]
                  /\ a # axis \/ mpc \notin Adding => sub[a] < Unit
             /\ mpc = "store" => -Most <= mreg /\ mreg < Unit
             /\ mpc = "take" => sub[axis] < Most + Unit
             /\ mpc \in {"reload", "report"} => 0 < step_px /\ step_px <= MaxPx
             /\ mpc = "reload" => Counted(sub[axis])
             /\ mpc = "report" => Counted(mreg)
<1>4. Fine
  BY <1>1 DEF Fractions, Owed
<1> SUFFICES Fine'
  BY <1>1 DEF Fractions, Owed
<1>. HIDE DEF Most
<1> USE DEF Adding
<1>5. CASE Mouse!TickBegin
  BY <1>4, <1>5 DEF Mouse!TickBegin
<1>6. CASE Mouse!TestAxis
  BY <1>4, <1>6 DEF Mouse!TestAxis, Mouse!NextAxis
<1>7. CASE Mouse!ChooseDir
  BY <1>4, <1>7 DEF Mouse!ChooseDir, Mouse!ghosts
<1>8. CASE Mouse!AddFraction
  <2>1. /\ mpc = "store" /\ mpc' = "take" /\ axis' = axis
        /\ sub' = [sub EXCEPT ![axis] = mreg + inc]
    BY <1>8 DEF Mouse!AddFraction
  <2>2. sub'[axis] = mreg + inc /\ \A a \in Mouse!Axes \ {axis} : sub'[a] = sub[a]
    BY <1>3, <2>1 DEF MouseTypes
  <2>3. QED
    BY <1>1, <1>2, <1>3, <1>4, <2>1, <2>2
<1>9. CASE Mouse!TakePixels
  <2> DEFINE q == sub[axis] \div Unit
  <2>1. /\ mpc = "take" /\ step_px' = q /\ sub' = sub
        /\ IF q > 0 THEN mpc' = "reload" /\ axis' = axis ELSE Mouse!NextAxis
    BY <1>9 DEF Mouse!TakePixels
  <2>2. q \in Int /\ q * Unit <= sub[axis] /\ sub[axis] < q * Unit + Unit
    <3>1. sub[axis] \in Int /\ Unit \in Nat \ {0}
      BY <1>3, PixelsAssumption
    <3>2. QED
      BY <3>1, Whole, Zenon
  <2>. HIDE DEF q
  <2>3. CASE q > 0
    <3>1. q * Unit < Unit * (MaxPx + 1)
      <4>1. q * Unit \in Int
        BY <1>1, <2>2
      <4>2. QED
        BY <1>1, <1>3, <1>4, <2>1, <2>2, <4>1
    <3>2. q <= MaxPx
      BY <1>1, <2>2, <3>1, FewPixels
    <3>3. QED
      BY <1>1, <1>4, <2>1, <2>2, <2>3, <3>2 DEF Counted
  <2>4. CASE ~(q > 0)
    <3>1. q * Unit <= 0
      BY <1>1, <2>2, <2>4, SMT
    <3>2. sub[axis] < Unit
      <4>1. q * Unit \in Int
        BY <1>1, <2>2
      <4>2. QED
        BY <1>1, <1>3, <2>2, <3>1, <4>1
    <3>3. mpc' \notin {"store", "take", "reload", "report"}
      BY <2>1, <2>4 DEF Mouse!NextAxis
    <3>4. QED
      BY <1>4, <2>1, <3>2, <3>3
  <2>5. QED
    BY <2>3, <2>4
<1>10. CASE Mouse!Report
  <2> DEFINE t == step_px * Unit
  <2>1. /\ mpc = "report" /\ sub' = [sub EXCEPT ![axis] = mreg - t]
        /\ mpc' \notin {"store", "take", "reload", "report"}
    BY <1>10 DEF Mouse!Report, Mouse!NextAxis
  <2>2. /\ 0 < step_px /\ step_px <= MaxPx /\ step_px \in Int
        /\ mreg = 0 \/ (t <= mreg /\ mreg < t + Unit)
    BY <2>1 DEF Owed, Counted, MouseTypes
  <2>3. t \in Int /\ 0 <= t /\ t <= Most
    BY <1>1, <2>2, SMT DEF Most
  <2>. HIDE DEF t
  <2>4. sub'[axis] = mreg - t /\ \A a \in Mouse!Axes \ {axis} : sub'[a] = sub[a]
    BY <1>3, <2>1 DEF MouseTypes
  <2>5. QED
    BY <1>1, <1>3, <1>4, <2>1, <2>2, <2>3, <2>4
<1>11. ASSUME NEW d \in ArrowKeys, Mouse!mouse_start_move(d) \/ Mouse!mouse_stop_move(d)
       PROVE  Fine'
  <2>1. sub' = sub /\ UNCHANGED Mouse!work
    BY <1>11 DEF Mouse!mouse_start_move, Mouse!mouse_stop_move
  <2>2. QED
    BY <1>4, <2>1 DEF Mouse!work, Counted
<1>12. CASE Mouse!StartAnew
  <2>1. starting \in Mouse!Axes /\ sub' = [sub EXCEPT ![starting] = 0]
        /\ UNCHANGED Mouse!work
    BY <1>12 DEF Mouse!StartAnew, MouseTypes
  <2>2. sub'[starting] = 0 /\ \A a \in Mouse!Axes \ {starting} : sub'[a] = sub[a]
    BY <2>1 DEF MouseTypes
  <2>3. QED
    BY <1>1, <1>3, <1>4, <2>1, <2>2 DEF Mouse!work, Counted
<1>13. CASE UNCHANGED Mouse!vars
  <2>1. sub' = sub /\ UNCHANGED Mouse!work
    BY <1>13 DEF Mouse!vars
  <2>2. QED
    BY <1>4, <2>1 DEF Mouse!work, Counted
<1>15. CASE Mouse!LoadFraction
  BY <1>1, <1>3, <1>4, <1>15 DEF Mouse!LoadFraction
<1>16. CASE Mouse!ReloadFraction
  BY <1>1, <1>3, <1>4, <1>16 DEF Mouse!ReloadFraction, Counted
<1>. HIDE DEF Fine
<1>14. QED
  BY <1>5, <1>6, <1>7, <1>8, <1>9, <1>10, <1>11, <1>12, <1>13, <1>15, <1>16, Zenon
  DEF Mouse!Next, Mouse!mouse_emit_rel

(* The sign is chosen among the directions held. *)
LEMMA AimsNext ==
  ASSUME Aims, MouseTypes, [Mouse!Next]_(Mouse!vars)
  PROVE  Aims'
<1> USE DEF Aims, Mouse!input, Mouse!work, Mouse!ghosts
<1>1. CASE Mouse!TickBegin
  BY <1>1 DEF Mouse!TickBegin
<1>2. CASE Mouse!TestAxis
  BY <1>2 DEF Mouse!TestAxis, Mouse!NextAxis
<1>3. CASE Mouse!ChooseDir
  <2>1. mouse_dir \cap Mouse!AxisDirs[axis] \subseteq Mouse!Dirs
    BY DEF MouseTypes, Mouse!Axes, Mouse!AxisDirs, Mouse!Dirs
  <2>2. QED
    BY <1>3, <2>1 DEF Mouse!ChooseDir, Ahead
<1>4. CASE Mouse!AddFraction
  BY <1>4 DEF Mouse!AddFraction, Ahead
<1>5. CASE Mouse!TakePixels
  BY <1>5 DEF Mouse!TakePixels, Mouse!NextAxis, Ahead
<1>6. CASE Mouse!Report
  BY <1>6 DEF Mouse!Report, Mouse!NextAxis, Ahead
<1>7. ASSUME NEW d \in ArrowKeys, Mouse!mouse_start_move(d) PROVE Aims'
  BY <1>7 DEF Mouse!mouse_start_move, Ahead
<1>8. ASSUME NEW d \in ArrowKeys, Mouse!mouse_stop_move(d) PROVE Aims'
  <2>1. released => released'
    BY <1>8, Zenon DEF Mouse!mouse_stop_move
  <2>2. d \in tested => released'
    BY <1>8, Zenon DEF Mouse!mouse_stop_move
  <2>3. /\ mouse_dir' = mouse_dir \ {d} /\ tested' = tested
        /\ mpc' = mpc /\ axis' = axis /\ dir' = dir
    BY <1>8 DEF Mouse!mouse_stop_move
  <2>4. QED
    BY <2>1, <2>2, <2>3 DEF Ahead
<1>9. CASE UNCHANGED Mouse!vars
  BY <1>9 DEF Mouse!vars, Ahead
<1>10. CASE Mouse!LoadFraction \/ Mouse!ReloadFraction \/ Mouse!StartAnew
  BY <1>10 DEF Mouse!LoadFraction, Mouse!ReloadFraction, Mouse!StartAnew, Ahead
<1>11. QED
  BY <1>1, <1>2, <1>3, <1>4, <1>5, <1>6, <1>7, <1>8, <1>9, <1>10, Zenon
  DEF Mouse!Next, Mouse!mouse_emit_rel

(* A report moves the pointer along. *)
LEMMA ReportFollows ==
  ASSUME MouseInv, [Mouse!Next]_(Mouse!vars), mpc = "report", mpc' # "report"
  PROVE  LET along == IF rel'.px > 0 THEN Mouse!Forward ELSE Mouse!Dirs \ Mouse!Forward
         IN  released \/ Mouse!AxisDirs[rel'.axis] \cap tested \cap along # {}
<1> USE DEF MouseInv
<1>1. rel' = [axis |-> axis, px |-> dir * step_px]
  BY DEF Mouse!Next, Mouse!mouse_emit_rel, Mouse!TickBegin, Mouse!TestAxis,
     Mouse!ChooseDir, Mouse!LoadFraction, Mouse!AddFraction, Mouse!TakePixels,
     Mouse!ReloadFraction, Mouse!Report, Mouse!mouse_start_move, Mouse!StartAnew,
     Mouse!mouse_stop_move, Mouse!vars, Mouse!work
<1>2. dir \in {1, -1} /\ step_px \in Int /\ 0 < step_px
  BY DEF MouseTypes, Owed
<1>3. (dir * step_px > 0) <=> dir = 1
  BY <1>2
<1>4. rel'.axis = axis /\ (rel'.px > 0 <=> dir = 1)
  BY <1>1, <1>3
<1>5. QED
  BY <1>4 DEF Aims, Ahead

(* The pointer moves where a held key points, unless one was released before the
   sign was chosen, and carries less than a pixel over, for every speed whose
   increments stay below MaxPx pixels (picocalc_kbd.c:511-556). *)
THEOREM PointerIsTrue == LinuxKbdSpec => PointerTrue
<1>1. LinuxKbdInit => MouseInv
  BY MouseInit, Zenon DEF LinuxKbdInit
<1>2. MouseInv /\ [LinuxKbdNext]_everything => MouseInv'
  BY MouseTypesNext, FractionsNext, AimsNext, LinuxKbdStep DEF MouseInv
<1>3. MouseInv => Mouse!FractionBounded
  BY DEF MouseInv, Fractions, Adding, Mouse!FractionBounded
<1>4. MouseInv /\ [LinuxKbdNext]_everything =>
        [mpc = "report" /\ mpc' # "report" =>
           LET along == IF rel'.px > 0 THEN Mouse!Forward
                        ELSE Mouse!Dirs \ Mouse!Forward
           IN  released \/ Mouse!AxisDirs[rel'.axis] \cap tested \cap along # {}
        ]_(Mouse!vars)
  BY ReportFollows, LinuxKbdStep
<1>5. QED
  BY <1>1, <1>2, <1>3, <1>4, PTL
  DEF LinuxKbdSpec, PointerTrue, Mouse!PointerTrue, Mouse!PointerFollows

-----------------------------------------------------------------------------
(* What the firmware stores is a multiple of the step and at most 224. *)
LEMMA Stored ==
  ASSUME NEW v \in 0..255
  PROVE  StoreBk2(v) \in 0..224 /\ StoreBk2(v) % KBD_BACKLIGHT_STEP = 0
<1> DEFINE q == v \div 32
<1>1. q \in 0..7 /\ q * 32 \in 0..224 /\ (q * 32) % 32 = 0
  BY SMT
<1>2. QED
  BY <1>1, SMT DEF StoreBk2, KBD_BACKLIGHT_STEP

LEMMA Levels ==
  ASSUME NEW i \in 0..3
  PROVE  kbd_bl_levels[i] \in 0..255
BY SMT DEF kbd_bl_levels

(* A write stores something of the right kind. *)
LEMMA Written ==
  ASSUME bk2 \in 0..224, bk2 % KBD_BACKLIGHT_STEP = 0,
         NEW v \in 0..255, WriteBk2(v)
  PROVE  bk2' \in 0..224 /\ bk2' % KBD_BACKLIGHT_STEP = 0
<1>1. CASE bk2' = StoreBk2(v)
  BY <1>1, Stored
<1>2. CASE bk2' = bk2
  BY <1>2
<1>3. QED
  BY <1>1, <1>2, Zenon DEF WriteBk2

LEMMA TypeInit == Init => TypeOK
<1> SUFFICES ASSUME Init PROVE TypeOK
  OBVIOUS
<1>1. bk2 \in 0..224 /\ bk2 % KBD_BACKLIGHT_STEP = 0
  BY SMT DEF Init, KBD_BACKLIGHT_STEP
<1>2. kbd_bl_idx \in 0..(KBD_BL_LEVELS - 1)
  BY SMT DEF Init, KBD_BL_LEVELS
<1>3. QED
  BY <1>1, <1>2 DEF Init, TypeOK

LEMMA AskTypes ==
  ASSUME TypeOK, NEW v \in 0..255, Ask(v)
  PROVE  /\ bk2' \in 0..224 /\ bk2' % KBD_BACKLIGHT_STEP = 0
         /\ level' \in 0..224
         /\ touched' \in BOOLEAN /\ crossed' \in BOOLEAN
<1>1. bk2' \in 0..224 /\ bk2' % KBD_BACKLIGHT_STEP = 0
  BY Written DEF TypeOK, Ask
<1>2. FlashOn \in BOOLEAN
  BY Zenon DEF FlashOn, TypeOK
<1>3. touched' \in BOOLEAN /\ crossed' \in BOOLEAN
  BY <1>2, Zenon DEF Ask, TypeOK
<1>4. QED
  BY <1>1, <1>3 DEF Ask

LEMMA TypeStep == TypeOK /\ [Next]_vars => TypeOK'
<1> SUFFICES ASSUME TypeOK, [Next]_vars PROVE TypeOK'
  OBVIOUS
<1> USE DEF TypeOK, flashVars, ghosts
<1>1. CASE FlashTrigger
  <2>1. crossed' \in BOOLEAN
    BY <1>1, Zenon DEF FlashTrigger
  <2>2. QED
    BY <1>1, <2>1 DEF FlashTrigger, Flashing
<1>2. CASE FlashTest
  BY <1>2 DEF FlashTest, Flashing
<1>3. CASE FlashRead
  <2>1. crossed' \in BOOLEAN
    BY <1>3, Zenon DEF FlashRead
  <2>2. QED
    BY <1>3, <2>1 DEF FlashRead, Flashing
<1>4. CASE FlashWrite
  <2>1. bk2' \in 0..224 /\ bk2' % KBD_BACKLIGHT_STEP = 0
    BY <1>4, Written DEF FlashWrite, KBD_BL_FLASH_VAL
  <2>2. QED
    BY <1>4, <2>1 DEF FlashWrite, Flashing
<1>5. CASE FlashMark
  BY <1>5 DEF FlashMark, Flashing
<1>6. CASE FlashSchedule
  BY <1>6 DEF FlashSchedule, Flashing
<1>7. CASE RestoreStart
  BY <1>7 DEF RestoreStart
<1>8. CASE RestoreWrite
  <2>1. bk2' \in 0..224 /\ bk2' % KBD_BACKLIGHT_STEP = 0
    BY <1>8, Written DEF RestoreWrite
  <2>2. crossed' \in BOOLEAN
    BY <1>8, Zenon DEF RestoreWrite
  <2>3. QED
    BY <1>8, <2>1, <2>2 DEF RestoreWrite
<1>9. CASE RestoreClear
  BY <1>9 DEF RestoreClear
<1>10. CASE CycleKey
  BY <1>10 DEF CycleKey, KBD_BL_LEVELS
<1>11. CASE CycleWrite
  <2>1. kbd_bl_levels[kbd_bl_idx] \in 0..255
    BY Levels DEF KBD_BL_LEVELS
  <2>2. Ask(kbd_bl_levels[kbd_bl_idx])
    BY <1>11 DEF CycleWrite
  <2>3. QED
    BY <1>11, <2>1, <2>2, AskTypes DEF CycleWrite
<1>12. ASSUME NEW v \in SysfsLevels, Sysfs(v) PROVE TypeOK'
  <2>1. v \in 0..255 /\ Ask(v)
    BY <1>12, SysfsAssumption DEF Sysfs
  <2>2. QED
    BY <1>12, <2>1, AskTypes DEF Sysfs
<1>13. CASE UNCHANGED vars
  BY <1>13 DEF vars
<1>14. QED
  BY <1>1, <1>2, <1>3, <1>4, <1>5, <1>6, <1>7, <1>8, <1>9, <1>10, <1>11, <1>12,
     <1>13 DEF Next, InputWork, Restore

(* The light's register and the levels kept stay what the firmware can store,
   whatever is written (backlight.ino, picocalc_kbd.c:461-481). *)
THEOREM TypeCorrect == Spec => []TypeOK
BY TypeInit, TypeStep, PTL DEF Spec

-----------------------------------------------------------------------------
(* The restore that ends a flash is never lost: every way out of the flash  *)
(* schedules it or runs through it.                                         *)

(* A flash that is marked active has its restore pending, running or about to
   be scheduled, wherever toggles meet it (picocalc_kbd.c:461-481). *)
THEOREM RestoreNeverLost == Spec => []RestoreComing
<1>1. Init => RestoreComing
  BY DEF Init, RestoreComing
<1>2. RestoreComing /\ [Next]_vars => RestoreComing'
  <2> SUFFICES ASSUME RestoreComing, [Next]_vars PROVE RestoreComing'
    OBVIOUS
  <2> USE DEF RestoreComing, Flashing
  <2>1. CASE FlashTrigger
    BY <2>1, Zenon DEF FlashTrigger
  <2>2. CASE FlashTest
    BY <2>2, Zenon DEF FlashTest, flashVars
  <2>3. CASE FlashRead
    BY <2>3, Zenon DEF FlashRead
  <2>4. CASE FlashWrite
    BY <2>4, Zenon DEF FlashWrite, flashVars
  <2>5. CASE FlashMark
    BY <2>5, Zenon DEF FlashMark
  <2>6. CASE FlashSchedule
    BY <2>6, Zenon DEF FlashSchedule
  <2>7. CASE RestoreStart
    BY <2>7, Zenon DEF RestoreStart
  <2>8. CASE RestoreWrite
    BY <2>8, Zenon DEF RestoreWrite
  <2>9. CASE RestoreClear
    BY <2>9, Zenon DEF RestoreClear
  <2>10. CASE CycleKey
    BY <2>10 DEF CycleKey, flashVars
  <2>11. CASE CycleWrite
    BY <2>11 DEF CycleWrite, flashVars
  <2>12. ASSUME NEW v \in SysfsLevels, Sysfs(v) PROVE RestoreComing'
    BY <2>12, Zenon DEF Sysfs, flashVars
  <2>13. CASE UNCHANGED vars
    BY <2>13, Zenon DEF vars, flashVars
  <2>14. QED
    BY <2>1, <2>2, <2>3, <2>4, <2>5, <2>6, <2>7, <2>8, <2>9, <2>10, <2>11,
       <2>12, <2>13 DEF Next, InputWork, Restore
<1>3. QED
  BY <1>1, <1>2, PTL DEF Spec

-----------------------------------------------------------------------------
(* A flash that met nothing gives the level back.  While none of its         *)
(* transfers failed and no toggle met a restore, the flash is in one place   *)
(* at a time (Places), and unless a level was asked for meanwhile the level  *)
(* to restore is in the register before the flash, in saved_kbd_backlight    *)
(* during it and in the register again once it is written back (Kept).       *)

Places ==
  /\ pc \in Flashing => ~armed /\ rpc = "idle"
  /\ armed => bl_flash_active /\ rpc = "idle"
  /\ rpc # "idle" => bl_flash_active
  /\ pc = "read" => ~bl_flash_active
  /\ pc = "schedule" => bl_flash_active
  /\ bl_flash_active => armed \/ rpc # "idle" \/ pc \in Flashing

Kept ==
  /\ ~bl_flash_active /\ pc \notin {"flash", "mark", "schedule"} => bk2 = level
  /\ bl_flash_active \/ pc \in {"flash", "mark"} => saved_kbd_backlight = level
  /\ rpc = "clear" => bk2 = level

AloneInv == ~crossed => Places /\ (~touched => Kept)

LEMMA AloneInit == Init => AloneInv
BY DEF Init, AloneInv, Places, Kept, Flashing

(* Somebody asks for a level: with no flash on all starts anew. *)
LEMMA AloneAsk ==
  ASSUME AloneInv, TypeOK, NEW v \in 0..255, Ask(v), UNCHANGED flashVars,
         pc' = pc \/ (pc = "cycle" /\ pc' = "idle")
  PROVE  AloneInv'
<1> USE DEF AloneInv, flashVars
<1>1. CASE FlashOn
  <2>1. touched' /\ (crossed' <=> crossed)
    BY <1>1, Zenon DEF Ask, TypeOK
  <2>2. ~crossed => Places'
    BY DEF Places, Flashing
  <2>3. QED
    BY <2>1, <2>2, Zenon
<1>2. CASE ~FlashOn
  <2>1. bk2' = level'
    BY DEF Ask
  <2>2. /\ ~armed' /\ ~bl_flash_active' /\ rpc' = "idle"
        /\ pc' \notin Flashing
    BY <1>2 DEF FlashOn, Flashing
  <2>3. Places'
    BY <2>2, Zenon DEF Places, Flashing
  <2>4. Kept'
    BY <2>1, <2>2 DEF Kept, Flashing
  <2>5. QED
    BY <2>3, <2>4, Zenon
<1>3. QED
  BY <1>1, <1>2, Zenon

LEMMA AloneStep == AloneInv /\ TypeOK /\ [Next]_vars => AloneInv'
<1> SUFFICES ASSUME AloneInv, TypeOK, [Next]_vars PROVE AloneInv'
  OBVIOUS
<1> USE DEF AloneInv, Places, Kept, Flashing
<1>1. CASE FlashTrigger
  BY <1>1 DEF FlashTrigger
<1>2. CASE FlashTest
  BY <1>2 DEF FlashTest, flashVars, ghosts
<1>3. CASE FlashRead
  BY <1>3 DEF FlashRead
<1>4. CASE FlashWrite
  BY <1>4 DEF FlashWrite, flashVars, ghosts
<1>5. CASE FlashMark
  BY <1>5 DEF FlashMark, ghosts
<1>6. CASE FlashSchedule
  BY <1>6 DEF FlashSchedule, ghosts
<1>7. CASE RestoreStart
  BY <1>7 DEF RestoreStart, ghosts
<1>8. CASE RestoreWrite
  BY <1>8 DEF RestoreWrite
<1>9. CASE RestoreClear
  BY <1>9 DEF RestoreClear, ghosts
<1>10. CASE CycleKey
  BY <1>10 DEF CycleKey, flashVars, ghosts
<1>11. CASE CycleWrite
  <2>1. kbd_bl_levels[kbd_bl_idx] \in 0..255
    BY Levels DEF TypeOK, KBD_BL_LEVELS
  <2>2. Ask(kbd_bl_levels[kbd_bl_idx]) /\ UNCHANGED flashVars /\ pc = "cycle" /\ pc' = "idle"
    BY <1>11, Zenon DEF CycleWrite
  <2>3. AloneInv
    BY Zenon
  <2>. HIDE DEF AloneInv
  <2>4. QED
    BY <2>1, <2>2, <2>3, AloneAsk
<1>12. ASSUME NEW v \in SysfsLevels, Sysfs(v) PROVE AloneInv'
  <2>1. v \in 0..255 /\ Ask(v) /\ UNCHANGED flashVars /\ pc' = pc
    BY <1>12, SysfsAssumption DEF Sysfs
  <2>2. AloneInv
    BY Zenon
  <2>. HIDE DEF AloneInv
  <2>3. QED
    BY <2>1, <2>2, AloneAsk
<1>13. CASE UNCHANGED vars
  BY <1>13 DEF vars, flashVars, ghosts
<1>. HIDE DEF AloneInv
<1>14. QED
  BY <1>1, <1>2, <1>3, <1>4, <1>5, <1>6, <1>7, <1>8, <1>9, <1>10, <1>11, <1>12,
     <1>13 DEF Next, InputWork, Restore

(* A flash gives the level back, through any number of toggles before it ends,
   unless a toggle met its restore or a transfer of it failed
   (picocalc_kbd.c:461-481). *)
THEOREM AloneRestores == Spec => []FlashRestoresAlone
<1>1. AloneInv => FlashRestoresAlone
  BY DEF AloneInv, Kept, FlashRestoresAlone, FlashRestores, FlashOn, Flashing
<1>2. QED
  BY <1>1, AloneInit, AloneStep, TypeCorrect, PTL DEF Spec
=============================================================================
