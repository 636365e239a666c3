------------------------------- MODULE KeyFifo -------------------------------
(***************************************************************************)
(* The key FIFO of the STM32 keyboard firmware (fifo.ino), shared without  *)
(* a lock by two contexts of one core: the main loop, where key_cb enqueues *)
(* every key event of the scanner, and the I2C interrupt, where receiveEvent*)
(* dequeues one event for each read of REG_ID_FIF.                         *)
(*                                                                         *)
(* The main loop advances one memory access at a time and pc says where it *)
(* stands; the interrupt handler runs to completion, between two accesses  *)
(* of the main loop, wherever IsrPoints lets it in.  On the real device    *)
(* IsrPoints is every point: nothing disables interrupts.  A smaller set   *)
(* is the firmware with interrupts held off over part of the enqueue.      *)
(*                                                                         *)
(* A key event is a number: 1, 2, ... in the order key_cb is called; 0 is  *)
(* the zero item an empty FIFO or an unwritten slot yields.                *)
(***************************************************************************)
EXTENDS Integers

Points == {"idle", "check", "slot", "widx", "load", "store", "full",
           "fcheck", "fslot", "fwidx", "fload", "fstore"}

CONSTANTS
  Size,              \* FIFO_SIZE
  MaxKeys,           \* bound on the calls of key_cb in a behaviour
  IsrPoints,         \* the points of the main loop the interrupt may hit
  CountReused,       \* the build keeps the count it tested in a register
                     \* for ++count (TRUE) or loads it again (FALSE)
  OverflowOnValues   \* values of CFG_OVERFLOW_ON the host writes

ASSUME SizeAssumption == Size \in Nat \ {0}
ASSUME MaxKeysAssumption == MaxKeys \in Nat
ASSUME IsrAssumption == IsrPoints \subseteq Points /\ "idle" \in IsrPoints
ASSUME CountReusedAssumption == CountReused \in BOOLEAN
ASSUME OverflowOnAssumption == OverflowOnValues \subseteq BOOLEAN

VARIABLES
  fifo, count, read_idx, write_idx,  \* fifo_self
  overflow_on,                       \* CFG_OVERFLOW_ON in regs[REG_ID_CFG]
  pc,                                \* where the main loop stands
  reg,                               \* the CPU register of a read-modify-write
  issued,                            \* events passed to key_cb so far
  popped,                            \* last event handed to the host
  drift                              \* count minus what the indices say

vars == <<fifo, count, read_idx, write_idx, overflow_on, pc, reg, issued,
          popped, drift>>

mainVars == <<pc, reg, issued>>

TypeOK ==
  /\ fifo \in [0..(Size - 1) -> 0..issued]
  /\ count \in 0..Size
  /\ read_idx \in 0..(Size - 1)
  /\ write_idx \in 0..(Size - 1)
  /\ overflow_on \in BOOLEAN
  /\ pc \in Points
  /\ reg \in 0..Size
  /\ issued \in 0..MaxKeys
  /\ popped \in 0..issued
  /\ drift \in Int

Init ==
  /\ fifo = [i \in 0..(Size - 1) |-> 0]
  /\ count = 0
  /\ read_idx = 0
  /\ write_idx = 0
  /\ overflow_on = FALSE
  /\ pc = "idle"
  /\ reg = 0
  /\ issued = 0
  /\ popped = 0
  /\ drift = 0

Advance(i) == (i + 1) % Size

-----------------------------------------------------------------------------
(* The main loop: key_cb, fifo_enqueue and fifo_enqueue_force *)

KeyCb ==
  /\ pc = "idle"
  /\ issued < MaxKeys
  /\ issued' = issued + 1
  /\ pc' = "check"
  /\ UNCHANGED <<fifo, count, read_idx, write_idx, overflow_on, reg, popped,
                 drift>>

\* Seeded fault: count > FIFO_SIZE.
CheckRoom_OffByOne ==
  /\ pc = "check"
  /\ reg' = count
  /\ pc' = IF count > Size THEN "full" ELSE "slot"
  /\ UNCHANGED <<fifo, count, read_idx, write_idx, overflow_on, issued, popped,
                 drift>>

\* if (fifo_self.count >= FIFO_SIZE) return false;
CheckRoom ==
  /\ pc = "check"
  /\ reg' = count
  /\ pc' = IF count >= Size THEN "full" ELSE "slot"
  /\ UNCHANGED <<fifo, count, read_idx, write_idx, overflow_on, issued, popped,
                 drift>>

WriteSlot ==
  /\ pc = "slot"
  /\ fifo' = [fifo EXCEPT ![write_idx] = issued]
  /\ pc' = "widx"
  /\ UNCHANGED <<count, read_idx, write_idx, overflow_on, reg, issued, popped,
                 drift>>

AdvanceWrite ==
  /\ pc = "widx"
  /\ write_idx' = Advance(write_idx)
  /\ pc' = "load"
  /\ UNCHANGED <<fifo, count, read_idx, overflow_on, reg, issued, popped, drift>>

\* ++fifo_self.count: the load ...
LoadCount ==
  /\ pc = "load"
  /\ reg' = IF CountReused THEN reg ELSE count
  /\ pc' = "store"
  /\ UNCHANGED <<fifo, count, read_idx, write_idx, overflow_on, issued, popped,
                 drift>>

\* Seeded fault: the count is stored without the increment.
StoreCount_NoIncrement ==
  /\ pc = "store"
  /\ count' = reg
  /\ drift' = drift + (reg - count) - 1
  /\ pc' = "idle"
  /\ UNCHANGED <<fifo, read_idx, write_idx, overflow_on, reg, issued, popped>>

\* ... and the store, which undoes every --count since the load.
StoreCount ==
  /\ pc = "store"
  /\ count' = reg + 1
  /\ drift' = drift + (reg - count)
  /\ pc' = "idle"
  /\ UNCHANGED <<fifo, read_idx, write_idx, overflow_on, reg, issued, popped>>

\* key_cb after a refused fifo_enqueue
Refused ==
  /\ pc = "full"
  /\ pc' = IF overflow_on THEN "fcheck" ELSE "idle"
  /\ UNCHANGED <<fifo, count, read_idx, write_idx, overflow_on, reg, issued,
                 popped, drift>>

\* fifo_enqueue_force first tries fifo_enqueue again
ForceCheck ==
  /\ pc = "fcheck"
  /\ reg' = count
  /\ pc' = IF count >= Size THEN "fslot" ELSE "slot"
  /\ UNCHANGED <<fifo, count, read_idx, write_idx, overflow_on, issued, popped,
                 drift>>

ForceSlot ==
  /\ pc = "fslot"
  /\ fifo' = [fifo EXCEPT ![write_idx] = issued]
  /\ pc' = "fwidx"
  /\ UNCHANGED <<count, read_idx, write_idx, overflow_on, reg, issued, popped,
                 drift>>

ForceWrite ==
  /\ pc = "fwidx"
  /\ write_idx' = Advance(write_idx)
  /\ pc' = "fload"
  /\ UNCHANGED <<fifo, count, read_idx, overflow_on, reg, issued, popped, drift>>

ForceLoadRead ==
  /\ pc = "fload"
  /\ reg' = read_idx
  /\ pc' = "fstore"
  /\ UNCHANGED <<fifo, count, read_idx, write_idx, overflow_on, issued, popped,
                 drift>>

\* Seeded fault: the forced entry leaves read_idx on its own slot.
ForceStoreRead_Kept ==
  /\ pc = "fstore"
  /\ read_idx' = reg
  /\ drift' = drift + (reg - read_idx)
  /\ pc' = "idle"
  /\ UNCHANGED <<fifo, count, write_idx, overflow_on, reg, issued, popped>>

ForceStoreRead ==
  /\ pc = "fstore"
  /\ read_idx' = Advance(reg)
  /\ drift' = drift + (reg - read_idx)
  /\ pc' = "idle"
  /\ UNCHANGED <<fifo, count, write_idx, overflow_on, reg, issued, popped>>

-----------------------------------------------------------------------------
(* The I2C interrupt: receiveEvent *)

\* Seeded fault: the last event is never handed out.
Dequeue_KeepsLast ==
  /\ pc \in IsrPoints
  /\ count > 1
  /\ popped' = IF fifo[read_idx] = 0 THEN popped ELSE fifo[read_idx]
  /\ read_idx' = Advance(read_idx)
  /\ count' = count - 1
  /\ UNCHANGED <<fifo, write_idx, overflow_on, drift>>
  /\ UNCHANGED mainVars

\* case REG_ID_FIF
Dequeue ==
  /\ pc \in IsrPoints
  /\ count # 0
  /\ popped' = IF fifo[read_idx] = 0 THEN popped ELSE fifo[read_idx]
  /\ read_idx' = Advance(read_idx)
  /\ count' = count - 1
  /\ UNCHANGED <<fifo, write_idx, overflow_on, drift>>
  /\ UNCHANGED mainVars

\* case REG_ID_CFG, write
WriteCfg ==
  /\ pc \in IsrPoints
  /\ overflow_on' \in OverflowOnValues
  /\ UNCHANGED <<fifo, count, read_idx, write_idx, popped, drift>>
  /\ UNCHANGED mainVars

-----------------------------------------------------------------------------
Enqueue ==
  \/ CheckRoom \/ WriteSlot \/ AdvanceWrite \/ LoadCount \/ StoreCount
  \/ Refused \/ ForceCheck \/ ForceSlot \/ ForceWrite \/ ForceLoadRead
  \/ ForceStoreRead

Next == KeyCb \/ Enqueue \/ Dequeue \/ WriteCfg

Spec == Init /\ [][Next]_vars

(* The main loop always finishes an enqueue it began, and the host polls
   forever: kbd_timer_function re-arms itself every HZ/128. *)
FairSpec == Spec /\ WF_vars(Enqueue) /\ WF_vars(Dequeue)

-----------------------------------------------------------------------------
(* Properties *)

InForce == pc \in {"fwidx", "fload", "fstore"}

\* The slots the reader will see, oldest first.  Once the forced entry is in
\* its slot the oldest event is gone, although read_idx moves a little later.
Start == IF InForce THEN Advance(read_idx) ELSE read_idx
Slots(f, start, n) == [k \in 1..n |-> f[(start + k - 1) % Size]]
Queue == Slots(fifo, Start, count)

Stage ==
  CASE pc = "idle" \/ InForce          -> "settled"
    [] pc = "full"                     -> "refused"
    [] pc \in {"fcheck", "fslot"}      -> "forced"
    [] OTHER                           -> "offered"

\* The points where an interrupt cannot come between a load and its store.
SafePoints ==
  {"idle", "check", "full", "fcheck"}
    \cup (IF CountReused THEN {} ELSE {"slot", "widx", "load"})

(* The count is exactly the distance from read_idx to write_idx plus the
   updates lost so far: a decrement that falls between the load and the store
   of ++count (fifo.ino:30), or an advance of read_idx undone by the forced
   enqueue (fifo.ino:43), is the only way the ring gets out of step. *)
DriftExact ==
  LET ahead == IF pc \in {"load", "store", "fload", "fstore"} THEN 1 ELSE 0
  IN  write_idx = (read_idx + count - drift + ahead) % Size

(* While CFG_OVERFLOW_ON stays clear, as both drivers leave it, a lost update
   can only leave the count too high (fifo.ino:30): the host is offered stale
   slots, never an empty FIFO that still holds an event. *)
CountNeverShort == []~overflow_on => [](drift >= 0)

(* With interrupts held off across each read-modify-write the ring never gets
   out of step (fifo.ino:22-58). *)
NeverOutOfStep == drift = 0

(* The host pops events in the order the scanner issued them, none twice: what
   "fifo" (reg.h:17) and "key FIFO" (picocalc_kbd.c:30) promise of the pops of
   fifo_dequeue. *)
PopsInOrder == [][popped' # popped => popped' > popped]_vars

(* The ring implements the bounded queue: events are lost only after the FIFO
   was found full, the newest or the oldest one as CFG_OVERFLOW_ON says. *)
EQ == INSTANCE EventQueue WITH queue <- Queue, stage <- Stage
Implements == EQ!Spec

(* An event in the FIFO reaches the host, or is overwritten by a forced entry
   and a newer one does, as long as the host polls REG_ID_FIF. *)
EventuallyPopped ==
  \A e \in 1..MaxKeys : (\E k \in 1..count : Queue[k] = e) ~> (popped >= e)

=============================================================================
