------------------------------- MODULE KeyLink -------------------------------
(***************************************************************************)
(* The way of a key event from the firmware's FIFO to a Linux keyboard     *)
(* driver.  In the main loop key_cb enqueues the event or, when the FIFO is*)
(* full, drops it (picocalc_keyboard.ino, fifo.ino).  The driver polls;    *)
(* each read of REG_ID_FIF interrupts the main loop between two steps of   *)
(* the enqueue and takes an event out of the FIFO, and the transfer that   *)
(* carries it may fail (picocalc_kbd.c: input_fw_read_fifo,                *)
(* input_workqueue_handler).  The driver of the kernel tree,               *)
(* picocalc-keyboard.c, is the same with one read per poll.                *)
(*                                                                         *)
(* The ring is that of KeyFifo with CFG_OVERFLOW_ON clear; the steps of the*)
(* enqueue no dequeue can tell apart are one step here.  What an event does*)
(* in the driver is KbdDispatch: here a key of its own keycode goes down   *)
(* and up, and HOLD is swallowed.                                          *)
(***************************************************************************)
EXTENDS Sequences, Integers

CONSTANTS
  Keys,
  NoKey,
  FifoSize,   \* FIFO_SIZE
  BatchSize   \* reads per poll: KBD_FIFO_SIZE, or 1

VARIABLES
  slots, count, read_idx, write_idx,   \* fifo_self
  kpc,        \* of key_cb: "idle", "slot", "load" or "store"
  reg,        \* the CPU register of ++count
  item,       \* the event being enqueued
  batch,      \* ctx->key_fifo_data
  pc,         \* of the input work: "idle", "read" or "dispatch"
  held,       \* the keys the scanner reported last as pressed
  down,       \* the keys Linux holds down
  lost,       \* ghost: the keys whose last event was lost
  slipped     \* ghost: an update of count was lost

ring == <<slots, count, read_idx, write_idx>>
enqueuing == <<kpc, reg, item>>
driver == <<batch, pc, down>>
vars == <<ring, enqueuing, driver, held, lost, slipped>>

Events == [key : Keys, pressed : BOOLEAN]
Zero == [key |-> NoKey, pressed |-> FALSE]   \* state 0: no event
Hold == [key |-> NoKey, pressed |-> TRUE]    \* HOLD, of any key
Items == Events \cup {Zero, Hold}

TypeOK ==
  /\ slots \in [0..(FifoSize - 1) -> Items] /\ count \in 0..FifoSize
  /\ read_idx \in 0..(FifoSize - 1) /\ write_idx \in 0..(FifoSize - 1)
  /\ kpc \in {"idle", "slot", "load", "store"}
  /\ reg \in 0..FifoSize /\ item \in Items
  /\ batch \in Seq(Items) /\ Len(batch) <= BatchSize
  /\ pc \in {"idle", "read", "dispatch"}
  /\ held \subseteq Keys /\ down \subseteq Keys /\ lost \subseteq Keys
  /\ slipped \in BOOLEAN

Init ==
  /\ slots = [i \in 0..(FifoSize - 1) |-> Zero]
  /\ count = 0 /\ read_idx = 0 /\ write_idx = 0
  /\ kpc = "idle" /\ reg = 0 /\ item = Zero
  /\ batch = <<>> /\ pc = "idle"
  /\ held = {} /\ down = {} /\ lost = {} /\ slipped = FALSE

Advance(i) == (i + 1) % FifoSize

\* n slots from start on
Slots(f, start, n) == [k \in 1..n |-> f[(start + k - 1) % FifoSize]]

\* The events on their way to the reader, oldest first, as long as no update of
\* count is lost: the ring, what is in it but not counted, and what is not yet in it.
Fifo ==
  CASE kpc = "slot" -> Append(Slots(slots, read_idx, count), item)
    [] kpc \in {"load", "store"} -> Slots(slots, read_idx, count + 1)
    [] OTHER -> Slots(slots, read_idx, count)

-----------------------------------------------------------------------------
(* The main loop: key_cb and fifo_enqueue *)

\* fifo_enqueue finds room for e
Accept(e) ==
  /\ count < FifoSize
  /\ item' = e /\ reg' = count /\ kpc' = "slot"

\* The scanner reports a key pressed or released,
key_cb ==
  /\ kpc = "idle"
  /\ \E k \in Keys :
       /\ held' = IF k \in held THEN held \ {k} ELSE held \cup {k}
       /\ \/ Accept([key |-> k, pressed |-> k \notin held]) /\ lost' = lost \ {k}
          \/ count >= FifoSize /\ UNCHANGED enqueuing /\ lost' = lost \cup {k}
  /\ UNCHANGED <<ring, driver, slipped>>

\* or still held.  (A HOLD the FIFO refuses changes nothing.)
key_cb_hold ==
  /\ kpc = "idle" /\ held # {}
  /\ Accept(Hold)
  /\ UNCHANGED <<ring, driver, held, lost, slipped>>

\* The item goes to its slot and write_idx on,
WriteSlot ==
  /\ kpc = "slot"
  /\ slots' = [slots EXCEPT ![write_idx] = item]
  /\ write_idx' = Advance(write_idx)
  /\ item' = Zero
  /\ kpc' = "load"
  /\ UNCHANGED <<count, read_idx, reg, driver, held, lost, slipped>>

\* ++count loads count, unless the build still has the one it tested,
LoadCount ==
  /\ kpc = "load"
  /\ reg' \in {count, reg}
  /\ kpc' = "store"
  /\ UNCHANGED <<ring, item, driver, held, lost, slipped>>

\* and stores it, which undoes every --count in between.
StoreCount ==
  /\ kpc = "store"
  /\ count' = reg + 1
  /\ slipped' = (slipped \/ reg # count)
  /\ kpc' = "idle" /\ reg' = 0
  /\ UNCHANGED <<slots, read_idx, write_idx, item, driver, held, lost>>

-----------------------------------------------------------------------------
(* The driver, and the interrupt its reads raise *)

\* case REG_ID_FIF: what fifo_dequeue returns
Front == IF count = 0 THEN Zero ELSE slots[read_idx]

fifo_dequeue ==
  /\ IF count = 0 THEN UNCHANGED <<count, read_idx>>
     ELSE count' = count - 1 /\ read_idx' = Advance(read_idx)
  /\ UNCHANGED <<slots, write_idx, enqueuing, slipped>>

\* The timer queues the input work.
Poll ==
  /\ pc = "idle"
  /\ pc' = "read" /\ batch' = <<>>
  /\ UNCHANGED <<ring, enqueuing, held, down, lost, slipped>>

\* One read; the loop ends with an empty item
Read ==
  /\ pc = "read" /\ Len(batch) < BatchSize
  /\ fifo_dequeue
  /\ IF Front = Zero THEN pc' = "dispatch" /\ UNCHANGED batch
     ELSE batch' = Append(batch, Front) /\ UNCHANGED pc
  /\ UNCHANGED <<held, down, lost>>

\* or a full batch.
ReadEnd ==
  /\ pc = "read" /\ Len(batch) = BatchSize
  /\ pc' = "dispatch"
  /\ UNCHANGED <<ring, enqueuing, batch, held, down, lost, slipped>>

\* An event out of the FIFO that did not come across; it matters if no later
\* event of its key follows.
Dropped == {k \in Keys : /\ count > 0 /\ Fifo[1].key = k
                         /\ \A i \in 2..Len(Fifo) : Fifo[i].key # k}

\* Seeded fault: an error gives up the events read before it.
ReadFails_DropsBatch ==
  /\ pc = "read" /\ Len(batch) < BatchSize
  /\ \/ UNCHANGED <<ring, enqueuing, lost, slipped>>
     \/ fifo_dequeue /\ lost' = lost \cup Dropped
  /\ batch' = <<>>
  /\ pc' = "dispatch"
  /\ UNCHANGED <<held, down>>

\* The transfer fails, before or after the firmware has taken the event out;
\* what was read before is still dispatched.
ReadFails ==
  /\ pc = "read" /\ Len(batch) < BatchSize
  /\ \/ UNCHANGED <<ring, enqueuing, lost, slipped>>
     \/ fifo_dequeue /\ lost' = lost \cup Dropped
  /\ pc' = "dispatch"
  /\ UNCHANGED <<batch, held, down>>

\* key_dispatch, for each event of the batch in turn: input_report_key, but HOLD
\* is dropped
Dispatch ==
  /\ pc = "dispatch" /\ batch # <<>>
  /\ LET e == Head(batch)
     IN  down' = CASE e = Hold -> down
                   [] e # Hold /\ e.pressed -> down \cup {e.key}
                   [] OTHER -> down \ {e.key}
  /\ batch' = Tail(batch)
  /\ UNCHANGED <<ring, enqueuing, pc, held, lost, slipped>>

DispatchEnd ==
  /\ pc = "dispatch" /\ batch = <<>>
  /\ pc' = "idle"
  /\ UNCHANGED <<ring, enqueuing, batch, held, down, lost, slipped>>

Next ==
  \/ key_cb \/ key_cb_hold \/ WriteSlot \/ LoadCount \/ StoreCount
  \/ Poll \/ Read \/ ReadEnd \/ ReadFails \/ Dispatch \/ DispatchEnd

Spec == Init /\ [][Next]_vars

-----------------------------------------------------------------------------

\* Once every event is counted, read and dispatched, Linux holds down exactly the
\* keys that are held, but for those whose last event the full FIFO refused or a
\* failed transfer swallowed: an earlier loss is made good by the next event of the
\* key, and one key's loss never touches another's.  It ends with the first update
\* of count that is lost: from then on the host is given slots again that it has
\* read before (fifo.ino:18-58, picocalc_keyboard.ino:90-104, picocalc_kbd.c:423-446).
DownIfHeld ==
  ~slipped /\ kpc = "idle" /\ count = 0 /\ batch = <<>> =>
    \A k \in Keys \ lost : k \in down <=> k \in held
=============================================================================
