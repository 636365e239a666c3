-------------------------------- MODULE McuLog --------------------------------
(***************************************************************************)
(* The log ring in memory shared by the microcontroller of the RK3506,     *)
(* whose _write (hal/project/rk3506-mcu/src/main.c) puts the bytes of      *)
(* printf in, and by Linux, whose mculog_read (drivers/misc/mculog.c)      *)
(* takes them out.  The two cores share no lock: the writer owns head, the *)
(* reader owns tail, and each publishes its index when its copying is done.*)
(*                                                                         *)
(* The steps are the accesses to the shared indices and the two halves of  *)
(* a copy that wraps, in program order.  One process reads the device, and *)
(* the timer interrupt of the microcontroller does not print in the middle *)
(* of a _write.  Bytes are numbered in the order _write accepts them; 0 is *)
(* what the memory holds at first.                                         *)
(***************************************************************************)
EXTENDS Integers

CONSTANTS
  max_size,   \* the bytes of buf
  MaxLen,     \* bound on the length of a write
  MaxCount,   \* bound on the count of a read
  MaxBytes    \* bound on the bytes accepted in a behaviour

ASSUME SizeAssumption == max_size \in Nat /\ max_size >= 2
ASSUME BoundAssumption ==
  MaxLen \in Nat /\ MaxCount \in Nat /\ MaxBytes \in Nat

VARIABLES
  head, tail, buf,         \* struct mculog_buffer
  wpc, wlen,               \* _write: where it stands, its len
  rpc, rlen, user,         \* mculog_read: the same, and the user's buffer
  accepted, returned,      \* bytes published, bytes returned
  chunk                    \* what the last read returned

writer == <<wpc, wlen>>
reader == <<rpc, rlen, user>>
vars == <<head, tail, buf, wpc, wlen, rpc, rlen, user, accepted, returned,
          chunk>>

Chunks == UNION {[1..n -> 0..MaxBytes] : n \in 0..(max_size - 1)}

TypeOK ==
  /\ head \in 0..(max_size - 1)
  /\ tail \in 0..(max_size - 1)
  /\ buf \in [0..(max_size - 1) -> 0..MaxBytes]
  /\ wpc \in {"idle", "copy", "wrap", "publish"}
  /\ wlen \in 0..(max_size - 1)
  /\ rpc \in {"idle", "copy", "wrap", "return"}
  /\ rlen \in 0..(max_size - 1)
  /\ user \in Chunks
  /\ accepted \in 0..MaxBytes
  /\ returned \in 0..accepted
  /\ chunk \in Chunks

Init ==
  /\ head = 0
  /\ tail = 0
  /\ buf = [s \in 0..(max_size - 1) |-> 0]
  /\ wpc = "idle"
  /\ wlen = 0
  /\ rpc = "idle"
  /\ rlen = 0
  /\ user = [i \in 1..0 |-> 0]
  /\ accepted = 0
  /\ returned = 0
  /\ chunk = [i \in 1..0 |-> 0]

Lesser(a, b) == IF a < b THEN a ELSE b

Advance(index, len) == (index + len) % max_size

-----------------------------------------------------------------------------
(* The microcontroller: _write *)

\* Seeded fault: the wrapped case gives up two slots.
Free_TwoSlots(h, t) == IF t > h THEN t - h - 1 ELSE max_size - h + t - 2

Free(h, t) == IF t > h THEN t - h - 1 ELSE max_size - h + t - 1

WriteStart ==
  /\ wpc = "idle"
  /\ \E len \in 1..MaxLen :
       /\ wlen' = Lesser(len, Free(head, tail))
       /\ accepted + wlen' <= MaxBytes
  /\ wpc' = "copy"
  /\ UNCHANGED <<head, tail, buf, accepted, returned, chunk>>
  /\ UNCHANGED reader

\* What a memcpy of the bytes after byte `from' to buf[first..last] leaves.
Copied(first, last, from) ==
  [s \in 0..(max_size - 1) |->
    IF s \in first..last THEN from + s - first + 1 ELSE buf[s]]

WriteCopy ==
  /\ wpc = "copy"
  /\ LET to_end == max_size - head
     IN  /\ buf' = Copied(head, head + Lesser(wlen, to_end) - 1, accepted)
         /\ wpc' = IF wlen > to_end THEN "wrap" ELSE "publish"
  /\ UNCHANGED <<head, tail, wlen, accepted, returned, chunk>>
  /\ UNCHANGED reader

WriteWrap ==
  /\ wpc = "wrap"
  /\ LET to_end == max_size - head
     IN  buf' = Copied(0, wlen - to_end - 1, accepted + to_end)
  /\ wpc' = "publish"
  /\ UNCHANGED <<head, tail, wlen, accepted, returned, chunk>>
  /\ UNCHANGED reader

WritePublish ==
  /\ wpc = "publish"
  /\ head' = Advance(head, wlen)
  /\ accepted' = accepted + wlen
  /\ wpc' = "idle"
  /\ UNCHANGED <<tail, buf, wlen, returned, chunk>>
  /\ UNCHANGED reader

-----------------------------------------------------------------------------
(* Linux: mculog_read *)

Avail(h, t) == IF h >= t THEN h - t ELSE max_size - t + h

\* An empty log is the early return of 0: nothing changes.
ReadStart ==
  /\ rpc = "idle"
  /\ Avail(head, tail) > 0
  /\ \E count \in 0..MaxCount : rlen' = Lesser(count, Avail(head, tail))
  /\ user' = [i \in 1..0 |-> 0]
  /\ rpc' = "copy"
  /\ UNCHANGED <<head, tail, buf, accepted, returned, chunk>>
  /\ UNCHANGED writer

ReadCopy ==
  /\ rpc = "copy"
  /\ LET to_end == max_size - tail
     IN  /\ user' = [i \in 1..Lesser(rlen, to_end) |-> buf[tail + i - 1]]
         /\ rpc' = IF rlen > to_end THEN "wrap" ELSE "return"
  /\ UNCHANGED <<head, tail, buf, rlen, accepted, returned, chunk>>
  /\ UNCHANGED writer

ReadWrap ==
  /\ rpc = "wrap"
  /\ LET to_end == max_size - tail
     IN  user' = [i \in 1..rlen |->
                   IF i <= to_end THEN user[i] ELSE buf[i - to_end - 1]]
  /\ rpc' = "return"
  /\ UNCHANGED <<head, tail, buf, rlen, accepted, returned, chunk>>
  /\ UNCHANGED writer

\* Seeded fault: the bytes of a read that failed are consumed.
ReadFault_Consumes ==
  /\ rpc \in {"copy", "wrap"}
  /\ tail' = Advance(tail, rlen)
  /\ returned' = returned + rlen
  /\ rpc' = "idle"
  /\ UNCHANGED <<head, buf, rlen, user, accepted, chunk>>
  /\ UNCHANGED writer

\* copy_to_user fails: -EFAULT, and tail stays
ReadFault ==
  /\ rpc \in {"copy", "wrap"}
  /\ rpc' = "idle"
  /\ UNCHANGED <<head, tail, buf, rlen, user, accepted, returned, chunk>>
  /\ UNCHANGED writer

ReadReturn ==
  /\ rpc = "return"
  /\ tail' = Advance(tail, rlen)
  /\ returned' = returned + rlen
  /\ chunk' = user
  /\ rpc' = "idle"
  /\ UNCHANGED <<head, buf, rlen, user, accepted>>
  /\ UNCHANGED writer

-----------------------------------------------------------------------------
Write == WriteStart \/ WriteCopy \/ WriteWrap \/ WritePublish
Read == ReadStart \/ ReadCopy \/ ReadWrap \/ ReadFault \/ ReadReturn

Next == Write \/ Read

Spec == Init /\ [][Next]_vars

-----------------------------------------------------------------------------
(* Properties *)

Unread == accepted - returned

Slot(index, k) ==
  IF index + k < max_size THEN index + k ELSE index + k - max_size

(* Whatever _write is copying, the bytes between tail and head are the ones
   accepted and not yet returned, in order (main.c:74, mculog.c:48): the free
   space computed from a stale tail never reaches an unread byte. *)
UnreadIntact ==
  \A k \in 1..Unread : buf[Slot(tail, k - 1)] = returned + k

(* _write gives up on a message altogether only when the ring holds as many
   unread bytes as it can (main.c:74-76). *)
RefusedOnlyWhenFull ==
  [][wpc = "idle" /\ wpc' = "copy" /\ wlen' = 0 => Unread = max_size - 1]_vars

(* The ring implements the pipe: a read returns the next unread bytes, once
   and in order, or fails and consumes none of them (mculog.c:39-78). *)
Pipe == INSTANCE BytePipe WITH Room <- max_size - 1
Implements == Pipe!Spec
=============================================================================
