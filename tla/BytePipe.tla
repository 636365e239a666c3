------------------------------- MODULE BytePipe -------------------------------
(***************************************************************************)
(* What the log of the RK3506's microcontroller promises the reader of     *)
(* /dev/log_mcu: the bytes the microcontroller's _write accepted, each     *)
(* exactly once and in order, however the two cores interleave, and never  *)
(* more than Room of them waiting.  The bytes are numbered 1, 2, ...       *)
(***************************************************************************)
EXTENDS Integers

CONSTANTS
  Room,    \* the bytes the pipe holds
  MaxLen   \* the longest write

VARIABLES
  accepted,  \* bytes accepted so far
  returned,  \* bytes returned to the reader so far
  chunk      \* what the last read returned

pvars == <<accepted, returned, chunk>>

Init ==
  /\ accepted = 0
  /\ returned = 0
  /\ chunk = [i \in 1..0 |-> 0]

Write ==
  /\ accepted' \in accepted..(accepted + MaxLen)
  /\ accepted' - returned <= Room
  /\ UNCHANGED <<returned, chunk>>

Read ==
  /\ returned' \in returned..accepted
  /\ chunk' = [i \in 1..(returned' - returned) |-> returned + i]
  /\ UNCHANGED accepted

Next == Write \/ Read

Spec == Init /\ [][Next]_pvars
=============================================================================
