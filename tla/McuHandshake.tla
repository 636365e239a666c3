---------------------------- MODULE McuHandshake ----------------------------
(***************************************************************************)
(* How Linux and the microcontroller agree on the log ring (mculog_probe in*)
(* drivers/misc/mculog.c, main in hal/project/rk3506-mcu/src/main.c): Linux*)
(* writes the size and the indices, then the flag; the microcontroller     *)
(* waits for the flag, answers in the same word and prints.  The memory is *)
(* mapped write-combining, so the stores of Linux may reach it in any order*)
(* until the barrier, which comes after the flag.  The memory holds        *)
(* anything when the machine starts, also what an earlier boot left.  The  *)
(* microcontroller looks for the flag once in its life.                    *)
(***************************************************************************)

CONSTANTS MCUL, ULOG, Other   \* contents of init_flag

Locations == {"ring", "flag"}   \* max_size, head and tail; init_flag

VARIABLES
  init_flag, ring,   \* in memory; ring is set up by this Linux
  stores,            \* what Linux has stored and memory does not hold yet
  pc, mcu,
  answered,          \* ghost: the microcontroller answered this probe
  reordered,         \* ghost: the flag overtook the ring
  stale              \* ghost: an earlier boot left the flag

memory == <<init_flag, ring, stores>>
vars == <<memory, pc, mcu, answered, reordered, stale>>

TypeOK ==
  /\ init_flag \in {MCUL, ULOG, Other} /\ ring \in BOOLEAN
  /\ stores \subseteq Locations
  /\ pc \in {"unbound", "flag", "barrier", "poll", "register", "bound"}
  /\ mcu \in {"off", "wait", "answer", "print"}
  /\ answered \in BOOLEAN /\ reordered \in BOOLEAN /\ stale \in BOOLEAN

Init ==
  /\ init_flag \in {MCUL, ULOG, Other} /\ ring = FALSE /\ stores = {}
  /\ pc = "unbound" /\ mcu = "off"
  /\ answered = FALSE /\ reordered = FALSE /\ stale = (init_flag = MCUL)

-----------------------------------------------------------------------------
(* mculog_probe *)

\* max_size, head and tail
StoreRing ==
  /\ pc = "unbound"
  /\ stores' = stores \cup {"ring"}
  /\ answered' = FALSE
  /\ pc' = "flag"
  /\ UNCHANGED <<init_flag, ring, mcu, reordered, stale>>

StoreFlag ==
  /\ pc = "flag"
  /\ stores' = stores \cup {"flag"}
  /\ pc' = "barrier"
  /\ UNCHANGED <<init_flag, ring, mcu, answered, reordered, stale>>

\* A store reaches memory.
Reaches(loc) ==
  /\ loc \in stores
  /\ stores' = stores \ {loc}
  /\ IF loc = "ring" THEN ring' = TRUE /\ UNCHANGED <<init_flag, reordered>>
     ELSE /\ init_flag' = MCUL /\ UNCHANGED ring
          /\ reordered' = (reordered \/ "ring" \in stores)
  /\ UNCHANGED <<pc, mcu, answered, stale>>

\* wmb
Barrier ==
  /\ pc = "barrier" /\ stores = {}
  /\ pc' = "poll"
  /\ UNCHANGED <<memory, mcu, answered, reordered, stale>>

\* Seeded fault: the answer to an earlier probe will do.
Poll_Any ==
  /\ pc \in {"poll", "flag"}
  /\ \/ init_flag = ULOG /\ pc' = "register"
     \/ init_flag # ULOG /\ pc' = "unbound"
  /\ UNCHANGED <<memory, mcu, answered, reordered, stale>>

\* The answer, or the timeout.  Its counter is not initialised, so that Linux
\* may give up at once.
Poll ==
  /\ pc = "poll"
  /\ \/ init_flag = ULOG /\ pc' = "register"
     \/ init_flag # ULOG /\ pc' = "unbound"
  /\ UNCHANGED <<memory, mcu, answered, reordered, stale>>

Register ==
  /\ pc = "register"
  /\ pc' \in {"bound", "unbound"}
  /\ UNCHANGED <<memory, mcu, answered, reordered, stale>>

Remove ==
  /\ pc = "bound"
  /\ pc' = "unbound"
  /\ UNCHANGED <<memory, mcu, answered, reordered, stale>>

-----------------------------------------------------------------------------
(* The microcontroller, started at any time *)

McuStart ==
  /\ mcu = "off"
  /\ mcu' = "wait"
  /\ UNCHANGED <<memory, pc, answered, reordered, stale>>

McuSees ==
  /\ mcu = "wait" /\ init_flag = MCUL
  /\ mcu' = "answer"
  /\ UNCHANGED <<memory, pc, answered, reordered, stale>>

\* Its answer; the first print follows.
McuAnswers ==
  /\ mcu = "answer"
  /\ init_flag' = ULOG
  /\ answered' = (pc \in {"barrier", "poll"} /\ "flag" \notin stores)
  /\ mcu' = "print"
  /\ UNCHANGED <<ring, stores, pc, reordered, stale>>

Linux == StoreRing \/ StoreFlag \/ Barrier \/ Poll \/ Register
Mcu == McuSees \/ McuAnswers

Next ==
  \/ Linux \/ Remove
  \/ \E loc \in Locations : Reaches(loc)
  \/ McuStart \/ Mcu

Spec == Init /\ [][Next]_vars

-----------------------------------------------------------------------------

\* The microcontroller prints into a ring that is set up, unless the flag overtook
\* the ring, which no barrier forbids, or an earlier boot had left the flag
\* (mculog.c:142-147, main.c:174-177).
RingBeforePrint == mcu = "print" => ring \/ reordered \/ stale

\* The device appears only when the microcontroller prints and has answered this
\* probe: an answer to an earlier one, or of an earlier boot, is overwritten first,
\* so that a second probe of a running microcontroller always fails
\* (mculog.c:146-154).
BoundIsAnswered == pc = "bound" => mcu = "print" /\ answered

\* Both: nobody takes the other side for ready before it is.
HandshakeHolds == RingBeforePrint /\ BoundIsAnswered
=============================================================================
