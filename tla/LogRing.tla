------------------------------ MODULE LogRing ------------------------------
(***************************************************************************)
(* The log ring between the microcontroller and Linux, checked in one run: *)
(* its use (McuLog) and the handshake that sets it up (McuHandshake).  A   *)
(* behaviour is one of one of the two, and the variables of the other stay *)
(* as they start: a ring in use is one whose handshake is over.            *)
(***************************************************************************)
EXTENDS McuLog

CONSTANTS MCUL, ULOG, Other   \* contents of init_flag

ASSUME FlagsAssumption == MCUL # ULOG

VARIABLES
  part,
  init_flag, ring, stores, pc, mcu, answered, reordered, stale

Handshake == INSTANCE McuHandshake

using == vars
agreeing == <<init_flag, ring, stores, pc, mcu, answered, reordered, stale>>
everything == <<part, using, agreeing>>

LogRingInit ==
  /\ part \in {"use", "handshake"}
  /\ Init
  /\ Handshake!Init /\ (part = "use" => init_flag = ULOG)

LogRingNext ==
  \/ part = "use" /\ Next /\ UNCHANGED <<part, agreeing>>
  \/ part = "handshake" /\ Handshake!Next /\ UNCHANGED <<part, using>>

LogRingSpec == LogRingInit /\ [][LogRingNext]_everything

-----------------------------------------------------------------------------
(* The properties of the handshake, beside those of McuLog. *)


\* The device appears only when the microcontroller prints and has answered this
\* probe; and it prints into a ring that is set up, unless the flag overtook the
\* ring or an earlier boot had left it (mculog.c:142-154, main.c:174-177).
HandshakeHolds == Handshake!HandshakeHolds
=============================================================================
