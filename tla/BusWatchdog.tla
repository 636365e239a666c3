----------------------------- MODULE BusWatchdog -----------------------------
(***************************************************************************)
(* The watchdog of the firmware's I2C slave (picocalc_keyboard.ino): the   *)
(* handlers receiveEvent and requestEvent note the time of the last        *)
(* transfer of each kind, and loop resets the bus when either is older     *)
(* than Timeout.  The handlers interrupt the loop between the call of      *)
(* millis() and the load of the tick it is subtracted from (the            *)
(* subtraction is unsigned), and after a comparison that said late until   *)
(* ResetI2CBus has removed them.  (A compiler may load the tick first:     *)
(* then the first race cannot happen, and what is left is a part of what   *)
(* is modelled.)  Time is counted from the boot; the watchdog sets in      *)
(* after Start, with ticks that may be as old as the boot.                 *)
(***************************************************************************)
EXTENDS Integers

CONSTANTS
  Start,     \* 10000 ms
  Timeout,   \* 2500 ms
  Wrap,      \* 2^32, more than MaxTime + Timeout
  MaxTime    \* bound

VARIABLES
  now,               \* millis()
  receiveEventTick, requestEventTick,
  at,                \* what the loop's last call of millis() returned
  pc,
  raced,             \* ghost: a tick has passed what millis() returned
  answered,          \* ghost: the transfer that was late came after all
  since              \* ghost: when the bus was last reset

ticks == <<receiveEventTick, requestEventTick>>
vars == <<now, ticks, at, pc, raced, answered, since>>

TypeOK ==
  /\ now \in 0..MaxTime /\ at \in 0..MaxTime /\ since \in 0..MaxTime
  /\ receiveEventTick \in 0..MaxTime /\ requestEventTick \in 0..MaxTime
  /\ pc \in {"loop", "receive", "request", "receive_late", "request_late",
             "off", "restart"}
  /\ raced \in BOOLEAN /\ answered \in BOOLEAN

\* setup has run; no transfer has come yet.
Init ==
  /\ now = 0 /\ receiveEventTick = 0 /\ requestEventTick = 0
  /\ at = 0 /\ pc = "loop" /\ raced = FALSE /\ answered = FALSE /\ since = 0

\* (millis() - tick) > 2500, in unsigned arithmetic
Late(tick) == (at - tick) % Wrap > Timeout

Tick ==
  /\ now < MaxTime
  /\ now' = now + 1
  /\ UNCHANGED <<ticks, at, pc, raced, answered, since>>

\* After Start the loop calls millis() for the first comparison,
CheckReceive ==
  /\ pc = "loop" /\ now > Start
  /\ at' = now /\ raced' = FALSE /\ answered' = FALSE
  /\ pc' = "receive"
  /\ UNCHANGED <<now, ticks, since>>

\* loads the tick and compares; then again for the second,
CheckRequest ==
  /\ pc = "receive"
  /\ IF Late(receiveEventTick) THEN pc' = "receive_late" /\ UNCHANGED <<at, raced>>
     ELSE pc' = "request" /\ at' = now /\ raced' = FALSE
  /\ UNCHANGED <<now, ticks, answered, since>>

\* and goes on with the loop if neither is late.
EndCheck ==
  /\ pc = "request"
  /\ pc' = IF Late(requestEventTick) THEN "request_late" ELSE "loop"
  /\ UNCHANGED <<now, ticks, at, raced, answered, since>>

\* ResetI2CBus stops the bus and removes the handlers; 5 ms pass,
RemoveHandlers ==
  /\ pc \in {"receive_late", "request_late"}
  /\ pc' = "off"
  /\ UNCHANGED <<now, ticks, at, raced, answered, since>>

\* Seeded fault: the bus starts again with the ticks it had.
ResetI2CBus_KeepsTicks ==
  /\ pc = "off"
  /\ since' = now
  /\ pc' = "restart"
  /\ UNCHANGED <<now, ticks, at, raced, answered>>

\* one tick is set,
ResetI2CBus ==
  /\ pc = "off"
  /\ receiveEventTick' = now
  /\ since' = now
  /\ pc' = "restart"
  /\ UNCHANGED <<now, requestEventTick, at, raced, answered>>

\* then the other, and the handlers are back.
RestoreHandlers ==
  /\ pc = "restart"
  /\ requestEventTick' = now
  /\ pc' = "loop"
  /\ UNCHANGED <<now, receiveEventTick, at, raced, answered, since>>

\* The handlers run, unless they are removed
receiveEvent ==
  /\ pc \notin {"off", "restart"}
  /\ receiveEventTick' = now
  /\ raced' = (raced \/ (pc = "receive" /\ now > at))
  /\ answered' = (answered \/ pc = "receive_late")
  /\ UNCHANGED <<now, requestEventTick, at, pc, since>>

requestEvent ==
  /\ pc \notin {"off", "restart"}
  /\ requestEventTick' = now
  /\ raced' = (raced \/ (pc = "request" /\ now > at))
  /\ answered' = (answered \/ pc = "request_late")
  /\ UNCHANGED <<now, receiveEventTick, at, pc, since>>

Next ==
  \/ Tick \/ CheckReceive \/ CheckRequest \/ EndCheck
  \/ RemoveHandlers \/ ResetI2CBus \/ RestoreHandlers
  \/ receiveEvent \/ requestEvent

Spec == Init /\ [][Next]_vars

-----------------------------------------------------------------------------

\* When the handlers are removed, one kind of transfer has not come for more than
\* Timeout, and the bus was not reset within Timeout, unless a handler ran between
\* millis() and its tick (the difference wraps), or the transfer that was late came
\* between the comparison and the removal: then a bus in use is reset
\* (picocalc_keyboard.ino:641-668).
ResetsApart ==
  pc = "off" => \/ raced \/ answered
                \/ /\ at - since > Timeout
                   /\ at - receiveEventTick > Timeout \/ at - requestEventTick > Timeout
=============================================================================
