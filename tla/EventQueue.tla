----------------------------- MODULE EventQueue -----------------------------
(***************************************************************************)
(* What the keyboard firmware's key FIFO promises its two users, the       *)
(* scanner that produces key events (key_cb in picocalc_keyboard.ino) and  *)
(* the I2C host that pops them (the REG_ID_FIF case of receiveEvent): a    *)
(* bounded first-in first-out queue that loses an event only after it was  *)
(* found full: the new event while CFG_OVERFLOW_ON is clear, the oldest    *)
(* one while it is set (reg.h:27).                                         *)
(*                                                                         *)
(* Events are numbered 1, 2, ... in the order the scanner issues them, so  *)
(* the order of the pops can be observed.                                  *)
(***************************************************************************)
EXTENDS Integers, Sequences, SequenceTheorems, TLAPS

CONSTANTS
  Size,      \* capacity of the queue: FIFO_SIZE
  MaxKeys    \* bound on the number of events issued in a behaviour

VARIABLES
  queue,       \* the events accepted and not yet popped, oldest first
  issued,      \* number of the last event issued
  stage,       \* what has become of that event
  overflow_on, \* CFG_OVERFLOW_ON
  popped       \* number of the last event popped, 0 at first

qvars == <<queue, issued, stage, overflow_on, popped>>

Init ==
  /\ queue = <<>>
  /\ issued = 0
  /\ stage = "settled"
  /\ overflow_on = FALSE
  /\ popped = 0

Issue ==
  /\ stage = "settled"
  /\ issued < MaxKeys
  /\ issued' = issued + 1
  /\ stage' = "offered"
  /\ UNCHANGED <<queue, overflow_on, popped>>

Accept ==
  /\ stage = "offered"
  /\ Len(queue) < Size
  /\ queue' = Append(queue, issued)
  /\ stage' = "settled"
  /\ UNCHANGED <<issued, overflow_on, popped>>

Refuse ==
  /\ stage = "offered"
  /\ Len(queue) = Size
  /\ stage' = "refused"
  /\ UNCHANGED <<queue, issued, overflow_on, popped>>

LoseNewest ==
  /\ stage = "refused"
  /\ ~overflow_on
  /\ stage' = "settled"
  /\ UNCHANGED <<queue, issued, overflow_on, popped>>

ForceEntry ==
  /\ stage = "refused"
  /\ overflow_on
  /\ stage' = "forced"
  /\ UNCHANGED <<queue, issued, overflow_on, popped>>

\* The host made room between the refusal and the forced entry.
Retry ==
  /\ stage = "forced"
  /\ Len(queue) < Size
  /\ stage' = "offered"
  /\ UNCHANGED <<queue, issued, overflow_on, popped>>

LoseOldest ==
  /\ stage = "forced"
  /\ Len(queue) = Size
  /\ queue' = Append(Tail(queue), issued)
  /\ stage' = "settled"
  /\ UNCHANGED <<issued, overflow_on, popped>>

Pop ==
  /\ queue # <<>>
  /\ popped' = Head(queue)
  /\ queue' = Tail(queue)
  /\ UNCHANGED <<issued, stage, overflow_on>>

SetOverflow ==
  /\ overflow_on' \in BOOLEAN
  /\ UNCHANGED <<queue, issued, stage, popped>>

Next ==
  \/ Issue \/ Accept \/ Refuse \/ LoseNewest \/ ForceEntry \/ Retry \/ LoseOldest
  \/ Pop \/ SetOverflow

Spec == Init /\ [][Next]_qvars

Settled == stage = "settled"

TypeOK ==
  /\ queue \in Seq(Nat)
  /\ issued \in Nat
  /\ stage \in {"settled", "offered", "refused", "forced"}
  /\ popped \in Nat

(* The queue holds at most Size events, in the order they were issued, all of
   them newer than the last one popped. *)
InOrder ==
  /\ Len(queue) <= Size
  /\ popped <= issued
  /\ \A i \in 1..Len(queue) :
       /\ popped < queue[i] /\ queue[i] <= issued
       /\ ~Settled => queue[i] < issued
  /\ ~Settled => popped < issued
  /\ \A i, j \in 1..Len(queue) : i < j => queue[i] < queue[j]

(* Events leave the queue in the order they were issued, none of them twice. *)
PopsInOrder == [][popped' # popped => popped' > popped]_qvars

-----------------------------------------------------------------------------
(* Theorems: for every capacity and any number of events, the queue keeps its
   events in the order of issue. *)

(* InOrder with the types of the variables is inductive as it stands. *)
OrderInv == TypeOK /\ InOrder

LEMMA OrderInit == Size \in Nat \ {0} /\ Init => OrderInv
BY DEF Init, OrderInv, TypeOK, InOrder, Settled

LEMMA OrderAppend ==
  ASSUME Size \in Nat \ {0}, OrderInv, ~Settled, Len(queue) < Size,
         queue' = Append(queue, issued), stage' = "settled",
         UNCHANGED <<issued, popped>>
  PROVE  OrderInv'
<1> USE DEF OrderInv, TypeOK, InOrder, Settled
<1>1. queue' \in Seq(Nat) /\ Len(queue') = Len(queue) + 1
  OBVIOUS
<1>2. \A i \in 1..Len(queue') :
        queue'[i] = IF i <= Len(queue) THEN queue[i] ELSE issued
  OBVIOUS
<1>3. QED
  BY <1>1, <1>2

LEMMA OrderTail ==
  ASSUME Size \in Nat \ {0}, OrderInv, queue # <<>>
  PROVE  /\ Head(queue) \in Nat /\ Head(queue) > popped
         /\ Head(queue) <= issued
         /\ ~Settled => Head(queue) < issued
         /\ Tail(queue) \in Seq(Nat) /\ Len(Tail(queue)) = Len(queue) - 1
         /\ \A i \in 1..Len(Tail(queue)) :
              /\ Tail(queue)[i] = queue[i + 1]
              /\ Head(queue) < Tail(queue)[i]
<1> USE DEF OrderInv, TypeOK, InOrder, Settled
<1>1. Len(queue) \in Nat \ {0} /\ Head(queue) = queue[1] /\ 1 \in 1..Len(queue)
  BY EmptySeq
<1>2. /\ Tail(queue) \in Seq(Nat) /\ Len(Tail(queue)) = Len(queue) - 1
      /\ \A i \in 1..Len(Tail(queue)) : Tail(queue)[i] = queue[i + 1]
  BY HeadTailProperties
<1>3. ASSUME NEW i \in 1..Len(Tail(queue)) PROVE queue[1] < queue[i + 1]
  BY <1>1, <1>2
<1>4. QED
  BY <1>1, <1>2, <1>3

LEMMA OrderStep == Size \in Nat \ {0} /\ OrderInv /\ [Next]_qvars => OrderInv'
<1> SUFFICES ASSUME Size \in Nat \ {0}, OrderInv, [Next]_qvars
             PROVE  OrderInv'
  OBVIOUS
<1>1. CASE Issue
  BY <1>1 DEF Issue, OrderInv, TypeOK, InOrder, Settled
<1>2. CASE Accept
  BY <1>2, OrderAppend DEF Accept, Settled
<1>3. CASE Refuse \/ LoseNewest \/ ForceEntry \/ Retry \/ SetOverflow
  BY <1>3 DEF Refuse, LoseNewest, ForceEntry, Retry, SetOverflow,
              OrderInv, TypeOK, InOrder, Settled
<1>4. CASE LoseOldest
  <2> DEFINE t == Tail(queue)
             n == Len(queue)
  <2>1. /\ stage = "forced" /\ stage' = "settled" /\ n = Size
        /\ queue' = Append(t, issued) /\ UNCHANGED <<issued, popped>>
    BY <1>4 DEF LoseOldest
  <2>2. queue # <<>> /\ n \in Nat \ {0}
    BY <2>1, EmptySeq
  <2>3. /\ t \in Seq(Nat) /\ Len(t) = n - 1
        /\ \A i \in 1..Len(t) : t[i] = queue[i + 1]
    BY <2>2, OrderTail
  <2>4. /\ popped \in Nat /\ issued \in Nat /\ popped < issued
        /\ \A i \in 1..n : queue[i] \in Nat /\ popped < queue[i]
                           /\ queue[i] < issued
        /\ \A i, j \in 1..n : i < j => queue[i] < queue[j]
    BY <2>1 DEF OrderInv, TypeOK, InOrder, Settled
  <2> HIDE DEF t, n
  <2>5. /\ queue' \in Seq(Nat) /\ Len(queue') = n
        /\ \A i \in 1..n : queue'[i] = IF i < n THEN queue[i + 1] ELSE issued
    BY <2>1, <2>2, <2>3, <2>4
  <2>6. ASSUME NEW i \in 1..n
        PROVE  /\ popped < queue'[i] /\ queue'[i] <= issued
               /\ i < n => i + 1 \in 1..n /\ queue'[i] = queue[i + 1]
               /\ i = n => queue'[i] = issued
    <3>1. CASE i < n
      <4>1. i + 1 \in 1..n /\ queue'[i] = queue[i + 1]
        BY <2>2, <2>5, <3>1
      <4>2. QED
        BY <2>2, <2>4, <3>1, <4>1
    <3>2. CASE i = n
      BY <2>2, <2>4, <2>5, <3>2
    <3>3. QED
      BY <2>2, <3>1, <3>2
  <2>7. ASSUME NEW i \in 1..n, NEW j \in 1..n, i < j
        PROVE  queue'[i] < queue'[j]
    <3>1. i + 1 \in 1..n /\ queue'[i] = queue[i + 1]
      BY <2>2, <2>6, <2>7
    <3>2. CASE j < n
      <4>1. j + 1 \in 1..n /\ queue'[j] = queue[j + 1] /\ i + 1 < j + 1
        BY <2>2, <2>6, <2>7, <3>2
      <4>2. QED
        BY <2>4, <3>1, <4>1
    <3>3. CASE j = n
      BY <2>4, <2>6, <3>1, <3>3
    <3>4. QED
      BY <2>2, <3>2, <3>3
  <2>8. TypeOK'
    BY <2>1, <2>4, <2>5 DEF TypeOK
  <2>9. InOrder'
    <3>1. Settled' /\ Len(queue') <= Size /\ popped' <= issued'
      BY <2>1, <2>2, <2>4, <2>5 DEF Settled
    <3>2. \A i \in 1..Len(queue') : popped' < queue'[i] /\ queue'[i] <= issued'
      BY <2>1, <2>5, <2>6
    <3>3. \A i, j \in 1..Len(queue') : i < j => queue'[i] < queue'[j]
      BY <2>5, <2>7
    <3>4. QED
      BY <3>1, <3>2, <3>3 DEF InOrder
  <2>10. QED
    BY <2>8, <2>9 DEF OrderInv
<1>5. CASE Pop
  BY <1>5, OrderTail DEF Pop, OrderInv, TypeOK, InOrder, Settled
<1>6. CASE UNCHANGED qvars
  BY <1>6 DEF qvars, OrderInv, TypeOK, InOrder, Settled
<1>7. QED
  BY <1>1, <1>2, <1>3, <1>4, <1>5, <1>6 DEF Next

(* Whatever its size, the queue keeps its events in order. *)
THEOREM Ordered ==
  ASSUME Size \in Nat \ {0}
  PROVE  Spec => []InOrder
<1>1. OrderInv => InOrder
  BY DEF OrderInv
<1>2. QED
  BY OrderInit, OrderStep, <1>1, PTL DEF Spec

(* Pops follow the order of issue. *)
THEOREM OrderedPops ==
  ASSUME Size \in Nat \ {0}
  PROVE  Spec => PopsInOrder
<1>1. OrderInv /\ [Next]_qvars => [popped' # popped => popped' > popped]_qvars
  <2> SUFFICES ASSUME OrderInv, Next
               PROVE  popped' # popped => popped' > popped
    OBVIOUS
  <2>1. CASE Pop
    BY <2>1, OrderTail DEF Pop, OrderInv, TypeOK
  <2>2. CASE ~Pop
    BY <2>2 DEF Next, Issue, Accept, Refuse, LoseNewest, ForceEntry, Retry,
                LoseOldest, SetOverflow
  <2>3. QED
    BY <2>1, <2>2
<1>2. QED
  BY OrderInit, OrderStep, <1>1, PTL DEF Spec, PopsInOrder
=============================================================================
