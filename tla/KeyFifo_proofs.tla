--------------------------- MODULE KeyFifo_proofs ---------------------------
(***************************************************************************)
(* Theorems about the key FIFO of the keyboard firmware, for every size,   *)
(* every number of events, every build and every set of points the        *)
(* interrupt may hit, unless a theorem assumes otherwise.                  *)
(***************************************************************************)
EXTENDS KeyFifo, Sequences, SequenceTheorems, TLAPS

USE SizeAssumption, MaxKeysAssumption, IsrAssumption, CountReusedAssumption,
    OverflowOnAssumption

(* A wrapped index is a successor or zero. *)
LEMMA AdvanceWraps ==
  ASSUME NEW i \in 0..(Size - 1)
  PROVE  Advance(i) = IF i = Size - 1 THEN 0 ELSE i + 1
BY SMT DEF Advance

(* TypeOK is inductive once more is known of the register: while ++count is
   under way it holds a count with room to spare that the interrupt can only
   have lowered since, and while read_idx++ is, an index. *)
InPut == pc \in {"slot", "widx", "load", "store"}

Held ==
  /\ InPut => count <= reg /\ reg < Size
  /\ pc = "fstore" => reg < Size

TypeInv == TypeOK /\ Held

LEMMA TypeInit == Init => TypeInv
<1> SUFFICES ASSUME Init
             PROVE  TypeInv
  OBVIOUS
<1>1. fifo \in [0..(Size - 1) -> 0..issued]
  BY DEF Init
<1>2. overflow_on \in BOOLEAN
  BY Zenon DEF Init
<1>3. QED
  BY <1>1, <1>2 DEF Init, TypeInv, TypeOK, Held, InPut, Points

LEMMA TypeStep == TypeInv /\ [Next]_vars => TypeInv'
<1> SUFFICES ASSUME TypeInv, [Next]_vars
             PROVE  TypeInv'
  OBVIOUS
<1> USE DEF TypeInv, TypeOK, Held, InPut, Points
<1>1. CASE KeyCb
  BY <1>1 DEF KeyCb
<1>2. CASE CheckRoom
  BY <1>2 DEF CheckRoom
<1>3. CASE WriteSlot
  BY <1>3 DEF WriteSlot
<1>4. CASE AdvanceWrite
  BY <1>4, AdvanceWraps DEF AdvanceWrite
<1>5. CASE LoadCount
  BY <1>5 DEF LoadCount
<1>6. CASE StoreCount
  BY <1>6 DEF StoreCount
<1>7. CASE Refused
  BY <1>7 DEF Refused
<1>8. CASE ForceCheck
  BY <1>8 DEF ForceCheck
<1>9. CASE ForceSlot
  BY <1>9 DEF ForceSlot
<1>10. CASE ForceWrite
  BY <1>10, AdvanceWraps DEF ForceWrite
<1>11. CASE ForceLoadRead
  BY <1>11 DEF ForceLoadRead
<1>12. CASE ForceStoreRead
  BY <1>12, AdvanceWraps DEF ForceStoreRead
<1>13. CASE Dequeue
  BY <1>13, AdvanceWraps DEF Dequeue, mainVars
<1>14. CASE WriteCfg
  BY <1>14 DEF WriteCfg, mainVars
<1>15. CASE UNCHANGED vars
  BY <1>15 DEF vars
<1>16. QED
  BY <1>1, <1>2, <1>3, <1>4, <1>5, <1>6, <1>7, <1>8, <1>9, <1>10, <1>11,
     <1>12, <1>13, <1>14, <1>15 DEF Next, Enqueue

(* Whatever points the interrupt hits and whatever the build keeps in a
   register, every index stays inside the array, the count between 0 and
   FIFO_SIZE, and no slot holds an event that was not issued. *)
THEOREM TypeCorrect == Spec => []TypeOK
<1>1. TypeInv => TypeOK
  BY DEF TypeInv
<1>2. QED
  BY TypeInit, TypeStep, <1>1, PTL DEF Spec

-----------------------------------------------------------------------------
(* The forced enqueue never runs while CFG_OVERFLOW_ON is clear, and the lost
   decrements only ever add to the count. *)
NoForce ==
  /\ ~overflow_on
  /\ pc \in {"idle", "check", "slot", "widx", "load", "store", "full"}

ShortInv == TypeInv /\ NoForce /\ drift >= 0

(* As long as CFG_OVERFLOW_ON stays clear, which is how both drivers leave it,
   the count is never below the number of slots between the indices: a lost
   decrement makes the FIFO offer stale slots, and never hides an event. *)
THEOREM NeverShort == Spec => CountNeverShort
<1>1. Init => ShortInv
  <2> SUFFICES ASSUME Init
               PROVE  NoForce /\ drift >= 0
    BY TypeInit DEF ShortInv
  <2>1. ~overflow_on
    BY Zenon DEF Init
  <2>2. QED
    BY <2>1 DEF Init, NoForce
<1>2. ShortInv /\ [Next]_vars /\ ~overflow_on' => ShortInv'
  <2> SUFFICES ASSUME ShortInv, [Next]_vars, ~overflow_on'
               PROVE  NoForce' /\ drift' >= 0
    BY TypeStep DEF ShortInv
  <2> USE DEF ShortInv, NoForce
  <2>1. CASE StoreCount
    BY <2>1 DEF StoreCount, TypeInv, TypeOK, Held, InPut
  <2>2. CASE Refused
    BY <2>2 DEF Refused
  <2>3. CASE WriteCfg
    BY <2>3 DEF WriteCfg, mainVars
  <2>4. CASE KeyCb \/ CheckRoom \/ WriteSlot \/ AdvanceWrite \/ LoadCount
    BY <2>4 DEF KeyCb, CheckRoom, WriteSlot, AdvanceWrite, LoadCount
  <2>5. CASE \/ ForceCheck \/ ForceSlot \/ ForceWrite \/ ForceLoadRead
             \/ ForceStoreRead
    BY <2>5 DEF ForceCheck, ForceSlot, ForceWrite, ForceLoadRead,
                ForceStoreRead
  <2>6. CASE Dequeue
    BY <2>6 DEF Dequeue, mainVars
  <2>7. CASE UNCHANGED vars
    BY <2>7 DEF vars
  <2>8. QED
    BY <2>1, <2>2, <2>3, <2>4, <2>5, <2>6, <2>7 DEF Next, Enqueue
<1>3. ShortInv => drift >= 0
  BY DEF ShortInv
<1>4. QED
  BY <1>1, <1>2, <1>3, PTL DEF Spec, CountNeverShort

-----------------------------------------------------------------------------
(* How far the count is off. *)

(* A number has one remainder. *)
LEMMA MultipleIsZero ==
  ASSUME NEW m \in Int, -Size < Size * m, Size * m < Size
  PROVE  m = 0
<1>1. CASE m >= 1
  <2>1. Size * m >= Size
    BY <1>1, SMT
  <2>2. QED
    BY <2>1
<1>2. CASE m <= -1
  <2>1. Size * m <= -Size
    BY <1>2, SMT
  <2>2. QED
    BY <2>1
<1>3. QED
  BY <1>1, <1>2

LEMMA OneRemainder ==
  ASSUME NEW x \in Int, NEW q \in Int, NEW r \in 0..(Size - 1),
         x = Size * q + r
  PROVE  x % Size = r
<1> DEFINE d == x \div Size
           e == x % Size
<1>1. d \in Int /\ e \in 0..(Size - 1) /\ x = Size * d + e
  BY SMT
<1> HIDE DEF d, e
<1>2. Size * (q - d) = e - r
  <2>1. Size * (q - d) = Size * q - Size * d
    BY <1>1, SMT
  <2>2. QED
    BY <1>1, <2>1
<1>3. q - d = 0
  BY <1>1, <1>2, MultipleIsZero
<1>4. Size * (q - d) = 0
  BY <1>3
<1>5. e = r
  BY <1>1, <1>2, <1>4
<1>6. QED
  BY <1>5 DEF e

Ahead == IF pc \in {"load", "store", "fload", "fstore"} THEN 1 ELSE 0
Turns(q) == read_idx + count - drift + Ahead = Size * q + write_idx

(* DriftExact without the remainder: so many turns of the ring lie between. *)
DriftInv == TypeInv /\ \E q \in Int : Turns(q)

\* An index that wraps takes a turn with it.
LEMMA Turn ==
  ASSUME NEW q \in Int, NEW i \in 0..(Size - 1)
  PROVE  \E t \in Int : /\ t \in {0, 1}
                        /\ i + 1 = Advance(i) + Size * t
                        /\ Size * (q + t) = Size * q + Size * t
                        /\ Size * (q - t) = Size * q - Size * t
<1>1. CASE i = Size - 1
  <2>1. i + 1 = Advance(i) + Size * 1
    BY <1>1, AdvanceWraps
  <2>2. /\ Size * (q + 1) = Size * q + Size * 1
        /\ Size * (q - 1) = Size * q - Size * 1
    BY SMT
  <2>3. QED
    BY <2>1, <2>2
<1>2. CASE i # Size - 1
  <2>1. i + 1 = Advance(i) + Size * 0
    BY <1>2, AdvanceWraps
  <2>2. QED
    BY <2>1
<1>3. QED
  BY <1>1, <1>2

LEMMA DriftStep == DriftInv /\ [Next]_vars => DriftInv'
<1> SUFFICES ASSUME DriftInv, [Next]_vars
             PROVE  \E q \in Int : Turns(q)'
  BY TypeStep DEF DriftInv
<1>1. PICK q \in Int : Turns(q)
  BY DEF DriftInv
<1>2. /\ read_idx \in 0..(Size - 1) /\ write_idx \in 0..(Size - 1)
      /\ count \in Int /\ drift \in Int /\ reg \in Int
      /\ Size * q \in Int
      /\ pc = "fstore" => reg \in 0..(Size - 1)
  BY DEF DriftInv, TypeInv, TypeOK, Held
<1>3. CASE /\ UNCHANGED <<read_idx, count, drift, write_idx>>
           /\ Ahead' = Ahead
  BY <1>1, <1>3 DEF Turns
<1>4. CASE AdvanceWrite \/ ForceWrite
  <2>1. PICK t \in Int : /\ write_idx + 1 = Advance(write_idx) + Size * t
                         /\ Size * (q + t) = Size * q + Size * t
                         /\ t \in {0, 1}
    BY <1>2, Turn
  <2>2. /\ UNCHANGED <<read_idx, count, drift>>
        /\ write_idx' = Advance(write_idx) /\ Ahead = 0 /\ Ahead' = 1
    BY <1>4 DEF AdvanceWrite, ForceWrite, Ahead
  <2>3. read_idx + count - drift + 0 = Size * q + write_idx
    BY <1>1, <2>2 DEF Turns
  <2>4. Advance(write_idx) \in Int
    BY <1>2, AdvanceWraps
  <2>5. read_idx + count - drift + 1 = Size * (q + t) + Advance(write_idx)
    BY <1>2, <2>1, <2>3, <2>4
  <2>6. Turns(q + t)'
    BY <2>2, <2>5 DEF Turns
  <2>7. QED
    BY <2>6
<1>5. CASE StoreCount
  <2>1. /\ UNCHANGED <<read_idx, write_idx>> /\ Ahead = 1 /\ Ahead' = 0
        /\ count' = reg + 1 /\ drift' = drift + (reg - count)
    BY <1>5 DEF StoreCount, Ahead
  <2>2. QED
    BY <1>1, <1>2, <2>1 DEF Turns
<1>6. CASE ForceStoreRead
  <2>1. PICK t \in Int : /\ reg + 1 = Advance(reg) + Size * t
                         /\ Size * (q - t) = Size * q - Size * t
                         /\ t \in {0, 1}
    BY <1>2, <1>6, Turn DEF ForceStoreRead
  <2>2. /\ UNCHANGED <<write_idx, count>> /\ Ahead = 1 /\ Ahead' = 0
        /\ read_idx' = Advance(reg) /\ drift' = drift + (reg - read_idx)
    BY <1>6 DEF ForceStoreRead, Ahead
  <2>3. Advance(reg) \in Int
    BY <1>2, <1>6, AdvanceWraps DEF ForceStoreRead
  <2>4. Turns(q - t)'
    <3>1. read_idx + count - drift + 1 = Size * q + write_idx
      BY <1>1, <2>2 DEF Turns
    <3>2. Size * t \in Int
      BY <2>1
    <3> DEFINE a == Size * q
               b == Size * t
               c == Size * (q - t)
    <3>3. a \in Int /\ b \in Int /\ c = a - b
      BY <1>2, <2>1, <3>2
    <3>4. /\ read_idx + count - drift + 1 = a + write_idx
          /\ reg + 1 = Advance(reg) + b
      BY <2>1, <3>1
    <3> HIDE DEF a, b, c
    <3>5. Advance(reg) + count - (drift + (reg - read_idx)) + 0 = c + write_idx
      BY <1>2, <2>3, <3>3, <3>4
    <3>6. QED
      BY <2>2, <3>5 DEF Turns, c
  <2>5. QED
    BY <2>4
<1>7. CASE Dequeue
  <2>1. PICK t \in Int : /\ read_idx + 1 = Advance(read_idx) + Size * t
                         /\ Size * (q - t) = Size * q - Size * t
                         /\ t \in {0, 1}
    BY <1>2, Turn
  <2>2. /\ UNCHANGED <<write_idx, drift>> /\ Ahead' = Ahead
        /\ read_idx' = Advance(read_idx) /\ count' = count - 1
    BY <1>7 DEF Dequeue, Ahead, mainVars
  <2>3. Advance(read_idx) \in Int /\ Ahead \in Int
    BY <1>2, AdvanceWraps DEF Ahead
  <2>4. Turns(q - t)'
    <3> DEFINE a == Size * q
               b == Size * t
               c == Size * (q - t)
    <3>1. a \in Int /\ b \in Int /\ c = a - b
      BY <1>2, <2>1
    <3>2. /\ read_idx + count - drift + Ahead = a + write_idx
          /\ read_idx + 1 = Advance(read_idx) + b
      BY <1>1, <2>1 DEF Turns
    <3> HIDE DEF a, b, c
    <3>3. Advance(read_idx) + (count - 1) - drift + Ahead = c + write_idx
      <4> DEFINE i == Advance(read_idx)
                 h == Ahead
      <4>1. i \in Int /\ h \in Int /\ read_idx \in Int /\ write_idx \in Int
        BY <1>2, <2>3
      <4>2. /\ read_idx + count - drift + h = a + write_idx
            /\ read_idx + 1 = i + b
        BY <3>2
      <4> HIDE DEF i, h
      <4>3. i + (count - 1) - drift + h = c + write_idx
        BY <1>2, <3>1, <4>1, <4>2
      <4>4. QED
        BY <4>3 DEF i, h
    <3>4. QED
      BY <2>2, <3>3 DEF Turns, c
  <2>5. QED
    BY <2>4
<1>8. CASE KeyCb \/ CheckRoom \/ WriteSlot \/ LoadCount \/ Refused \/ ForceCheck
           \/ ForceSlot \/ ForceLoadRead \/ WriteCfg \/ UNCHANGED vars
  <2>1. UNCHANGED <<read_idx, count, drift, write_idx>>
    BY <1>8 DEF KeyCb, CheckRoom, WriteSlot, LoadCount, Refused, ForceCheck,
                ForceSlot, ForceLoadRead, WriteCfg, vars
  <2>2. Ahead' = Ahead
    BY <1>8 DEF KeyCb, CheckRoom, WriteSlot, LoadCount, Refused, ForceCheck,
                ForceSlot, ForceLoadRead, WriteCfg, vars, mainVars, Ahead
  <2>3. QED
    BY <1>3, <2>1, <2>2
<1>9. QED
  BY <1>4, <1>5, <1>6, <1>7, <1>8 DEF Next, Enqueue

(* However the interrupt falls, the count is off by the lost updates and by
   nothing else (fifo.ino:30, 43). *)
THEOREM DriftIsExact == Spec => []DriftExact
<1>1. Init => DriftInv
  <2> SUFFICES ASSUME Init PROVE \E q \in Int : Turns(q)
    BY TypeInit DEF DriftInv
  <2>1. Size * 0 = 0 /\ Ahead = 0
    BY DEF Init, Ahead
  <2>2. Turns(0)
    BY <2>1 DEF Init, Turns
  <2>3. QED
    BY <2>2
<1>2. DriftInv => DriftExact
  <2> SUFFICES ASSUME DriftInv PROVE DriftExact
    OBVIOUS
  <2>1. PICK q \in Int : Turns(q)
    BY DEF DriftInv
  <2>2. /\ read_idx \in Int /\ count \in Int /\ drift \in Int /\ Ahead \in Int
        /\ write_idx \in 0..(Size - 1)
    BY DEF DriftInv, TypeInv, TypeOK, Ahead
  <2>3. (read_idx + count - drift + Ahead) % Size = write_idx
    <3>1. read_idx + count - drift + Ahead \in Int
      BY <2>2
    <3>2. read_idx + count - drift + Ahead = Size * q + write_idx
      BY <2>1 DEF Turns
    <3>3. QED
      BY <2>2, <3>1, <3>2, OneRemainder
  <2>4. QED
    BY <2>3 DEF DriftExact, Ahead
<1>3. QED
  BY <1>1, <1>2, DriftStep, PTL DEF Spec

-----------------------------------------------------------------------------
(* Interrupts are held off between each load and its store. *)
InSyncInv ==
  /\ TypeInv
  /\ drift = 0
  /\ pc = "store" => reg = count
  /\ CountReused /\ InPut => reg = count
  /\ pc \in {"fslot", "fwidx", "fload", "fstore"} => count = Size
  /\ pc = "fstore" => reg = read_idx

LEMMA InSyncInit == Init => InSyncInv
BY TypeInit DEF Init, InSyncInv, InPut

LEMMA InSyncStep ==
  ASSUME IsrPoints \subseteq SafePoints
  PROVE  InSyncInv /\ [Next]_vars => InSyncInv'
<1> SUFFICES ASSUME InSyncInv, [Next]_vars
             PROVE  InSyncInv'
  OBVIOUS
<1>1. TypeInv'
  BY TypeStep DEF InSyncInv
<1> USE <1>1 DEF InSyncInv, TypeInv, TypeOK, Held, InPut
<1>2. CASE KeyCb \/ CheckRoom \/ WriteSlot \/ AdvanceWrite \/ LoadCount
  BY <1>2 DEF KeyCb, CheckRoom, WriteSlot, AdvanceWrite, LoadCount
<1>3. CASE StoreCount
  BY <1>3 DEF StoreCount
<1>4. CASE Refused \/ ForceCheck \/ ForceSlot \/ ForceWrite \/ ForceLoadRead
  <2>1. CASE Refused
    BY <2>1 DEF Refused
  <2>2. CASE ForceCheck
    BY <2>2 DEF ForceCheck
  <2>3. CASE ForceSlot \/ ForceWrite \/ ForceLoadRead
    BY <2>3 DEF ForceSlot, ForceWrite, ForceLoadRead
  <2>4. QED
    BY <1>4, <2>1, <2>2, <2>3
<1>5. CASE ForceStoreRead
  BY <1>5 DEF ForceStoreRead
<1>6. CASE Dequeue
  <2>1. pc \in SafePoints
    BY <1>6 DEF Dequeue
  <2>2. pc \notin {"store", "fslot", "fwidx", "fload", "fstore"}
    BY <2>1, CountReusedAssumption DEF SafePoints
  <2>3. CountReused => ~InPut
    BY <2>1, Zenon DEF SafePoints, InPut
  <2>4. QED
    BY <1>6, <2>2, <2>3 DEF Dequeue, mainVars
<1>7. CASE WriteCfg
  BY <1>7 DEF WriteCfg, mainVars
<1>8. CASE UNCHANGED vars
  BY <1>8 DEF vars
<1>9. QED
  BY <1>2, <1>3, <1>4, <1>5, <1>6, <1>7, <1>8 DEF Next, Enqueue

(* Holding interrupts off over the read-modify-write of count and of read_idx
   is all it takes for the ring never to get out of step. *)
THEOREM InStep ==
  ASSUME IsrPoints \subseteq SafePoints
  PROVE  Spec => []NeverOutOfStep
<1>1. InSyncInv => NeverOutOfStep
  BY DEF InSyncInv, NeverOutOfStep
<1>2. QED
  BY InSyncInit, InSyncStep, <1>1, PTL DEF Spec

-----------------------------------------------------------------------------
(* The ring, in step, implements the bounded queue. *)

Wrap(i) == IF i < Size THEN i ELSE i - Size

LEMMA ModWraps ==
  ASSUME NEW i \in Nat, i < 2 * Size
  PROVE  i % Size = Wrap(i)
BY SMT DEF Wrap

LEMMA WrapIn ==
  ASSUME NEW s \in 0..(Size - 1), NEW k \in 1..Size
  PROVE  Wrap(s + k - 1) \in 0..(Size - 1)
BY DEF Wrap

\* One step further from the next index is the same slot.
LEMMA WrapAdvance ==
  ASSUME NEW s \in 0..(Size - 1), NEW k \in 1..Size
  PROVE  Wrap(Advance(s) + k - 1) = Wrap(s + k)
<1>1. CASE s = Size - 1
  BY <1>1, AdvanceWraps DEF Wrap
<1>2. CASE s # Size - 1
  BY <1>2, AdvanceWraps DEF Wrap
<1>3. QED
  BY <1>1, <1>2

\* Where the next event goes, seen from the reader.
RingInv ==
  /\ InSyncInv
  /\ pc \in {"load", "store"} => write_idx = Wrap(read_idx + count + 1)
  /\ pc \in {"fload", "fstore"} => write_idx = Advance(read_idx)
  /\ pc \notin {"load", "store", "fload", "fstore"}
       => write_idx = Wrap(read_idx + count)

LEMMA RingInit == Init => RingInv
BY InSyncInit DEF Init, RingInv, Wrap

LEMMA RingStep ==
  ASSUME IsrPoints \subseteq SafePoints
  PROVE  RingInv /\ [Next]_vars => RingInv'
<1> SUFFICES ASSUME RingInv, [Next]_vars
             PROVE  RingInv'
  OBVIOUS
<1>1. InSyncInv'
  BY InSyncStep DEF RingInv
<1>2. /\ read_idx \in 0..(Size - 1) /\ write_idx \in 0..(Size - 1)
      /\ count \in 0..Size /\ pc \in Points
  BY DEF RingInv, InSyncInv, TypeInv, TypeOK
<1> USE <1>1, <1>2, AdvanceWraps DEF RingInv, InSyncInv, Wrap
<1>3. CASE KeyCb \/ CheckRoom \/ WriteSlot \/ LoadCount \/ Refused
  BY <1>3 DEF KeyCb, CheckRoom, WriteSlot, LoadCount, Refused
<1>4. CASE AdvanceWrite
  <2>1. count < Size
    BY <1>4 DEF AdvanceWrite, TypeInv, TypeOK, Held, InPut
  <2>2. /\ pc = "widx" /\ pc' = "load" /\ write_idx' = Advance(write_idx)
        /\ UNCHANGED <<read_idx, count>>
    BY <1>4 DEF AdvanceWrite
  <2>3. QED
    BY <2>1, <2>2
<1>5. CASE StoreCount
  BY <1>5 DEF StoreCount
<1>6. CASE ForceCheck \/ ForceSlot \/ ForceLoadRead
  BY <1>6 DEF ForceCheck, ForceSlot, ForceLoadRead
<1>7. CASE ForceWrite
  BY <1>7 DEF ForceWrite
<1>8. CASE ForceStoreRead
  BY <1>8 DEF ForceStoreRead
<1>9. CASE Dequeue
  <2>1. pc \notin {"store", "fslot", "fwidx", "fload", "fstore"}
    BY <1>9, CountReusedAssumption DEF Dequeue, SafePoints
  <2>2. /\ count # 0 /\ count' = count - 1 /\ read_idx' = Advance(read_idx)
        /\ UNCHANGED <<pc, write_idx>>
    BY <1>9 DEF Dequeue, mainVars
  <2>3. /\ count - 1 \in 0..(Size - 1)
        /\ read_idx' = IF read_idx = Size - 1 THEN 0 ELSE read_idx + 1
    BY <2>2
  <2>4. CASE pc = "load"
    BY <2>1, <2>2, <2>3, <2>4
  <2>5. CASE pc # "load"
    BY <2>1, <2>2, <2>3, <2>5
  <2>6. QED
    BY <2>4, <2>5
<1>10. CASE WriteCfg
  BY <1>10 DEF WriteCfg, mainVars
<1>11. CASE UNCHANGED vars
  BY <1>11 DEF vars
<1>12. QED
  BY <1>3, <1>4, <1>5, <1>6, <1>7, <1>8, <1>9, <1>10, <1>11 DEF Next, Enqueue

-----------------------------------------------------------------------------
(* Lemmas about a stretch of slots of the ring. *)

LEMMA SlotsShape ==
  ASSUME NEW f \in [0..(Size - 1) -> Nat], NEW s \in 0..(Size - 1),
         NEW n \in 0..Size
  PROVE  /\ Slots(f, s, n) \in Seq(Nat)
         /\ Len(Slots(f, s, n)) = n
         /\ \A k \in 1..n : Slots(f, s, n)[k] = f[Wrap(s + k - 1)]
<1>1. \A k \in 1..n : (s + k - 1) % Size = Wrap(s + k - 1)
  BY ModWraps
<1>2. \A k \in 1..n : Wrap(s + k - 1) \in 0..(Size - 1)
  BY DEF Wrap
<1>3. Slots(f, s, n) \in [1..n -> Nat]
  BY <1>1, <1>2 DEF Slots
<1>4. Slots(f, s, n) \in Seq(Nat)
  BY <1>3, SeqDef
<1>5. Len(Slots(f, s, n)) = n
  BY <1>3, <1>4, LenProperties
<1>6. QED
  BY <1>1, <1>4, <1>5 DEF Slots

LEMMA SlotsAppend ==
  ASSUME NEW f \in [0..(Size - 1) -> Nat], NEW s \in 0..(Size - 1),
         NEW n \in 0..(Size - 1)
  PROVE  Slots(f, s, n + 1) = Append(Slots(f, s, n), f[Wrap(s + n)])
<1> DEFINE t == Append(Slots(f, s, n), f[Wrap(s + n)])
<1>1. f[Wrap(s + n)] \in Nat
  BY DEF Wrap
<1>2. /\ Slots(f, s, n) \in Seq(Nat) /\ Len(Slots(f, s, n)) = n
      /\ \A k \in 1..n : Slots(f, s, n)[k] = f[Wrap(s + k - 1)]
  <2>1. n \in 0..Size
    OBVIOUS
  <2>2. QED
    BY <2>1, SlotsShape
<1>3. /\ Slots(f, s, n + 1) \in Seq(Nat) /\ Len(Slots(f, s, n + 1)) = n + 1
      /\ \A k \in 1..(n + 1) : Slots(f, s, n + 1)[k] = f[Wrap(s + k - 1)]
  <2>1. n + 1 \in 0..Size
    OBVIOUS
  <2>2. QED
    BY <2>1, SlotsShape
<1>4. t \in Seq(Nat) /\ Len(t) = n + 1
  BY <1>1, <1>2
<1>5. ASSUME NEW k \in 1..(n + 1)
      PROVE  t[k] = f[Wrap(s + k - 1)]
  <2>1. CASE k \in 1..n
    BY <1>1, <1>2, <2>1
  <2>2. CASE k = n + 1
    <3>1. t[k] = f[Wrap(s + n)]
      BY <1>1, <1>2, <2>2
    <3>2. s + k - 1 = s + n
      BY <2>2
    <3>3. QED
      BY <3>1, <3>2
  <2>3. k \in 1..n \/ k = n + 1
    OBVIOUS
  <2>4. QED
    BY <2>1, <2>2, <2>3
<1>6. QED
  BY <1>3, <1>4, <1>5, SeqEqual

LEMMA SlotsTail ==
  ASSUME NEW f \in [0..(Size - 1) -> Nat], NEW s \in 0..(Size - 1),
         NEW n \in 1..Size
  PROVE  /\ Slots(f, s, n) # <<>>
         /\ Head(Slots(f, s, n)) = f[s]
         /\ Slots(f, Advance(s), n - 1) = Tail(Slots(f, s, n))
<1>1. /\ Slots(f, s, n) \in Seq(Nat) /\ Len(Slots(f, s, n)) = n
      /\ \A k \in 1..n : Slots(f, s, n)[k] = f[Wrap(s + k - 1)]
  <2>1. n \in 0..Size
    OBVIOUS
  <2>2. QED
    BY <2>1, SlotsShape
<1>2. Slots(f, s, n) # <<>>
  BY <1>1
<1>3. Head(Slots(f, s, n)) = f[s]
  BY <1>1 DEF Wrap
<1>4. Advance(s) \in 0..(Size - 1)
  BY AdvanceWraps
<1>5. /\ Slots(f, Advance(s), n - 1) \in Seq(Nat)
      /\ Len(Slots(f, Advance(s), n - 1)) = n - 1
      /\ \A k \in 1..(n - 1) :
           Slots(f, Advance(s), n - 1)[k] = f[Wrap(Advance(s) + k - 1)]
  <2>1. n - 1 \in 0..Size
    OBVIOUS
  <2>2. QED
    BY <1>4, <2>1, SlotsShape
<1>6. \A k \in 1..(n - 1) : Wrap(Advance(s) + k - 1) = Wrap(s + (k + 1) - 1)
  <2>1. \A k \in 1..(n - 1) : k \in 1..Size /\ s + (k + 1) - 1 = s + k
    OBVIOUS
  <2>2. QED
    BY <2>1, WrapAdvance
<1>7. /\ Tail(Slots(f, s, n)) \in Seq(Nat)
      /\ Len(Tail(Slots(f, s, n))) = n - 1
      /\ \A k \in 1..(n - 1) :
           Tail(Slots(f, s, n))[k] = f[Wrap(s + (k + 1) - 1)]
  BY <1>1, <1>2, HeadTailProperties
<1>8. \A k \in 1..(n - 1) :
        Slots(f, Advance(s), n - 1)[k] = Tail(Slots(f, s, n))[k]
  BY <1>5, <1>6, <1>7
<1>9. QED
  BY <1>2, <1>3, <1>5, <1>7, <1>8, SeqEqual

AgreeExceptAt(f, g, p) == \A i \in 0..(Size - 1) : i # p => g[i] = f[i]

LEMMA SlotsUntouched ==
  ASSUME NEW f \in [0..(Size - 1) -> Nat], NEW g \in [0..(Size - 1) -> Nat],
         NEW s \in 0..(Size - 1), NEW n \in 0..(Size - 1),
         AgreeExceptAt(f, g, Wrap(s + n))
  PROVE  Slots(g, s, n) = Slots(f, s, n)
<1>1. \A k \in 1..n : /\ Wrap(s + k - 1) \in 0..(Size - 1)
                     /\ Wrap(s + k - 1) # Wrap(s + n)
  BY DEF Wrap
<1>2. \A k \in 1..n : g[Wrap(s + k - 1)] = f[Wrap(s + k - 1)]
  BY <1>1 DEF AgreeExceptAt
<1>3. n \in 0..Size
  OBVIOUS
<1>4. /\ Slots(f, s, n) \in Seq(Nat) /\ Len(Slots(f, s, n)) = n
      /\ \A k \in 1..n : Slots(f, s, n)[k] = f[Wrap(s + k - 1)]
  BY <1>3, SlotsShape
<1>5. /\ Slots(g, s, n) \in Seq(Nat) /\ Len(Slots(g, s, n)) = n
      /\ \A k \in 1..n : Slots(g, s, n)[k] = g[Wrap(s + k - 1)]
  BY <1>3, SlotsShape
<1>6. QED
  BY <1>2, <1>4, <1>5, SeqEqual

LEMMA SlotsOverwrite ==
  ASSUME NEW f \in [0..(Size - 1) -> Nat], NEW s \in 0..(Size - 1), NEW e \in Nat
  PROVE  Slots([f EXCEPT ![s] = e], Advance(s), Size)
           = Append(Tail(Slots(f, s, Size)), e)
<1> DEFINE g == [f EXCEPT ![s] = e]
           a == Advance(s)
<1>1. g \in [0..(Size - 1) -> Nat] /\ g[s] = e
  OBVIOUS
<1>2. PICK m \in 0..(Size - 1) : m = Size - 1
  OBVIOUS
<1>3. a \in 0..(Size - 1) /\ s = Wrap(a + m)
  BY <1>2, AdvanceWraps DEF Wrap
<1>4. Slots(f, a, m) = Tail(Slots(f, s, Size))
  <2>1. Size \in 1..Size
    OBVIOUS
  <2>2. QED
    BY <1>2, <2>1, SlotsTail
<1> HIDE DEF a
<1>5. AgreeExceptAt(f, g, Wrap(a + m))
  BY <1>3 DEF AgreeExceptAt
<1> HIDE DEF g
<1>6. Slots(g, a, m) = Slots(f, a, m)
  BY <1>1, <1>3, <1>5, SlotsUntouched
<1>7. Slots(g, a, m + 1) = Append(Slots(g, a, m), g[Wrap(a + m)])
  BY <1>1, <1>3, SlotsAppend
<1>8. m + 1 = Size
  BY <1>2
<1>9. Slots(g, a, Size) = Append(Tail(Slots(f, s, Size)), e)
  BY <1>1, <1>3, <1>4, <1>6, <1>7, <1>8
<1>10. QED
  BY <1>9 DEF g, a

-----------------------------------------------------------------------------
(* What is known of the contents of the slots. *)
ContentInv ==
  /\ RingInv
  /\ pc # "idle" => issued > 0
  /\ pc = "widx" => fifo[write_idx] = issued
  /\ pc \in {"load", "store"} => fifo[Wrap(read_idx + count)] = issued
  /\ \A k \in 1..count : fifo[Wrap(Start + k - 1)] # 0

LEMMA ContentTypes ==
  ContentInv =>
    /\ fifo \in [0..(Size - 1) -> 0..issued]
    /\ count \in 0..Size
    /\ read_idx \in 0..(Size - 1) /\ write_idx \in 0..(Size - 1)
    /\ overflow_on \in BOOLEAN /\ pc \in Points /\ reg \in 0..Size
    /\ issued \in 0..MaxKeys /\ popped \in 0..issued
BY DEF ContentInv, RingInv, InSyncInv, TypeInv, TypeOK

LEMMA ContentInit == Init => ContentInv
BY RingInit DEF Init, ContentInv

LEMMA ContentStep ==
  ASSUME IsrPoints \subseteq SafePoints
  PROVE  ContentInv /\ [Next]_vars => ContentInv'
<1> SUFFICES ASSUME ContentInv, [Next]_vars
             PROVE  ContentInv'
  OBVIOUS
<1>1. RingInv'
  BY RingStep DEF ContentInv
<1>2. /\ fifo \in [0..(Size - 1) -> 0..issued] /\ count \in 0..Size
      /\ read_idx \in 0..(Size - 1) /\ write_idx \in 0..(Size - 1)
      /\ pc \in Points /\ issued \in 0..MaxKeys /\ reg \in 0..Size
  BY ContentTypes
<1> USE <1>1, <1>2 DEF ContentInv, Start, InForce
<1>3. CASE KeyCb \/ CheckRoom \/ LoadCount \/ Refused
  <2>1. CASE KeyCb
    BY <2>1 DEF KeyCb
  <2>2. CASE CheckRoom
    BY <2>2 DEF CheckRoom
  <2>3. CASE LoadCount
    BY <2>3 DEF LoadCount
  <2>4. CASE Refused
    BY <2>4 DEF Refused
  <2>5. QED
    BY <1>3, <2>1, <2>2, <2>3, <2>4
<1>4. CASE WriteSlot
  <2>1. /\ pc = "slot" /\ pc' = "widx"
        /\ fifo' = [fifo EXCEPT ![write_idx] = issued]
        /\ UNCHANGED <<count, read_idx, write_idx, issued>>
    BY <1>4 DEF WriteSlot
  <2>2. \A k \in 1..count : fifo'[Wrap(read_idx + k - 1)] # 0
    <3>1. issued # 0 /\ \A k \in 1..count : fifo[Wrap(read_idx + k - 1)] # 0
      BY <2>1
    <3>2. \A i \in 0..(Size - 1) : fifo'[i] = IF i = write_idx THEN issued
                                             ELSE fifo[i]
      BY <2>1
    <3>3. ASSUME NEW k \in 1..count PROVE fifo'[Wrap(read_idx + k - 1)] # 0
      <4>1. k \in 1..Size
        OBVIOUS
      <4>2. Wrap(read_idx + k - 1) \in 0..(Size - 1)
        BY <4>1, WrapIn
      <4>3. QED
        BY <3>1, <3>2, <4>2
    <3>4. QED
      BY <3>3
  <2>3. QED
    BY <2>1, <2>2
<1>5. CASE AdvanceWrite
  <2>1. write_idx = Wrap(read_idx + count)
    BY <1>5 DEF AdvanceWrite, RingInv
  <2>2. QED
    BY <1>5, <2>1 DEF AdvanceWrite
<1>6. CASE StoreCount
  <2>1. /\ pc = "store" /\ pc' = "idle" /\ count' = count + 1
        /\ UNCHANGED <<fifo, read_idx, write_idx, issued>>
    BY <1>6 DEF StoreCount, RingInv, InSyncInv
  <2>2. \A k \in 1..(count + 1) :
          fifo[Wrap(read_idx + k - 1)] # 0
    <3>1. ASSUME NEW k \in 1..count PROVE fifo[Wrap(read_idx + k - 1)] # 0
      BY <2>1
    <3>2. fifo[Wrap(read_idx + (count + 1) - 1)] # 0
      <4>1. read_idx + (count + 1) - 1 = read_idx + count
        OBVIOUS
      <4>2. QED
        BY <2>1, <4>1
    <3>3. \A k \in 1..(count + 1) : k \in 1..count \/ k = count + 1
      OBVIOUS
    <3>4. QED
      BY <3>1, <3>2, <3>3
  <2>3. QED
    BY <2>1, <2>2
<1>7. CASE ForceCheck
  BY <1>7 DEF ForceCheck
<1>8. CASE ForceSlot
  <2>1. /\ pc = "fslot" /\ pc' = "fwidx" /\ count = Size
        /\ fifo' = [fifo EXCEPT ![write_idx] = issued]
        /\ UNCHANGED <<count, read_idx, write_idx, issued>>
    BY <1>8 DEF ForceSlot, RingInv, InSyncInv
  <2>2. \A i \in 0..(Size - 1) : fifo[i] # 0
    <3>1. ASSUME NEW i \in 0..(Size - 1) PROVE fifo[i] # 0
      <4> DEFINE k == IF i < read_idx THEN i + Size - read_idx + 1
                      ELSE i - read_idx + 1
      <4>1. k \in 1..count /\ Wrap(read_idx + k - 1) = i
        BY <2>1 DEF Wrap
      <4> HIDE DEF k
      <4>2. fifo[Wrap(read_idx + k - 1)] # 0
        BY <2>1, <4>1
      <4>3. QED
        BY <4>1, <4>2
    <3>2. QED
      BY <3>1
  <2>3. \A i \in 0..(Size - 1) : fifo'[i] # 0
    BY <2>1, <2>2
  <2>4. \A k \in 1..count : Wrap(Advance(read_idx) + k - 1) \in 0..(Size - 1)
    <3>1. Advance(read_idx) \in 0..(Size - 1)
      BY AdvanceWraps
    <3>2. QED
      BY <2>1, <3>1, WrapIn
  <2>5. QED
    BY <2>1, <2>3, <2>4
<1>9. CASE ForceWrite \/ ForceLoadRead
  BY <1>9 DEF ForceWrite, ForceLoadRead
<1>10. CASE ForceStoreRead
  BY <1>10 DEF ForceStoreRead, RingInv, InSyncInv
<1>11. CASE Dequeue
  <2>1. pc \notin {"store", "fslot", "fwidx", "fload", "fstore"}
    BY <1>11, CountReusedAssumption DEF Dequeue, SafePoints
  <2>2. /\ count # 0 /\ count' = count - 1 /\ read_idx' = Advance(read_idx)
        /\ UNCHANGED <<fifo, pc, write_idx, issued>>
    BY <1>11 DEF Dequeue, mainVars
  <2>3. \A k \in 1..(count - 1) : fifo[Wrap(Advance(read_idx) + k - 1)] # 0
    <3>1. ASSUME NEW k \in 1..(count - 1)
          PROVE  fifo[Wrap(Advance(read_idx) + k - 1)] # 0
      <4>1. Wrap(Advance(read_idx) + k - 1) = Wrap(read_idx + (k + 1) - 1)
        <5>1. k \in 1..Size /\ read_idx + (k + 1) - 1 = read_idx + k
          OBVIOUS
        <5>2. QED
          BY <5>1, WrapAdvance
      <4>2. k + 1 \in 1..count
        OBVIOUS
      <4>3. fifo[Wrap(read_idx + (k + 1) - 1)] # 0
        BY <2>1, <4>2
      <4>4. QED
        BY <4>1, <4>3
    <3>2. QED
      BY <3>1
  <2>4. Wrap(Advance(read_idx) + (count - 1)) = Wrap(read_idx + count)
    <3>1. Advance(read_idx) \in 0..(Size - 1)
      BY AdvanceWraps
    <3>2. count \in 1..Size
           /\ Advance(read_idx) + (count - 1) = Advance(read_idx) + count - 1
      BY <2>2, <3>1
    <3>3. QED
      BY <3>2, WrapAdvance
  <2>5. QED
    BY <2>1, <2>2, <2>3, <2>4
<1>12. CASE WriteCfg
  BY <1>12 DEF WriteCfg, mainVars
<1>13. CASE UNCHANGED vars
  BY <1>13 DEF vars
<1>14. QED
  BY <1>3, <1>4, <1>5, <1>6, <1>7, <1>8, <1>9, <1>10, <1>11, <1>12, <1>13
     DEF Next, Enqueue

(* What the abstract queue looks like in a state of the ring. *)
LEMMA QueueShape ==
  ContentInv =>
    /\ Queue \in Seq(Nat)
    /\ Len(Queue) = count
    /\ Start \in 0..(Size - 1)
    /\ fifo \in [0..(Size - 1) -> Nat]
<1> SUFFICES ASSUME ContentInv
             PROVE  /\ Queue \in Seq(Nat) /\ Len(Queue) = count
                    /\ Start \in 0..(Size - 1)
                    /\ fifo \in [0..(Size - 1) -> Nat]
  OBVIOUS
<1>1. fifo \in [0..(Size - 1) -> Nat] /\ count \in 0..Size
  BY ContentTypes
<1>2. Start \in 0..(Size - 1)
  <2>1. read_idx \in 0..(Size - 1)
    BY ContentTypes
  <2>2. Advance(read_idx) \in 0..(Size - 1)
    BY <2>1, AdvanceWraps
  <2>3. QED
    BY <2>1, <2>2 DEF Start
<1>3. QED
  BY <1>1, <1>2, SlotsShape DEF Queue

LEMMA InitRefines == Init => EQ!Init
<1> SUFFICES ASSUME Init
             PROVE  EQ!Init
  OBVIOUS
<1>1. Queue = <<>>
  <2>1. Queue \in Seq(Nat) /\ Len(Queue) = 0
    BY ContentInit, QueueShape DEF Init
  <2>2. QED
    BY <2>1, EmptySeq
<1>2. QED
  BY <1>1 DEF Init, EQ!Init, Stage, InForce

\* A step that leaves the slots in use alone leaves the queue alone.
LEMMA QueueSame ==
  ASSUME UNCHANGED <<fifo, count>>, Start' = Start
  PROVE  Queue' = Queue
BY DEF Queue, Slots

LEMMA StepRefines ==
  ASSUME IsrPoints \subseteq SafePoints
  PROVE  ContentInv /\ [Next]_vars => [EQ!Next]_(EQ!qvars)
<1> SUFFICES ASSUME ContentInv, [Next]_vars
             PROVE  [EQ!Next]_(EQ!qvars)
  OBVIOUS
<1>1. /\ Queue \in Seq(Nat) /\ Len(Queue) = count
      /\ Start \in 0..(Size - 1) /\ fifo \in [0..(Size - 1) -> Nat]
  BY QueueShape
<1>2. /\ count \in 0..Size /\ read_idx \in 0..(Size - 1)
      /\ write_idx \in 0..(Size - 1) /\ pc \in Points /\ reg \in 0..Size
      /\ issued \in 0..MaxKeys /\ overflow_on \in BOOLEAN
  BY ContentTypes
<1>3. CASE KeyCb
  <2>1. Queue' = Queue
    BY <1>3, QueueSame DEF KeyCb, Start, InForce
  <2>2. EQ!Issue
    BY <1>3, <2>1 DEF KeyCb, EQ!Issue, Stage, InForce
  <2>3. QED
    BY <2>2 DEF EQ!Next
<1>4. CASE CheckRoom
  <2>1. Queue' = Queue
    BY <1>4, QueueSame DEF CheckRoom, Start, InForce
  <2>2. CASE count >= Size
    <3>1. EQ!Refuse
      BY <1>1, <1>2, <1>4, <2>1, <2>2 DEF CheckRoom, EQ!Refuse, Stage, InForce
    <3>2. QED
      BY <3>1 DEF EQ!Next
  <2>3. CASE ~(count >= Size)
    BY <1>4, <2>1, <2>3 DEF CheckRoom, EQ!qvars, Stage, InForce
  <2>4. QED
    BY <2>2, <2>3
<1>5. CASE WriteSlot
  <2>1. /\ pc = "slot" /\ pc' = "widx"
        /\ fifo' = [fifo EXCEPT ![write_idx] = issued]
        /\ UNCHANGED <<count, read_idx, write_idx, issued, overflow_on, popped>>
    BY <1>5 DEF WriteSlot
  <2>2. /\ count \in 0..(Size - 1) /\ write_idx = Wrap(read_idx + count)
        /\ Start = read_idx /\ Start' = read_idx
    BY <1>2, <2>1 DEF ContentInv, RingInv, InSyncInv, TypeInv, Held, InPut,
                      Start, InForce
  <2>3. Slots(fifo', read_idx, count) = Slots(fifo, read_idx, count)
    <3>1. PICK g : g = fifo'
      OBVIOUS
    <3>2. AgreeExceptAt(fifo, g, Wrap(read_idx + count))
      BY <1>1, <1>2, <2>1, <2>2, <3>1 DEF AgreeExceptAt
    <3>3. g \in [0..(Size - 1) -> Nat]
      BY <1>1, <1>2, <2>1, <3>1
    <3>4. Slots(g, read_idx, count) = Slots(fifo, read_idx, count)
      <4>1. /\ fifo \in [0..(Size - 1) -> Nat]
            /\ read_idx \in 0..(Size - 1)
            /\ count \in 0..(Size - 1)
        BY <1>1, <1>2, <2>2
      <4>2. QED
        BY <4>1, <3>2, <3>3, SlotsUntouched
    <3>5. QED
      BY <3>1, <3>4
  <2>4. Queue' = Queue
    BY <2>1, <2>2, <2>3 DEF Queue
  <2>5. QED
    BY <2>1, <2>4 DEF EQ!qvars, Stage, InForce
<1>6. CASE AdvanceWrite \/ LoadCount
  <2>1. Queue' = Queue
    BY <1>6, QueueSame DEF AdvanceWrite, LoadCount, Start, InForce
  <2>2. QED
    BY <1>6, <2>1 DEF AdvanceWrite, LoadCount, EQ!qvars, Stage, InForce
<1>7. CASE StoreCount
  <2>1. /\ pc = "store" /\ pc' = "idle" /\ count' = count + 1
        /\ UNCHANGED <<fifo, read_idx, issued, overflow_on, popped>>
    BY <1>7 DEF StoreCount, ContentInv, RingInv, InSyncInv
  <2>2. /\ count \in 0..(Size - 1) /\ Start = read_idx /\ Start' = read_idx
        /\ fifo[Wrap(read_idx + count)] = issued
    BY <1>2, <2>1 DEF ContentInv, RingInv, InSyncInv, TypeInv, Held, InPut,
                      Start, InForce
  <2>3. Slots(fifo, read_idx, count + 1)
          = Append(Slots(fifo, read_idx, count), fifo[Wrap(read_idx + count)])
    BY <1>1, <1>2, <2>2, SlotsAppend
  <2>4. Queue' = Append(Queue, issued)
    BY <2>1, <2>2, <2>3 DEF Queue
  <2>5. EQ!Accept
    BY <1>1, <2>1, <2>2, <2>4 DEF EQ!Accept, Stage, InForce
  <2>6. QED
    BY <2>5 DEF EQ!Next
<1>8. CASE Refused
  <2>1. Queue' = Queue
    BY <1>8, QueueSame DEF Refused, Start, InForce
  <2>2. CASE overflow_on
    <3>1. EQ!ForceEntry
      BY <1>8, <2>1, <2>2 DEF Refused, EQ!ForceEntry, Stage, InForce
    <3>2. QED
      BY <3>1 DEF EQ!Next
  <2>3. CASE ~overflow_on
    <3>1. EQ!LoseNewest
      BY <1>8, <2>1, <2>3 DEF Refused, EQ!LoseNewest, Stage, InForce
    <3>2. QED
      BY <3>1 DEF EQ!Next
  <2>4. QED
    BY <2>2, <2>3
<1>9. CASE ForceCheck
  <2>1. Queue' = Queue
    BY <1>9, QueueSame DEF ForceCheck, Start, InForce
  <2>2. CASE count >= Size
    BY <1>9, <2>1, <2>2 DEF ForceCheck, EQ!qvars, Stage, InForce
  <2>3. CASE ~(count >= Size)
    <3>1. EQ!Retry
      BY <1>1, <1>2, <1>9, <2>1, <2>3 DEF ForceCheck, EQ!Retry, Stage, InForce
    <3>2. QED
      BY <3>1 DEF EQ!Next
  <2>4. QED
    BY <2>2, <2>3
<1>10. CASE ForceSlot
  <2>1. /\ pc = "fslot" /\ pc' = "fwidx" /\ count = Size
        /\ fifo' = [fifo EXCEPT ![write_idx] = issued]
        /\ UNCHANGED <<count, read_idx, write_idx, issued, overflow_on, popped>>
    BY <1>10 DEF ForceSlot, ContentInv, RingInv, InSyncInv
  <2>2. /\ write_idx = read_idx /\ Start = read_idx
        /\ Start' = Advance(read_idx)
    BY <1>2, <2>1 DEF ContentInv, RingInv, Wrap, Start, InForce
  <2>3. Slots(fifo', Advance(read_idx), Size)
          = Append(Tail(Slots(fifo, read_idx, Size)), issued)
    <3>1. issued \in Nat /\ fifo' = [fifo EXCEPT ![read_idx] = issued]
      BY <1>2, <2>1, <2>2
    <3>2. Slots([fifo EXCEPT ![read_idx] = issued], Advance(read_idx), Size)
            = Append(Tail(Slots(fifo, read_idx, Size)), issued)
      BY <1>1, <1>2, <3>1, SlotsOverwrite
    <3>3. QED
      BY <3>1, <3>2
  <2>4. Queue' = Append(Tail(Queue), issued)
    BY <2>1, <2>2, <2>3 DEF Queue
  <2>5. EQ!LoseOldest
    BY <1>1, <2>1, <2>4 DEF EQ!LoseOldest, Stage, InForce
  <2>6. QED
    BY <2>5 DEF EQ!Next
<1>11. CASE ForceWrite \/ ForceLoadRead
  <2>1. Queue' = Queue
    BY <1>11, QueueSame DEF ForceWrite, ForceLoadRead, Start, InForce
  <2>2. QED
    BY <1>11, <2>1 DEF ForceWrite, ForceLoadRead, EQ!qvars, Stage, InForce
<1>12. CASE ForceStoreRead
  <2>1. Start' = Start
    BY <1>12 DEF ForceStoreRead, Start, InForce, ContentInv, RingInv, InSyncInv
  <2>2. Queue' = Queue
    BY <1>12, <2>1, QueueSame DEF ForceStoreRead
  <2>3. QED
    BY <1>12, <2>2 DEF ForceStoreRead, EQ!qvars, Stage, InForce
<1>13. CASE Dequeue
  <2>1. pc \notin {"store", "fslot", "fwidx", "fload", "fstore"}
    BY <1>13, CountReusedAssumption DEF Dequeue, SafePoints
  <2>2. /\ count \in 1..Size /\ count' = count - 1
        /\ read_idx' = Advance(read_idx)
        /\ popped' = IF fifo[read_idx] = 0 THEN popped ELSE fifo[read_idx]
        /\ UNCHANGED <<fifo, pc, issued, overflow_on>>
    BY <1>2, <1>13 DEF Dequeue, mainVars
  <2>3. Start = read_idx /\ Start' = Advance(read_idx)
    BY <2>1, <2>2 DEF Start, InForce
  <2>4. fifo[read_idx] # 0
    <3>1. Wrap(read_idx + 1 - 1) = read_idx
      BY <1>2 DEF Wrap
    <3>2. QED
      BY <2>2, <2>3, <3>1 DEF ContentInv
  <2>5. /\ Slots(fifo, read_idx, count) # <<>>
        /\ Head(Slots(fifo, read_idx, count)) = fifo[read_idx]
        /\ Slots(fifo, Advance(read_idx), count - 1)
              = Tail(Slots(fifo, read_idx, count))
    BY <1>1, <1>2, <2>2, SlotsTail
  <2>6. Queue # <<>> /\ Queue' = Tail(Queue) /\ popped' = Head(Queue)
    BY <2>2, <2>3, <2>4, <2>5 DEF Queue
  <2>7. EQ!Pop
    BY <2>2, <2>6 DEF EQ!Pop, Stage, InForce
  <2>8. QED
    BY <2>7 DEF EQ!Next
<1>14. CASE WriteCfg
  <2>1. Queue' = Queue
    BY <1>14, QueueSame DEF WriteCfg, mainVars, Start, InForce
  <2>2. EQ!SetOverflow
    BY <1>14, <2>1 DEF WriteCfg, mainVars, EQ!SetOverflow, Stage, InForce
  <2>3. QED
    BY <2>2 DEF EQ!Next
<1>15. CASE UNCHANGED vars
  <2>1. Queue' = Queue
    BY <1>15, QueueSame DEF vars, Start, InForce
  <2>2. QED
    BY <1>15, <2>1 DEF vars, EQ!qvars, Stage, InForce
<1>16. QED
  BY <1>3, <1>4, <1>5, <1>6, <1>7, <1>8, <1>9, <1>10, <1>11, <1>12, <1>13,
     <1>14, <1>15 DEF Next, Enqueue

(* With interrupts held off across each read-modify-write, the lock-free ring
   is the bounded first-in first-out queue of EventQueue: an event is lost only
   after the FIFO was found full, the newest one or the oldest one as
   CFG_OVERFLOW_ON says. *)
THEOREM RingIsQueue ==
  ASSUME IsrPoints \subseteq SafePoints
  PROVE  Spec => Implements
<1>1. Init => ContentInv /\ EQ!Init
  BY ContentInit, InitRefines
<1>2. ContentInv /\ [Next]_vars => ContentInv' /\ [EQ!Next]_(EQ!qvars)
  BY ContentStep, StepRefines
<1>3. QED
  BY <1>1, <1>2, PTL DEF Spec, Implements, EQ!Spec

(* Hence the host pops events in the order they were issued, none twice. *)
THEOREM HostOrder ==
  ASSUME IsrPoints \subseteq SafePoints
  PROVE  Spec => PopsInOrder
<1>1. EQ!Spec => EQ!PopsInOrder
  BY EQ!OrderedPops
<1>2. [popped' # popped => popped' > popped]_(EQ!qvars)
        => [popped' # popped => popped' > popped]_vars
  BY DEF EQ!qvars
<1>3. QED
  BY RingIsQueue, <1>1, <1>2, PTL DEF Implements, EQ!PopsInOrder, PopsInOrder
=============================================================================
