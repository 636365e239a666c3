---------------------------- MODULE LogRing_proofs ----------------------------
(***************************************************************************)
(* Theorems about the microcontroller's log, for every size of the ring,   *)
(* every length of a write and every count of a read; and about the        *)
(* handshake by which Linux finds it, for every pair of flags.             *)
(***************************************************************************)
EXTENDS LogRing, TLAPS

USE SizeAssumption, BoundAssumption

Slots == 0..(max_size - 1)
Empty == [i \in 1..0 |-> 0]

(* A published index is the old one plus the bytes copied, less one turn. *)
LEMMA AdvanceIsSlot ==
  ASSUME NEW i \in Slots, NEW n \in Slots
  PROVE  Advance(i, n) = Slot(i, n) /\ Slot(i, n) \in Slots
<1>1. CASE i + n < max_size
  BY <1>1, SMT DEF Advance, Slot, Slots
<1>2. CASE i + n >= max_size
  <2>1. (i + n) % max_size = (i + n - max_size) % max_size
    BY <1>2, SMT DEF Slots
  <2>2. (i + n - max_size) % max_size = i + n - max_size
    BY <1>2, SMT DEF Slots
  <2>3. QED
    BY <1>2, <2>1, <2>2 DEF Advance, Slot, Slots
<1>3. QED
  BY <1>1, <1>2 DEF Slots

(* Walking n slots and then k is walking n + k, less than one turn in all. *)
LEMMA SlotAdds ==
  ASSUME NEW i \in Slots, NEW n \in Nat, NEW k \in Nat, n + k < max_size
  PROVE  Slot(Slot(i, n), k) = Slot(i, n + k)
BY SMT DEF Slot, Slots

(* Less than one turn away from a slot, each distance is another slot. *)
LEMMA SlotInjective ==
  ASSUME NEW i \in Slots, NEW n \in Slots, NEW k \in Slots,
         Slot(i, n) = Slot(i, k)
  PROVE  n = k
BY SMT DEF Slot, Slots

(* What is copied into the ring keeps its type. *)
LEMMA CopiedType ==
  ASSUME buf \in [Slots -> 0..MaxBytes], NEW first \in Int, NEW last \in Int,
         NEW from \in Nat, from + (last - first) + 1 <= MaxBytes
  PROVE  Copied(first, last, from) \in [Slots -> 0..MaxBytes]
<1>1. ASSUME NEW s \in Slots
      PROVE  (IF s \in first..last THEN from + s - first + 1 ELSE buf[s])
               \in 0..MaxBytes
  BY <1>1 DEF Slots
<1>2. QED
  BY <1>1 DEF Copied, Slots

-----------------------------------------------------------------------------
(* The invariant.  head is Unread slots ahead of tail; what _write has room
   for stays free however far the reader gets meanwhile, and what
   mculog_read found stays available however much is published meanwhile. *)
Ring ==
  /\ Unread <= max_size - 1
  /\ head = Slot(tail, Unread)

Writing ==
  wpc # "idle" => /\ wlen + Unread <= max_size - 1
                  /\ accepted + wlen <= MaxBytes
                  /\ wlen <= MaxLen

Reading == rpc # "idle" => rlen <= Unread

Wrapping ==
  /\ wpc = "wrap" => wlen > max_size - head
  /\ rpc = "wrap" => rlen > max_size - tail

Bounds == TypeOK /\ Ring /\ Writing /\ Reading /\ Wrapping

(* What _write has copied and not yet published, and what mculog_read has
   copied and not yet returned. *)
Copying ==
  /\ wpc = "wrap" => \A k \in 1..(max_size - head) : buf[head + k - 1] = accepted + k
  /\ wpc = "publish" => \A k \in 1..wlen : buf[Slot(head, k - 1)] = accepted + k

Reached ==
  /\ rpc = "wrap" => user = [i \in 1..(max_size - tail) |-> returned + i]
  /\ rpc = "return" => user = [i \in 1..rlen |-> returned + i]

Inv == Bounds /\ UnreadIntact /\ Copying /\ Reached

-----------------------------------------------------------------------------
(* The bytes between tail and head are counted right by both sides. *)
LEMMA Counted ==
  ASSUME Bounds
  PROVE  /\ Free(head, tail) = max_size - 1 - Unread
         /\ Avail(head, tail) = Unread
BY DEF Bounds, TypeOK, Ring, Unread, Slot, Free, Avail

(* A function on at most max_size - 1 bytes is a chunk. *)
LEMMA IsChunk ==
  ASSUME NEW n \in 0..(max_size - 1), NEW f \in [1..n -> 0..MaxBytes]
  PROVE  f \in Chunks
BY DEF Chunks

LEMMA EmptyIsChunk == Empty \in Chunks
<1>1. Empty \in [1..0 -> 0..MaxBytes] /\ 0 \in 0..(max_size - 1)
  BY DEF Empty
<1>2. QED
  BY <1>1 DEF Chunks

(* The first state. *)
LEMMA InvInit == Init => Inv
<1> SUFFICES ASSUME Init
             PROVE  Inv
  OBVIOUS
<1>2. TypeOK
  BY EmptyIsChunk DEF Init, TypeOK, Empty
<1>3. QED
  BY <1>2 DEF Init, Inv, Bounds, Ring, Writing, Reading, Wrapping, Copying,
              Reached, UnreadIntact, Unread, Slot

(* An unread byte is in a slot. *)
LEMMA UnreadSlot ==
  ASSUME Bounds, NEW k \in 1..Unread
  PROVE  Slot(tail, k - 1) \in Slots
<1>1. tail \in Slots /\ k \in Int /\ 1 <= k /\ k <= max_size - 1
  BY DEF Bounds, TypeOK, Ring, Unread, Slots
<1>2. QED
  BY <1>1 DEF Slot, Slots

(* A slot _write may fill is not one that holds an unread byte. *)
LEMMA Disjoint ==
  ASSUME Bounds, NEW k \in 1..Unread, NEW j \in Nat, Unread + j < max_size
  PROVE  Slot(tail, k - 1) \in Slots /\ Slot(tail, k - 1) # Slot(head, j)
BY DEF Bounds, TypeOK, Ring, Unread, Slot, Slots

LEMMA WriteStartStep == Inv /\ WriteStart => Inv'
<1> SUFFICES ASSUME Inv, WriteStart
             PROVE  Inv'
  OBVIOUS
<1>1. PICK len \in 1..MaxLen : wlen' = Lesser(len, Free(head, tail))
  BY DEF WriteStart
<1>2. Free(head, tail) = max_size - 1 - Unread
  BY Counted DEF Inv
<1>3. /\ wlen' \in 0..(max_size - 1) /\ wlen' + Unread <= max_size - 1
      /\ wlen' <= MaxLen
  BY <1>1, <1>2 DEF Lesser, Inv, Bounds, Ring, TypeOK, Unread
<1>4. Bounds'
  BY <1>3 DEF WriteStart, reader, Inv, Bounds, TypeOK, Ring, Writing, Reading,
              Wrapping, Unread, Slot
<1>5. UnreadIntact' /\ Copying' /\ Reached'
  BY DEF WriteStart, reader, Inv, UnreadIntact, Copying, Reached, Unread, Slot
<1>6. QED
  BY <1>4, <1>5 DEF Inv

LEMMA WriteCopyStep == Inv /\ WriteCopy => Inv'
<1> SUFFICES ASSUME Inv, WriteCopy
             PROVE  Inv'
  OBVIOUS
<1> DEFINE m == Lesser(wlen, max_size - head)
<1>1. /\ wpc = "copy" /\ wpc' \in {"wrap", "publish"}
      /\ wpc' = "wrap" => wlen > max_size - head
      /\ wpc' = "publish" => wlen <= max_size - head
  BY DEF WriteCopy, Inv, Bounds, TypeOK
<1>2. buf' = Copied(head, head + m - 1, accepted)
  BY DEF WriteCopy
<1>3. m \in 0..wlen /\ m <= max_size - head /\ wlen + Unread <= max_size - 1
  BY <1>1 DEF Lesser, Inv, Bounds, TypeOK, Writing
<1>4. buf' \in [Slots -> 0..MaxBytes]
  <2>1. /\ buf \in [Slots -> 0..MaxBytes] /\ head \in Int /\ accepted \in Nat
        /\ m \in Int /\ accepted + m <= MaxBytes
    BY <1>1, <1>3 DEF Inv, Bounds, TypeOK, Slots, Writing
  <2> HIDE DEF m
  <2>2. QED
    BY <1>2, <2>1, CopiedType
<1>5. \A s \in Slots :
        buf'[s] = IF s \in head..(head + m - 1) THEN accepted + s - head + 1
                  ELSE buf[s]
  BY <1>2 DEF Copied, Slots
<1>6. Bounds'
  BY <1>1, <1>4 DEF WriteCopy, reader, Inv, Bounds, TypeOK, Ring, Writing,
              Reading, Wrapping, Unread, Slot, Slots
<1>7. UnreadIntact'
  <2>1. Unread' = Unread /\ tail' = tail /\ returned' = returned
    BY DEF WriteCopy, Unread
  <2>2. ASSUME NEW k \in 1..Unread
        PROVE  buf'[Slot(tail, k - 1)] = returned + k
    <3>1. Slot(tail, k - 1) \in Slots
      BY UnreadSlot DEF Inv
    <3>2. Slot(tail, k - 1) \notin head..(head + m - 1)
      <4> HIDE DEF m
      <4>1. ASSUME Slot(tail, k - 1) \in head..(head + m - 1)
            PROVE  FALSE
        <5> DEFINE j == Slot(tail, k - 1) - head
        <5>0. head \in Slots
          BY DEF Inv, Bounds, TypeOK, Slots
        <5>1. j \in 0..(m - 1) /\ Slot(tail, k - 1) = head + j
          BY <4>1, <1>3, <3>1, <5>0 DEF Slots
        <5> HIDE DEF j
        <5>2. head + j = Slot(head, j) /\ Unread + j < max_size /\ j \in Nat
          BY <1>3, <5>1 DEF Inv, Bounds, TypeOK, Slot, Unread
        <5>3. QED
          BY <5>1, <5>2, Disjoint DEF Inv
      <4>2. QED
        BY <4>1
    <3>3. QED
      BY <3>1, <3>2, <1>5 DEF Inv, UnreadIntact
  <2>3. QED
    BY <2>1, <2>2 DEF UnreadIntact, Slot
<1>8. Copying'
  <2>1. head' = head /\ wlen' = wlen /\ accepted' = accepted
    BY DEF WriteCopy
  <2>2. ASSUME wpc' = "wrap", NEW k \in 1..(max_size - head)
        PROVE  buf'[head + k - 1] = accepted + k
    <3>1. m = max_size - head
      BY <1>1, <2>2 DEF Lesser, Inv, Bounds, TypeOK
    <3>2. head + k - 1 \in Slots /\ head + k - 1 \in head..(head + m - 1)
      BY <3>1 DEF Inv, Bounds, TypeOK, Slots
    <3>3. accepted + (head + k - 1) - head + 1 = accepted + k
      BY DEF Inv, Bounds, TypeOK
    <3> HIDE DEF m
    <3>4. QED
      BY <3>2, <3>3, <1>5
  <2>3. ASSUME wpc' = "publish", NEW k \in 1..wlen
        PROVE  buf'[Slot(head, k - 1)] = accepted + k
    <3>1. m = wlen
      BY <1>1, <2>3 DEF Lesser, Inv, Bounds, TypeOK
    <3>2. /\ Slot(head, k - 1) = head + k - 1
          /\ head + k - 1 \in Slots /\ head + k - 1 \in head..(head + m - 1)
      BY <3>1, <1>3 DEF Inv, Bounds, TypeOK, Slots, Slot
    <3>3. accepted + (head + k - 1) - head + 1 = accepted + k
      BY DEF Inv, Bounds, TypeOK
    <3> HIDE DEF m
    <3>4. QED
      BY <3>2, <3>3, <1>5
  <2>4. QED
    BY <2>1, <2>2, <2>3, <1>1 DEF Copying, Slot
<1>9. Reached'
  BY DEF WriteCopy, reader, Inv, Reached
<1>10. QED
  BY <1>6, <1>7, <1>8, <1>9 DEF Inv

LEMMA WriteWrapStep == Inv /\ WriteWrap => Inv'
<1> SUFFICES ASSUME Inv, WriteWrap
             PROVE  Inv'
  OBVIOUS
<1> DEFINE m == max_size - head
<1>1. /\ wpc = "wrap" /\ wpc' = "publish" /\ m \in 1..(wlen - 1)
      /\ wlen + Unread <= max_size - 1 /\ accepted + wlen <= MaxBytes
  BY DEF WriteWrap, Inv, Bounds, TypeOK, Wrapping, Writing
<1>2. buf' = Copied(0, wlen - m - 1, accepted + m)
  BY DEF WriteWrap
<1>3. buf' \in [Slots -> 0..MaxBytes]
  <2>1. /\ buf \in [Slots -> 0..MaxBytes] /\ accepted + m \in Nat
        /\ wlen - m - 1 \in Int /\ (accepted + m) + ((wlen - m - 1) - 0) + 1 <= MaxBytes
    BY <1>1 DEF Inv, Bounds, TypeOK, Slots
  <2> HIDE DEF m
  <2>2. QED
    BY <1>2, <2>1, CopiedType
<1>4. \A s \in Slots :
        buf'[s] = IF s \in 0..(wlen - m - 1) THEN accepted + m + s + 1
                  ELSE buf[s]
  BY <1>1, <1>2 DEF Copied, Slots, Inv, Bounds, TypeOK
<1>5. Bounds'
  BY <1>1, <1>3 DEF WriteWrap, reader, Inv, Bounds, TypeOK, Ring, Writing,
              Reading, Wrapping, Unread, Slot, Slots
<1>6. UnreadIntact'
  <2>1. Unread' = Unread /\ tail' = tail /\ returned' = returned
    BY DEF WriteWrap, Unread
  <2>2. ASSUME NEW k \in 1..Unread
        PROVE  buf'[Slot(tail, k - 1)] = returned + k
    <3>1. Slot(tail, k - 1) \in Slots
      BY UnreadSlot DEF Inv
    <3>2. Slot(tail, k - 1) \notin 0..(wlen - m - 1)
      <4>1. ASSUME Slot(tail, k - 1) \in 0..(wlen - m - 1)
            PROVE  FALSE
        <5> DEFINE j == Slot(tail, k - 1) + m
        <5>0. wlen \in Nat
          BY DEF Inv, Bounds, TypeOK
        <5>1. j \in m..(wlen - 1) /\ Slot(tail, k - 1) = j - m
          BY <4>1, <1>1, <3>1, <5>0 DEF Slots
        <5> HIDE DEF j
        <5>2. j - m = Slot(head, j) /\ Unread + j < max_size /\ j \in Nat
          BY <1>1, <5>1 DEF Inv, Bounds, TypeOK, Slot, Unread
        <5>3. QED
          BY <5>1, <5>2, Disjoint DEF Inv
      <4>2. QED
        BY <4>1
    <3>3. QED
      BY <3>1, <3>2, <1>4 DEF Inv, UnreadIntact
  <2>3. QED
    BY <2>1, <2>2 DEF UnreadIntact, Slot
<1>7. Copying'
  <2>1. head' = head /\ wlen' = wlen /\ accepted' = accepted
    BY DEF WriteWrap
  <2>2. ASSUME NEW k \in 1..wlen
        PROVE  buf'[Slot(head, k - 1)] = accepted + k
    <3>1. CASE k <= m
      <4>1. /\ Slot(head, k - 1) = head + k - 1 /\ head + k - 1 \in Slots
            /\ head + k - 1 \notin 0..(wlen - m - 1)
        BY <3>1, <1>1 DEF Inv, Bounds, TypeOK, Slot, Slots, Unread
      <4>2. buf[head + k - 1] = accepted + k
        <5>1. k \in 1..(max_size - head)
          BY <3>1, <1>1
        <5>2. QED
          BY <5>1, <1>1 DEF Inv, Copying
      <4>3. QED
        BY <4>1, <4>2, <1>4
    <3>2. CASE k > m
      <4>1. /\ Slot(head, k - 1) = k - m - 1 /\ k - m - 1 \in Slots
            /\ k - m - 1 \in 0..(wlen - m - 1)
        BY <3>2, <1>1 DEF Inv, Bounds, TypeOK, Slot, Slots
      <4>2. accepted + m + (k - m - 1) + 1 = accepted + k
        BY <1>1 DEF Inv, Bounds, TypeOK
      <4> HIDE DEF m
      <4>3. QED
        BY <4>1, <4>2, <1>4
    <3>3. QED
      BY <3>1, <3>2 DEF Inv, Bounds, TypeOK
  <2>3. QED
    BY <2>1, <2>2, <1>1 DEF Copying, Slot
<1>8. Reached'
  BY DEF WriteWrap, reader, Inv, Reached
<1>9. QED
  BY <1>5, <1>6, <1>7, <1>8 DEF Inv

LEMMA WritePublishStep == Inv /\ WritePublish => Inv'
<1> SUFFICES ASSUME Inv, WritePublish
             PROVE  Inv'
  OBVIOUS
<1>1. /\ wpc = "publish" /\ wpc' = "idle"
      /\ wlen + Unread <= max_size - 1 /\ accepted + wlen <= MaxBytes
      /\ accepted' = accepted + wlen /\ head' = Slot(head, wlen)
      /\ head' \in Slots
  BY AdvanceIsSlot DEF WritePublish, Inv, Bounds, TypeOK, Writing, Slots
<1>2. Unread \in Nat /\ wlen \in Nat /\ Unread' = Unread + wlen
  BY <1>1 DEF Inv, Bounds, TypeOK, Unread, WritePublish
<1>3. head' = Slot(tail, Unread')
  <2>1. head = Slot(tail, Unread) /\ tail \in Slots
    BY DEF Inv, Bounds, Ring, TypeOK, Slots
  <2>2. QED
    BY <1>1, <1>2, <2>1, SlotAdds
<1>4. Bounds'
  <2>1. TypeOK'
    BY <1>1 DEF WritePublish, reader, Inv, Bounds, TypeOK, Slots
  <2>2. Ring'
    BY <1>1, <1>2, <1>3 DEF Ring, WritePublish, Slot
  <2>3. Writing' /\ Wrapping'
    BY <1>1 DEF Writing, Wrapping, WritePublish, reader, Inv, Bounds
  <2>4. Reading'
    BY <1>2 DEF Reading, WritePublish, reader, Inv, Bounds, TypeOK
  <2>5. QED
    BY <2>1, <2>2, <2>3, <2>4 DEF Bounds
<1>5. UnreadIntact'
  <2>1. tail' = tail /\ returned' = returned /\ buf' = buf
    BY DEF WritePublish
  <2>2. ASSUME NEW k \in 1..(Unread + wlen)
        PROVE  buf[Slot(tail, k - 1)] = returned + k
    <3>1. CASE k <= Unread
      BY <3>1, <1>2 DEF Inv, UnreadIntact
    <3>2. CASE k > Unread
      <4> DEFINE n == k - Unread
      <4>1. n \in 1..wlen /\ n - 1 \in Nat
        BY <3>2, <1>2
      <4>2. buf[Slot(head, n - 1)] = accepted + n
        BY <4>1, <1>1 DEF Inv, Copying
      <4>3. Slot(head, n - 1) = Slot(tail, k - 1)
        <5>1. head = Slot(tail, Unread) /\ tail \in Slots
          BY DEF Inv, Bounds, Ring, TypeOK, Slots
        <5>2. Unread + (n - 1) = k - 1 /\ Unread + (n - 1) < max_size
          BY <1>1, <1>2, <3>2
        <5> HIDE DEF n
        <5>3. Slot(Slot(tail, Unread), n - 1) = Slot(tail, Unread + (n - 1))
          BY <5>1, <5>2, <4>1, <1>2, SlotAdds
        <5>4. QED
          BY <5>1, <5>2, <5>3
      <4>4. accepted + n = returned + k
        BY <1>2 DEF Unread, Inv, Bounds, TypeOK
      <4>5. QED
        BY <4>2, <4>3, <4>4
    <3>3. QED
      BY <3>1, <3>2, <1>2
  <2>3. QED
    BY <2>1, <2>2, <1>2 DEF UnreadIntact, Slot
<1>6. Copying' /\ Reached'
  BY <1>1 DEF WritePublish, reader, Inv, Copying, Reached
<1>7. QED
  BY <1>4, <1>5, <1>6 DEF Inv

LEMMA ReadStartStep == Inv /\ ReadStart => Inv'
<1> SUFFICES ASSUME Inv, ReadStart
             PROVE  Inv'
  OBVIOUS
<1>1. rpc' = "copy" /\ user' = Empty
  BY DEF ReadStart, Empty
<1>2. PICK count \in 0..MaxCount : rlen' = Lesser(count, Avail(head, tail))
  BY DEF ReadStart
<1>3. Avail(head, tail) = Unread /\ Unread \in 0..(max_size - 1)
  BY Counted DEF Inv, Bounds, Ring, TypeOK, Unread
<1>4. rlen' \in 0..Unread
  BY <1>2, <1>3 DEF Lesser
<1>5. Empty \in Chunks
  BY EmptyIsChunk
<1>6. Bounds'
  BY <1>1, <1>3, <1>4, <1>5 DEF ReadStart, writer, Inv, Bounds, TypeOK, Ring,
     Writing, Reading, Wrapping, Unread, Slot
<1>7. UnreadIntact' /\ Copying' /\ Reached'
  BY <1>1 DEF ReadStart, writer, Inv, UnreadIntact, Copying, Reached, Unread,
     Slot
<1>8. QED
  BY <1>6, <1>7 DEF Inv

(* A step of the reader that only changes what it has copied. *)
LEMMA ReaderFrame ==
  ASSUME Inv, rpc' \in {"idle", "wrap", "return"}, rpc # "idle", user' \in Chunks,
         rpc' = "wrap" => rlen > max_size - tail, Reached',
         UNCHANGED <<head, tail, buf, rlen, accepted, returned, chunk>>,
         UNCHANGED writer
  PROVE  Inv'
<1>1. Bounds'
  BY DEF writer, Inv, Bounds, TypeOK, Ring, Writing, Reading, Wrapping, Unread,
         Slot
<1>2. UnreadIntact' /\ Copying'
  BY DEF writer, Inv, UnreadIntact, Copying, Unread, Slot
<1>3. QED
  BY <1>1, <1>2 DEF Inv

(* The reader copies the unread bytes. *)
LEMMA Fetched ==
  ASSUME Inv, NEW k \in 1..Unread
  PROVE  /\ k <= max_size - tail => buf[tail + k - 1] = returned + k
         /\ k > max_size - tail => buf[k - (max_size - tail) - 1] = returned + k
         /\ returned + k \in 0..MaxBytes
<1>1. buf[Slot(tail, k - 1)] = returned + k
  BY DEF Inv, UnreadIntact
<1>2. /\ k <= max_size - tail => Slot(tail, k - 1) = tail + k - 1
      /\ k > max_size - tail => Slot(tail, k - 1) = k - (max_size - tail) - 1
  BY DEF Inv, Bounds, TypeOK, Slot, Unread
<1>3. returned + k \in 0..MaxBytes
  BY DEF Inv, Bounds, TypeOK, Unread
<1>4. QED
  BY <1>1, <1>2, <1>3

LEMMA ReadCopyStep == Inv /\ ReadCopy => Inv'
<1> SUFFICES ASSUME Inv, ReadCopy
             PROVE  Inv'
  OBVIOUS
<1> DEFINE m == Lesser(rlen, max_size - tail)
<1>1. /\ rpc = "copy" /\ rpc' \in {"wrap", "return"}
      /\ rpc' = "wrap" => rlen > max_size - tail
      /\ rpc' = "return" => rlen <= max_size - tail
      /\ user' = [i \in 1..m |-> buf[tail + i - 1]]
  BY DEF ReadCopy, Inv, Bounds, TypeOK
<1>2. /\ m \in 0..Unread /\ m <= max_size - tail /\ m \in 0..(max_size - 1)
      /\ rpc' = "wrap" => m = max_size - tail
      /\ rpc' = "return" => m = rlen
  BY <1>1 DEF Lesser, Inv, Bounds, TypeOK, Reading, Ring, Unread
<1> HIDE DEF m
<1>3. ASSUME NEW i \in 1..m
      PROVE  buf[tail + i - 1] = returned + i /\ returned + i \in 0..MaxBytes
  <2>1. i \in 1..Unread /\ i <= max_size - tail
    BY <1>2 DEF Inv, Bounds, TypeOK, Unread
  <2>2. QED
    BY <2>1, Fetched
<1>4. user' = [i \in 1..m |-> returned + i]
  BY <1>1, <1>3
<1>5. user' \in Chunks
  <2>1. user' \in [1..m -> 0..MaxBytes]
    BY <1>3, <1>4
  <2>2. QED
    BY <2>1, <1>2, IsChunk
<1>6. UNCHANGED <<head, tail, buf, rlen, accepted, returned, chunk>> /\ UNCHANGED writer
  BY DEF ReadCopy
<1>7. Reached'
  BY <1>1, <1>2, <1>4, <1>6 DEF Reached
<1>8. QED
  BY <1>1, <1>5, <1>6, <1>7, ReaderFrame

LEMMA ReadWrapStep == Inv /\ ReadWrap => Inv'
<1> SUFFICES ASSUME Inv, ReadWrap
             PROVE  Inv'
  OBVIOUS
<1> DEFINE m == max_size - tail
<1>1. /\ rpc = "wrap" /\ rpc' = "return"
      /\ user' = [i \in 1..rlen |-> IF i <= m THEN user[i] ELSE buf[i - m - 1]]
      /\ m \in Int /\ rlen \in 0..(max_size - 1) /\ rlen <= Unread
      /\ user = [i \in 1..m |-> returned + i]
  BY DEF ReadWrap, Inv, Bounds, TypeOK, Reading, Reached
<1>2. ASSUME NEW i \in 1..rlen
      PROVE  /\ (IF i <= m THEN user[i] ELSE buf[i - m - 1]) = returned + i
             /\ returned + i \in 0..MaxBytes
  <2>1. i \in 1..Unread
    BY <1>1 DEF Inv, Bounds, TypeOK, Unread
  <2>2. (i > m => buf[i - m - 1] = returned + i) /\ returned + i \in 0..MaxBytes
    BY <2>1, Fetched
  <2>3. i <= m => user[i] = returned + i
    <3> HIDE DEF m
    <3>1. QED
      BY <1>1
  <2>4. QED
    BY <2>2, <2>3, <1>1
<1>3. user' = [i \in 1..rlen |-> returned + i]
  BY <1>1, <1>2
<1>4. user' \in Chunks
  <2>1. user' \in [1..rlen -> 0..MaxBytes]
    BY <1>2, <1>3
  <2>2. QED
    BY <2>1, <1>1, IsChunk
<1>5. UNCHANGED <<head, tail, buf, rlen, accepted, returned, chunk>> /\ UNCHANGED writer
  BY DEF ReadWrap
<1>6. Reached'
  BY <1>1, <1>3, <1>5 DEF Reached
<1>7. QED
  BY <1>1, <1>4, <1>5, <1>6, ReaderFrame

LEMMA ReadFaultStep == Inv /\ ReadFault => Inv'
<1> SUFFICES ASSUME Inv, ReadFault
             PROVE  Inv'
  OBVIOUS
<1>1. /\ rpc # "idle" /\ rpc' = "idle" /\ user' \in Chunks
      /\ UNCHANGED <<head, tail, buf, rlen, accepted, returned, chunk>>
      /\ UNCHANGED writer
  BY DEF ReadFault, Inv, Bounds, TypeOK
<1>2. Reached'
  BY <1>1 DEF Reached
<1>3. QED
  BY <1>1, <1>2, ReaderFrame

(* A read returns the next bytes, and the slots they were in become free. *)
LEMMA ReadReturnStep ==
  Inv /\ ReadReturn =>
    Inv' /\ returned' \in returned..accepted
         /\ chunk' = [i \in 1..(returned' - returned) |-> returned + i]
<1> SUFFICES ASSUME Inv, ReadReturn
             PROVE  /\ Inv'
                    /\ returned' \in returned..accepted
                    /\ chunk' = [i \in 1..(returned' - returned) |-> returned + i]
  OBVIOUS
<1>1. /\ rpc = "return" /\ rpc' = "idle" /\ rlen <= Unread
      /\ returned' = returned + rlen /\ tail' = Slot(tail, rlen)
      /\ tail' \in Slots /\ chunk' = user
      /\ user = [i \in 1..rlen |-> returned + i]
      /\ UNCHANGED <<head, buf, rlen, user, accepted>> /\ UNCHANGED writer
  BY AdvanceIsSlot DEF ReadReturn, Inv, Bounds, TypeOK, Reading, Reached, Slots
<1>2. /\ rlen \in Nat /\ Unread \in Nat /\ Unread < max_size
      /\ Unread' = Unread - rlen /\ tail \in Slots
      /\ returned \in Nat /\ returned' - returned = rlen
      /\ returned' \in returned..accepted
  BY <1>1 DEF Inv, Bounds, TypeOK, Ring, Unread, Slots
<1>3. ASSUME NEW k \in Nat, k + rlen < max_size
      PROVE  Slot(tail', k) = Slot(tail, rlen + k)
  BY <1>1, <1>2, <1>3, SlotAdds
<1>4. Bounds'
  <2>1. TypeOK'
    BY <1>1, <1>2 DEF Inv, Bounds, TypeOK, Slots, writer
  <2>2. Unread' \in Nat /\ Unread' + rlen = Unread
    BY <1>1, <1>2
  <2>3. Slot(tail', Unread') = Slot(tail, rlen + Unread')
    BY <1>2, <1>3, <2>2
  <2>4. head' = Slot(tail', Unread')
    BY <1>1, <1>2, <2>2, <2>3 DEF Inv, Bounds, Ring
  <2>5. Ring'
    BY <2>4, <1>2 DEF Ring, Slot
  <2>6. Writing'
    BY <1>1, <1>2 DEF Inv, Bounds, TypeOK, Writing, writer
  <2>7. Reading' /\ Wrapping'
    BY <1>1 DEF Inv, Bounds, Reading, Wrapping, writer
  <2>8. QED
    BY <2>1, <2>5, <2>6, <2>7 DEF Bounds
<1>5. UnreadIntact'
  <2>1. ASSUME NEW k \in 1..(Unread - rlen)
        PROVE  buf[Slot(tail', k - 1)] = returned + rlen + k
    <3>1. Slot(tail', k - 1) = Slot(tail, rlen + (k - 1))
      BY <1>2, <1>3
    <3>2. rlen + k \in 1..Unread /\ rlen + (k - 1) = (rlen + k) - 1
      BY <1>2
    <3>3. buf[Slot(tail, (rlen + k) - 1)] = returned + (rlen + k)
      BY <3>2 DEF Inv, UnreadIntact
    <3>4. QED
      BY <1>2, <3>1, <3>2, <3>3
  <2>2. QED
    BY <2>1, <1>1, <1>2 DEF UnreadIntact, Slot
<1>6. Copying' /\ Reached'
  BY <1>1 DEF Inv, Copying, Reached, writer, Slot
<1>7. QED
  BY <1>1, <1>2, <1>4, <1>5, <1>6 DEF Inv

LEMMA InvStep == Inv /\ [Next]_vars => Inv'
<1> SUFFICES ASSUME Inv, [Next]_vars
             PROVE  Inv'
  OBVIOUS
<1>1. CASE Write
  BY <1>1, WriteStartStep, WriteCopyStep, WriteWrapStep, WritePublishStep DEF Write
<1>2. CASE Read
  BY <1>2, ReadStartStep, ReadCopyStep, ReadWrapStep, ReadFaultStep,
     ReadReturnStep DEF Read
<1>3. CASE UNCHANGED vars
  BY <1>3 DEF vars, Inv, Bounds, TypeOK, Ring, Writing, Reading, Wrapping,
              UnreadIntact, Copying, Reached, Unread, Slot
<1>4. QED
  BY <1>1, <1>2, <1>3 DEF Next

LEMMA Invariance == Spec => []Inv
<1>1. QED
  BY InvInit, InvStep, PTL DEF Spec

-----------------------------------------------------------------------------
(* The indices, the copies and what a read returns stay in range. *)
THEOREM TypeCorrect == Spec => []TypeOK
<1>1. Inv => TypeOK
  BY DEF Inv, Bounds
<1>2. QED
  BY <1>1, Invariance, PTL

(* No interleaving of the two cores lets _write reach an unread byte
   (main.c:74-86), although it works from a tail it read earlier. *)
THEOREM NothingOverwritten == Spec => []UnreadIntact
<1>1. Inv => UnreadIntact
  BY DEF Inv
<1>2. QED
  BY <1>1, Invariance, PTL

(* _write refuses a whole message only when max_size - 1 bytes are unread. *)
THEOREM FullMeansFull == Spec => RefusedOnlyWhenFull
<1>1. Inv /\ [Next]_vars =>
        [wpc = "idle" /\ wpc' = "copy" /\ wlen' = 0 => Unread = max_size - 1]_vars
  <2> SUFFICES ASSUME Inv, Next, wpc = "idle", wpc' = "copy", wlen' = 0
               PROVE  Unread = max_size - 1
    BY DEF vars
  <2>1. WriteStart
    BY DEF Next, Write, Read, WriteCopy, WriteWrap, WritePublish, ReadStart,
           ReadCopy, ReadWrap, ReadFault, ReadReturn, writer
  <2>2. PICK len \in 1..MaxLen : wlen' = Lesser(len, Free(head, tail))
    BY <2>1 DEF WriteStart
  <2>3. Free(head, tail) = max_size - 1 - Unread /\ Unread \in Int
    BY Counted DEF Inv, Bounds, TypeOK, Unread
  <2>4. QED
    BY <2>2, <2>3 DEF Lesser
<1>2. QED
  BY <1>1, Invariance, PTL DEF Spec, RefusedOnlyWhenFull

(* The ring implements the pipe: what reads return, put end to end, is what
   _write accepted, and a read that fails consumes nothing. *)
THEOREM RingIsPipe == Spec => Implements
<1>1. Init => Pipe!Init
  BY DEF Init, Pipe!Init
<1>2. Inv /\ [Next]_vars => [Pipe!Next]_(Pipe!pvars)
  <2> SUFFICES ASSUME Inv, [Next]_vars
               PROVE  [Pipe!Next]_(Pipe!pvars)
    OBVIOUS
  <2>1. CASE WritePublish
    <3>1. /\ wlen + Unread <= max_size - 1 /\ wlen \in Nat /\ wlen <= max_size - 1
          /\ accepted \in Nat /\ returned \in Nat
      BY <2>1 DEF WritePublish, Inv, Bounds, TypeOK, Writing, Unread
    <3>2. wlen <= MaxLen
      BY <2>1 DEF WritePublish, Inv, Bounds, Writing
    <3>3. Pipe!Write
      BY <2>1, <3>1, <3>2 DEF WritePublish, Pipe!Write, Unread
    <3>4. QED
      BY <3>3 DEF Pipe!Next
  <2>2. CASE ReadReturn
    <3>1. Pipe!Read
      BY <2>2, ReadReturnStep DEF ReadReturn, Pipe!Read
    <3>2. QED
      BY <3>1 DEF Pipe!Next
  <2>3. CASE UNCHANGED <<accepted, returned, chunk>>
    BY <2>3 DEF Pipe!pvars
  <2>4. QED
    BY <2>1, <2>2, <2>3 DEF Next, Write, Read, WriteStart, WriteCopy, WriteWrap,
       ReadStart, ReadCopy, ReadWrap, ReadFault, vars
<1>3. QED
  BY <1>1, <1>2, Invariance, PTL DEF Spec, Implements, Pipe!Spec
-----------------------------------------------------------------------------
(* The handshake.  Wherever a flag that the microcontroller may take for this
   probe's is, in memory, on its way there or already seen, the ring is set
   up or on its way, or one of the two exceptions holds; and a flag answered
   while Linux waits was stored by this probe. *)
Agreed ==
  /\ "ring" \in stores \/ ring \/ pc = "unbound"
  /\ init_flag = MCUL \/ mcu \in {"answer", "print"} => ring \/ reordered \/ stale
  /\ pc # "barrier" => "flag" \notin stores
  /\ pc \in {"poll", "register", "bound"} => stores = {}
  /\ pc \in {"barrier", "poll"} /\ "flag" \notin stores /\ init_flag # MCUL
       => mcu = "print" /\ answered
  /\ pc \in {"register", "bound"} => mcu = "print" /\ answered

HandshakeInv == Handshake!TypeOK /\ Agreed

LEMMA HandshakeInit == Handshake!Init => HandshakeInv
BY DEF Handshake!Init, HandshakeInv, Handshake!TypeOK, Agreed

LEMMA HandshakeStep ==
  HandshakeInv /\ [Handshake!Next]_(Handshake!vars) => HandshakeInv'
<1> SUFFICES ASSUME HandshakeInv, [Handshake!Next]_(Handshake!vars)
             PROVE  HandshakeInv'
  OBVIOUS
<1> USE FlagsAssumption
    DEF HandshakeInv, Handshake!TypeOK, Agreed, Handshake!memory
<1>1. CASE Handshake!StoreRing
  BY <1>1 DEF Handshake!StoreRing, Handshake!Locations
<1>2. CASE Handshake!StoreFlag
  BY <1>2 DEF Handshake!StoreFlag, Handshake!Locations
<1>3. ASSUME NEW loc \in Handshake!Locations, Handshake!Reaches(loc)
      PROVE  HandshakeInv'
  BY <1>3 DEF Handshake!Reaches, Handshake!Locations
<1>4. CASE Handshake!Barrier \/ Handshake!Poll \/ Handshake!Register \/ Handshake!Remove
  BY <1>4 DEF Handshake!Barrier, Handshake!Poll, Handshake!Register, Handshake!Remove
<1>5. CASE Handshake!McuStart \/ Handshake!McuSees
  BY <1>5 DEF Handshake!McuStart, Handshake!McuSees
<1>6. CASE Handshake!McuAnswers
  BY <1>6 DEF Handshake!McuAnswers
<1>7. CASE UNCHANGED Handshake!vars
  BY <1>7 DEF Handshake!vars
<1>8. QED
  BY <1>1, <1>2, <1>3, <1>4, <1>5, <1>6, <1>7
     DEF Handshake!Next, Handshake!Linux, Handshake!Mcu

(* A step of the whole is one of the handshake, or leaves it alone. *)
LEMMA LogRingStep ==
  [LogRingNext]_everything => [Handshake!Next]_(Handshake!vars)
BY DEF LogRingNext, everything, agreeing, Handshake!vars, Handshake!memory

(* The device appears only when the microcontroller prints and has answered this
   probe; and it prints into a ring that is set up, unless the flag overtook the
   ring or an earlier boot had left it (mculog.c:142-154, main.c:174-177). *)
THEOREM HandshakeAgrees == LogRingSpec => []HandshakeHolds
<1>1. LogRingInit => HandshakeInv
  BY HandshakeInit DEF LogRingInit
<1>2. HandshakeInv => HandshakeHolds
  BY DEF HandshakeInv, Agreed, HandshakeHolds, Handshake!HandshakeHolds,
     Handshake!RingBeforePrint, Handshake!BoundIsAnswered
<1>3. QED
  BY <1>1, <1>2, HandshakeStep, LogRingStep, PTL DEF LogRingSpec
=============================================================================
