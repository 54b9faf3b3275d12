-------------------------- MODULE Keyboard_proofs --------------------------
(***************************************************************************)
(* The keyboard driver, for a ring of any size and any number of bytes,    *)
(* with the interrupt at every access of the main flow: keys are read in   *)
(* their order, the Shift keys are known, and the ring is the bounded      *)
(* queue of KeyQueue.                                                      *)
(***************************************************************************)
EXTENDS Keyboard, SequenceTheorems, TLAPS

-----------------------------------------------------------------------------
(* The ring *)

N == KEYBOARD_BUFFER_SIZE

\* How many slots there are from one to the other, round the ring.
Distance(from, to) == IF from <= to THEN to - from ELSE to - from + N

\* An index that runs beyond the last slot is back at the first.
LEMMA Wrap ==
    ASSUME NEW x \in Nat, x < 2 * N
    PROVE  x % N = IF x < N THEN x ELSE x - N
<1> DEFINE q == x \div N
<1>1. N \in Nat /\ N >= 2
  BY KeyboardAssumption DEF N
<1>2. q \in Int /\ x = N * q + (x % N) /\ x % N \in 0 .. N - 1
  BY <1>1
<1>3. q >= 0
  BY <1>1, <1>2
<1>4. q < 2
  <2>1. SUFFICES ASSUME q - 2 >= 0 PROVE FALSE
    BY <1>2
  <2>2. N * (q - 2) >= 0
    BY <1>1, <1>2, <2>1
  <2>3. N * q = N * (q - 2) + 2 * N
    BY <1>1, <1>2
  <2> QED
    BY <1>1, <1>2, <2>2, <2>3
<1>5. CASE q = 0
  BY <1>1, <1>2, <1>5
<1>6. CASE q = 1
  BY <1>1, <1>2, <1>6
<1> QED
  BY <1>2, <1>3, <1>4, <1>5, <1>6

LEMMA NextSlot ==
    ASSUME NEW s \in Slots
    PROVE  /\ (s + 1) % N \in Slots
           /\ (s + 1) % N = IF s = N - 1 THEN 0 ELSE s + 1
BY Wrap, KeyboardAssumption DEF Slots, N

LEMMA Distances ==
    ASSUME NEW s \in Slots, NEW t \in Slots
    PROVE  /\ Distance(s, t) \in 0 .. N - 1
           /\ (t - s + N) % N = Distance(s, t)
           /\ \A k \in 0 .. N - 1 :
                  (s + k) % N \in Slots /\ Distance(s, (s + k) % N) = k
           /\ (s + Distance(s, t)) % N = t
           /\ Distance(s, t) = 0 <=> s = t
<1>1. N \in Nat /\ N >= 2 /\ s \in Nat /\ t \in Nat /\ s < N /\ t < N
  BY KeyboardAssumption DEF Slots, N
<1>2. (t - s + N) % N = Distance(s, t)
  BY <1>1, Wrap DEF Distance
<1>3. \A k \in 0 .. N - 1 :
          (s + k) % N \in Slots /\ Distance(s, (s + k) % N) = k
  BY <1>1, Wrap DEF Distance, Slots, N
<1>4. (s + Distance(s, t)) % N = t
  BY <1>1, Wrap DEF Distance
<1> QED
  BY <1>1, <1>2, <1>3, <1>4 DEF Distance

Buffers == [Slots -> KeyRecords]
Stored(buf, slot, key) == [buf EXCEPT ![slot] = key]

\* The keys from slot tail up to slot head of the buffer buf.
Ring(buf, head, tail) ==
    [n \in 1 .. Distance(tail, head) |-> buf[(tail + n - 1) % N]]

LEMMA RingSlots ==
    ASSUME NEW head \in Slots, NEW tail \in Slots, NEW n \in 1 .. Distance(tail, head)
    PROVE  (tail + n - 1) % N \in Slots
<1>1. N \in Nat /\ Distance(tail, head) \in 0 .. N - 1 /\ tail \in Nat
  BY Distances, KeyboardAssumption DEF N, Slots
<1>2. n - 1 \in 0 .. N - 1 /\ tail + (n - 1) = tail + n - 1
  BY <1>1
<1> QED
  BY <1>2, Distances

LEMMA RingTyped ==
    ASSUME NEW buf \in Buffers, NEW head \in Slots, NEW tail \in Slots
    PROVE  Ring(buf, head, tail) \in Seq(KeyRecords) /\ Len(Ring(buf, head, tail)) = Distance(tail, head)
<1> DEFINE d == Distance(tail, head)
           r == Ring(buf, head, tail)
<1>1. N \in Nat /\ d \in 0 .. N - 1
  BY Distances, KeyboardAssumption DEF N
<1>2. \A n \in 1 .. d : (tail + n - 1) % N \in Slots
  BY RingSlots
<1>3. r \in [1 .. d -> KeyRecords]
  BY <1>2 DEF Ring, Buffers
<1> QED
  BY <1>1, <1>3

LEMMA RingEmpty ==
    ASSUME NEW buf \in Buffers, NEW head \in Slots, NEW tail \in Slots
    PROVE  Ring(buf, head, tail) = <<>> <=> head = tail
<1>1. Distance(tail, head) \in Nat /\ (Distance(tail, head) = 0 <=> head = tail)
  BY Distances, KeyboardAssumption DEF N
<1>2. Ring(buf, head, tail) \in Seq(KeyRecords) /\ Len(Ring(buf, head, tail)) = Distance(tail, head)
  BY RingTyped
<1> QED
  BY <1>1, <1>2, EmptySeq

\* A key stored at the head is appended, unless the head reaches the tail.
LEMMA RingPush ==
    ASSUME NEW buf \in Buffers, NEW head \in Slots, NEW tail \in Slots,
           NEW key \in KeyRecords, (head + 1) % N # tail,
           NEW head1 \in Slots, head1 = (head + 1) % N
    PROVE  /\ Distance(tail, head) < N - 1
           /\ Ring(Stored(buf, head, key), head1, tail) = Append(Ring(buf, head, tail), key)
<1> DEFINE d == Distance(tail, head)
           r == Ring(buf, head, tail)
           buf1 == Stored(buf, head, key)
           r1 == Ring(buf1, head1, tail)
<1>1. N \in Nat /\ tail \in Nat /\ tail < N /\ head \in Nat /\ head < N
  BY KeyboardAssumption DEF N, Slots
<1>2. d < N - 1 /\ head1 \in Slots /\ Distance(tail, head1) = d + 1
  <2>1. head1 \in Slots /\ head1 = IF head = N - 1 THEN 0 ELSE head + 1
    BY NextSlot
  <2>2. head1 # tail
    OBVIOUS
  <2> QED
    BY <1>1, <2>1, <2>2 DEF Distance
<1>3. d \in 0 .. N - 1 /\ (tail + d) % N = head
  BY Distances
<1>4. buf1 \in Buffers
  BY DEF Buffers, Stored
<1>5. /\ r \in Seq(KeyRecords) /\ Len(r) = d
      /\ \A n \in 1 .. d : /\ (tail + n - 1) % N \in Slots
                           /\ r[n] = buf[(tail + n - 1) % N]
  BY RingTyped, RingSlots DEF Ring
<1>6. /\ r1 \in Seq(KeyRecords) /\ Len(r1) = d + 1
      /\ \A n \in 1 .. d + 1 : r1[n] = buf1[(tail + n - 1) % N]
  <2>1. head1 \in Slots /\ buf1 \in Buffers
    BY <1>2, <1>4
  <2>2. /\ Ring(buf1, head1, tail) \in Seq(KeyRecords)
        /\ Len(Ring(buf1, head1, tail)) = Distance(tail, head1)
    BY RingTyped, <2>1
  <2>3. \A n \in 1 .. Distance(tail, head1) : r1[n] = buf1[(tail + n - 1) % N]
    BY DEF Ring
  <2> QED
    BY <2>2, <2>3, <1>2
<1>7. \A n \in 1 .. d : (tail + n - 1) % N # head
  <2> SUFFICES ASSUME NEW n \in 1 .. d PROVE (tail + n - 1) % N # head
    OBVIOUS
  <2>1. n - 1 \in 0 .. N - 1 /\ tail + (n - 1) = tail + n - 1 /\ n - 1 < d
    BY <1>1, <1>3
  <2>2. Distance(tail, (tail + n - 1) % N) = n - 1
    BY <2>1, Distances
  <2> QED
    BY <2>1, <2>2
<1>8. \A n \in 1 .. d : r1[n] = r[n]
  <2> SUFFICES ASSUME NEW n \in 1 .. d PROVE r1[n] = r[n]
    OBVIOUS
  <2>1. r1[n] = buf1[(tail + n - 1) % N]
    <3> HIDE DEF r1, d
    <3>1. n \in 1 .. d + 1
      BY <1>3
    <3> QED
      BY <3>1, <1>6
  <2>2. buf1[(tail + n - 1) % N] = buf[(tail + n - 1) % N]
    BY <1>5, <1>7 DEF Stored, Buffers
  <2> QED
    BY <1>5, <2>1, <2>2
<1>9. r1[d + 1] = key
  <2>1. tail + (d + 1) - 1 = tail + d /\ d + 1 \in 1 .. d + 1
    BY <1>1, <1>3
  <2> QED
    BY <2>1, <1>1, <1>3, <1>6 DEF Buffers, Stored
<1>10. /\ Append(r, key) \in Seq(KeyRecords) /\ Len(Append(r, key)) = d + 1
       /\ \A n \in 1 .. d : Append(r, key)[n] = r[n]
       /\ Append(r, key)[d + 1] = key
  BY <1>5, AppendProperties
<1> HIDE DEF r, r1
<1>11. \A n \in 1 .. d + 1 : r1[n] = Append(r, key)[n]
  <2> SUFFICES ASSUME NEW n \in 1 .. d + 1 PROVE r1[n] = Append(r, key)[n]
    OBVIOUS
  <2> HIDE DEF d
  <2>1. n \in 1 .. d \/ n = d + 1
    BY <1>3
  <2> QED
    BY <2>1, <1>8, <1>9, <1>10
<1>12. r1 = Append(r, key)
  BY <1>6, <1>10, <1>11, SeqEqual
<1> QED
  BY <1>2, <1>12 DEF r, r1

\* The head has reached the tail when every other slot is taken.
LEMMA RingFull ==
    ASSUME NEW head \in Slots, NEW tail \in Slots, (head + 1) % N = tail
    PROVE  Distance(tail, head) = N - 1
BY NextSlot, KeyboardAssumption DEF Distance, N, Slots

\* The key at the tail is the first, and the tail's next slot starts the others.
LEMMA RingPop ==
    ASSUME NEW buf \in Buffers, NEW head \in Slots, NEW tail \in Slots,
           head # tail
    PROVE  /\ Ring(buf, head, tail) # <<>>
           /\ Head(Ring(buf, head, tail)) = buf[tail]
           /\ Ring(buf, head, (tail + 1) % N) = Tail(Ring(buf, head, tail))
<1> DEFINE d == Distance(tail, head)
           r == Ring(buf, head, tail)
           tail1 == (tail + 1) % N
           r1 == Ring(buf, head, tail1)
<1>1. N \in Nat /\ tail \in Nat /\ tail < N /\ head \in Nat /\ head < N
  BY KeyboardAssumption DEF N, Slots
<1>2. tail1 \in Slots /\ Distance(tail1, head) = d - 1 /\ d \in 1 .. N - 1
  <2>1. tail1 \in Slots /\ tail1 = IF tail = N - 1 THEN 0 ELSE tail + 1
    BY NextSlot
  <2> HIDE DEF tail1
  <2> QED
    BY <1>1, <2>1 DEF Distance
<1>3. /\ r \in Seq(KeyRecords) /\ Len(r) = d
      /\ \A n \in 1 .. d : r[n] = buf[(tail + n - 1) % N]
  BY RingTyped DEF Ring
<1>4. /\ r1 \in Seq(KeyRecords) /\ Len(r1) = d - 1
      /\ \A n \in 1 .. d - 1 : r1[n] = buf[(tail1 + n - 1) % N]
  <2> HIDE DEF tail1
  <2>1. /\ Ring(buf, head, tail1) \in Seq(KeyRecords)
        /\ Len(Ring(buf, head, tail1)) = Distance(tail1, head)
    BY RingTyped, <1>2
  <2>2. \A n \in 1 .. Distance(tail1, head) : r1[n] = buf[(tail1 + n - 1) % N]
    BY DEF Ring
  <2> QED
    BY <2>1, <2>2, <1>2
<1>5. r[1] = buf[tail]
  <2>1. tail + 1 - 1 = tail /\ 1 \in 1 .. d /\ tail < 2 * N
    BY <1>1, <1>2
  <2> QED
    BY <2>1, <1>1, <1>3, Wrap
<1>6. \A n \in 1 .. d - 1 : r1[n] = r[n + 1]
  <2> SUFFICES ASSUME NEW n \in 1 .. d - 1 PROVE r1[n] = r[n + 1]
    OBVIOUS
  <2>1. n \in Nat /\ n <= N - 2 /\ n + 1 \in 1 .. d
    BY <1>1, <1>2
  <2>2. tail1 = IF tail = N - 1 THEN 0 ELSE tail + 1
    BY NextSlot
  <2> HIDE DEF tail1
  <2>3. (tail1 + n - 1) % N = (tail + (n + 1) - 1) % N
    <3>1. CASE tail = N - 1
      <4>1. tail1 + n - 1 = n - 1 /\ tail + (n + 1) - 1 = n - 1 + N
        BY <1>1, <2>1, <2>2, <3>1
      <4>2. /\ n - 1 \in Nat /\ n - 1 < N /\ n - 1 < 2 * N
        BY <1>1, <2>1
      <4>3. (n - 1) % N = n - 1
        BY <4>2, Wrap
      <4> DEFINE x == n - 1 + N
      <4>4. x % N = n - 1
        <5>1. x \in Nat /\ x < 2 * N /\ ~(x < N) /\ x - N = n - 1
          BY <1>1, <2>1 DEF x
        <5> HIDE DEF x
        <5> QED
          BY <5>1, Wrap
      <4> QED
        BY <4>1, <4>3, <4>4
    <3>2. CASE tail # N - 1
      <4>1. tail1 + n - 1 = tail + (n + 1) - 1
        BY <1>1, <2>1, <2>2, <3>2
      <4> QED
        BY <4>1
    <3> QED
      BY <3>1, <3>2
  <2> QED
    BY <1>3, <1>4, <2>1, <2>3
<1>7. r # <<>>
  BY <1>2, <1>3
<1>8. /\ Head(r) = r[1] /\ Tail(r) \in Seq(KeyRecords) /\ Len(Tail(r)) = d - 1
      /\ \A n \in 1 .. d - 1 : Tail(r)[n] = r[n + 1]
  BY <1>3, <1>7, HeadTailProperties
<1> HIDE DEF r, r1
<1>9. r1 = Tail(r)
  BY <1>2, <1>4, <1>6, <1>8, SeqEqual
<1> QED
  BY <1>5, <1>7, <1>8, <1>9 DEF r, r1

-----------------------------------------------------------------------------
(* The inductive invariant *)

BootPhases == {"ioapic_init", "keyboard_init", "read_config", "enable", "wait_ack",
               "driver_init", "driver_drain", "boot"}
Phases == BootPhases \cup {"idle", "pop_copy", "pop_advance", "clear_tail"}

Bytes == {b \in [id : 0 .. MaxTyped + 2, key : KeyNames \cup {"config", "ack"},
                 pressed : BOOLEAN] : b.key = "ack" => ~b.pressed}

\* Bytes are numbered as they are sent, and keep their order on the line and
\* in the controller's output buffer.
LineInv ==
    /\ pc \in Phases
    /\ line \in Seq(Bytes) /\ port \in [full : BOOLEAN, byte : Bytes]
    /\ sent <= MaxTyped + Answers
    /\ port.byte.id <= sent
    /\ port.full \/ irr => port.byte.id >= 1
    /\ \A n \in 1 .. Len(line) : port.byte.id < line[n].id /\ line[n].id <= sent
    /\ \A m, n \in 1 .. Len(line) : m < n => line[m].id < line[n].id

\* The boot sequence leaves the driver as it is at first.
BootInv ==
    pc \in BootPhases =>
        /\ buffer_head = 0 /\ buffer_tail = 0
        /\ current_key = NoKey /\ keyboard_state = NoModifiers

\* What the reader knows between its steps: a key it has seen stays in its slot,
\* and the head does not pass the tail half way through keyboard_clear_buffer.
ReaderInv ==
    /\ pc \in {"pop_copy", "pop_advance"} => buffer_head # buffer_tail
    /\ pc = "pop_advance" => current_key = key_buffer[buffer_tail]
    /\ pc = "clear_tail" => buffer_tail = 0 \/ buffer_head < buffer_tail

\* Nothing in the buffer is younger than the controller's byte, and an interrupt
\* that is pending brings one that is younger.
FreshInv ==
    /\ current_key.id <= port.byte.id
    /\ irr => current_key.id < port.byte.id
    /\ \A n \in 1 .. Len(Contents) :
           /\ Contents[n].id <= port.byte.id
           /\ irr => Contents[n].id < port.byte.id

\* An interrupt without a byte is one whose byte the boot sequence has taken, and
\* comes before any key was handled.
StaleInv ==
    irr /\ ~port.full => port.byte.id \in taken /\ keyboard_state = NoModifiers

\* The last byte of the key that is on its way says where the key is; if none is,
\* the driver knows.
Says(byte, key) == down[key] = IF byte.pressed THEN byte.id ELSE 0

OnLine(key) == \E n \in 1 .. Len(line) : line[n].key = key

KeyInv(key) ==
    /\ \A n \in 1 .. Len(line) :
           line[n].key = key /\ (\A m \in n + 1 .. Len(line) : line[m].key # key)
               => Says(line[n], key)
    /\ ~OnLine(key) =>
           IF (port.full \/ irr) /\ port.byte.key = key
             THEN Says(port.byte, key)
             ELSE \/ down[key] \in taken \ {0}
                  \/ keyboard_state[key] <=> down[key] # 0

ModifierInv == \A key \in KeyNames \cap {KEY_LSHIFT, KEY_RSHIFT} : KeyInv(key)

IInv == TypeOK /\ LineInv /\ BootInv /\ ReaderInv /\ InOrder /\ FreshInv /\ StaleInv
        /\ ModifierInv

-----------------------------------------------------------------------------
(* What the steps do to the keys in the buffer *)

\* The slot of the oldest key.
Start == IF pc = "clear_tail" THEN 0 ELSE buffer_tail

LEMMA ZeroIsSlot == 0 \in Slots
BY KeyboardAssumption DEF Slots

LEMMA RingFrom ==
    ASSUME NEW buf, NEW head \in Slots, NEW tail \in Slots
    PROVE  [n \in 1 .. (head - tail + KEYBOARD_BUFFER_SIZE) % KEYBOARD_BUFFER_SIZE |->
                buf[(tail + n - 1) % KEYBOARD_BUFFER_SIZE]] = Ring(buf, head, tail)
<1>1. (head - tail + N) % N = Distance(tail, head)
  BY Distances
<1> QED
  BY <1>1 DEF Ring, N

LEMMA ContentsNow ==
    ASSUME buffer_head \in Slots, buffer_tail \in Slots
    PROVE  Start \in Slots /\ Contents = Ring(key_buffer, buffer_head, Start)
BY RingFrom, ZeroIsSlot DEF Contents, From, Start

LEMMA ContentsThen ==
    ASSUME buffer_head' \in Slots, buffer_tail' \in Slots
    PROVE  Start' \in Slots /\ Contents' = Ring(key_buffer', buffer_head', Start')
BY RingFrom, ZeroIsSlot DEF Contents, From, Start

LEMMA ContentsTyped ==
    ASSUME TypeOK
    PROVE  /\ Contents \in Seq(KeyRecords) /\ Len(Contents) \in 0 .. N - 1
           /\ Len(Contents) = Distance(Start, buffer_head)
           /\ \A n \in 1 .. Len(Contents) : Contents[n] \in KeyRecords
           /\ Contents = <<>> <=> buffer_head = Start
<1>1. /\ key_buffer \in Buffers /\ buffer_head \in Slots
      /\ buffer_tail \in Slots
  BY DEF TypeOK, Buffers
<1>2. Start \in Slots /\ Contents = Ring(key_buffer, buffer_head, Start)
  BY <1>1, ContentsNow
<1>3. Contents \in Seq(KeyRecords) /\ Len(Contents) = Distance(Start, buffer_head)
  BY <1>1, <1>2, RingTyped
<1>4. Len(Contents) \in 0 .. N - 1
  BY <1>1, <1>2, <1>3, Distances
<1>5. Contents = <<>> <=> buffer_head = Start
  BY <1>1, <1>2, RingEmpty
<1> QED
  BY <1>3, <1>4, <1>5, ElementOfSeq

LEMMA ContentsSame ==
    ASSUME UNCHANGED bufferVars, Start' = Start
    PROVE  Contents' = Contents
BY DEF Contents, From, Start, bufferVars

\* buffer_push appends its key, or loses it when the ring is full or is being
\* cleared; and it does not disturb the reader.
LEMMA PushEffect ==
    ASSUME TypeOK, ReaderInv, NEW key \in KeyRecords, BufferPush(key),
           UNCHANGED <<pc, buffer_tail, current_key>>
    PROVE  /\ key_buffer' \in Buffers /\ buffer_head' \in Slots
           /\ lost' \in Nat
           /\ ReaderInv'
           /\ \/ /\ Len(Contents) < N - 1
                 /\ Contents' = Append(Contents, key)
                 /\ lost' = lost
              \/ /\ Len(Contents) = N - 1 \/ pc = "clear_tail"
                 /\ Contents' = Contents
                 /\ lost' = lost + 1
<1> DEFINE next == (buffer_head + 1) % N
<1>1. /\ key_buffer \in Buffers /\ buffer_head \in Slots
      /\ buffer_tail \in Slots /\ lost \in Nat
  BY DEF TypeOK, Buffers
<1>2. next \in Slots /\ next = IF buffer_head = N - 1 THEN 0 ELSE buffer_head + 1
  BY <1>1, NextSlot
<1>3. /\ Start \in Slots /\ Contents = Ring(key_buffer, buffer_head, Start)
      /\ Len(Contents) = Distance(Start, buffer_head)
  BY <1>1, ContentsNow, ContentsTyped
<1>4. N \in Nat /\ N >= 2 /\ buffer_head \in 0 .. N - 1 /\ buffer_tail \in 0 .. N - 1
  BY <1>1, KeyboardAssumption DEF N, Slots
<1>5. Start' = Start
  BY DEF Start
<1>6. CASE next # buffer_tail
  <2>1. /\ key_buffer' = [key_buffer EXCEPT ![buffer_head] = key]
        /\ buffer_head' = next /\ lost' = lost
    BY <1>6 DEF BufferPush, N
  <2>2. key_buffer' \in Buffers /\ buffer_head' \in Slots /\ buffer_tail' \in Slots
    BY <1>1, <1>2, <2>1 DEF Buffers
  <2>3. ReaderInv'
    <3> HIDE DEF next
    <3>1. pc \in {"pop_copy", "pop_advance"} => buffer_head' # buffer_tail'
      BY <1>6, <2>1
    <3>2. pc = "pop_advance" => current_key' = key_buffer'[buffer_tail']
      BY <1>1, <2>1 DEF ReaderInv
    <3>3. pc = "clear_tail" => buffer_tail' = 0 \/ buffer_head' < buffer_tail'
      BY <1>2, <1>4, <1>6, <2>1 DEF ReaderInv
    <3> QED
      BY <3>1, <3>2, <3>3 DEF ReaderInv
  <2>4. next # Start
    <3> HIDE DEF next
    <3> QED
      BY <1>2, <1>4, <1>6 DEF Start, ReaderInv
  <2>5. /\ Distance(Start, buffer_head) < N - 1
        /\ Ring(key_buffer', buffer_head', Start) = Append(Contents, key)
    <3>1. Start \in Slots
      BY <1>3
    <3>2. /\ Distance(Start, buffer_head) < N - 1
          /\ Ring(Stored(key_buffer, buffer_head, key), buffer_head', Start)
                 = Append(Ring(key_buffer, buffer_head, Start), key)
      BY <1>1, <2>1, <2>2, <2>4, <3>1, RingPush
    <3>3. key_buffer' = Stored(key_buffer, buffer_head, key)
      BY <2>1 DEF Stored
    <3> QED
      BY <1>3, <3>2, <3>3
  <2>6. Contents' = Append(Contents, key)
    BY <1>5, <2>2, <2>5, ContentsThen
  <2> QED
    BY <1>1, <1>3, <2>1, <2>2, <2>3, <2>5, <2>6
<1>7. CASE next = buffer_tail
  <2>1. UNCHANGED bufferVars /\ lost' = lost + 1
    BY <1>7 DEF BufferPush, N, bufferVars
  <2>2. Contents' = Contents
    BY <1>5, <2>1, ContentsSame
  <2>3. Len(Contents) = N - 1 \/ pc = "clear_tail"
    BY <1>1, <1>3, <1>7, RingFull DEF Start
  <2>4. ReaderInv'
    BY <2>1 DEF ReaderInv, bufferVars
  <2> QED
    BY <1>1, <2>1, <2>2, <2>3, <2>4 DEF bufferVars
<1> QED
  BY <1>6, <1>7

\* The key that the reader looks at is the oldest, and the one it takes away.
LEMMA PopEffect ==
    ASSUME TypeOK, buffer_head # buffer_tail, pc # "clear_tail"
    PROVE  /\ Contents # <<>> /\ Head(Contents) = key_buffer[buffer_tail]
           /\ PopAdvance => Contents' = Tail(Contents)
<1>1. /\ key_buffer \in Buffers /\ buffer_head \in Slots
      /\ buffer_tail \in Slots
  BY DEF TypeOK, Buffers
<1>2. Start = buffer_tail /\ Contents = Ring(key_buffer, buffer_head, buffer_tail)
  BY <1>1, ContentsNow DEF Start
<1>3. /\ Contents # <<>> /\ Head(Contents) = key_buffer[buffer_tail]
      /\ Ring(key_buffer, buffer_head, (buffer_tail + 1) % N) = Tail(Contents)
  BY <1>1, <1>2, RingPop
<1>4. ASSUME PopAdvance PROVE Contents' = Tail(Contents)
  <2>1. /\ buffer_tail' = (buffer_tail + 1) % N /\ Start' = buffer_tail'
        /\ key_buffer' = key_buffer /\ buffer_head' = buffer_head
    BY <1>4 DEF PopAdvance, Start, N
  <2>2. buffer_tail' \in Slots
    BY <1>1, <2>1, NextSlot
  <2> QED
    BY <1>1, <1>3, <2>1, <2>2, ContentsThen
<1> QED
  BY <1>3, <1>4

LEMMA ClearEffect ==
    ASSUME TypeOK
    PROVE  /\ ClearHead => Contents' = <<>>
           /\ ClearTail => Contents' = Contents
<1>1. /\ key_buffer \in Buffers /\ buffer_head \in Slots
      /\ buffer_tail \in Slots
  BY DEF TypeOK, Buffers
<1>2. ASSUME ClearHead PROVE Contents' = <<>>
  <2>1. /\ buffer_head' = 0 /\ Start' = 0 /\ buffer_tail' = buffer_tail
        /\ key_buffer' = key_buffer
    BY <1>2 DEF ClearHead, Start
  <2>2. Contents' = Ring(key_buffer, 0, 0)
    BY <1>1, <2>1, ZeroIsSlot, ContentsThen
  <2> QED
    BY <1>1, <2>2, ZeroIsSlot, RingEmpty
<1>3. ASSUME ClearTail PROVE Contents' = Contents
  <2>1. Start' = 0 /\ Start = 0 /\ buffer_head' = buffer_head /\ key_buffer' = key_buffer
        /\ buffer_tail' = 0
    BY <1>3 DEF ClearTail, Start
  <2> QED
    BY <1>1, <2>1, ZeroIsSlot, ContentsNow, ContentsThen
<1> QED
  BY <1>2, <1>3

-----------------------------------------------------------------------------
(* Bytes on their way *)

LEMMA Names ==
    /\ \A key \in KeyNames : key # "config" /\ key # "ack" /\ key # "none"
    /\ MaxTyped \in Nat
BY KeyboardAssumption DEF KEY_LSHIFT, KEY_RSHIFT, KEY_CAPSLOCK, Letter

LEMMA AnswersTyped == Answers \in 0 .. 2 /\ Answers' \in 0 .. 2
BY DEF Answers

\* A byte is sent.
LEMMA LineGrows ==
    ASSUME LineInv, sent \in Nat, NEW byte \in Bytes, byte.id = sent + 1,
           sent' = sent + 1, line' = Append(line, byte), UNCHANGED port,
           irr' => irr \/ port.full, pc' \in Phases, sent' <= MaxTyped + Answers'
    PROVE  LineInv'
<1>1. /\ line \in Seq(Bytes) /\ Len(line) \in Nat /\ port.byte \in Bytes
      /\ \A n \in 1 .. Len(line) : line[n] \in Bytes
  BY LenProperties, ElementOfSeq DEF LineInv
<1>2. /\ line' \in Seq(Bytes) /\ Len(line') = Len(line) + 1
      /\ \A n \in 1 .. Len(line) : line'[n] = line[n]
      /\ line'[Len(line) + 1] = byte
  BY <1>1, AppendProperties
<1>3. port.byte.id \in Nat /\ \A n \in 1 .. Len(line) : line[n].id \in Nat
  BY <1>1, Names DEF Bytes
<1>4. \A n \in 1 .. Len(line') : n \in 1 .. Len(line) \/ n = Len(line) + 1
  BY <1>1, <1>2
<1>5. \A n \in 1 .. Len(line') : port'.byte.id < line'[n].id /\ line'[n].id <= sent'
  BY <1>2, <1>3, <1>4 DEF LineInv
<1>6. \A m, n \in 1 .. Len(line') : m < n => line'[m].id < line'[n].id
  <2> SUFFICES ASSUME NEW m \in 1 .. Len(line'), NEW n \in 1 .. Len(line'), m < n
               PROVE  line'[m].id < line'[n].id
    OBVIOUS
  <2>1. m \in 1 .. Len(line)
    BY <1>1, <1>2
  <2>2. CASE n \in 1 .. Len(line)
    BY <1>2, <2>1, <2>2 DEF LineInv
  <2>3. CASE n = Len(line) + 1
    BY <1>2, <1>3, <2>1, <2>3 DEF LineInv
  <2> QED
    BY <1>4, <2>2, <2>3
<1>7. port'.byte.id <= sent' /\ (port'.full \/ irr' => port'.byte.id >= 1)
  BY <1>3 DEF LineInv
<1> QED
  BY <1>2, <1>5, <1>6, <1>7 DEF LineInv

\* A byte is read, or nothing happens to it.
LEMMA LineStays ==
    ASSUME LineInv, UNCHANGED <<line, sent>>, sent \in Nat,
           port' = port \/ port' = [port EXCEPT !.full = FALSE],
           irr' => irr \/ port.full, pc' \in Phases, Answers <= Answers'
    PROVE  LineInv'
<1>1. /\ port' \in [full : BOOLEAN, byte : Bytes] /\ port'.byte = port.byte
      /\ port'.full => port.full
  BY DEF LineInv
<1>2. sent' <= MaxTyped + Answers'
  BY AnswersTyped, Names DEF LineInv
<1> QED
  BY <1>1, <1>2 DEF LineInv

\* The first byte on the line reaches the controller's output buffer.
LEMMA LineLoads ==
    ASSUME LineInv, Load, sent \in Nat
    PROVE  /\ LineInv'
           /\ line[1] \in Bytes /\ port'.byte = line[1] /\ port'.full
           /\ port.byte \in Bytes /\ port.byte.id < line[1].id
           /\ Len(line) \in Nat \ {0} /\ Len(line') = Len(line) - 1
           /\ \A n \in 1 .. Len(line') : line'[n] = line[n + 1]
<1>1. /\ line \in Seq(Bytes) /\ line # <<>> /\ Len(line) \in Nat \ {0}
      /\ port.byte \in Bytes
      /\ \A n \in 1 .. Len(line) : line[n] \in Bytes
  BY LenProperties, ElementOfSeq, EmptySeq DEF LineInv, Load
<1>2. /\ line' \in Seq(Bytes) /\ Len(line') = Len(line) - 1
      /\ \A n \in 1 .. Len(line') : line'[n] = line[n + 1]
      /\ Head(line) = line[1]
  BY <1>1, HeadTailProperties DEF Load
<1>3. port' = [full |-> TRUE, byte |-> line[1]]
  BY <1>2 DEF Load
<1>4. /\ port.byte.id \in Nat /\ \A n \in 1 .. Len(line) : line[n].id \in Nat
  BY <1>1, Names DEF Bytes
<1>5. 1 \in 1 .. Len(line) /\ \A n \in 1 .. Len(line') : n + 1 \in 1 .. Len(line) /\ 1 < n + 1
  BY <1>1, <1>2
<1>6. port' \in [full : BOOLEAN, byte : Bytes] /\ port'.byte = line[1] /\ port'.full
  BY <1>1, <1>3, <1>5
<1>7. port.byte.id < line[1].id /\ line[1].id <= sent
  BY <1>5 DEF LineInv
<1>8. sent' = sent /\ Answers' = Answers /\ pc' = pc
  BY DEF Load, Answers, RaiseIrq, apicVars
<1>9. \A n \in 1 .. Len(line') : port'.byte.id < line'[n].id /\ line'[n].id <= sent'
  BY <1>2, <1>5, <1>6, <1>8 DEF LineInv
<1>10. \A m, n \in 1 .. Len(line') : m < n => line'[m].id < line'[n].id
  <2> SUFFICES ASSUME NEW m \in 1 .. Len(line'), NEW n \in 1 .. Len(line'), m < n
               PROVE  line'[m].id < line'[n].id
    OBVIOUS
  <2>1. m + 1 \in 1 .. Len(line) /\ n + 1 \in 1 .. Len(line) /\ m + 1 < n + 1
    BY <1>1, <1>5
  <2>2. line[m + 1].id < line[n + 1].id
    BY <2>1 DEF LineInv
  <2> QED
    BY <1>2, <2>2
<1>11. port'.byte.id <= sent' /\ port'.byte.id >= 1
  BY <1>4, <1>5, <1>6, <1>7, <1>8
<1> QED
  BY <1>1, <1>2, <1>6, <1>7, <1>8, <1>9, <1>10, <1>11 DEF LineInv

ShiftKeys == KeyNames \cap {KEY_LSHIFT, KEY_RSHIFT}

\* A byte that is sent last says where its key is, and nothing of another key.
LEMMA KeyGrows ==
    ASSUME LineInv, NEW key \in ShiftKeys, KeyInv(key),
           NEW byte \in Bytes, line' = Append(line, byte),
           UNCHANGED <<keyboard_state, taken>>, UNCHANGED port,
           irr' => irr \/ port.full, irr => irr',
           down'[key] = IF byte.key # key THEN down[key]
                        ELSE IF byte.pressed THEN byte.id ELSE 0
    PROVE  KeyInv(key)'
<1>1. line \in Seq(Bytes) /\ Len(line) \in Nat
  BY LenProperties DEF LineInv
<1>2. /\ line' \in Seq(Bytes) /\ Len(line') = Len(line) + 1
      /\ \A n \in 1 .. Len(line) : line'[n] = line[n]
      /\ line'[Len(line) + 1] = byte
  BY <1>1, AppendProperties
<1> DEFINE last == Len(line) + 1
<1>3. last \in 1 .. Len(line') /\ \A n \in 1 .. Len(line) : n \in 1 .. Len(line') /\ last \in n + 1 .. Len(line')
  BY <1>1, <1>2
<1>4. ASSUME NEW n \in 1 .. Len(line'), line'[n].key = key,
             \A m \in n + 1 .. Len(line') : line'[m].key # key
      PROVE  Says(line[n], key)'
  <2>1. CASE n = last
    BY <1>2, <1>4, <2>1 DEF Says
  <2>2. CASE n \in 1 .. Len(line)
    <3>1. byte.key # key
      BY <1>2, <1>3, <1>4, <2>2
    <3>2. \A m \in n + 1 .. Len(line) : line[m].key # key
      BY <1>1, <1>2, <1>4, <2>2
    <3>3. Says(line[n], key)
      BY <1>2, <1>4, <2>2, <3>2 DEF KeyInv
    <3> QED
      BY <1>2, <2>2, <3>1, <3>3 DEF Says
  <2> QED
    BY <1>1, <1>2, <2>1, <2>2
<1>5. ASSUME ~OnLine(key)'
      PROVE  IF (port'.full \/ irr') /\ port'.byte.key = key
               THEN Says(port.byte, key)'
               ELSE \/ down'[key] \in taken' \ {0}
                    \/ keyboard_state'[key] <=> down'[key] # 0
  <2>1. byte.key # key /\ ~OnLine(key)
    BY <1>2, <1>3, <1>5 DEF OnLine
  <2> QED
    BY <2>1 DEF KeyInv, Says
<1> QED
  BY <1>4, <1>5 DEF KeyInv, Says

LEMMA ModifiersReleased ==
    \A key \in ShiftKeys : NoModifiers[key] = FALSE
BY DEF ShiftKeys, NoModifiers

\* What is known of a key moves along with its last byte.
LEMMA KeyLoads ==
    ASSUME LineInv, StaleInv, sent \in Nat, NEW key \in ShiftKeys, KeyInv(key), Load
    PROVE  KeyInv(key)'
<1>1. /\ line[1] \in Bytes /\ port'.byte = line[1] /\ port'.full
      /\ port.byte \in Bytes /\ port.byte.id < line[1].id
      /\ Len(line) \in Nat \ {0} /\ Len(line') = Len(line) - 1
      /\ \A n \in 1 .. Len(line') : line'[n] = line[n + 1]
  BY LineLoads
<1>2. UNCHANGED <<down, taken, keyboard_state>> /\ ~port.full
  BY DEF Load, driverVars
<1>3. ASSUME NEW n \in 1 .. Len(line'), line'[n].key = key,
             \A m \in n + 1 .. Len(line') : line'[m].key # key
      PROVE  Says(line[n], key)'
  <2>1. n + 1 \in 1 .. Len(line) /\ line[n + 1].key = key
    BY <1>1, <1>3
  <2>2. ASSUME NEW m \in n + 1 + 1 .. Len(line) PROVE line[m].key # key
    <3>1. m - 1 \in n + 1 .. Len(line') /\ m - 1 \in 1 .. Len(line') /\ m - 1 + 1 = m
      BY <1>1, <2>2
    <3> QED
      BY <1>1, <1>3, <3>1
  <2>3. Says(line[n + 1], key)
    BY <2>1, <2>2 DEF KeyInv
  <2> QED
    BY <1>1, <1>2, <2>3 DEF Says
<1>4. ASSUME ~OnLine(key)'
      PROVE  IF (port'.full \/ irr') /\ port'.byte.key = key
               THEN Says(port.byte, key)'
               ELSE \/ down'[key] \in taken' \ {0}
                    \/ keyboard_state'[key] <=> down'[key] # 0
  <2>1. \A m \in 1 + 1 .. Len(line) : line[m].key # key
    <3> SUFFICES ASSUME NEW m \in 1 + 1 .. Len(line) PROVE line[m].key # key
      OBVIOUS
    <3>1. m - 1 \in 1 .. Len(line') /\ m - 1 + 1 = m
      BY <1>1
    <3> QED
      BY <1>1, <1>4, <3>1 DEF OnLine
  <2>2. CASE line[1].key = key
    <3>1. Says(line[1], key)
      BY <1>1, <2>1, <2>2 DEF KeyInv
    <3> QED
      BY <1>1, <1>2, <2>2, <3>1 DEF Says
  <2>3. CASE line[1].key # key
    <3>1. ~OnLine(key)
      <4> SUFFICES ASSUME NEW m \in 1 .. Len(line) PROVE line[m].key # key
        BY DEF OnLine
      <4>1. m = 1 \/ m \in 1 + 1 .. Len(line)
        BY <1>1
      <4> QED
        BY <2>1, <2>3, <4>1
    <3>2. \/ down[key] \in taken \ {0}
          \/ keyboard_state[key] <=> down[key] # 0
      <4>1. CASE irr /\ port.byte.key = key
        <5>1. Says(port.byte, key)
          BY <3>1, <4>1 DEF KeyInv
        <5>2. port.byte.id \in taken /\ keyboard_state[key] = FALSE
          BY <1>2, <4>1, ModifiersReleased DEF StaleInv
        <5>3. port.byte.id # 0
          BY <1>1, <4>1, Names DEF LineInv, Bytes
        <5> QED
          BY <5>1, <5>2, <5>3 DEF Says
      <4>2. CASE ~(irr /\ port.byte.key = key)
        BY <1>2, <3>1, <4>2 DEF KeyInv
      <4> QED
        BY <4>1, <4>2
    <3> QED
      BY <1>1, <1>2, <2>3, <3>2
  <2> QED
    BY <2>2, <2>3
<1> QED
  BY <1>3, <1>4 DEF KeyInv, Says

\* A drain loop that takes a byte keeps a record of it.
LEMMA DrainEffect ==
    ASSUME TypeOK, LineInv, StaleInv, ModifierInv,
           keyboard_state = NoModifiers, TakeByte,
           UNCHANGED <<line, down, irr, keyboard_state>>
    PROVE  StaleInv' /\ ModifierInv' /\ taken' \subseteq 1 .. MaxTyped + 2
           /\ port'.full = FALSE
<1>1. /\ port \in [full : BOOLEAN, byte : Bytes] /\ port.full
      /\ port' = [port EXCEPT !.full = FALSE]
      /\ taken' = taken \cup {port.byte.id}
  BY DEF LineInv, TakeByte
<1>2. port'.full = FALSE /\ port'.byte = port.byte
  BY <1>1
<1>3. port.byte.id \in 1 .. MaxTyped + 2
  BY <1>1, Names DEF LineInv, Bytes
<1>4. StaleInv'
  BY <1>1, <1>2 DEF StaleInv
<1>5. ASSUME NEW key \in ShiftKeys PROVE KeyInv(key)'
  <2>1. KeyInv(key) /\ keyboard_state[key] = FALSE
    BY ModifiersReleased DEF ModifierInv, ShiftKeys
  <2>2. ASSUME ~OnLine(key)
        PROVE  IF (port'.full \/ irr') /\ port'.byte.key = key
                 THEN Says(port.byte, key)'
                 ELSE \/ down'[key] \in taken' \ {0}
                      \/ keyboard_state'[key] <=> down'[key] # 0
    <3>1. CASE port.byte.key = key
      <4>1. Says(port.byte, key)
        BY <1>1, <2>1, <2>2, <3>1 DEF KeyInv
      <4>2. down[key] \in taken' \ {0} \/ down[key] = 0
        BY <1>1, <1>3, <4>1 DEF Says
      <4> QED
        BY <1>2, <2>1, <4>1, <4>2 DEF Says
    <3>2. CASE port.byte.key # key
      BY <1>1, <1>2, <2>1, <2>2, <3>2 DEF KeyInv
    <3> QED
      BY <3>1, <3>2
  <2> QED
    BY <2>1, <2>2 DEF KeyInv, Says, OnLine
<1>6. ModifierInv'
  BY <1>5 DEF ModifierInv, ShiftKeys
<1> QED
  BY <1>1, <1>2, <1>3, <1>4, <1>6 DEF TypeOK

-----------------------------------------------------------------------------
(* The boot sequence *)

\* The driver's own state is at rest during boot.
LEMMA BootRest ==
    ASSUME TypeOK, BootInv, pc \in BootPhases, pc' \in BootPhases \cup {"idle"},
           UNCHANGED <<keyboard_state, bufferVars, current_key>>, LineInv'
    PROVE  BootInv' /\ ReaderInv' /\ InOrder' /\ FreshInv' /\ Contents' = Contents
<1>1. /\ buffer_head = 0 /\ buffer_tail = 0 /\ current_key = NoKey
      /\ keyboard_state = NoModifiers /\ Start = 0 /\ Start' = Start
  BY DEF BootInv, BootPhases, Start, bufferVars
<1>2. Contents' = Contents /\ Contents = <<>>
  BY <1>1, ContentsSame, ContentsTyped
<1>3. BootInv' /\ ReaderInv'
  BY <1>1 DEF BootInv, BootPhases, ReaderInv, bufferVars
<1>4. Len(Contents') = 0
  BY <1>2
<1>5. InOrder'
  BY <1>4 DEF InOrder
<1>6. port'.byte.id \in Nat /\ (irr' => port'.byte.id >= 1)
  BY Names DEF LineInv, Bytes
<1>7. current_key'.id = 0
  BY <1>1 DEF NoKey
<1>8. FreshInv'
  BY <1>4, <1>6, <1>7 DEF FreshInv
<1> QED
  BY <1>2, <1>3, <1>5, <1>8

\* The steps of boot that do not touch a byte.
LEMMA QuietBootKeeps ==
    ASSUME IInv, UnmaskIrq1 \/ DriverInit \/ InterruptsEnable
    PROVE  IInv'
<1>1. TypeOK /\ LineInv /\ BootInv /\ StaleInv /\ ModifierInv /\ sent \in Nat
  BY Names DEF IInv, TypeOK
<1>2. /\ pc \in BootPhases /\ pc' \in BootPhases \cup {"idle"}
      /\ pc \notin {"keyboard_init", "read_config", "enable"}
      /\ pc = "ioapic_init" => pc' = "keyboard_init"
      /\ pc # "ioapic_init" => pc' \in {"driver_drain", "idle"}
      /\ UNCHANGED <<deviceVars, irr, in_service, key_buffer, current_key, taken, drained, lost>>
      /\ masked' \in BOOLEAN
  BY <1>1 DEF UnmaskIrq1, DriverInit, InterruptsEnable, BootPhases, driverVars, apicVars,
              bufferVars, TypeOK
<1>3. UNCHANGED <<keyboard_state, buffer_head, buffer_tail>>
  BY <1>1, <1>2 DEF UnmaskIrq1, DriverInit, InterruptsEnable, BootInv, driverVars, bufferVars
<1>4. Answers' = Answers
  BY <1>2 DEF Answers, BootPhases
<1>5. LineInv'
  BY <1>1, <1>2, <1>4, LineStays, AnswersTyped DEF deviceVars, Phases
<1>6. TypeOK'
  BY <1>1, <1>2, <1>3 DEF TypeOK, deviceVars
<1>7. BootInv' /\ ReaderInv' /\ InOrder' /\ FreshInv'
  BY <1>1, <1>2, <1>3, <1>5, BootRest DEF bufferVars
<1>8. StaleInv' /\ ModifierInv'
  BY <1>1, <1>2, <1>3 DEF StaleInv, ModifierInv, KeyInv, Says, OnLine, deviceVars
<1> QED
  BY <1>5, <1>6, <1>7, <1>8 DEF IInv

\* The steps that may read a byte.
LEMMA DrainKeeps ==
    ASSUME IInv, UNCHANGED <<line, sent, irq_enabled, apicVars, bootRest>>,
           pc \in BootPhases, pc' \in BootPhases, Answers' = Answers,
           TakeByte \/ UNCHANGED <<port, taken>>,
           drained' \subseteq taken'
    PROVE  IInv'
<1>1. TypeOK /\ LineInv /\ BootInv /\ StaleInv /\ ModifierInv /\ sent \in Nat
      /\ keyboard_state = NoModifiers
  BY Names DEF IInv, TypeOK, BootInv
<1>2. UNCHANGED <<down, keyboard_state, bufferVars, current_key, lost, masked, irr, in_service>>
  BY DEF bootRest, apicVars
<1>3. port' = port \/ port' = [port EXCEPT !.full = FALSE]
  BY DEF TakeByte
<1>4. LineInv'
  BY <1>1, <1>2, <1>3, LineStays, AnswersTyped DEF Phases
<1>5. StaleInv' /\ ModifierInv' /\ taken' \subseteq 1 .. MaxTyped + 2
  <2>1. CASE TakeByte
    BY <1>1, <1>2, <2>1, DrainEffect
  <2>2. CASE UNCHANGED <<port, taken>>
    BY <1>1, <1>2, <2>2 DEF StaleInv, ModifierInv, KeyInv, Says, OnLine, TypeOK
  <2> QED
    BY <2>1, <2>2
<1>6. TypeOK'
  BY <1>1, <1>2, <1>4, <1>5 DEF TypeOK, LineInv, bufferVars
<1>7. BootInv' /\ ReaderInv' /\ InOrder' /\ FreshInv'
  BY <1>1, <1>2, <1>4, BootRest
<1> QED
  BY <1>4, <1>5, <1>6, <1>7 DEF IInv

\* The steps that ask the controller or the keyboard for an answer.
LEMMA AskKeeps ==
    ASSUME IInv, NEW byte \in Bytes, byte.id = sent + 1, byte.key \in {"config", "ack"},
           Ask(byte), UNCHANGED <<port, taken, drained, bootRest>>,
           irq_enabled' \in BOOLEAN, masked' \in BOOLEAN, irr' \in BOOLEAN,
           in_service' \in BOOLEAN,
           irr' => irr \/ port.full, irr => irr',
           pc \in BootPhases, pc' \in BootPhases, Answers' = Answers + 1
    PROVE  IInv'
<1>1. TypeOK /\ LineInv /\ BootInv /\ StaleInv /\ ModifierInv /\ sent \in Nat
      /\ sent <= MaxTyped + Answers
  BY Names DEF IInv, TypeOK, LineInv
<1>2. UNCHANGED <<down, keyboard_state, bufferVars, current_key, lost>>
      /\ line' = Append(line, byte) /\ sent' = sent + 1
  BY DEF bootRest, Ask
<1>3. sent' <= MaxTyped + Answers' /\ sent' \in 0 .. MaxTyped + 2
  BY <1>1, <1>2, Names, AnswersTyped
<1>4. LineInv'
  BY <1>1, <1>2, <1>3, LineGrows DEF Phases
<1>5. StaleInv'
  BY <1>1, <1>2 DEF StaleInv
<1>6. ModifierInv'
  <2>1. ASSUME NEW key \in ShiftKeys PROVE KeyInv(key)'
    <3>1. KeyInv(key) /\ byte.key # key
      BY <1>1, Names DEF ModifierInv, ShiftKeys
    <3>2. down'[key] = IF byte.key # key THEN down[key]
                       ELSE IF byte.pressed THEN byte.id ELSE 0
      BY <1>2, <3>1
    <3> QED
      BY <1>1, <1>2, <3>1, <3>2, KeyGrows
  <2> QED
    BY <2>1 DEF ModifierInv, ShiftKeys
<1>7. TypeOK'
  BY <1>1, <1>2, <1>3 DEF TypeOK, bufferVars
<1>8. BootInv' /\ ReaderInv' /\ InOrder' /\ FreshInv'
  BY <1>1, <1>2, <1>4, BootRest
<1> QED
  BY <1>4, <1>5, <1>6, <1>7, <1>8 DEF IInv

LEMMA BootKeeps ==
    ASSUME IInv, Boot
    PROVE  IInv'
<1>1. TypeOK /\ LineInv /\ sent \in Nat /\ sent <= MaxTyped + Answers
      /\ drained \subseteq taken
  BY Names DEF IInv, TypeOK, LineInv
<1>2. sent + 1 \in 0 .. MaxTyped + 2 \/ ~(pc \in {"keyboard_init", "enable"})
  BY <1>1, Names DEF Answers
<1>3. CASE UnmaskIrq1 \/ DriverInit \/ InterruptsEnable
  BY <1>3, QuietBootKeeps
<1>4. CASE KeyboardInitDrain
  <2>1. CASE Drain /\ UNCHANGED <<sent, line, pc>>
    <3>1. Answers' = Answers
      BY <2>1 DEF Answers
    <3>2. TakeByte /\ drained' \subseteq taken'
      BY <1>1, <2>1 DEF Drain, TakeByte
    <3> QED
      BY <1>4, <2>1, <3>1, <3>2, DrainKeeps DEF KeyboardInitDrain, BootPhases
  <2>2. CASE /\ ~port.full /\ Ask(Config(sent + 1)) /\ pc' = "read_config"
             /\ UNCHANGED <<port, taken, drained>>
    <3>1. pc = "keyboard_init" /\ Answers' = Answers + 1
      BY <1>4, <2>2 DEF KeyboardInitDrain, Answers
    <3>2. Config(sent + 1) \in Bytes /\ Config(sent + 1).id = sent + 1
          /\ Config(sent + 1).key = "config"
      BY <1>2, <3>1 DEF Config, Byte, Bytes
    <3>3. UNCHANGED <<irq_enabled, masked, irr, in_service, bootRest>>
      BY <1>4 DEF KeyboardInitDrain, apicVars
    <3> QED
      BY <1>1, <2>2, <3>1, <3>2, <3>3, AskKeeps DEF TypeOK, BootPhases
  <2> QED
    BY <1>4, <2>1, <2>2 DEF KeyboardInitDrain
<1>5. CASE ReadConfig
  <2>1. Answers' = Answers /\ pc \in BootPhases /\ pc' \in BootPhases
    BY <1>5 DEF ReadConfig, Answers, BootPhases
  <2>2. TakeByte \/ UNCHANGED <<port, taken>>
    BY <1>5 DEF ReadConfig
  <2>3. drained' \subseteq taken'
    BY <1>1, <1>5 DEF ReadConfig, TakeByte
  <2> QED
    BY <1>5, <2>1, <2>2, <2>3, DrainKeeps DEF ReadConfig
<1>6. CASE EnableScanning
  <2>1. pc = "enable" /\ pc' = "wait_ack" /\ Answers' = Answers + 1
    BY <1>6 DEF EnableScanning, Answers
  <2>2. Ack(sent + 1) \in Bytes /\ Ack(sent + 1).id = sent + 1 /\ Ack(sent + 1).key = "ack"
    BY <1>2, <2>1 DEF Ack, Byte, Bytes
  <2>3. /\ irr' \in BOOLEAN /\ (irr' => irr \/ port.full) /\ (irr => irr')
        /\ UNCHANGED <<masked, in_service>> /\ irq_enabled' \in BOOLEAN
    BY <1>1, <1>6 DEF EnableScanning, RaiseIrq, apicVars, TypeOK
  <2> QED
    BY <1>1, <1>6, <2>1, <2>2, <2>3, AskKeeps DEF EnableScanning, TypeOK, BootPhases
<1>7. CASE WaitAck
  <2>1. Answers' = Answers /\ pc \in BootPhases /\ pc' \in BootPhases
    BY <1>7 DEF WaitAck, Answers, BootPhases
  <2>2. TakeByte \/ UNCHANGED <<port, taken>>
    BY <1>7 DEF WaitAck
  <2>3. drained' \subseteq taken'
    BY <1>1, <1>7 DEF WaitAck, TakeByte
  <2> QED
    BY <1>7, <2>1, <2>2, <2>3, DrainKeeps DEF WaitAck
<1>8. CASE DriverInitDrain
  <2>1. Answers' = Answers /\ pc \in BootPhases /\ pc' \in BootPhases
    BY <1>8 DEF DriverInitDrain, Answers, BootPhases
  <2>2. TakeByte \/ UNCHANGED <<port, taken>>
    BY <1>8 DEF DriverInitDrain, Drain
  <2>3. drained' \subseteq taken'
    BY <1>1, <1>8 DEF DriverInitDrain, TakeByte, Drain
  <2> QED
    BY <1>8, <2>1, <2>2, <2>3, DrainKeeps DEF DriverInitDrain
<1> QED
  BY <1>3, <1>4, <1>5, <1>6, <1>7, <1>8 DEF Boot

-----------------------------------------------------------------------------
(* The keyboard, the controller and the handler *)

LEMMA TypeKeeps ==
    ASSUME IInv, NEW k \in KeyNames, NEW pressed \in BOOLEAN, Type(k, pressed)
    PROVE  IInv'
<1> DEFINE byte == Byte(sent + 1, k, pressed)
<1>1. /\ TypeOK /\ LineInv /\ BootInv /\ ReaderInv /\ InOrder /\ FreshInv /\ StaleInv
      /\ ModifierInv /\ sent \in Nat
  BY Names DEF IInv, TypeOK
<1>2. /\ sent' = sent + 1 /\ line' = Append(line, byte)
      /\ down' = [down EXCEPT ![k] = IF pressed THEN sent + 1 ELSE 0]
      /\ UNCHANGED <<port, irq_enabled, masked, irr, in_service, pc, keyboard_state,
                     bufferVars, current_key, taken, drained, lost>>
      /\ Answers' = Answers
  BY DEF Type, apicVars, driverVars, Answers
<1>3. sent' <= MaxTyped + Answers' /\ sent' \in 0 .. MaxTyped + 2
  BY <1>1, <1>2, Names, AnswersTyped DEF Type
<1>4. byte \in Bytes /\ byte.id = sent + 1 /\ byte.key = k /\ byte.pressed = pressed
  BY <1>2, <1>3, Names DEF Byte, Bytes
<1> HIDE DEF byte
<1>5. LineInv'
  BY <1>1, <1>2, <1>3, <1>4, LineGrows DEF LineInv
<1>6. ModifierInv'
  <2>1. ASSUME NEW key \in ShiftKeys PROVE KeyInv(key)'
    <3>1. KeyInv(key) /\ key \in KeyNames
      BY <1>1 DEF ModifierInv, ShiftKeys
    <3>2. down'[key] = IF byte.key # key THEN down[key]
                       ELSE IF byte.pressed THEN byte.id ELSE 0
      BY <1>1, <1>2, <1>4, <3>1 DEF TypeOK
    <3> QED
      BY <1>1, <1>2, <1>4, <3>1, <3>2, KeyGrows
  <2> QED
    BY <2>1 DEF ModifierInv, ShiftKeys
<1>7. TypeOK'
  <2>1. down' \in [KeyNames -> 0 .. MaxTyped + 2]
    BY <1>1, <1>2, <1>3, Names DEF TypeOK
  <2> QED
    BY <1>1, <1>2, <1>3, <2>1 DEF TypeOK, bufferVars
<1>8. Contents' = Contents
  BY <1>2, ContentsSame DEF Start, bufferVars
<1>9. BootInv' /\ ReaderInv' /\ StaleInv'
  BY <1>1, <1>2 DEF BootInv, ReaderInv, StaleInv, bufferVars
<1>10. InOrder' /\ FreshInv'
  BY <1>1, <1>2, <1>8 DEF InOrder, FreshInv
<1> QED
  BY <1>5, <1>6, <1>7, <1>9, <1>10 DEF IInv

LEMMA LoadKeeps ==
    ASSUME IInv, Load
    PROVE  IInv'
<1>1. /\ TypeOK /\ LineInv /\ BootInv /\ ReaderInv /\ InOrder /\ FreshInv /\ StaleInv
      /\ ModifierInv /\ sent \in Nat
  BY Names DEF IInv, TypeOK
<1>2. /\ UNCHANGED <<down, sent, irq_enabled, masked, in_service, pc, keyboard_state,
                     bufferVars, current_key, taken, drained, lost>>
      /\ irr' \in BOOLEAN
  BY <1>1 DEF Load, RaiseIrq, apicVars, driverVars, TypeOK
<1>3. /\ LineInv' /\ port'.full /\ port.byte \in Bytes
      /\ port'.byte = line[1] /\ line[1] \in Bytes /\ port.byte.id < line[1].id
  BY <1>1, LineLoads
<1>4. ModifierInv'
  BY <1>1, KeyLoads DEF ModifierInv, ShiftKeys
<1>5. TypeOK'
  BY <1>1, <1>2, <1>3 DEF TypeOK, bufferVars, LineInv
<1>6. Contents' = Contents
  BY <1>2, ContentsSame DEF Start, bufferVars
<1>7. BootInv' /\ ReaderInv' /\ StaleInv' /\ InOrder'
  BY <1>1, <1>2, <1>3, <1>6 DEF BootInv, ReaderInv, StaleInv, InOrder, bufferVars
<1>8. FreshInv'
  <2>1. port.byte.id \in Nat /\ line[1].id \in Nat /\ current_key.id \in Nat
    BY <1>1, <1>3, Names DEF Bytes, TypeOK, KeyRecords
  <2>2. \A n \in 1 .. Len(Contents) : Contents[n].id \in Nat
    BY <1>1, ContentsTyped, Names DEF KeyRecords
  <2> QED
    BY <1>1, <1>2, <1>3, <1>6, <2>1, <2>2 DEF FreshInv
<1> QED
  BY <1>3, <1>4, <1>5, <1>7, <1>8 DEF IInv

LEMMA NewKeyTyped ==
    ASSUME NEW byte \in Bytes, byte.pressed,
           NEW state \in [{KEY_LSHIFT, KEY_RSHIFT, KEY_CAPSLOCK} -> BOOLEAN]
    PROVE  NewKey(byte, state) \in KeyRecords /\ NewKey(byte, state).id = byte.id
<1>1. IsShiftPressed(state) \in BOOLEAN /\ state[KEY_CAPSLOCK] \in BOOLEAN
  BY DEF IsShiftPressed
<1>2. GetAscii(byte.key, state) \in {"none", "lower", "upper"}
  BY DEF GetAscii
<1>3. byte.id \in 0 .. MaxTyped + 2 /\ byte.key \in KeyNames \cup {"config", "none"}
  BY DEF Bytes
<1> QED
  BY <1>1, <1>2, <1>3 DEF NewKey, KeyRecords

\* What a byte does to the modifiers.
LEMMA ModifierEffect ==
    ASSUME keyboard_state \in [{KEY_LSHIFT, KEY_RSHIFT, KEY_CAPSLOCK} -> BOOLEAN],
           NEW byte \in Bytes
    PROVE  /\ UpdateModifiers(byte.key, byte.pressed)
                  \in [{KEY_LSHIFT, KEY_RSHIFT, KEY_CAPSLOCK} -> BOOLEAN]
           /\ \A key \in ShiftKeys :
                  UpdateModifiers(byte.key, byte.pressed)[key]
                      = IF byte.key = key THEN byte.pressed ELSE keyboard_state[key]
BY DEF UpdateModifiers, ShiftKeys, Bytes, KEY_LSHIFT, KEY_RSHIFT, KEY_CAPSLOCK

\* What the handler does to the buffer and its reader.
LEMMA HandlerEffect ==
    ASSUME IInv, KeyboardDriverHandler
    PROVE  /\ keyboard_state' \in [{KEY_LSHIFT, KEY_RSHIFT, KEY_CAPSLOCK} -> BOOLEAN]
           /\ key_buffer' \in Buffers /\ buffer_head' \in Slots /\ lost' \in Nat
           /\ ReaderInv'
           /\ \/ Contents' = Contents /\ lost' = lost
              \/ \E key \in KeyRecords :
                     /\ key.id = port.byte.id
                     /\ Len(Contents) < N - 1
                     /\ Contents' = Append(Contents, key)
                     /\ lost' = lost
              \/ /\ Len(Contents) = N - 1 \/ pc = "clear_tail"
                 /\ Contents' = Contents
                 /\ lost' = lost + 1
<1> DEFINE key == NewKey(port.byte, keyboard_state')
<1>1. TypeOK /\ ReaderInv /\ port.byte \in Bytes
  BY DEF IInv, LineInv
<1>2. UNCHANGED <<pc, buffer_tail, current_key>> /\ Handle(port.byte)
  BY DEF KeyboardDriverHandler
<1>3. keyboard_state' \in [{KEY_LSHIFT, KEY_RSHIFT, KEY_CAPSLOCK} -> BOOLEAN]
  BY <1>1, <1>2, ModifierEffect DEF Handle, TypeOK
<1>4. CASE port.byte.pressed
  <2>1. key \in KeyRecords /\ key.id = port.byte.id
    BY <1>1, <1>3, <1>4, NewKeyTyped
  <2>2. BufferPush(key)
    BY <1>2, <1>4 DEF Handle
  <2> HIDE DEF key
  <2> QED
    BY <1>1, <1>2, <1>3, <2>1, <2>2, PushEffect
<1>5. CASE ~port.byte.pressed
  <2>1. UNCHANGED <<key_buffer, buffer_head, lost>>
    BY <1>2, <1>5 DEF Handle
  <2>2. Contents' = Contents
    BY <1>2, <2>1, ContentsSame DEF Start, bufferVars
  <2>3. ReaderInv'
    BY <1>1, <1>2, <2>1 DEF ReaderInv
  <2> QED
    BY <1>1, <1>3, <2>1, <2>2, <2>3 DEF TypeOK, Buffers
<1> QED
  BY <1>4, <1>5

LEMMA HandlerKeeps ==
    ASSUME IInv, KeyboardDriverHandler
    PROVE  IInv'
<1>1. /\ TypeOK /\ LineInv /\ BootInv /\ ReaderInv /\ InOrder /\ FreshInv /\ StaleInv
      /\ ModifierInv /\ sent \in Nat /\ port.byte \in Bytes /\ irr
  BY Names DEF IInv, TypeOK, LineInv, KeyboardDriverHandler
<1>2. /\ pc \in {"idle", "pop_copy", "pop_advance", "clear_tail"}
      /\ irr' = FALSE /\ in_service' = FALSE /\ port' = [port EXCEPT !.full = FALSE]
      /\ UNCHANGED <<down, sent, line, irq_enabled, masked, pc, buffer_tail, current_key,
                     taken, drained>>
      /\ keyboard_state' = UpdateModifiers(port.byte.key, port.byte.pressed)
  BY DEF KeyboardDriverHandler, Handle, InterruptsOn
<1>3. port' \in [full : BOOLEAN, byte : Bytes] /\ port'.byte = port.byte /\ port'.full = FALSE
  BY <1>1, <1>2 DEF LineInv
<1>4. LineInv'
  <2>1. Answers' = Answers
    BY <1>2 DEF Answers
  <2> QED
    BY <1>1, <1>2, <2>1, AnswersTyped, LineStays DEF Phases
<1>5. /\ keyboard_state' \in [{KEY_LSHIFT, KEY_RSHIFT, KEY_CAPSLOCK} -> BOOLEAN]
      /\ key_buffer' \in Buffers /\ buffer_head' \in Slots /\ lost' \in Nat
      /\ ReaderInv'
  BY HandlerEffect
<1>6. TypeOK'
  BY <1>1, <1>2, <1>3, <1>5 DEF TypeOK, Buffers
<1>7. BootInv' /\ StaleInv'
  BY <1>2 DEF BootInv, BootPhases, StaleInv
<1>8. ModifierInv'
  <2>1. ASSUME NEW key \in ShiftKeys PROVE KeyInv(key)'
    <3>1. KeyInv(key)
      BY <1>1 DEF ModifierInv, ShiftKeys
    <3>2. keyboard_state'[key] = IF port.byte.key = key THEN port.byte.pressed
                                 ELSE keyboard_state[key]
      BY <1>1, <1>2, ModifierEffect DEF TypeOK
    <3>3. ASSUME ~OnLine(key)
          PROVE  \/ down'[key] \in taken' \ {0}
                 \/ keyboard_state'[key] <=> down'[key] # 0
      <4>1. CASE port.byte.key = key
        <5>1. Says(port.byte, key) /\ port.byte.id # 0
          BY <1>1, <3>1, <3>3, <4>1, Names DEF KeyInv, LineInv, Bytes
        <5>2. port.byte.pressed \in BOOLEAN
          BY <1>1 DEF Bytes
        <5> QED
          BY <1>2, <3>2, <4>1, <5>1, <5>2 DEF Says
      <4>2. CASE port.byte.key # key
        BY <1>2, <3>1, <3>2, <3>3, <4>2 DEF KeyInv
      <4> QED
        BY <4>1, <4>2
    <3> QED
      BY <1>2, <1>3, <3>1, <3>3 DEF KeyInv, Says, OnLine
  <2> QED
    BY <2>1 DEF ModifierInv, ShiftKeys
<1>9. InOrder' /\ FreshInv'
  <2>1. /\ Contents \in Seq(KeyRecords) /\ Len(Contents) \in Nat
        /\ \A n \in 1 .. Len(Contents) : Contents[n].id \in Nat
    BY <1>1, ContentsTyped, Names, LenProperties DEF KeyRecords
  <2>2. /\ port.byte.id \in Nat /\ current_key.id < port.byte.id /\ current_key.id \in Nat
        /\ \A n \in 1 .. Len(Contents) : Contents[n].id < port.byte.id
    BY <1>1, Names DEF FreshInv, Bytes, TypeOK, KeyRecords
  <2>3. CASE Contents' = Contents
    BY <1>1, <1>2, <1>3, <2>1, <2>2, <2>3 DEF InOrder, FreshInv
  <2>4. ASSUME NEW key \in KeyRecords, key.id = port.byte.id,
               Contents' = Append(Contents, key)
        PROVE  InOrder' /\ FreshInv'
    <3>1. /\ Len(Contents') = Len(Contents) + 1
          /\ \A n \in 1 .. Len(Contents) : Contents'[n] = Contents[n]
          /\ Contents'[Len(Contents) + 1] = key
      BY <2>1, <2>4, AppendProperties
    <3>2. \A n \in 1 .. Len(Contents') :
              \/ n \in 1 .. Len(Contents) /\ Contents'[n] = Contents[n]
              \/ n = Len(Contents) + 1 /\ Contents'[n].id = port.byte.id
      BY <2>1, <2>4, <3>1
    <3>3. FreshInv'
      BY <1>2, <1>3, <2>1, <2>2, <3>2 DEF FreshInv
    <3>4. \A m, n \in 1 .. Len(Contents') : m < n => Contents'[m].id < Contents'[n].id
      <4> SUFFICES ASSUME NEW m \in 1 .. Len(Contents'), NEW n \in 1 .. Len(Contents'), m < n
                   PROVE  Contents'[m].id < Contents'[n].id
        OBVIOUS
      <4>1. m \in 1 .. Len(Contents)
        BY <2>1, <3>1
      <4>2. Contents'[m] = Contents[m] /\ Contents[m].id < port.byte.id
        BY <2>2, <3>1, <4>1
      <4>3. CASE n \in 1 .. Len(Contents) /\ Contents'[n] = Contents[n]
        BY <1>1, <4>1, <4>2, <4>3 DEF InOrder
      <4>4. CASE Contents'[n].id = port.byte.id
        BY <4>2, <4>4
      <4> QED
        BY <3>2, <4>3, <4>4
    <3>5. pc' # "pop_advance" =>
              \A n \in 1 .. Len(Contents') : current_key'.id < Contents'[n].id
      BY <1>1, <1>2, <2>2, <3>2 DEF InOrder
    <3> QED
      BY <3>3, <3>4, <3>5 DEF InOrder
  <2> QED
    BY <2>3, <2>4, HandlerEffect
<1> QED
  BY <1>4, <1>5, <1>6, <1>7, <1>8, <1>9 DEF IInv

-----------------------------------------------------------------------------
(* The reader *)

LEMMA ReaderKeeps ==
    ASSUME IInv, Reader
    PROVE  IInv'
<1>1. /\ TypeOK /\ LineInv /\ BootInv /\ ReaderInv /\ InOrder /\ FreshInv /\ StaleInv
      /\ ModifierInv /\ sent \in Nat
  BY Names DEF IInv, TypeOK
<1>2. /\ pc \in Phases \ BootPhases /\ pc' \in Phases \ BootPhases
      /\ UNCHANGED <<down, sent, line, port, irq_enabled, masked, irr, in_service,
                     keyboard_state, key_buffer, taken, drained, lost>>
  BY DEF Reader, PopBegin, PopCopy, PopAdvance, ClearHead, ClearTail, Phases, BootPhases,
         deviceVars, apicVars, driverVars, bufferVars
<1>3. LineInv'
  <2>1. Answers = 2 /\ Answers' = 2
    BY <1>2 DEF Answers, Phases, BootPhases
  <2> QED
    BY <1>1, <1>2, <2>1, LineStays
<1>4. BootInv' /\ StaleInv' /\ ModifierInv'
  BY <1>1, <1>2 DEF BootInv, StaleInv, ModifierInv, KeyInv, Says, OnLine
<1>5. /\ buffer_head \in Slots /\ buffer_tail \in Slots /\ key_buffer \in Buffers
      /\ buffer_head \in Nat /\ buffer_tail \in Nat
  BY <1>1 DEF TypeOK, Buffers, Slots
<1>6. /\ Contents \in Seq(KeyRecords) /\ Len(Contents) \in Nat
      /\ \A n \in 1 .. Len(Contents) : Contents[n].id \in Nat
  BY <1>1, ContentsTyped, Names, LenProperties DEF KeyRecords
<1>7. ASSUME buffer_head' \in Slots, buffer_tail' \in Slots, current_key' \in KeyRecords
      PROVE  TypeOK'
  BY <1>1, <1>2, <1>7 DEF TypeOK
<1>8. CASE PopBegin
  <2>1. UNCHANGED <<bufferVars, current_key>> /\ pc = "idle" /\ pc' = "pop_copy"
        /\ buffer_head # buffer_tail
    BY <1>8 DEF PopBegin, driverVars
  <2>2. Contents' = Contents
    BY <2>1, ContentsSame DEF Start, bufferVars
  <2>3. TypeOK' /\ ReaderInv' /\ InOrder' /\ FreshInv'
    BY <1>1, <1>2, <1>5, <1>7, <2>1, <2>2 DEF ReaderInv, InOrder, FreshInv, bufferVars, TypeOK
  <2> QED
    BY <1>3, <1>4, <2>3 DEF IInv
<1>9. CASE PopCopy
  <2>1. UNCHANGED bufferVars /\ pc = "pop_copy" /\ pc' = "pop_advance"
        /\ current_key' = key_buffer[buffer_tail] /\ buffer_head # buffer_tail
    BY <1>1, <1>9 DEF PopCopy, ReaderInv
  <2>2. Contents' = Contents
    BY <2>1, ContentsSame DEF Start, bufferVars
  <2>3. Contents # <<>> /\ Head(Contents) = current_key'
    BY <1>1, <2>1, PopEffect
  <2>4. current_key' = Contents[1] /\ 1 \in 1 .. Len(Contents)
    BY <1>6, <2>3, EmptySeq
  <2>5. current_key' \in KeyRecords
    BY <1>5, <2>1 DEF Buffers
  <2>6. TypeOK' /\ ReaderInv'
    BY <1>1, <1>2, <1>5, <1>7, <2>1, <2>5 DEF ReaderInv, bufferVars
  <2>7. InOrder' /\ FreshInv'
    BY <1>1, <1>2, <2>1, <2>2, <2>4 DEF InOrder, FreshInv
  <2> QED
    BY <1>3, <1>4, <2>6, <2>7 DEF IInv
<1>10. CASE PopAdvance
  <2>1. /\ pc = "pop_advance" /\ pc' = "idle" /\ UNCHANGED <<buffer_head, current_key>>
        /\ buffer_tail' = (buffer_tail + 1) % N /\ buffer_head # buffer_tail
        /\ current_key = key_buffer[buffer_tail]
    BY <1>1, <1>10 DEF PopAdvance, ReaderInv, N
  <2>2. Contents # <<>> /\ Head(Contents) = current_key /\ Contents' = Tail(Contents)
    BY <1>1, <1>10, <2>1, PopEffect
  <2>3. /\ Len(Contents') = Len(Contents) - 1
        /\ \A n \in 1 .. Len(Contents') : Contents'[n] = Contents[n + 1]
        /\ current_key = Contents[1]
    BY <1>6, <2>2, HeadTailProperties
  <2>4. /\ 1 \in 1 .. Len(Contents)
        /\ \A n \in 1 .. Len(Contents') : n + 1 \in 1 .. Len(Contents) /\ 1 < n + 1
    BY <1>6, <2>2, <2>3, EmptySeq
  <2>5. buffer_tail' \in Slots
    BY <1>5, <2>1, NextSlot
  <2>6. TypeOK' /\ ReaderInv'
    BY <1>1, <1>2, <1>5, <1>7, <2>1, <2>5 DEF ReaderInv, TypeOK
  <2>7. FreshInv'
    BY <1>1, <1>2, <2>1, <2>3, <2>4 DEF FreshInv
  <2>8. \A m, n \in 1 .. Len(Contents') : m < n => Contents'[m].id < Contents'[n].id
    <3> SUFFICES ASSUME NEW m \in 1 .. Len(Contents'), NEW n \in 1 .. Len(Contents'), m < n
                 PROVE  Contents'[m].id < Contents'[n].id
      OBVIOUS
    <3>1. m + 1 \in 1 .. Len(Contents) /\ n + 1 \in 1 .. Len(Contents) /\ m + 1 < n + 1
      BY <1>6, <2>4
    <3>2. Contents[m + 1].id < Contents[n + 1].id
      BY <1>1, <3>1 DEF InOrder
    <3> QED
      BY <2>3, <3>2
  <2>9. \A n \in 1 .. Len(Contents') : current_key'.id < Contents'[n].id
    BY <1>1, <2>1, <2>3, <2>4 DEF InOrder
  <2> QED
    BY <1>3, <1>4, <2>6, <2>7, <2>8, <2>9 DEF IInv, InOrder
<1>11. CASE ClearHead
  <2>1. /\ pc = "idle" /\ pc' = "clear_tail" /\ UNCHANGED <<buffer_tail, current_key>>
        /\ buffer_head' = 0
    BY <1>11 DEF ClearHead
  <2>2. Len(Contents') = 0
    BY <1>1, <1>11, ClearEffect
  <2>3. buffer_tail = 0 \/ 0 < buffer_tail
    BY <1>5
  <2>4. TypeOK' /\ ReaderInv' /\ InOrder' /\ FreshInv'
    BY <1>1, <1>2, <1>5, <1>7, <2>1, <2>2, <2>3, ZeroIsSlot
       DEF ReaderInv, InOrder, FreshInv, TypeOK
  <2> QED
    BY <1>3, <1>4, <2>4 DEF IInv
<1>12. CASE ClearTail
  <2>1. /\ pc = "clear_tail" /\ pc' = "idle" /\ UNCHANGED <<buffer_head, current_key>>
        /\ buffer_tail' = 0
    BY <1>12 DEF ClearTail
  <2>2. Contents' = Contents
    BY <1>1, <1>12, ClearEffect
  <2>3. TypeOK' /\ ReaderInv' /\ InOrder' /\ FreshInv'
    BY <1>1, <1>2, <1>5, <1>7, <2>1, <2>2, ZeroIsSlot DEF ReaderInv, InOrder, FreshInv, TypeOK
  <2> QED
    BY <1>3, <1>4, <2>3 DEF IInv
<1> QED
  BY <1>8, <1>9, <1>10, <1>11, <1>12 DEF Reader

-----------------------------------------------------------------------------
(* The theorems *)

LEMMA InitIInv ==
    ASSUME Init
    PROVE  IInv
<1>1. N \in Nat /\ N >= 2 /\ MaxTyped \in Nat
  BY KeyboardAssumption DEF N
<1>2. NoKey \in KeyRecords /\ NoKey.id = 0
  BY <1>1 DEF NoKey, KeyRecords
<1>3. Ack(0) \in Bytes /\ Ack(0).id = 0
  BY <1>1 DEF Ack, Byte, Bytes
<1>4. TypeOK
  <2>1. key_buffer \in [Slots -> KeyRecords] /\ current_key \in KeyRecords
    BY <1>2 DEF Init
  <2>2. down \in [KeyNames -> 0 .. MaxTyped + 2] /\ sent \in 0 .. MaxTyped + 2
    BY <1>1 DEF Init
  <2>3. keyboard_state \in [{KEY_LSHIFT, KEY_RSHIFT, KEY_CAPSLOCK} -> BOOLEAN]
    BY DEF Init, NoModifiers
  <2>4. buffer_head \in Slots /\ buffer_tail \in Slots
    BY ZeroIsSlot DEF Init
  <2> QED
    BY <2>1, <2>2, <2>3, <2>4 DEF Init, TypeOK
<1>5. LineInv
  <2>1. line = <<>> /\ line \in Seq(Bytes) /\ Len(line) = 0 /\ sent = 0
        /\ pc = "ioapic_init" /\ ~irr
    BY DEF Init
  <2>2. port \in [full : BOOLEAN, byte : Bytes] /\ port.byte = Ack(0) /\ ~port.full
    BY <1>3 DEF Init
  <2> QED
    BY <1>1, <1>3, <2>1, <2>2 DEF LineInv, Phases, BootPhases, Answers
<1>6. BootInv /\ ReaderInv
  BY DEF Init, BootInv, ReaderInv
<1>7. Len(Contents) = 0
  <2>1. buffer_head = Start
    BY DEF Init, Start
  <2> QED
    BY <1>4, <2>1, ContentsTyped
<1>8. InOrder /\ FreshInv
  BY <1>2, <1>3, <1>7 DEF Init, InOrder, FreshInv
<1>9. StaleInv
  BY DEF Init, StaleInv
<1>10. ModifierInv
  <2>1. ASSUME NEW key \in ShiftKeys PROVE KeyInv(key)
    <3>1. Len(line) = 0 /\ ~port.full /\ ~irr
      BY DEF Init
    <3>2. down[key] = 0 /\ keyboard_state[key] = FALSE
      BY ModifiersReleased DEF Init, ShiftKeys
    <3> QED
      BY <3>1, <3>2 DEF KeyInv
  <2> QED
    BY <2>1 DEF ModifierInv, ShiftKeys
<1> QED
  BY <1>4, <1>5, <1>6, <1>8, <1>9, <1>10 DEF IInv

LEMMA NextIInv ==
    ASSUME IInv, [Next]_vars
    PROVE  IInv'
<1>1. CASE \E key \in KeyNames, pressed \in BOOLEAN : Type(key, pressed)
  BY <1>1, TypeKeeps
<1>2. CASE Load
  BY <1>2, LoadKeeps
<1>3. CASE Boot
  BY <1>3, BootKeeps
<1>4. CASE KeyboardDriverHandler
  BY <1>4, HandlerKeeps
<1>5. CASE Reader
  BY <1>5, ReaderKeeps
<1>6. CASE UNCHANGED vars
  <2>1. Contents' = Contents
    BY <1>6, ContentsSame DEF Start, vars, driverVars, bufferVars
  <2>2. TypeOK' /\ LineInv' /\ BootInv' /\ ReaderInv'
    BY <1>6 DEF IInv, TypeOK, LineInv, BootInv, ReaderInv, vars, deviceVars, apicVars,
                driverVars, bufferVars, Answers
  <2>3. InOrder' /\ FreshInv' /\ StaleInv' /\ ModifierInv'
    BY <1>6, <2>1 DEF IInv, InOrder, FreshInv, StaleInv, ModifierInv, KeyInv, Says, OnLine,
                      vars, deviceVars, apicVars, driverVars
  <2> QED
    BY <2>2, <2>3 DEF IInv
<1> QED
  BY <1>1, <1>2, <1>3, <1>4, <1>5, <1>6 DEF Next

LEMMA SpecIInv == Spec => []IInv
<1>1. Init => IInv
  BY InitIInv
<1>2. IInv /\ [Next]_vars => IInv'
  BY NextIInv
<1> QED
  BY <1>1, <1>2, PTL DEF Spec

\* The driver's ring indices stay in the ring and its slots hold keys, whatever
\* the interrupt comes between.
THEOREM Types == Spec => []TypeOK
<1>1. IInv => TypeOK
  BY DEF IInv
<1> QED
  BY <1>1, SpecIInv, PTL

\* Keys are read in the order in which they were typed, and none twice, however
\* the handler's pushes fall between the steps of try_get_key and of
\* keyboard_clear_buffer.
THEOREM KeysInOrder == Spec => []InOrder
<1>1. IInv => InOrder
  BY DEF IInv
<1> QED
  BY <1>1, SpecIInv, PTL

\* Once every byte is handled the driver knows which Shift keys are held, those
\* whose press found the buffer full included.
THEOREM ModifiersKnown == Spec => []ModifiersTrue
<1>1. IInv => ModifiersTrue
  <2> SUFFICES ASSUME IInv, line = <<>>, ~port.full, ~irr,
                      NEW key \in KeyNames \cap {KEY_LSHIFT, KEY_RSHIFT},
                      down[key] \notin taken \ {0}
               PROVE  keyboard_state[key] <=> down[key] # 0
    BY DEF ModifiersTrue
  <2>1. KeyInv(key)
    BY DEF IInv, ModifierInv
  <2>2. ~OnLine(key)
    BY DEF OnLine
  <2> QED
    BY <2>1, <2>2 DEF KeyInv
<1> QED
  BY <1>1, SpecIInv, PTL

-----------------------------------------------------------------------------
(* The refinement of KeyQueue *)

Clearing == pc = "clear_tail"

\* A push is an arrival or a loss, the two steps of try_get_key look at a key and
\* take it, the two of keyboard_clear_buffer begin and end a clearing, and all
\* else is invisible to the queue.
LEMMA QueueStep ==
    ASSUME IInv, [Next]_vars
    PROVE  [Queue!Next]_<<Contents, current_key, Clearing, lost>>
<1>1. TypeOK /\ BootInv /\ ReaderInv /\ N \in Nat
  BY KeyboardAssumption DEF IInv, N
<1>2. CASE UNCHANGED <<bufferVars, current_key, lost>> /\ Start' = Start /\ Clearing' = Clearing
  <2>1. Contents' = Contents
    BY <1>2, ContentsSame
  <2> QED
    BY <1>2, <2>1
<1>3. CASE \E key \in KeyNames, pressed \in BOOLEAN : Type(key, pressed)
  BY <1>2, <1>3 DEF Type, driverVars, bufferVars, Start, Clearing
<1>4. CASE Load
  BY <1>2, <1>4 DEF Load, driverVars, bufferVars, Start, Clearing
<1>5. CASE Boot
  <2>1. /\ pc \in BootPhases /\ pc' \in BootPhases \cup {"idle"}
        /\ UNCHANGED <<key_buffer, current_key, lost>>
        /\ \/ UNCHANGED <<buffer_head, buffer_tail>>
           \/ buffer_head' = 0 /\ buffer_tail' = 0
    BY <1>5 DEF Boot, UnmaskIrq1, KeyboardInitDrain, ReadConfig, EnableScanning, WaitAck,
                DriverInit, DriverInitDrain, InterruptsEnable, BootPhases, bootRest,
                driverVars, bufferVars
  <2> QED
    BY <1>1, <1>2, <2>1 DEF BootInv, BootPhases, bufferVars, Start, Clearing
<1>6. CASE KeyboardDriverHandler
  <2>1. UNCHANGED <<current_key, Clearing>>
    BY <1>6 DEF KeyboardDriverHandler, Clearing
  <2>2. CASE Contents' = Contents /\ lost' = lost
    BY <2>1, <2>2
  <2>3. CASE \E key \in KeyRecords :
                 /\ Len(Contents) < N - 1
                 /\ Contents' = Append(Contents, key)
                 /\ lost' = lost
    BY <2>1, <2>3 DEF Queue!Next, Queue!Arrive, N, Clearing
  <2>4. CASE /\ Len(Contents) = N - 1 \/ pc = "clear_tail"
             /\ Contents' = Contents
             /\ lost' = lost + 1
    BY <2>1, <2>4 DEF Queue!Next, Queue!Lose, N, Clearing
  <2> QED
    BY <1>6, <2>2, <2>3, <2>4, HandlerEffect
<1>7. CASE PopBegin
  BY <1>2, <1>7 DEF PopBegin, driverVars, bufferVars, Start, Clearing
<1>8. CASE PopCopy
  <2>1. /\ UNCHANGED <<bufferVars, lost, Start, Clearing>> /\ pc # "clear_tail"
        /\ current_key' = key_buffer[buffer_tail] /\ buffer_head # buffer_tail
    BY <1>1, <1>8 DEF PopCopy, ReaderInv, bufferVars, Start, Clearing
  <2>2. Contents' = Contents /\ Contents # <<>> /\ current_key' = Head(Contents)
    BY <1>1, <2>1, ContentsSame, PopEffect
  <2> QED
    BY <2>1, <2>2 DEF Queue!Next, Queue!Look, Clearing
<1>9. CASE PopAdvance
  <2>1. /\ UNCHANGED <<current_key, lost, Clearing>> /\ pc # "clear_tail"
        /\ current_key = key_buffer[buffer_tail] /\ buffer_head # buffer_tail
    BY <1>1, <1>9 DEF PopAdvance, ReaderInv, Clearing
  <2>2. Contents' = Tail(Contents) /\ Contents # <<>> /\ current_key = Head(Contents)
    BY <1>1, <1>9, <2>1, PopEffect
  <2> QED
    BY <2>1, <2>2 DEF Queue!Next, Queue!Take, Clearing
<1>10. CASE ClearHead
  <2>1. Contents' = <<>> /\ Clearing' /\ UNCHANGED <<current_key, lost>>
    BY <1>1, <1>10, ClearEffect DEF ClearHead, Clearing
  <2> QED
    BY <2>1 DEF Queue!Next, Queue!ClearBegin, Clearing
<1>11. CASE ClearTail
  <2>1. Contents' = Contents /\ Clearing /\ ~Clearing' /\ UNCHANGED <<current_key, lost>>
    BY <1>1, <1>11, ClearEffect DEF ClearTail, Clearing
  <2> QED
    BY <2>1 DEF Queue!Next, Queue!ClearEnd, Clearing
<1>12. CASE UNCHANGED vars
  BY <1>2, <1>12 DEF vars, driverVars, bufferVars, Start, Clearing
<1> QED
  BY <1>3, <1>4, <1>5, <1>6, <1>7, <1>8, <1>9, <1>10, <1>11, <1>12 DEF Next, Reader

\* The driver and its ring, with the interrupt at every access, are a bounded
\* queue of KEYBOARD_BUFFER_SIZE - 1 keys: no key is lost, doubled or changed on
\* its way but for those that find the queue full or being cleared.
THEOREM RefinesKeyQueue == Spec => ImplementsKeyQueue
<1>1. Init => Queue!Init
  <2> SUFFICES ASSUME Init PROVE Queue!Init
    OBVIOUS
  <2>1. IInv /\ buffer_head = Start /\ ~(pc = "clear_tail") /\ lost = 0
    BY InitIInv DEF Init, Start
  <2>2. Contents = <<>>
    BY <2>1, ContentsTyped DEF IInv
  <2> QED
    BY <2>1, <2>2 DEF Queue!Init
<1>2. IInv /\ [Next]_vars => [Queue!Next]_<<Contents, current_key, pc = "clear_tail", lost>>
  BY QueueStep DEF Clearing
<1> QED
  BY <1>1, <1>2, SpecIInv, PTL DEF Spec, ImplementsKeyQueue, Queue!Spec

=============================================================================
