------------------------ MODULE CircularBuffer_proofs ------------------------
(***************************************************************************)
(* The circular buffer is a bounded first-in first-out queue for every     *)
(* capacity and every kind of element.                                     *)
(***************************************************************************)
EXTENDS CircularBuffer, SequenceTheorems, TLAPS

\* Indices wrap to 0 at the capacity.
LEMMA StepWraps ==
  ASSUME NEW i \in 0 .. Max - 1
  PROVE  Step(i) = IF i = Max - 1 THEN 0 ELSE i + 1
<1>1. CASE i = Max - 1
  BY <1>1, BufferAssumption DEF Step
<1>2. CASE i # Max - 1
  <2>1. i + 1 \in 0 .. Max - 1
    BY <1>2, BufferAssumption
  <2> QED BY <1>2, <2>1, BufferAssumption DEF Step
<1> QED BY <1>1, <1>2

\* The fields of struct circular_buf keep their types.
THEOREM Typing == Spec => []TypeOK
<1>1. Init => TypeOK
  <2> SUFFICES ASSUME Init PROVE TypeOK
    OBVIOUS
  <2>1. head \in 0 .. Max - 1 /\ tail \in 0 .. Max - 1
    BY BufferAssumption DEF Init
  <2> QED BY <2>1, Zenon DEF Init, TypeOK
<1>2. TypeOK /\ [Next]_vars => TypeOK'
  <2> SUFFICES ASSUME TypeOK, [Next]_vars PROVE TypeOK'
    OBVIOUS
  <2> USE DEF TypeOK
  <2>1. \A i \in 0 .. Max - 1 : Step(i) \in 0 .. Max - 1
    BY StepWraps, BufferAssumption
  <2>a. ASSUME AdvancePointer
        PROVE  head' \in 0 .. Max - 1 /\ tail' \in 0 .. Max - 1 /\ full' \in BOOLEAN
    <3>1. head' \in 0 .. Max - 1 /\ tail' \in 0 .. Max - 1
      BY <2>1, <2>a DEF AdvancePointer
    <3>2. full' \in BOOLEAN
      BY <2>a, Zenon DEF AdvancePointer
    <3> QED BY <3>1, <3>2
  <2>b. ASSUME NEW d \in Data, buffer' = [buffer EXCEPT ![head] = d]
        PROVE  buffer' \in [0 .. Max - 1 -> Data \cup {NoData}]
    BY <2>b
  <2>c. ASSUME NEW ok \in BOOLEAN, NEW x \in Data \cup {NoData}, Returned(ok, x)
        PROVE  result' \in [ok : BOOLEAN, data : Data \cup {NoData}]
    BY <2>c DEF Returned
  <2>2. ASSUME NEW d \in Data, Put(d) PROVE TypeOK'
    BY <2>2, <2>a, <2>b, <2>c, Zenon DEF Put
  <2>3. ASSUME NEW d \in Data, Put2(d) PROVE TypeOK'
    BY <2>3, <2>a, <2>b, <2>c, Zenon DEF Put2
  <2>4. ASSUME NEW peek \in BOOLEAN, Get(peek) PROVE TypeOK'
    <3>1. CASE Empty
      BY <2>4, <3>1, <2>c, Zenon DEF Get
    <3>2. CASE ~Empty
      <4>1. result' \in [ok : BOOLEAN, data : Data \cup {NoData}]
        BY <2>4, <3>2, <2>c, Zenon DEF Get
      <4>2. /\ head' \in 0 .. Max - 1 /\ tail' \in 0 .. Max - 1
            /\ full' \in BOOLEAN /\ buffer' = buffer
        BY <2>1, <2>4, <3>2, Zenon DEF Get, RetreatPointer
      <4> QED BY <4>1, <4>2
    <3> QED BY <3>1, <3>2
  <2>5. CASE Clear
    <3>1. 0 \in 0 .. Max - 1
      BY BufferAssumption
    <3> QED BY <2>5, <2>c, <3>1, Zenon DEF Clear
  <2>6. CASE UNCHANGED vars
    BY <2>6 DEF vars
  <2> QED BY <2>2, <2>3, <2>4, <2>5, <2>6 DEF Next
<1> QED BY <1>1, <1>2, PTL DEF Spec

-----------------------------------------------------------------------------
\* Where the elements are, as plain arithmetic.
LEMMA SizeType ==
  ASSUME TypeOK, full => head = tail
  PROVE  /\ Size \in 0 .. Max
         /\ \A i \in 0 .. Size - 1 : SlotOf(i) \in 0 .. Max - 1
         /\ Size = 0 <=> Empty
         /\ Size = Max <=> full
         /\ Size < Max => SlotOf(Size) = head
         /\ Size = Max => head = tail
BY BufferAssumption DEF TypeOK, Size, SlotOf, Empty

\* The same for the state after a step: the size is in range and the flag full
\* tells whether it is the capacity.
LEMMA SizeNext ==
  ASSUME TypeOK'
  PROVE  Size' \in 0 .. Max /\ Size' \in Nat /\ (full' <=> Size' = Max)
<1>1. head' \in 0 .. Max - 1 /\ tail' \in 0 .. Max - 1
  BY DEF TypeOK
<1>2. CASE full'
  <2>1. Size' = Max
    BY <1>2 DEF Size
  <2> QED BY <1>2, <2>1, BufferAssumption
<1>3. CASE ~full'
  <2>1. Size' = IF head' >= tail' THEN head' - tail' ELSE Max + head' - tail'
    BY <1>3 DEF Size
  <2>2. \A h, t \in 0 .. Max - 1 :
          (IF h >= t THEN h - t ELSE Max + h - t) \in 0 .. Max - 1
    BY BufferAssumption
  <2>3. Size' \in 0 .. Max - 1
    BY <1>1, <2>1, <2>2, Zenon
  <2> QED BY <1>3, <2>3, BufferAssumption
<1> QED BY <1>2, <1>3

\* A put into a buffer with room adds a last element in the slot at head.
LEMMA PutWithRoom ==
  ASSUME TypeOK, Consistent, ~full, NEW d \in Data,
         buffer' = [buffer EXCEPT ![head] = d], AdvancePointer
  PROVE  /\ Size' = Size + 1
         /\ full' => head' = tail'
         /\ \A i \in 0 .. Size - 1 : buffer'[SlotOf(i)'] = buffer[SlotOf(i)]
         /\ \A n \in Nat : n = Size => buffer'[SlotOf(n)'] = d
<1>1. head' = (IF head = Max - 1 THEN 0 ELSE head + 1) /\ tail' = tail
  BY StepWraps DEF AdvancePointer, TypeOK
<1>2. full' = (head' = tail')
  BY DEF AdvancePointer
<1>3. Size' = Size + 1
  <2>1. CASE head' = tail'
    <3>1. Size' = Max
      BY <1>2, <2>1, Zenon DEF Size
    <3> QED BY <1>1, <2>1, <3>1, BufferAssumption DEF Size, TypeOK
  <2>2. CASE head' # tail'
    <3>1. ~full'
      BY <1>2, <2>2, Zenon
    <3> QED BY <1>1, <2>2, <3>1, BufferAssumption DEF Size, TypeOK
  <2> QED BY <2>1, <2>2
<1>4. \A i : SlotOf(i)' = SlotOf(i)
  BY <1>1 DEF SlotOf
<1>5. \A i \in 0 .. Size - 1 : SlotOf(i) \in 0 .. Max - 1 /\ SlotOf(i) # head
  BY BufferAssumption DEF Size, SlotOf, TypeOK
<1>6. Size \in 0 .. Max /\ Size # Max
  BY SizeType DEF Consistent
<1>7. SlotOf(Size) = head
  BY <1>6, SizeType, BufferAssumption DEF Consistent
<1>8. buffer'[head] = d /\ \A k \in 0 .. Max - 1 : k # head => buffer'[k] = buffer[k]
  BY DEF TypeOK
<1>9. \A i \in 0 .. Size - 1 : buffer'[SlotOf(i)'] = buffer[SlotOf(i)]
  BY <1>4, <1>5, <1>6, <1>8, BufferAssumption
<1> QED BY <1>2, <1>3, <1>4, <1>6, <1>7, <1>8, <1>9, Zenon

\* A put into a full buffer overwrites the oldest element.
LEMMA PutWhenFull ==
  ASSUME TypeOK, Consistent, full, NEW d \in Data,
         buffer' = [buffer EXCEPT ![head] = d], AdvancePointer
  PROVE  /\ Size' = Max /\ Size = Max
         /\ full' /\ head' = tail'
         /\ \A i \in 0 .. Max - 2 : buffer'[SlotOf(i)'] = buffer[SlotOf(i + 1)]
         /\ buffer'[SlotOf(Max - 1)'] = d
<1>1. /\ head' = (IF head = Max - 1 THEN 0 ELSE head + 1)
      /\ tail' = (IF tail = Max - 1 THEN 0 ELSE tail + 1)
      /\ head = tail
  BY StepWraps DEF AdvancePointer, TypeOK, Consistent
<1>2. full' /\ head' = tail'
  BY <1>1, Zenon DEF AdvancePointer
<1>3. Size' = Max /\ Size = Max
  BY <1>2 DEF Size
<1>4. \A i \in 0 .. Max - 2 : /\ SlotOf(i)' = SlotOf(i + 1)
                              /\ SlotOf(i + 1) \in 0 .. Max - 1
                              /\ SlotOf(i + 1) # head
  BY <1>1, BufferAssumption DEF SlotOf, TypeOK
<1>5. SlotOf(Max - 1)' = head
  BY <1>1, BufferAssumption DEF SlotOf, TypeOK
<1> QED BY <1>2, <1>3, <1>4, <1>5 DEF TypeOK

\* Taking the oldest element leaves the others in place.
LEMMA Retreat ==
  ASSUME TypeOK, Consistent, ~Empty, RetreatPointer, buffer' = buffer
  PROVE  /\ Size > 0 /\ Size' = Size - 1
         /\ ~full'
         /\ \A i \in 0 .. Size - 2 : buffer'[SlotOf(i)'] = buffer[SlotOf(i + 1)]
         /\ buffer[tail] = buffer[SlotOf(0)]
<1>1. tail' = (IF tail = Max - 1 THEN 0 ELSE tail + 1) /\ head' = head /\ ~full'
  BY StepWraps DEF RetreatPointer, TypeOK
<1>2. Size > 0 /\ Size' = Size - 1
  BY <1>1, BufferAssumption DEF Size, TypeOK, Consistent, Empty
<1>3. \A i \in 0 .. Size - 2 : SlotOf(i)' = SlotOf(i + 1)
  BY <1>1, BufferAssumption DEF SlotOf, TypeOK, Size
<1>4. SlotOf(0) = tail
  BY BufferAssumption DEF SlotOf, TypeOK
<1> QED BY <1>1, <1>2, <1>3, <1>4

-----------------------------------------------------------------------------
\* head, tail, full and the slots in use always fit together; in particular
\* circular_buf_get never returns a pointer that was not put.
THEOREM ConsistentTheorem == Spec => []Consistent
<1>1. Init => Consistent
  BY BufferAssumption DEF Init, Consistent, Size
<1>2. TypeOK /\ Consistent /\ [Next]_vars /\ TypeOK' => Consistent'
  <2> SUFFICES ASSUME TypeOK, Consistent, [Next]_vars, TypeOK' PROVE Consistent'
    OBVIOUS
  <2> DEFINE InUse == \A i \in 0 .. Size - 1 : buffer[SlotOf(i)] \in Data
  <2>0. /\ Size \in 0 .. Max /\ InUse
        /\ \A i \in 0 .. Size - 1 : SlotOf(i) \in 0 .. Max - 1
    BY SizeType DEF Consistent
  <2>1. (full <=> Size = Max)'
    BY SizeNext
  <2> SUFFICES (full => head = tail)' /\ InUse'
    BY <2>1 DEF Consistent
  <2>2. ASSUME NEW d \in Data, ~full, AdvancePointer,
               buffer' = [buffer EXCEPT ![head] = d]
        PROVE  (full => head = tail)' /\ InUse'
    <3>1. /\ Size' = Size + 1
          /\ full' => head' = tail'
          /\ \A i \in 0 .. Size - 1 : buffer'[SlotOf(i)'] = buffer[SlotOf(i)]
          /\ \A n \in Nat : n = Size => buffer'[SlotOf(n)'] = d
      BY <2>2, PutWithRoom, Zenon
    <3>2. \A i \in 0 .. Size' - 1 : i = Size \/ i \in 0 .. Size - 1
      BY <2>0, <3>1
    <3> QED BY <2>0, <3>1, <3>2
  <2>3. ASSUME NEW d \in Data, full, AdvancePointer,
               buffer' = [buffer EXCEPT ![head] = d]
        PROVE  (full => head = tail)' /\ InUse'
    <3>1. /\ Size' = Max /\ Size = Max
          /\ full' /\ head' = tail'
          /\ \A i \in 0 .. Max - 2 : buffer'[SlotOf(i)'] = buffer[SlotOf(i + 1)]
          /\ buffer'[SlotOf(Max - 1)'] = d
      BY <2>3, PutWhenFull, Zenon
    <3>2. \A i \in 0 .. Size' - 1 :
            i = Max - 1 \/ (i \in 0 .. Max - 2 /\ i + 1 \in 0 .. Size - 1)
      BY <3>1, BufferAssumption
    <3> QED BY <2>0, <3>1, <3>2
  <2>4. ASSUME NEW d \in Data, Put(d) \/ Put2(d)
        PROVE  (full => head = tail)' /\ InUse'
    <3>1. CASE UNCHANGED <<buffer, head, tail, full>>
      BY <2>0, <3>1 DEF Consistent, Size, SlotOf
    <3> QED BY <2>2, <2>3, <2>4, <3>1, Zenon DEF Put, Put2
  <2>5. ASSUME NEW peek \in BOOLEAN, Get(peek)
        PROVE  (full => head = tail)' /\ InUse'
    <3>1. CASE UNCHANGED <<buffer, head, tail, full>>
      BY <2>0, <3>1 DEF Consistent, Size, SlotOf
    <3>2. CASE ~Empty /\ RetreatPointer /\ buffer' = buffer
      <4>1. /\ Size' = Size - 1 /\ ~full'
            /\ \A i \in 0 .. Size - 2 : buffer'[SlotOf(i)'] = buffer[SlotOf(i + 1)]
        BY <3>2, Retreat
      <4>2. \A i \in 0 .. Size' - 1 : i \in 0 .. Size - 2 /\ i + 1 \in 0 .. Size - 1
        BY <2>0, <4>1
      <4> QED BY <2>0, <4>1, <4>2
    <3> QED BY <2>5, <3>1, <3>2, Zenon DEF Get
  <2>6. CASE Clear
    BY <2>6, BufferAssumption DEF Clear, Size
  <2>7. CASE UNCHANGED vars
    BY <2>0, <2>7 DEF vars, Consistent, Size, SlotOf
  <2> QED BY <2>4, <2>5, <2>6, <2>7 DEF Next
<1> QED BY <1>1, <1>2, Typing, PTL DEF Spec

-----------------------------------------------------------------------------
\* The buffer refines the bounded queue: what is put comes out once, in the
\* order of the puts, unless a put on a full buffer has overwritten it.
THEOREM Refinement == Spec => ImplementsQueue
<1> DEFINE q == Contents
<1>1. Init => Queue!Init
  BY BufferAssumption DEF Init, Queue!Init, Size, Contents
<1>2. TypeOK /\ Consistent /\ [Next]_vars /\ TypeOK' /\ Consistent'
        => [Queue!Next]_<<q, result>>
  <2> SUFFICES ASSUME TypeOK, Consistent, [Next]_vars, TypeOK', Consistent'
               PROVE  [Queue!Next]_<<q, result>>
    OBVIOUS
  <2>0. /\ Size \in 0 .. Max /\ Size \in Nat
        /\ Size = 0 <=> Empty
        /\ Size = Max <=> full
    BY SizeType, BufferAssumption DEF Consistent
  <2>1. /\ q \in Seq(Data) /\ Len(q) = Size
        /\ \A i \in 1 .. Size : q[i] = buffer[SlotOf(i - 1)]
    <3>1. \A i \in 1 .. Size : buffer[SlotOf(i - 1)] \in Data
      BY <2>0, BufferAssumption DEF Consistent
    <3> QED BY <2>0, <3>1 DEF Contents
  <2>2. /\ q' \in Seq(Data) /\ Len(q') = Size' /\ Size' \in Nat
        /\ \A i \in 1 .. Size' : q'[i] = buffer'[SlotOf(i - 1)']
    <3>1. Size' \in Nat
      BY SizeNext
    <3>2. \A i \in 1 .. Size' : buffer'[SlotOf(i - 1)'] \in Data
      <4> TAKE i \in 1 .. Size'
      <4>1. \A n \in Nat : \A k \in 1 .. n : k - 1 \in 0 .. n - 1
        OBVIOUS
      <4>2. i - 1 \in 0 .. Size' - 1
        BY <3>1, <4>1, Zenon
      <4> QED BY <4>2 DEF Consistent
    <3>3. q' = [i \in 1 .. Size' |-> buffer'[SlotOf(i - 1)']]
      BY DEF Contents
    <3> QED BY <3>1, <3>2, <3>3
  <2>3. ASSUME NEW ok, NEW x, Returned(ok, x) PROVE Queue!Returned(ok, x)
    BY <2>3 DEF Returned, Queue!Returned
  <2>4. ASSUME UNCHANGED <<buffer, head, tail, full>> PROVE q' = q
    BY <2>4 DEF Size, SlotOf, Contents
  <2> HIDE DEF q
  <2>5. ASSUME NEW d \in Data, ~full, AdvancePointer,
               buffer' = [buffer EXCEPT ![head] = d]
        PROVE  q' = Append(q, d)
    <3>1. /\ Size' = Size + 1
          /\ \A i \in 0 .. Size - 1 : buffer'[SlotOf(i)'] = buffer[SlotOf(i)]
          /\ \A n \in Nat : n = Size => buffer'[SlotOf(n)'] = d
      BY <2>5, PutWithRoom, Zenon
    <3>2. \A i \in 1 .. Size : q'[i] = q[i]
      <4> TAKE i \in 1 .. Size
      <4>1. i \in 1 .. Size' /\ i - 1 \in 0 .. Size - 1
        BY <2>0, <3>1
      <4>2. buffer'[SlotOf(i - 1)'] = buffer[SlotOf(i - 1)]
        BY <3>1, <4>1, Zenon
      <4> QED BY <2>1, <2>2, <4>1, <4>2, Zenon
    <3>3. q'[Size + 1] = d
      BY <2>0, <2>2, <3>1
    <3>4. /\ Append(q, d) \in Seq(Data) /\ Len(Append(q, d)) = Size + 1
          /\ \A i \in 1 .. Size : Append(q, d)[i] = q[i]
          /\ Append(q, d)[Size + 1] = d
      BY <2>1, AppendProperties
    <3>5. \A i \in 1 .. Size + 1 : q'[i] = Append(q, d)[i]
      BY <2>0, <3>2, <3>3, <3>4
    <3> QED BY <2>2, <3>1, <3>4, <3>5, SeqEqual
  <2>6. ASSUME NEW d \in Data, full, AdvancePointer,
               buffer' = [buffer EXCEPT ![head] = d]
        PROVE  q' = Append(Tail(q), d)
    <3>1. /\ Size' = Max /\ Size = Max
          /\ \A i \in 0 .. Max - 2 : buffer'[SlotOf(i)'] = buffer[SlotOf(i + 1)]
          /\ buffer'[SlotOf(Max - 1)'] = d
      BY <2>6, PutWhenFull, Zenon
    <3>2. \A i \in 1 .. Max - 1 : q'[i] = q[i + 1]
      <4> TAKE i \in 1 .. Max - 1
      <4>1. /\ i - 1 \in 0 .. Max - 2 /\ (i - 1) + 1 = (i + 1) - 1
            /\ i \in 1 .. Max /\ i + 1 \in 1 .. Max
        BY BufferAssumption
      <4>2. buffer'[SlotOf(i - 1)'] = buffer[SlotOf((i + 1) - 1)]
        BY <3>1, <4>1
      <4> QED BY <2>1, <2>2, <3>1, <4>1, <4>2, Zenon
    <3>3. q'[Max] = d
      BY <2>2, <3>1, BufferAssumption
    <3>4. q # <<>>
      BY <2>1, <3>1, BufferAssumption
    <3>5. /\ Tail(q) \in Seq(Data) /\ Len(Tail(q)) = Max - 1
          /\ \A i \in 1 .. Max - 1 : Tail(q)[i] = q[i + 1]
      BY <2>1, <3>1, <3>4, HeadTailProperties
    <3>6. /\ Append(Tail(q), d) \in Seq(Data) /\ Len(Append(Tail(q), d)) = Max
          /\ \A i \in 1 .. Max - 1 : Append(Tail(q), d)[i] = Tail(q)[i]
          /\ Append(Tail(q), d)[Max] = d
      <4>1. Max - 1 + 1 = Max
        BY BufferAssumption
      <4> QED BY <3>5, <4>1, AppendProperties
    <3>7. \A i \in 1 .. Max : q'[i] = Append(Tail(q), d)[i]
      BY <3>2, <3>3, <3>5, <3>6, BufferAssumption
    <3> QED BY <2>2, <3>1, <3>6, <3>7, SeqEqual
  <2>7. ASSUME ~Empty, RetreatPointer, buffer' = buffer
        PROVE  q' = Tail(q)
    <3>1. /\ Size > 0 /\ Size' = Size - 1
          /\ \A i \in 0 .. Size - 2 : buffer'[SlotOf(i)'] = buffer[SlotOf(i + 1)]
      BY <2>7, Retreat
    <3>2. \A i \in 1 .. Size - 1 : q'[i] = q[i + 1]
      <4> TAKE i \in 1 .. Size - 1
      <4>1. /\ i - 1 \in 0 .. Size - 2 /\ (i - 1) + 1 = (i + 1) - 1
            /\ i \in 1 .. Size' /\ i + 1 \in 1 .. Size
        BY <2>0, <3>1
      <4>2. buffer'[SlotOf(i - 1)'] = buffer[SlotOf((i + 1) - 1)]
        BY <3>1, <4>1
      <4> QED BY <2>1, <2>2, <4>1, <4>2, Zenon
    <3>3. q # <<>>
      BY <2>1, <3>1
    <3>4. /\ Tail(q) \in Seq(Data) /\ Len(Tail(q)) = Size - 1
          /\ \A i \in 1 .. Size - 1 : Tail(q)[i] = q[i + 1]
      BY <2>1, <3>3, HeadTailProperties
    <3> QED BY <2>2, <3>1, <3>2, <3>4, SeqEqual
  <2>8. ASSUME ~Empty PROVE q # <<>> /\ Head(q) = buffer[tail]
    <3>1. Size # 0 /\ 1 \in 1 .. Size
      BY <2>0, <2>8
    <3>2. SlotOf(1 - 1) = tail
      BY BufferAssumption DEF SlotOf, TypeOK
    <3>3. q[1] = buffer[tail]
      BY <2>1, <3>1, <3>2
    <3> QED BY <2>1, <3>1, <3>3
  <2>9. ASSUME Empty PROVE q = <<>>
    BY <2>0, <2>1, <2>9, EmptySeq
  <2>10. ASSUME NEW d \in Data, Put(d) PROVE Queue!Put(d)
    BY <2>0, <2>1, <2>3, <2>5, <2>6, <2>10, Zenon DEF Put, Queue!Put, q
  <2>11. ASSUME NEW d \in Data, Put2(d) PROVE Queue!Put2(d)
    <3>1. CASE ~full
      <4>1. Len(q) < Max
        BY <2>0, <2>1, <3>1, BufferAssumption
      <4> QED BY <2>3, <2>5, <2>11, <3>1, <4>1, Zenon DEF Put2, Queue!Put2, q
    <3>2. CASE full
      <4>1. Len(q) = Max
        BY <2>0, <2>1, <3>2
      <4> QED BY <2>3, <2>4, <2>11, <3>2, <4>1, Zenon DEF Put2, Queue!Put2, q
    <3> QED BY <3>1, <3>2
  <2>12. ASSUME NEW peek \in BOOLEAN, Get(peek) PROVE Queue!Get(peek)
    BY <2>3, <2>4, <2>7, <2>8, <2>9, <2>12, Zenon DEF Get, Queue!Get, q
  <2>13. CASE Clear
    <3>1. Size' = 0
      BY <2>13 DEF Clear, Size
    <3>2. q' = <<>>
      BY <2>2, <3>1, EmptySeq
    <3> QED BY <2>3, <2>13, <3>2, Zenon DEF Clear, Queue!Clear, Queue!Next, q
  <2>14. CASE UNCHANGED vars
    BY <2>4, <2>14 DEF vars
  <2> QED BY <2>10, <2>11, <2>12, <2>13, <2>14 DEF Next, Queue!Next
<1> QED
  BY <1>1, <1>2, Typing, ConsistentTheorem, PTL
  DEF Spec, ImplementsQueue, Queue!Spec
=============================================================================
