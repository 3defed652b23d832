--------------------------- MODULE CircularBuffer ---------------------------
(***************************************************************************)
(* The circular buffer of src/src/circular_buffer.c, which holds the       *)
(* multicast frames that wait for their slot.  head = tail both when it is *)
(* empty and when it is full; the flag full tells the two apart.           *)
(***************************************************************************)
EXTENDS Naturals, Sequences

CONSTANTS
  Data,    \* what is stored (pointers to frames)
  Max,     \* cbuf->max
  NoData   \* no value was returned, or a slot that was never written

ASSUME BufferAssumption == Max \in Nat \ {0} /\ NoData \notin Data

VARIABLES
  buffer, head, tail, full,  \* the fields of struct circular_buf
  result                     \* what the last call returned: [ok, data]

vars == <<buffer, head, tail, full, result>>

Returned(ok, data) == result' = [ok |-> ok, data |-> data]

\* circular_buf_init; malloc leaves the slots unwritten.
Init ==
  /\ buffer = [i \in 0 .. Max - 1 |-> NoData]
  /\ head = 0 /\ tail = 0 /\ full = FALSE
  /\ result = [ok |-> TRUE, data |-> NoData]

Step(i) == (i + 1) % Max

Empty == ~full /\ head = tail

\* Wrong: a put into a full buffer leaves tail behind.
AdvanceHeadOnly ==
  /\ head' = Step(head)
  /\ full' = (head' = tail)
  /\ UNCHANGED tail

\* advance_pointer
AdvancePointer ==
  /\ tail' = IF full THEN Step(tail) ELSE tail
  /\ head' = Step(head)
  /\ full' = (head' = tail')

\* Wrong: the flag is not reset.
RetreatStaysFull ==
  /\ tail' = Step(tail)
  /\ UNCHANGED <<head, full>>

\* retreat_pointer
RetreatPointer ==
  /\ full' = FALSE
  /\ tail' = Step(tail)
  /\ UNCHANGED head

\* circular_buf_put
Put(d) ==
  /\ buffer' = [buffer EXCEPT ![head] = d]
  /\ AdvancePointer
  /\ Returned(TRUE, NoData)

\* circular_buf_put2
Put2(d) ==
  \/ /\ ~full
     /\ buffer' = [buffer EXCEPT ![head] = d]
     /\ AdvancePointer
     /\ Returned(TRUE, NoData)
  \/ /\ full
     /\ UNCHANGED <<buffer, head, tail, full>>
     /\ Returned(FALSE, NoData)

\* circular_buf_get
Get(peek) ==
  \/ /\ ~Empty
     /\ IF peek THEN UNCHANGED <<head, tail, full>> ELSE RetreatPointer
     /\ Returned(TRUE, buffer[tail])
     /\ UNCHANGED buffer
  \/ /\ Empty
     /\ UNCHANGED <<buffer, head, tail, full>>
     /\ Returned(FALSE, NoData)

\* circular_buf_reset
Clear ==
  /\ head' = 0 /\ tail' = 0 /\ full' = FALSE
  /\ UNCHANGED buffer
  /\ Returned(TRUE, NoData)

Next ==
  \/ \E d \in Data : Put(d) \/ Put2(d)
  \/ \E peek \in BOOLEAN : Get(peek)
  \/ Clear

Spec == Init /\ [][Next]_vars

-----------------------------------------------------------------------------
\* circular_buf_size
Size ==
  IF full THEN Max
  ELSE IF head >= tail THEN head - tail
  ELSE Max + head - tail

\* The slot of the i-th oldest element, i counted from 0.
SlotOf(i) == IF tail + i < Max THEN tail + i ELSE tail + i - Max

\* Type invariant of struct circular_buf.
TypeOK ==
  /\ buffer \in [0 .. Max - 1 -> Data \cup {NoData}]
  /\ head \in 0 .. Max - 1 /\ tail \in 0 .. Max - 1
  /\ full \in BOOLEAN
  /\ result \in [ok : BOOLEAN, data : Data \cup {NoData}]

\* head, tail and full agree with each other, the buffer is full exactly when
\* circular_buf_size is the capacity, and no slot between tail and head is one
\* that was never written: circular_buf_get cannot return an unset pointer.
Consistent ==
  /\ full => head = tail
  /\ full <=> Size = Max
  /\ \A i \in 0 .. Size - 1 : buffer[SlotOf(i)] \in Data

\* The elements, oldest first.
Contents == [i \in 1 .. Size |-> buffer[SlotOf(i - 1)]]

\* The buffer is the bounded queue of the elements from tail to head, through
\* any number of wrap-arounds, overwriting puts and resets.
Queue == INSTANCE BoundedQueue WITH queue <- Contents

ImplementsQueue == Queue!Spec
=============================================================================
