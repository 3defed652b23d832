---------------------------- MODULE BoundedQueue ----------------------------
(***************************************************************************)
(* What a circular buffer promises (the comments of circular_buffer.h): a  *)
(* first-in first-out queue of at most Max elements, of which the put that *)
(* does not reject loses the oldest element when there is no room.         *)
(***************************************************************************)
EXTENDS Naturals, Sequences

CONSTANTS Data, Max, NoData

VARIABLES
  queue,  \* the elements, oldest first
  result  \* what the last call returned: [ok, data]

Returned(ok, data) == result' = [ok |-> ok, data |-> data]

Init == queue = <<>> /\ result = [ok |-> TRUE, data |-> NoData]

Put(d) ==
  /\ queue' = IF Len(queue) = Max THEN Append(Tail(queue), d)
                                  ELSE Append(queue, d)
  /\ Returned(TRUE, NoData)

Put2(d) ==
  \/ Len(queue) < Max /\ queue' = Append(queue, d) /\ Returned(TRUE, NoData)
  \/ Len(queue) = Max /\ queue' = queue /\ Returned(FALSE, NoData)

Get(peek) ==
  \/ /\ queue # <<>>
     /\ queue' = IF peek THEN queue ELSE Tail(queue)
     /\ Returned(TRUE, Head(queue))
  \/ queue = <<>> /\ queue' = queue /\ Returned(FALSE, NoData)

Clear == queue' = <<>> /\ Returned(TRUE, NoData)

Next ==
  \/ \E d \in Data : Put(d) \/ Put2(d)
  \/ \E peek \in BOOLEAN : Get(peek)
  \/ Clear

Spec == Init /\ [][Next]_<<queue, result>>
=============================================================================
