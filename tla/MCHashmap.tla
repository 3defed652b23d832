----------------------------- MODULE MCHashmap -----------------------------
(* Instance of Hashmap for TLC. *)
EXTENDS Hashmap

\* "a", "b" and "c" collide in the tables of 4, 8 and 16 slots, "a" and "c"
\* in that of 32 as well, and their chain goes round the end of the array.
\* "d" runs into it: a rehash that meets the elements in another order than
\* they were put in finds a chain full and calls itself.
MCHash == [k \in Key |-> CASE k = "a" -> 15 [] k = "b" -> 31 [] k = "c" -> 79
                           [] k = "d" -> 16 [] k = "e" -> 12]
=============================================================================
