-------------------------------- MODULE Wire --------------------------------
(***************************************************************************)
(* Buffers and the checked reads of them (src/src/wire.c).                 *)
(*                                                                         *)
(* A buffer is a sequence of bytes.  A byte is the position-th one of a    *)
(* field of some width with some value: <<position, width, value>>.  The   *)
(* sender fills packed structures, sequences of fields <<width, value>>;   *)
(* the receiver reads at offsets.  A read that hits a field exactly gives  *)
(* its value, any other read within the buffer gives Garbage, and a read   *)
(* that goes beyond its end fails.                                         *)
(***************************************************************************)
EXTENDS Naturals, Sequences, SequencesExt

CONSTANTS Garbage, OutOfBounds   \* model values

\* A packed structure in memory.
Encode(fields) ==
  FlattenSeq([i \in 1 .. Len(fields) |->
    [j \in 1 .. fields[i][1] |-> <<j, fields[i][1], fields[i][2]>>]])

Zero(width) == <<width, 0>>

\* read_u8, read_le16, read_be16, read_le32, read_ether_addr, read_bytes_copy
Read(buf, offset, width) ==
  IF offset + width > Len(buf) THEN OutOfBounds
  ELSE LET b == buf[offset + 1]
       IN  IF b[1] = 1 /\ b[2] = width THEN b[3] ELSE Garbage

\* buf_strip and buf_take; callers make sure that there is enough.
Strip(buf, n) == SubSeq(buf, n + 1, Len(buf))
Take(buf, n) == SubSeq(buf, 1, Len(buf) - n)

\* Reads in the order of plan, a sequence of <<offset, width, field of rec>>.
\* The first that fails ends it; the fields before it are written.
ReadAll(rec, buf, plan) ==
  LET first[i \in 0 .. Len(plan)] ==
        IF i = 0 THEN [rec |-> rec, ok |-> TRUE]
        ELSE LET done == first[i - 1]
                 v == Read(buf, plan[i][1], plan[i][2])
             IN  IF ~done.ok \/ v = OutOfBounds THEN [done EXCEPT !.ok = FALSE]
                 ELSE [done EXCEPT !.rec[plan[i][3]] = v]
  IN  first[Len(plan)]

\* read_tlv: the value of the TLV at the start of buf, or OutOfBounds.
TlvValue(buf) ==
  LET len == Read(buf, 1, 2)
  IN  IF len \in {OutOfBounds, Garbage} THEN OutOfBounds
      ELSE IF 3 + len > Len(buf) THEN OutOfBounds
      ELSE SubSeq(buf, 4, 3 + len)
=============================================================================
