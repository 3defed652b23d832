------------------------------ MODULE DataFrame ------------------------------
(***************************************************************************)
(* Data frames: from the Ethernet frame that the host of the sender wrote  *)
(* (awdl_send_data in src/daemon/core.c, src/src/tx.c) to the one that the *)
(* host of the receiver gets (awdl_rx_data in src/src/rx.c).               *)
(***************************************************************************)
EXTENDS ActionFrame

CONSTANT ETHER_MAX_LEN    \* length of the buffer of a converted frame

ETHER_LENGTH == 14
LLC_HDR_LEN == 8
AWDL_DATA_LEN == 8

\* An Ethernet frame in memory: e = [dst, src, type, payload], the payload a
\* sequence of bytes.
EtherFrame(e) == Encode(<< <<6, e.dst>>, <<6, e.src>>, <<2, e.type>> >>) \o e.payload

-----------------------------------------------------------------------------
(* The sender. *)

\* llc_init_awdl_hdr
LlcHdr == Encode(<< <<1, "snap">>, <<1, "snap">>, <<1, 3>>, <<3, "oui">>, <<2, "awdl">> >>)

\* awdl_init_data.  Nothing reads the sequence number.
DataHdr(type) == Encode(<< <<2, "head">>, Zero(2), Zero(2), <<2, type>> >>)

\* awdl_init_full_data_frame: whatever the host wrote leaves as IPv6.
FullDataFrame(src, dst, payload) ==
  Ieee80211Hdr("data", src, dst) \o LlcHdr \o DataHdr("IPv6") \o payload

TX_FAIL == <<>>

\* Wrong: source and destination are read at each other's place.
SendDataSwapped(buf) ==
  LET type == Read(buf, 12, 2)
      dst == Read(buf, 6, 6)
      src == Read(buf, 0, 6)
  IN  IF OutOfBounds \in {type, dst, src} THEN TX_FAIL
      ELSE FullDataFrame(src, dst, Strip(buf, ETHER_LENGTH))

\* awdl_send_data: the frame that goes to the driver.
SendData(buf) ==
  LET type == Read(buf, 12, 2)
      dst == Read(buf, 0, 6)
      src == Read(buf, 6, 6)
  IN  IF OutOfBounds \in {type, dst, src} THEN TX_FAIL
      ELSE FullDataFrame(src, dst, Strip(buf, ETHER_LENGTH))

-----------------------------------------------------------------------------
(* The receiver. *)

\* awdl_valid_llc_header
ValidLlc(buf) ==
  /\ Len(buf) >= LLC_HDR_LEN
  /\ Read(buf, 0, 1) = "snap" /\ Read(buf, 1, 1) = "snap" /\ Read(buf, 2, 1) = 3
  /\ Read(buf, 6, 2) = "awdl"

\* awdl_rx_data up to the conversion, for a source that is a peer or not.
DataResult(buf, known) ==
  IF ~known THEN "IGNORE_PEER"
  ELSE IF ~ValidLlc(buf) THEN "UNEXPECTED_FORMAT"
  ELSE IF Len(buf) < LLC_HDR_LEN + AWDL_DATA_LEN THEN "TOO_SHORT"
  ELSE "OK"

\* The conversion.  The buffer has the size of the largest frame and is not
\* cleared; write_bytes fails unnoticed when the payload does not fit.
Converted(buf, src, dst) ==
  LET type == Read(Strip(buf, LLC_HDR_LEN), 6, 2)
      payload == Strip(buf, LLC_HDR_LEN + AWDL_DATA_LEN)
      fits == ETHER_LENGTH + Len(payload) <= ETHER_MAX_LEN
      written == EtherFrame([dst |-> dst, src |-> src, type |-> type,
                             payload |-> IF fits THEN payload ELSE <<>>])
  IN  written \o [i \in 1 .. ETHER_MAX_LEN - Len(written) |-> <<1, 1, Garbage>>]
=============================================================================
