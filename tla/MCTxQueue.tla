------------------------------ MODULE MCTxQueue ------------------------------
(* An instance of TxQueue for TLC: two slots of three units, one of them for
   multicast frames, and a peer that listens in none or the other. *)
EXTENDS TxQueue

MCCommon == {{}, {1}}
=============================================================================
