---------------------------- MODULE MCElectionRun ----------------------------
(* Instances of ElectionRun for TLC. *)
EXTENDS ElectionRun

Rec(valid, h, sync, metric, counter) ==
  [is_valid |-> valid,
   election |-> [height |-> h, master_addr |-> 0, sync_addr |-> sync,
                 master_metric |-> metric, master_counter |-> counter]]

\* Three peers; records that tie with us, win by height, metric or counter,
\* one record for each way of being rejected before the comparison, and the
\* largest height, which passes the height check because its successor is 0.
MCPeerRecords ==
  {Rec(TRUE, 0, 0, 0, 0), Rec(TRUE, 0, 0, 1, 0), Rec(TRUE, 1, 0, 1, 0),
   Rec(TRUE, 1, 0, 0, 1),
   Rec(FALSE, 0, 0, 1, 1), Rec(TRUE, MAX_HEIGHT, 0, 1, 1),
   Rec(TRUE, 0, Self, 1, 1), Rec(TRUE, UINT32 - 1, 0, 1, 0)}
=============================================================================
