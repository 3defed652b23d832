----------------------------- MODULE ElectionRun -----------------------------
(***************************************************************************)
(* awdl_election_run as the code runs it: our state is reset, the peers    *)
(* are visited once each in the order of the hash table (any order), each  *)
(* is compared with the best candidate so far, and the last one standing   *)
(* is adopted.  The function runs inside one callback, so the table does   *)
(* not change while the loop is under way.                                 *)
(***************************************************************************)
EXTENDS Election

CONSTANTS Self, SelfMetric, SelfCounter, PeerRecords

VARIABLES
  peers,        \* the peer table, address -> [is_valid, election]
  own,          \* our struct awdl_election_state
  old,          \* own when the run started (old_top_master, old_sync_master)
  pc,           \* "idle", or "loop" inside awdl_election_run
  todo,         \* peers the iterator has not returned yet
  master_state  \* the best candidate so far (an address, ours at first)

vars == <<peers, own, old, pc, todo, master_state>>

ASSUME RunAssumption ==
  /\ Self \in Addr
  /\ SelfMetric \in Nat
  /\ SelfCounter \in Nat
  /\ PeerRecords \subseteq [is_valid : BOOLEAN, election : ElectionState]

Others == Addr \ {Self}

Reset == ResetSelf(Self, SelfMetric, SelfCounter)

Init ==
  /\ peers = EmptyTable
  /\ own = Reset
  /\ old = Reset
  /\ pc = "idle"
  /\ todo = {}
  /\ master_state = Self

\* Between two elections: a frame rewrites an entry, or an entry times out.
SetPeer(p, rec) ==
  /\ pc = "idle"
  /\ peers' = [a \in DOMAIN peers \cup {p} |-> IF a = p THEN rec ELSE peers[a]]
  /\ UNCHANGED <<own, old, pc, todo, master_state>>

DropPeer(p) ==
  /\ pc = "idle"
  /\ peers' = [a \in DOMAIN peers \ {p} |-> peers[a]]
  /\ UNCHANGED <<own, old, pc, todo, master_state>>

StartRun ==
  /\ pc = "idle"
  /\ old' = own
  /\ own' = Reset
  /\ pc' = "loop"
  /\ todo' = DOMAIN peers
  /\ master_state' = Self
  /\ UNCHANGED peers

\* Wrong: every peer is compared with ourselves.
AcceptsBetterThanSelf(p) ==
  Eligible(Self, peers[p]) /\ Preferred(p, peers[p].election, Self, own)

\* One iteration: the rejections in the order of the code, else accept.
Accepts(p) ==
  /\ Eligible(Self, peers[p])
  /\ Preferred(p, peers[p].election,
               master_state, StateOf(Self, own, peers, master_state))

Visit(p) ==
  /\ pc = "loop"
  /\ p \in todo
  /\ todo' = todo \ {p}
  /\ master_state' = IF Accepts(p) THEN p ELSE master_state
  /\ UNCHANGED <<peers, own, old, pc>>

\* Wrong: the loop is left at any point.
EndRunEarly ==
  /\ pc = "loop"
  /\ own' = Adopt(Self, own, peers, master_state)
  /\ pc' = "idle"
  /\ old' = Reset
  /\ master_state' = Self
  /\ UNCHANGED <<peers, todo>>

\* Wrong: the master's counter is not copied.
EndRunOwnCounter ==
  /\ pc = "loop"
  /\ todo = {}
  /\ own' = [Adopt(Self, own, peers, master_state) EXCEPT
               !.master_counter = own.master_counter]
  /\ pc' = "idle"
  /\ old' = Reset
  /\ master_state' = Self
  /\ UNCHANGED <<peers, todo>>

EndRun ==
  /\ pc = "loop"
  /\ todo = {}
  /\ own' = Adopt(Self, own, peers, master_state)
  /\ pc' = "idle"
  /\ old' = Reset
  /\ master_state' = Self
  /\ UNCHANGED <<peers, todo>>

Next ==
  \/ \E p \in Others, rec \in PeerRecords : SetPeer(p, rec)
  \/ \E p \in DOMAIN peers : DropPeer(p)
  \/ StartRun
  \/ \E p \in Others : Visit(p)
  \/ EndRun

Spec == Init /\ [][Next]_vars

-----------------------------------------------------------------------------
Peer == [is_valid : BOOLEAN, election : ElectionState]

\* Type invariant; the loop only runs over entries of the table.
TypeOK ==
  /\ DOMAIN peers \subseteq Others
  /\ peers \in [DOMAIN peers -> Peer]
  /\ own \in ElectionState /\ old \in ElectionState
  /\ pc \in {"idle", "loop"}
  /\ todo \subseteq DOMAIN peers
  /\ master_state \in {Self} \cup DOMAIN peers
  /\ pc = "idle" => todo = {} /\ master_state = Self

\* The loop invariant of awdl_election_run: master_state is a candidate the
\* iterator has returned (or ourselves) and beats every other candidate
\* returned so far, although each was compared with a different opponent.
BestSoFar ==
  pc = "loop" =>
    LET visited == Candidates(Self, peers) \ todo IN
    /\ own = Reset
    /\ master_state \in visited
    /\ \A c \in visited \ {master_state} :
         Preferred(master_state, StateOf(Self, own, peers, master_state),
                   c, StateOf(Self, own, peers, c))

\* The comment at election.c:85, "reject: tree would get too large if accepted
\* as sync master": between two elections a node is the root of its tree, at
\* height 0, or hangs in one at a height of 1 to MAX_HEIGHT.
TreeFits ==
  pc = "idle" =>
    /\ own.height <= MAX_HEIGHT
    /\ own.height = 0 <=> own.sync_addr = Self

\* The loop implements the one-step election: seen from outside, our state
\* is the old one until the run ends, and then the elected one.
Atomic == INSTANCE ElectionAtomic WITH
            own <- IF pc = "loop" THEN old ELSE own

ImplementsAtomic == Atomic!Spec
=============================================================================
