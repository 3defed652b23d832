--------------------------- MODULE Election_proofs ---------------------------
(***************************************************************************)
(* The election of one node, for every peer table and every iteration      *)
(* order, and the tree that the elections of many nodes build.             *)
(*                                                                         *)
(* The loop of awdl_election_run: Preferred is a strict total order on     *)
(* nodes with distinct addresses, so the best of the candidates is unique, *)
(* and the loop keeps the best of the visited ones (BestSoFar).            *)
(***************************************************************************)
EXTENDS ElectionRun, Network, TLAPS

\* The fields the election compares are natural numbers.
LEMMA ElectionStateFields ==
  ASSUME NEW s \in ElectionState
  PROVE  s.height \in Nat /\ s.master_metric \in Nat /\ s.master_counter \in Nat
BY HeightAssumption DEF ElectionState

\* Preferred is transitive: beating the current best means beating everyone
\* the current best has beaten.
LEMMA PreferredTransitive ==
  ASSUME NEW a \in Nat, NEW b \in Nat, NEW c \in Nat,
         NEW sa \in ElectionState, NEW sb \in ElectionState, NEW sc \in ElectionState,
         Preferred(a, sa, b, sb), Preferred(b, sb, c, sc)
  PROVE  Preferred(a, sa, c, sc)
BY ElectionStateFields DEF Preferred, HigherMaster, SameMaster

\* Of two nodes with different addresses one is preferred, and only one.
LEMMA PreferredTotal ==
  ASSUME NEW a \in Nat, NEW b \in Nat, a # b,
         NEW sa \in ElectionState, NEW sb \in ElectionState
  PROVE  /\ Preferred(a, sa, b, sb) \/ Preferred(b, sb, a, sa)
         /\ ~ (Preferred(a, sa, b, sb) /\ Preferred(b, sb, a, sa))
BY ElectionStateFields DEF Preferred, HigherMaster, SameMaster

\* uint32_t addition stays in range.
LEMMA SuccType ==
  ASSUME NEW h \in 0 .. UINT32 - 1
  PROVE  Succ(h) \in 0 .. UINT32 - 1
BY HeightAssumption DEF Succ

\* The reset state of awdl_election_reset_self is an election state.
LEMMA ResetType == Reset \in ElectionState
BY RunAssumption, HeightAssumption DEF Reset, ResetSelf, ElectionState

-----------------------------------------------------------------------------
\* What EndRun adopts is an election state.
LEMMA AdoptType ==
  ASSUME NEW tab, tab \in [DOMAIN tab -> Peer],
         NEW s \in ElectionState, NEW b \in {Self} \cup DOMAIN tab,
         DOMAIN tab \subseteq Others
  PROVE  Adopt(Self, s, tab, b) \in ElectionState
<1>1. CASE b = Self
  BY <1>1 DEF Adopt
<1>2. CASE b # Self
  <2>1. tab[b].election \in ElectionState
    BY <1>2 DEF Peer
  <2>2. Succ(tab[b].election.height) \in 0 .. UINT32 - 1
    BY <2>1, SuccType DEF ElectionState
  <2>3. b \in Addr
    BY <1>2 DEF Others
  <2> QED BY <1>2, <2>1, <2>2, <2>3 DEF Adopt, ElectionState
<1> QED BY <1>1, <1>2

\* The type invariant of the election loop holds in every reachable state.
THEOREM Typing == Spec => []TypeOK
<1>1. Init => TypeOK
  BY ResetType, RunAssumption DEF Init, TypeOK, EmptyTable, Peer
<1>2. TypeOK /\ [Next]_vars => TypeOK'
  <2> SUFFICES ASSUME TypeOK, [Next]_vars PROVE TypeOK'
    OBVIOUS
  <2> USE DEF TypeOK
  <2>1. ASSUME NEW p \in Others, NEW rec \in PeerRecords, SetPeer(p, rec)
        PROVE  TypeOK'
    BY <2>1, RunAssumption DEF SetPeer, Peer
  <2>2. ASSUME NEW p \in DOMAIN peers, DropPeer(p) PROVE TypeOK'
    BY <2>2 DEF DropPeer
  <2>3. CASE StartRun
    BY <2>3, ResetType DEF StartRun
  <2>4. ASSUME NEW p \in Others, Visit(p) PROVE TypeOK'
    BY <2>4 DEF Visit
  <2>5. CASE EndRun
    BY <2>5, AdoptType, ResetType DEF EndRun
  <2>6. CASE UNCHANGED vars
    BY <2>6 DEF vars
  <2> QED BY <2>1, <2>2, <2>3, <2>4, <2>5, <2>6 DEF Next
<1> QED BY <1>1, <1>2, PTL DEF Spec

-----------------------------------------------------------------------------
\* Every candidate has a natural number as address and a typed state.
LEMMA CandidateType ==
  ASSUME TypeOK, NEW c \in Candidates(Self, peers)
  PROVE  c \in Nat /\ StateOf(Self, own, peers, c) \in ElectionState
BY AddrAssumption, RunAssumption DEF TypeOK, Candidates, StateOf, Others, Peer

\* The loop invariant of awdl_election_run: the candidate kept is the best
\* of those visited, in whatever order the hash table returns them.
THEOREM LoopInvariant == Spec => []BestSoFar
<1>1. Init => BestSoFar
  BY DEF Init, BestSoFar
<1>2. TypeOK /\ BestSoFar /\ [Next]_vars => BestSoFar'
  <2> SUFFICES ASSUME TypeOK, BestSoFar, [Next]_vars, (pc = "loop")'
               PROVE  BestSoFar'
    BY DEF BestSoFar
  <2>1. CASE StartRun
    BY <2>1 DEF StartRun, BestSoFar, Candidates, Eligible, TypeOK, Others
  <2>2. ASSUME NEW p \in Others, Visit(p) PROVE BestSoFar'
    <3> DEFINE visited == Candidates(Self, peers) \ todo
               St(c) == StateOf(Self, own, peers, c)
               m == master_state
    <3>1. /\ own = Reset
          /\ m \in visited
          /\ \A c \in visited \ {m} : Preferred(m, St(m), c, St(c))
      BY <2>2 DEF Visit, BestSoFar
    <3>2. p \in DOMAIN peers /\ p # Self /\ p \notin visited /\ p # m
      BY <2>2, <3>1 DEF Visit, TypeOK, Others
    <3>3. Candidates(Self, peers)' = Candidates(Self, peers)
      BY <2>2 DEF Visit
    <3>4. \A c : StateOf(Self, own, peers, c)' = St(c)
      BY <2>2 DEF Visit, StateOf
    <3>5. own' = own /\ todo' = todo \ {p}
      BY <2>2 DEF Visit
    <3>6. St(p) = peers[p].election
      BY <3>2 DEF StateOf
    <3>7. CASE ~Eligible(Self, peers[p])
      <4>1. (Candidates(Self, peers) \ todo)' = visited
        BY <3>2, <3>3, <3>5, <3>7 DEF Candidates
      <4>2. master_state' = m
        BY <2>2, <3>7 DEF Visit, Accepts
      <4> QED BY <3>1, <3>4, <3>5, <4>1, <4>2 DEF BestSoFar, Reset
    <3>8. CASE Eligible(Self, peers[p])
      <4>1. (Candidates(Self, peers) \ todo)' = visited \cup {p}
        BY <3>2, <3>3, <3>5, <3>8 DEF Candidates
      <4>2. p \in Candidates(Self, peers)
        BY <3>2, <3>8 DEF Candidates
      <4>3. CASE Accepts(p)
        <5>1. master_state' = p
          BY <2>2, <4>3 DEF Visit
        <5>2. Preferred(p, St(p), m, St(m))
          BY <3>6, <4>3 DEF Accepts
        <5>3. \A c \in visited : Preferred(p, St(p), c, St(c))
          BY <3>1, <4>2, <5>2, CandidateType, PreferredTransitive
        <5> QED BY <3>1, <3>4, <3>5, <4>1, <5>1, <5>3 DEF BestSoFar, Reset
      <4>4. CASE ~Accepts(p)
        <5>1. master_state' = m
          BY <2>2, <4>4 DEF Visit
        <5>2. ~Preferred(p, St(p), m, St(m))
          BY <3>6, <3>8, <4>4 DEF Accepts
        <5>3. Preferred(m, St(m), p, St(p))
          BY <3>1, <3>2, <4>2, <5>2, CandidateType, PreferredTotal
        <5> QED BY <3>1, <3>4, <3>5, <4>1, <5>1, <5>3 DEF BestSoFar, Reset
      <4> QED BY <4>3, <4>4
    <3> QED BY <3>7, <3>8
  <2>3. CASE UNCHANGED vars
    BY <2>3 DEF vars, BestSoFar, Candidates, StateOf, Reset
  <2>4. QED
    BY <2>1, <2>2, <2>3, Zenon DEF Next, SetPeer, DropPeer, EndRun
<1> QED BY <1>1, <1>2, Typing, PTL DEF Spec

-----------------------------------------------------------------------------
\* No table has two best candidates: what awdl_election_run may adopt is
\* determined by the table, not by the order in which it is traversed.
THEOREM WinnerUnique ==
  ASSUME TypeOK,
         NEW b \in Addr, IsBest(Self, own, peers, b),
         NEW c \in Addr, IsBest(Self, own, peers, c)
  PROVE  b = c
<1> DEFINE St(x) == StateOf(Self, own, peers, x)
<1> SUFFICES ASSUME b # c PROVE FALSE
  OBVIOUS
<1>1. b \in Candidates(Self, peers) /\ c \in Candidates(Self, peers)
  BY DEF IsBest
<1>2. Preferred(b, St(b), c, St(c)) /\ Preferred(c, St(c), b, St(b))
  BY <1>1 DEF IsBest
<1> QED BY <1>1, <1>2, CandidateType, PreferredTotal

\* When the iterator is exhausted the candidate kept is the best of the table.
LEMMA LoopResult ==
  ASSUME TypeOK, BestSoFar, pc = "loop", todo = {}
  PROVE  Elected(Self, Reset, peers, Adopt(Self, own, peers, master_state))
BY DEF BestSoFar, IsBest, Elected

\* Both modules take the outcome from module Election.
LEMMA SameOutcome ==
  ASSUME NEW tab, NEW s, NEW new
  PROVE  Atomic!Elected(Self, s, tab, new) <=> Elected(Self, s, tab, new)
BY DEF Atomic!Elected, Atomic!Adopt, Atomic!IsBest, Atomic!StateOf,
       Atomic!Candidates, Atomic!Eligible, Atomic!Succ, Atomic!Preferred,
       Atomic!HigherMaster, Atomic!SameMaster, Elected, Adopt, IsBest,
       StateOf, Candidates, Eligible, Succ, Preferred, HigherMaster, SameMaster

\* The election loop implements the one-step election of ElectionAtomic:
\* awdl_election_run takes the outcome of the table it started with.
THEOREM Refinement == Spec => ImplementsAtomic
<1> DEFINE absOwn == IF pc = "loop" THEN old ELSE own
<1> Atomic!Reset = Reset
  BY DEF Atomic!Reset, Atomic!ResetSelf, Reset, ResetSelf
<1>1. Init => Atomic!Init
  BY DEF Init, Atomic!Init, Atomic!EmptyTable, EmptyTable
<1>2. TypeOK /\ BestSoFar /\ [Next]_vars => [Atomic!Next]_<<peers, absOwn>>
  <2> SUFFICES ASSUME TypeOK, BestSoFar, [Next]_vars
               PROVE  [Atomic!Next]_<<peers, absOwn>>
    OBVIOUS
  <2>1. ASSUME NEW p \in Others, NEW rec \in PeerRecords, SetPeer(p, rec)
        PROVE  Atomic!SetPeer(p, rec)
    BY <2>1 DEF SetPeer, Atomic!SetPeer
  <2>2. ASSUME NEW p \in DOMAIN peers, DropPeer(p) PROVE Atomic!DropPeer(p)
    BY <2>2 DEF DropPeer, Atomic!DropPeer
  <2>3. CASE StartRun
    BY <2>3 DEF StartRun
  <2>4. ASSUME NEW p \in Others, Visit(p) PROVE UNCHANGED <<peers, absOwn>>
    BY <2>4 DEF Visit
  <2>5. CASE EndRun
    <3>1. absOwn' = Adopt(Self, own, peers, master_state) /\ peers' = peers
      BY <2>5 DEF EndRun
    <3>2. Elected(Self, Reset, peers, absOwn')
      BY <2>5, <3>1, LoopResult DEF EndRun
    <3>3. Atomic!Elect
      BY <3>1, <3>2, SameOutcome DEF Atomic!Elect
    <3> QED BY <3>3 DEF Atomic!Next
  <2>6. CASE UNCHANGED vars
    BY <2>6 DEF vars
  <2> QED
    BY <2>1, <2>2, <2>3, <2>4, <2>5, <2>6
    DEF Next, Atomic!Next, Others, Atomic!Others
<1> QED
  BY <1>1, <1>2, Typing, LoopInvariant, PTL DEF Spec, ImplementsAtomic, Atomic!Spec

\* The comment at election.c:85 holds as long as no peer advertises the largest
\* height there is: only its successor, 0, gets past the check and is wrong.
THEOREM TreeHeight ==
  (\A rec \in PeerRecords : rec.election.height # UINT32 - 1)
    => (Spec => []TreeFits)
<1> SUFFICES ASSUME \A rec \in PeerRecords : rec.election.height # UINT32 - 1
             PROVE  Spec => []TreeFits
  OBVIOUS
<1> DEFINE FromRecords == \A p \in DOMAIN peers : peers[p] \in PeerRecords
           IInv == TreeFits /\ FromRecords
<1>1. Init => IInv
  BY HeightAssumption DEF Init, TreeFits, Reset, ResetSelf, EmptyTable
<1>2. TypeOK /\ BestSoFar /\ IInv /\ [Next]_vars => IInv'
  <2> SUFFICES ASSUME TypeOK, BestSoFar, IInv, [Next]_vars
               PROVE  IInv'
    OBVIOUS
  <2>1. CASE StartRun
    BY <2>1 DEF StartRun, TreeFits
  <2>2. CASE EndRun
    <3>1. FromRecords'
      BY <2>2 DEF EndRun
    <3>2. CASE master_state = Self
      BY <2>2, <3>1, <3>2, HeightAssumption
      DEF EndRun, Adopt, TreeFits, BestSoFar, Reset, ResetSelf
    <3>3. CASE master_state # Self
      <4>1. /\ master_state \in DOMAIN peers
            /\ Eligible(Self, peers[master_state])
        BY <2>2, <3>3 DEF EndRun, BestSoFar, Candidates
      <4> DEFINE h == peers[master_state].election.height
      <4>2. h \in 0 .. UINT32 - 1 /\ h # UINT32 - 1
        BY <4>1, RunAssumption DEF ElectionState
      <4>3. Succ(h) = h + 1
        BY <4>2, HeightAssumption DEF Succ
      <4>4. Succ(h) \in 1 .. MAX_HEIGHT
        BY <4>1, <4>2, <4>3, HeightAssumption DEF Eligible
      <4>5. own'.height = Succ(h) /\ own'.sync_addr = master_state
        BY <2>2, <3>3 DEF EndRun, Adopt
      <4> QED BY <3>1, <3>3, <4>4, <4>5, HeightAssumption DEF TreeFits
    <3> QED BY <3>2, <3>3
  <2>3. ASSUME NEW p \in Others, NEW rec \in PeerRecords, SetPeer(p, rec)
        PROVE  IInv'
    BY <2>3 DEF SetPeer, TreeFits
  <2>4. ASSUME NEW p \in DOMAIN peers, DropPeer(p)
        PROVE  IInv'
    BY <2>4 DEF DropPeer, TreeFits
  <2>5. CASE UNCHANGED <<peers, own, pc>>
    BY <2>5 DEF TreeFits
  <2> QED BY <2>1, <2>2, <2>3, <2>4, <2>5, Zenon DEF Next, Visit, vars
<1> QED BY <1>1, <1>2, Typing, LoopInvariant, PTL DEF Spec

-----------------------------------------------------------------------------
(* The synchronisation tree of a network.  The peer tables hold what other *)
(* nodes advertised at some time, so what holds of every advertised state  *)
(* has to be part of the invariant.                                        *)

\* What every node advertises.
Sound(e) == e.height <= MAX_HEIGHT /\ SameMaster(e, ResetNode(e.master_addr))

IsTable(n, tab) ==
  /\ DOMAIN tab \subseteq Addr \ {n}
  /\ \A a \in DOMAIN tab : tab[a].election \in ElectionState /\ Sound(tab[a].election)

NetInv ==
  /\ election \in [Addr -> ElectionState]
  /\ \A n \in Addr : Sound(election[n])
  /\ DOMAIN heard = Addr
  /\ \A n \in Addr : IsTable(n, heard[n])
  /\ HeightsFit
  /\ NeverWorse

LEMMA ResetSound ==
  ASSUME NEW n \in Addr
  PROVE  /\ ResetNode(n) \in ElectionState /\ Sound(ResetNode(n))
         /\ ResetNode(n).height = 0 /\ ResetNode(n).sync_addr = n
         /\ ResetNode(n).master_addr = n
         /\ ResetNode(n).master_metric = Metric[n] /\ ResetNode(n).master_counter = 0
BY HeightAssumption, NetworkAssumption
   DEF ResetNode, ResetSelf, ElectionState, Sound, SameMaster

\* What an election adopts, from a table of sound entries.
LEMMA AdoptSound ==
  ASSUME NEW n \in Addr, NEW tab, IsTable(n, tab), NEW b \in Candidates(n, tab),
         IsBest(n, ResetNode(n), tab, b)
  PROVE  LET s == Adopt(n, ResetNode(n), tab, b)
         IN  /\ s \in ElectionState /\ Sound(s)
             /\ s.height = 0 <=> s.sync_addr = n
             /\ s.sync_addr # n =>
                  \/ HigherMaster(s, ResetNode(n))
                  \/ SameMaster(s, ResetNode(n)) /\ s.height = 1 /\ s.sync_addr > n
<1> DEFINE s == Adopt(n, ResetNode(n), tab, b)
<1>1. CASE b = n
  <2>1. s = ResetNode(n)
    BY <1>1 DEF Adopt
  <2> QED BY <2>1, ResetSound
<1>2. CASE b # n
  <2> DEFINE e == tab[b].election
  <2>1. b \in DOMAIN tab /\ Eligible(n, tab[b])
    BY <1>2 DEF Candidates
  <2>2. b \in Addr /\ e \in ElectionState /\ Sound(e) /\ Succ(e.height) <= MAX_HEIGHT
    BY <2>1 DEF IsTable, Eligible
  <2>3. s = [height |-> Succ(e.height), master_addr |-> e.master_addr, sync_addr |-> b,
             master_metric |-> e.master_metric, master_counter |-> e.master_counter]
    BY <1>2 DEF Adopt
  <2>4. Preferred(b, e, n, ResetNode(n))
    <3>1. n \in Candidates(n, tab) \ {b}
      BY <1>2 DEF Candidates
    <3>2. StateOf(n, ResetNode(n), tab, b) = e
          /\ StateOf(n, ResetNode(n), tab, n) = ResetNode(n)
      BY <1>2, Zenon DEF StateOf
    <3>3. Preferred(b, StateOf(n, ResetNode(n), tab, b),
                    n, StateOf(n, ResetNode(n), tab, n))
      BY <3>1, Zenon DEF IsBest
    <3> QED BY <3>2, <3>3, Zenon
  <2> HIDE DEF e
  <2>5. e.height \in Nat /\ e.height <= MAX_HEIGHT /\ Succ(e.height) = e.height + 1
    <3>1. e.height \in Nat /\ e.height <= MAX_HEIGHT
      BY <2>2, HeightAssumption DEF ElectionState, Sound
    <3>2. e.height + 1 \in Nat /\ e.height + 1 < UINT32
      BY <3>1, HeightAssumption, NetworkAssumption
    <3> QED BY <3>1, <3>2, HeightAssumption DEF Succ
  <2>6. s \in ElectionState
    BY <2>2, <2>3, <2>5, HeightAssumption DEF ElectionState
  <2>7. Sound(s)
    BY <2>2, <2>3 DEF Sound, SameMaster
  <2>8. s.height # 0 /\ s.sync_addr # n
    BY <1>2, <2>3, <2>5
  <2>9. HigherMaster(s, ResetNode(n))
        \/ (SameMaster(s, ResetNode(n)) /\ s.height = 1 /\ s.sync_addr > n)
    <3>1. CASE HigherMaster(e, ResetNode(n))
      BY <2>3, <3>1 DEF HigherMaster
    <3>2. CASE SameMaster(e, ResetNode(n)) /\ e.height = 0 /\ b > n
      BY <2>3, <2>5, <3>2 DEF SameMaster
    <3>3. HigherMaster(e, ResetNode(n))
          \/ (SameMaster(e, ResetNode(n)) /\ e.height = 0 /\ b > n)
      <4>1. ~(e.height < 0)
        BY <2>5
      <4> QED BY <2>4, <4>1, ResetSound DEF Preferred
    <3> QED BY <3>1, <3>2, <3>3
  <2> QED BY <2>6, <2>7, <2>8, <2>9
<1> QED BY <1>1, <1>2

LEMMA NetInit == NetworkInit => NetInv
<1> SUFFICES ASSUME NetworkInit PROVE NetInv
  OBVIOUS
<1>1. election = [n \in Addr |-> ResetNode(n)] /\ heard = [n \in Addr |-> EmptyTable]
  BY DEF NetworkInit
<1>2. election \in [Addr -> ElectionState] /\ \A n \in Addr : Sound(election[n])
  <2>1. \A n \in Addr : ResetNode(n) \in ElectionState /\ Sound(ResetNode(n))
    BY ResetSound, Zenon
  <2>2. \A n \in Addr : election[n] = ResetNode(n)
    BY <1>1, Zenon
  <2> QED BY <1>1, <2>1, <2>2
<1>3. HeightsFit
  <2>1. \A n \in Addr : election[n].height = 0 /\ election[n].sync_addr = n
    BY <1>1, ResetSound, Zenon
  <2>2. \A n \in Addr : election[n].height <= MAX_HEIGHT
    <3>1. 0 <= MAX_HEIGHT
      BY HeightAssumption
    <3> QED BY <2>1, <3>1, Zenon
  <2> QED BY <2>1, <2>2, Zenon DEF HeightsFit
<1>4. NeverWorse
  <2>1. \A n \in Addr :
          /\ election[n].sync_addr = n
          /\ SameMaster(election[n], ResetNode(election[n].master_addr))
    BY <1>1, ResetSound, Zenon DEF Sound
  <2> QED BY <2>1, Zenon DEF NeverWorse
<1>5. DOMAIN heard = Addr /\ \A n \in Addr : IsTable(n, heard[n])
  BY <1>1 DEF IsTable, EmptyTable
<1> QED BY <1>2, <1>3, <1>4, <1>5 DEF NetInv

LEMMA HearKeeps ==
  ASSUME NetInv, NEW n \in Addr, NEW q \in Addr, Hear(n, q)
  PROVE  NetInv'
<1> DEFINE peer == [is_valid |-> TRUE, election |-> election[q]]
           tab == [a \in DOMAIN heard[n] \cup {q} |-> IF a = q THEN peer ELSE heard[n][a]]
<1>1. heard' = [heard EXCEPT ![n] = tab] /\ election' = election /\ <<n, q>> \in Links
  BY DEF Hear
<1>2. q # n
  BY <1>1, NetworkAssumption
<1>3. IsTable(n, tab)
  BY <1>2 DEF NetInv, IsTable
<1> HIDE DEF tab
<1>4. DOMAIN heard' = Addr /\ \A a \in Addr : IsTable(a, heard'[a])
  BY <1>1, <1>3 DEF NetInv
<1>5. HeightsFit' /\ NeverWorse'
  BY <1>1 DEF NetInv, HeightsFit, NeverWorse
<1> QED BY <1>1, <1>4, <1>5 DEF NetInv

LEMMA CleanKeeps ==
  ASSUME NetInv, NEW n \in Addr, NEW gone, CleanPeers(n, gone)
  PROVE  NetInv'
<1> DEFINE left == [a \in DOMAIN heard[n] \ gone |-> heard[n][a]]
<1>1. IsTable(n, left)
  BY DEF NetInv, IsTable
<1>2. heard' = [heard EXCEPT ![n] = left]
  BY DEF CleanPeers
<1>3. PICK b \in Candidates(n, left) :
        /\ IsBest(n, ResetNode(n), left, b)
        /\ election' = [election EXCEPT ![n] = Adopt(n, ResetNode(n), left, b)]
  BY DEF CleanPeers
<1> DEFINE s == Adopt(n, ResetNode(n), left, b)
<1> HIDE DEF left
<1>4. /\ s \in ElectionState /\ Sound(s)
      /\ s.height = 0 <=> s.sync_addr = n
      /\ s.sync_addr # n =>
           \/ HigherMaster(s, ResetNode(n))
           \/ SameMaster(s, ResetNode(n)) /\ s.height = 1 /\ s.sync_addr > n
  BY <1>1, <1>3, AdoptSound
<1> HIDE DEF s
<1>5. DOMAIN heard' = Addr /\ \A a \in Addr : IsTable(a, heard'[a])
  BY <1>1, <1>2 DEF NetInv
<1>6. election' = [election EXCEPT ![n] = s] /\ election \in [Addr -> ElectionState]
  BY <1>3 DEF NetInv, s
<1>7. election' \in [Addr -> ElectionState] /\ election'[n] = s
      /\ \A a \in Addr \ {n} : election'[a] = election[a]
  BY <1>4, <1>6
<1>8. \A a \in Addr : Sound(election'[a])
  BY <1>4, <1>7 DEF NetInv
<1>9. HeightsFit'
  BY <1>4, <1>7 DEF NetInv, HeightsFit, Sound
<1>10. NeverWorse'
  BY <1>4, <1>7 DEF NetInv, NeverWorse, Sound
<1> QED BY <1>5, <1>7, <1>8, <1>9, <1>10 DEF NetInv

LEMMA EnterKeeps ==
  ASSUME NetInv, NEW n \in Addr, Enter(n)
  PROVE  NetInv'
<1>1. /\ election' = [election EXCEPT ![n] = ResetNode(n)]
      /\ heard' = [heard EXCEPT ![n] = EmptyTable]
  BY DEF Enter
<1>2. election' \in [Addr -> ElectionState] /\ election'[n] = ResetNode(n)
      /\ \A a \in Addr \ {n} : election'[a] = election[a]
  BY <1>1, ResetSound DEF NetInv
<1>3. IsTable(n, EmptyTable)
  BY DEF IsTable, EmptyTable
<1>4. DOMAIN heard' = Addr /\ \A a \in Addr : IsTable(a, heard'[a])
  BY <1>1, <1>3 DEF NetInv
<1>5. \A a \in Addr : Sound(election'[a])
  BY <1>2, ResetSound DEF NetInv
<1>6. HeightsFit'
  BY <1>2, ResetSound, HeightAssumption DEF NetInv, HeightsFit
<1>7. NeverWorse'
  BY <1>2, ResetSound DEF NetInv, NeverWorse, Sound
<1> QED BY <1>2, <1>4, <1>5, <1>6, <1>7 DEF NetInv

\* Whatever the nodes start with, every step keeps it.
LEMMA NetInvariant == NetInv /\ [][NetworkNext]_netVars => []NetInv
<1>1. NetInv /\ [NetworkNext]_netVars => NetInv'
  <2> SUFFICES ASSUME NetInv, [NetworkNext]_netVars PROVE NetInv'
    OBVIOUS
  <2>1. ASSUME NEW l \in Links, Hear(l[1], l[2]) PROVE NetInv'
    BY <2>1, HearKeeps, NetworkAssumption
  <2>2. ASSUME NEW n \in Addr, NEW gone \in SUBSET DOMAIN heard[n], CleanPeers(n, gone)
        PROVE  NetInv'
    BY <2>2, CleanKeeps
  <2>3. ASSUME NEW n \in Addr, Leave(n) PROVE NetInv'
    BY <2>3 DEF Leave, NetInv, HeightsFit, NeverWorse
  <2>4. ASSUME NEW n \in Addr, Enter(n) PROVE NetInv'
    BY <2>4, EnterKeeps
  <2>5. CASE UNCHANGED netVars
    BY <2>5 DEF netVars, NetInv, HeightsFit, NeverWorse
  <2> QED BY <2>1, <2>2, <2>3, <2>4, <2>5 DEF NetworkNext
<1> QED BY <1>1, PTL

\* awdl_election_run never puts a node lower in the tree than MAX_HEIGHT, and
\* puts it at height 0 exactly when it is its own master, whatever other nodes
\* have told it of masters that may be gone.
THEOREM HeightsTheorem == NetworkSpec => []HeightsFit
<1>1. NetInv => HeightsFit
  BY DEF NetInv
<1> QED BY <1>1, NetInit, NetInvariant, PTL DEF NetworkSpec

\* awdl_election_run never makes a node follow a master that it outranks, and
\* hands the parameters of a master down the tree as they are.
THEOREM NeverWorseTheorem == NetworkSpec => []NeverWorse
<1>1. NetInv => NeverWorse
  BY DEF NetInv
<1> QED BY <1>1, NetInit, NetInvariant, PTL DEF NetworkSpec
=============================================================================
