------------------------------ MODULE PeerMap ------------------------------
(***************************************************************************)
(* What the users of the hash map (src/src/peers.c, src/src/election.c)    *)
(* rely on: a finite map, and an iterator that visits every key once and   *)
(* may remove the key it stands on.                                        *)
(***************************************************************************)
EXTENDS Naturals, Functions

CONSTANTS Key, Value, None

VARIABLES
  map,     \* the entries
  active,  \* an iterator exists
  todo,    \* keys the iterator has yet to visit
  cur,     \* key the iterator stands on, or None
  out      \* <<status, value>> of the last call

vars == <<map, active, todo, cur, out>>

Missing == <<"MISSING", None>>

Init ==
  /\ map = [k \in {} |-> None]
  /\ active = FALSE /\ todo = {} /\ cur = None
  /\ out = Missing

\* The key is new: awdl_peer_add looks it up first.
Put(k, v) ==
  /\ ~active /\ k \notin DOMAIN map
  /\ map' = [j \in DOMAIN map \cup {k} |-> IF j = k THEN v ELSE map[j]]
  /\ out' = <<"OK", v>>
  /\ UNCHANGED <<active, todo, cur>>

\* Out of memory: the entry is not added, and others may be lost.
PutFails(k) ==
  /\ ~active /\ k \notin DOMAIN map
  /\ \E left \in SUBSET DOMAIN map : map' = Restrict(map, left)
  /\ out' = <<"OMEM", None>>
  /\ UNCHANGED <<active, todo, cur>>

Get(k) ==
  /\ ~active
  /\ out' = IF k \in DOMAIN map THEN <<"OK", map[k]>> ELSE Missing
  /\ UNCHANGED <<map, active, todo, cur>>

Remove(k) ==
  /\ ~active
  /\ out' = IF k \in DOMAIN map THEN <<"OK", map[k]>> ELSE Missing
  /\ map' = Restrict(map, DOMAIN map \ {k})
  /\ UNCHANGED <<active, todo, cur>>

ItNew ==
  /\ ~active
  /\ active' = TRUE /\ todo' = DOMAIN map /\ cur' = None
  /\ UNCHANGED <<map, out>>

ItNext ==
  /\ active
  /\ \E k \in todo :
       /\ todo' = todo \ {k} /\ cur' = k
       /\ out' = <<"OK", map[k]>>
  /\ UNCHANGED <<map, active>>

ItRemove ==
  /\ active /\ cur # None
  /\ map' = Restrict(map, DOMAIN map \ {cur})
  /\ cur' = None
  /\ out' = <<"OK", None>>
  /\ UNCHANGED <<active, todo>>

\* The loop ends only when every key has been visited.
ItEnd ==
  /\ active /\ todo = {}
  /\ active' = FALSE /\ cur' = None
  /\ out' = Missing
  /\ UNCHANGED <<map, todo>>

Next ==
  \/ \E k \in Key : \/ \E v \in Value : Put(k, v)
                    \/ PutFails(k) \/ Get(k) \/ Remove(k)
  \/ ItNew \/ ItNext \/ ItRemove \/ ItEnd

Spec == Init /\ [][Next]_vars
=============================================================================
