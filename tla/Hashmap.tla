------------------------------ MODULE Hashmap ------------------------------
(***************************************************************************)
(* The hash map that holds the peer table (src/src/hashmap.c), as it is    *)
(* used by src/src/peers.c: open addressing with at most MAX_CHAIN_LENGTH  *)
(* probes, doubling when it is half full or a chain is.                    *)
(*                                                                         *)
(* A table is [data, table_size, size]: data is the array, a function from *)
(* 0 to table_size - 1, whose free slots hold Free.  A calloc may fail; of *)
(* more than MaxTable slots it always does.                                *)
(*                                                                         *)
(* hashmap_put and hashmap_rehash call each other.  Every element that one *)
(* of them stores is a step here, and the loops of the rehashes that are   *)
(* not finished are a stack.  No other call is made in between.            *)
(***************************************************************************)
EXTENDS Integers, FiniteSets, Sequences, FiniteSetsExt

CONSTANTS
  Key, Value, None,
  Hash,              \* Key -> Nat: siphash24 under the fixed seed
  INITIAL_SIZE, MAX_CHAIN_LENGTH,
  MaxTable           \* bound: slots that a calloc can provide at most

ASSUME HashmapAssumption ==
  /\ None \notin Key
  /\ Hash \in [Key -> Nat]
  /\ INITIAL_SIZE \in Nat \ {0} /\ MAX_CHAIN_LENGTH \in 1 .. INITIAL_SIZE
  /\ MaxTable \in Nat /\ INITIAL_SIZE <= MaxTable

VARIABLES
  m,      \* the table
  new,    \* the element that awdl_peer_add is putting, or Free
  loops,  \* the loops of hashmap_rehash that are not finished, the innermost
          \* last: the array that each empties and the slots that are left
  it,     \* the iterator's index, or NoIterator
  out     \* <<status, value>> of the last call

vars == <<m, new, loops, it, out>>

Free == [key |-> None, data |-> None]

NoIterator == -2

InUse(tab) == {i \in 0 .. tab.table_size - 1 : tab.data[i] # Free}

\* hashmap_new
Empty(n) == [data |-> [i \in 0 .. n - 1 |-> Free], table_size |-> n, size |-> 0]

\* hashmap_hash_int, and the slots probed from there on, in order.
Chain(tab, k) ==
  [i \in 1 .. MAX_CHAIN_LENGTH |-> (Hash[k] + i - 1) % tab.table_size]

MAP_FULL == -1

\* The slots that hold k.
Holding(tab, k) == {i \in 0 .. tab.table_size - 1 : tab.data[i].key = k}

\* The first slot of the chain that is one of slots.
FirstSlot(tab, k, slots) ==
  LET hits == {i \in 1 .. MAX_CHAIN_LENGTH : Chain(tab, k)[i] \in slots}
  IN  IF hits = {} THEN MAP_FULL ELSE Chain(tab, k)[Min(hits)]

\* hashmap_hash
HashmapHash(tab, k) ==
  IF tab.size >= tab.table_size \div 2 THEN MAP_FULL
  ELSE FirstSlot(tab, k, Holding(tab, None) \cup Holding(tab, k))

Store(tab, i, k, v) ==
  [tab EXCEPT !.data[i] = [key |-> k, data |-> v], !.size = @ + 1]

Erase(tab, i) == [tab EXCEPT !.data[i] = Free, !.size = @ - 1]

\* Wrong: the search ends at a free slot.
HashmapGetStopsAtHole(tab, k) ==
  LET i == FirstSlot(tab, k, Holding(tab, None) \cup Holding(tab, k))
  IN  IF i = MAP_FULL \/ tab.data[i] = Free THEN MAP_FULL ELSE i

\* hashmap_get: removed entries leave holes, so it never stops at a free slot.
HashmapGet(tab, k) == FirstSlot(tab, k, Holding(tab, k))

-----------------------------------------------------------------------------
Missing == <<"MISSING", None>>

Found(i) == IF i = MAP_FULL THEN Missing ELSE <<"OK", m.data[i].data>>

Init ==
  /\ m = Empty(INITIAL_SIZE) /\ new = Free /\ loops = <<>>
  /\ it = NoIterator /\ out = Missing

Idle == new = Free /\ it = NoIterator

\* awdl_peer_add for a node that is not in the table calls hashmap_put; a
\* known one is only looked up.  Nothing is added while an iterator is in use.
PeerPut(k, v) ==
  /\ Idle
  /\ HashmapGet(m, k) = MAP_FULL
  /\ new' = [key |-> k, data |-> v]
  /\ UNCHANGED <<m, loops, it, out>>

\* The element that the innermost call of hashmap_put is about.
Loop == loops[Len(loops)]
Element == IF loops = <<>> THEN new ELSE Loop.curr[Min(Loop.todo)]

Putting == new # Free /\ (loops # <<>> => Loop.todo # {})

\* hashmap_put finds a slot; the loop of the rehash that called it goes on.
HashmapPut ==
  /\ Putting
  /\ LET i == HashmapHash(m, Element.key)
     IN  /\ i # MAP_FULL
         /\ m' = Store(m, i, Element.key, Element.data)
  /\ IF loops = <<>>
     THEN new' = Free /\ out' = <<"OK", new.data>> /\ UNCHANGED loops
     ELSE /\ loops' = [loops EXCEPT ![Len(loops)].todo = @ \ {Min(@)}]
          /\ UNCHANGED <<new, out>>
  /\ UNCHANGED it

\* Wrong: the first element is not moved.
HashmapRehashSkips ==
  /\ Putting
  /\ HashmapHash(m, Element.key) = MAP_FULL
  /\ 2 * m.table_size <= MaxTable
  /\ loops' = Append(loops, [curr |-> m.data, todo |-> InUse(m) \ {Min(InUse(m))}])
  /\ m' = Empty(2 * m.table_size)
  /\ UNCHANGED <<new, it, out>>

\* hashmap_put finds none and hashmap_rehash begins to move all elements;
\* when it is done hashmap_put tries again.
HashmapRehash ==
  /\ Putting
  /\ HashmapHash(m, Element.key) = MAP_FULL
  /\ 2 * m.table_size <= MaxTable
  /\ loops' = Append(loops, [curr |-> m.data, todo |-> InUse(m)])
  /\ m' = Empty(2 * m.table_size)
  /\ UNCHANGED <<new, it, out>>

RehashEnd ==
  /\ loops # <<>> /\ Loop.todo = {}
  /\ loops' = SubSeq(loops, 1, Len(loops) - 1)
  /\ UNCHANGED <<m, new, it, out>>

\* The calloc of hashmap_rehash fails.  All the calls return, and the elements
\* that their loops have not moved yet are lost.
OutOfMemory ==
  /\ Putting
  /\ HashmapHash(m, Element.key) = MAP_FULL
  /\ new' = Free /\ loops' = <<>> /\ out' = <<"OMEM", None>>
  /\ UNCHANGED <<m, it>>

\* awdl_peer_get
PeerGet(k) ==
  /\ Idle
  /\ out' = Found(HashmapGet(m, k))
  /\ UNCHANGED <<m, new, loops, it>>

\* awdl_peer_remove
PeerRemove(k) ==
  /\ Idle
  /\ LET i == HashmapGet(m, k)
     IN  /\ out' = Found(i)
         /\ m' = IF i = MAP_FULL THEN m ELSE Erase(m, i)
  /\ UNCHANGED <<new, loops, it>>

ItNew ==
  /\ Idle
  /\ it' = -1
  /\ UNCHANGED <<m, new, loops, out>>

Ahead == {i \in InUse(m) : i > it}

\* hashmap_it_next finds another element; at the end the loop is left and
\* the iterator is freed.
ItNext ==
  /\ it # NoIterator
  /\ IF Ahead # {} THEN /\ it' = Min(Ahead)
                        /\ out' = <<"OK", m.data[Min(Ahead)].data>>
                   ELSE it' = NoIterator /\ out' = Missing
  /\ UNCHANGED <<m, new, loops>>

\* hashmap_it_remove on the element just visited (awdl_peers_remove)
ItRemove ==
  /\ it \in InUse(m)
  /\ m' = Erase(m, it)
  /\ out' = <<"OK", None>>
  /\ UNCHANGED <<new, loops, it>>

Next ==
  \/ \E k \in Key : \/ \E v \in Value : PeerPut(k, v)
                    \/ PeerGet(k) \/ PeerRemove(k)
  \/ HashmapPut \/ HashmapRehash \/ RehashEnd \/ OutOfMemory
  \/ ItNew \/ ItNext \/ ItRemove

Spec == Init /\ [][Next]_vars

-----------------------------------------------------------------------------
Entry == [key : Key, data : Value]

Array(n) == [0 .. n - 1 -> Entry \cup {Free}]

\* Type invariant.
TypeOK ==
  /\ m.table_size \in 1 .. MaxTable
  /\ m.data \in Array(m.table_size)
  /\ m.size \in 0 .. m.table_size
  /\ new \in Entry \cup {Free}
  /\ \A i \in 1 .. Len(loops) :
       \E n \in 1 .. MaxTable : /\ loops[i].curr \in Array(n)
                               /\ loops[i].todo \subseteq 0 .. n - 1
  /\ it \in -2 .. m.table_size - 1

\* size counts the entries, no key is stored twice although hashmap_hash
\* takes the first hole it meets, and every entry is found by hashmap_get
\* from its key: after any removals, rehashes and failed rehashes, and at
\* every step of them.
Consistent ==
  /\ m.size = Cardinality(InUse(m))
  /\ \A i, j \in InUse(m) : m.data[i].key = m.data[j].key => i = j
  /\ \A i \in InUse(m) : HashmapGet(m, m.data[i].key) = i

\* The entries: those in the table and those that are about to be moved to it.
Stored(tab) == {tab.data[i] : i \in InUse(tab)}
Moving(ls) == UNION {{ls[j].curr[i] : i \in ls[j].todo} : j \in 1 .. Len(ls)}
Entries == Stored(m) \cup Moving(loops)

KeysOf(entries) == {e.key : e \in entries}

MapOf(entries) ==
  [k \in KeysOf(entries) |-> (CHOOSE e \in entries : e.key = k).data]

\* The keys that the iterator has yet to visit, and the one it stands on.
ToVisit == IF it = NoIterator THEN {} ELSE KeysOf({m.data[i] : i \in Ahead})
Current == IF it \in InUse(m) THEN m.data[it].key ELSE None

Map ==
  INSTANCE PeerMap WITH
    map    <- MapOf(Entries),
    active <- it # NoIterator,
    todo   <- ToVisit,
    cur    <- Current

\* The array behaves as a map: a successful put, with all the moving that a
\* rehash does, adds one entry and keeps the others, a lookup finds what was
\* put, and an iterator visits every entry once while entries are removed
\* under it.
ImplementsMap == Map!Spec
=============================================================================
