--------------------------- MODULE Hashmap_proofs ---------------------------
(***************************************************************************)
(* Proofs about the hash map: the table is consistent at every step of     *)
(* every call, and the array implements the map of PeerMap.                *)
(***************************************************************************)
EXTENDS Hashmap, FiniteSetTheorems, WellFoundedInduction, TLAPS

\* Facts about one table that every call keeps.
IsTable(tab) ==
  /\ tab.table_size \in Nat \ {0}
  /\ DOMAIN tab = {"data", "table_size", "size"}
  /\ tab.data \in Array(tab.table_size)

\* Slot i is probed when k is looked up.
Probed(tab, k, i) == \E c \in 1 .. MAX_CHAIN_LENGTH : Chain(tab, k)[c] = i

Sound(tab) ==
  /\ IsTable(tab)
  /\ tab.size = Cardinality(InUse(tab))
  /\ \A i, j \in InUse(tab) : tab.data[i].key = tab.data[j].key => i = j
  /\ \A i \in InUse(tab) : Probed(tab, tab.data[i].key, i)

\* A key names at most one of the entries.
Unique(entries) == \A e, f \in entries : e.key = f.key => e = f

-----------------------------------------------------------------------------
\* A non-empty set of naturals has a least element, which is what Min is.
LEMMA MinExists ==
  ASSUME NEW S \in SUBSET Nat, S # {}
  PROVE  Min(S) \in S /\ \A y \in S : Min(S) <= y
<1>1. PICK x \in S : \A y \in S : ~ (<<y, x>> \in OpToRel(<, Nat))
  BY NatLessThanWellFounded, WFMin, Zenon
<1>2. \A y \in S : ~ (y < x)
  BY <1>1, Zenon DEF OpToRel
<1>3. \A y \in S : x <= y
  BY <1>2
<1> QED
  BY <1>3, Zenon DEF Min

\* A sequence with one element replaced, and one without its last element.
LEMMA ReplaceOne ==
  ASSUME NEW S, NEW s \in Seq(S), NEW n \in 1 .. Len(s), NEW y \in S
  PROVE  [s EXCEPT ![n] = y] \in Seq(S) /\ Len([s EXCEPT ![n] = y]) = Len(s)
OBVIOUS

LEMMA DropLast ==
  ASSUME NEW S, NEW s \in Seq(S), s # <<>>
  PROVE  LET f == SubSeq(s, 1, Len(s) - 1)
         IN  /\ f \in Seq(S) /\ Len(f) = Len(s) - 1
             /\ \A j \in 1 .. Len(s) - 1 : f[j] = s[j]
<1> DEFINE n == Len(s) - 1
           f == SubSeq(s, 1, n)
<1>1. n \in Nat /\ 1 .. n \subseteq 1 .. Len(s)
  OBVIOUS
<1>2. f = [j \in 1 .. n |-> s[j]]
  <2>1. f = [j \in 1 .. (1 + n) - 1 |-> s[(1 + j) - 1]]
    BY <1>1 DEF SubSeq
  <2> QED
    BY <1>1, <2>1
<1>3. \A j \in 1 .. n : s[j] \in S
  BY <1>1
<1> HIDE DEF n, f
<1>4. f \in Seq(S) /\ Len(f) = n /\ \A j \in 1 .. n : f[j] = s[j]
  BY <1>1, <1>2, <1>3
<1> QED
  BY <1>4, Zenon DEF f, n

\* Free is no entry, because None is no key.
LEMMA FreeIsNoEntry ==
  /\ Free \notin Entry
  /\ Free.key = None
  /\ \A e \in Entry : e.key \in Key /\ e.key # None /\ e.data \in Value
BY HashmapAssumption DEF Free, Entry

\* The slots of a chain are slots of the array.
LEMMA ChainSlots ==
  ASSUME NEW tab, tab.table_size \in Nat \ {0}, NEW k \in Key,
         NEW c \in 1 .. MAX_CHAIN_LENGTH
  PROVE  Chain(tab, k)[c] \in 0 .. tab.table_size - 1
<1>1. Hash[k] + c - 1 \in Nat
  BY HashmapAssumption
<1>2. \A a \in Nat, n \in Nat \ {0} : a % n \in 0 .. n - 1
  OBVIOUS
<1> QED
  BY <1>1, <1>2, Zenon DEF Chain

\* What FirstSlot returns.
LEMMA FirstSlotIs ==
  ASSUME NEW tab, tab.table_size \in Nat \ {0}, NEW k \in Key,
         NEW slots
  PROVE  LET f == FirstSlot(tab, k, slots)
         IN  /\ f # MAP_FULL => f \in slots /\ Probed(tab, k, f)
             /\ f = MAP_FULL => \A i \in slots : i # MAP_FULL => ~Probed(tab, k, i)
<1> DEFINE hits == {i \in 1 .. MAX_CHAIN_LENGTH : Chain(tab, k)[i] \in slots}
<1>1. CASE hits = {}
  <2>1. FirstSlot(tab, k, slots) = MAP_FULL
    BY <1>1 DEF FirstSlot
  <2>2. \A i \in slots : ~Probed(tab, k, i)
    BY <1>1 DEF Probed
  <2> QED
    BY <2>1, <2>2
<1>2. CASE hits # {}
  <2>1. hits \in SUBSET Nat
    BY HashmapAssumption
  <2>2. Min(hits) \in hits
    BY <1>2, <2>1, MinExists
  <2>3. FirstSlot(tab, k, slots) = Chain(tab, k)[Min(hits)]
    BY <1>2 DEF FirstSlot
  <2>4. Chain(tab, k)[Min(hits)] # MAP_FULL
    BY <2>2, ChainSlots DEF MAP_FULL
  <2> QED
    BY <2>2, <2>3, <2>4, Zenon DEF Probed
<1> QED
  BY <1>1, <1>2

\* In use is the same as holding an entry.
LEMMA InUseIs ==
  ASSUME NEW tab, IsTable(tab)
  PROVE  /\ InUse(tab) \subseteq 0 .. tab.table_size - 1
         /\ \A i \in InUse(tab) : tab.data[i] \in Entry
         /\ \A i \in (0 .. tab.table_size - 1) \ InUse(tab) : tab.data[i] = Free
         /\ IsFiniteSet(InUse(tab))
<1>1. InUse(tab) \subseteq 0 .. tab.table_size - 1
  BY DEF InUse
<1>2. IsFiniteSet(0 .. tab.table_size - 1)
  BY FS_Interval DEF IsTable
<1>3. IsFiniteSet(InUse(tab))
  BY <1>1, <1>2, FS_Subset, Zenon
<1> QED
  BY <1>1, <1>3 DEF IsTable, InUse, Array

\* The slots that hold a key, and the free ones.
LEMMA HoldingIs ==
  ASSUME NEW tab, IsTable(tab)
  PROVE  /\ Holding(tab, None) = (0 .. tab.table_size - 1) \ InUse(tab)
         /\ \A k \in Key : Holding(tab, k) = {i \in InUse(tab) : tab.data[i].key = k}
<1>1. \A i \in 0 .. tab.table_size - 1 : tab.data[i] \in Entry \/ tab.data[i] = Free
  BY DEF IsTable, Array
<1> QED
  BY <1>1, FreeIsNoEntry, HashmapAssumption DEF Holding, InUse

\* An empty table.
LEMMA EmptySound ==
  ASSUME NEW n \in Nat \ {0}
  PROVE  Sound(Empty(n)) /\ InUse(Empty(n)) = {} /\ Empty(n).table_size = n
<1>1. InUse(Empty(n)) = {}
  BY DEF InUse, Empty
<1>2. IsTable(Empty(n))
  BY DEF IsTable, Empty, Array
<1>3. Empty(n).size = Cardinality({}) /\ Empty(n).table_size = n
  BY FS_EmptySet DEF Empty
<1> QED
  BY <1>1, <1>2, <1>3 DEF Sound

\* hashmap_get finds a stored key where it is, and no other.
LEMMA GetFinds ==
  ASSUME NEW tab, Sound(tab), NEW k \in Key
  PROVE  /\ \A i \in InUse(tab) : tab.data[i].key = k => HashmapGet(tab, k) = i
         /\ HashmapGet(tab, k) # MAP_FULL =>
              /\ HashmapGet(tab, k) \in InUse(tab)
              /\ tab.data[HashmapGet(tab, k)].key = k
         /\ HashmapGet(tab, k) = MAP_FULL => k \notin KeysOf(Stored(tab))
<1> DEFINE g == HashmapGet(tab, k)
<1>1. IsTable(tab) /\ tab.table_size \in Nat \ {0}
  BY DEF Sound, IsTable
<1>2. Holding(tab, k) = {i \in InUse(tab) : tab.data[i].key = k}
  BY <1>1, HoldingIs
<1>3. /\ g # MAP_FULL => g \in Holding(tab, k)
      /\ g = MAP_FULL => \A i \in Holding(tab, k) : i # MAP_FULL => ~Probed(tab, k, i)
  BY <1>1, FirstSlotIs DEF HashmapGet
<1>4. ASSUME NEW i \in InUse(tab), tab.data[i].key = k
      PROVE  g = i
  <2>1. i # MAP_FULL
    BY <1>1, InUseIs DEF MAP_FULL
  <2>2. Probed(tab, k, i) /\ i \in Holding(tab, k)
    BY <1>2, <1>4 DEF Sound
  <2>3. g \in Holding(tab, k)
    BY <1>3, <2>1, <2>2
  <2> QED
    BY <1>2, <1>4, <2>3 DEF Sound
<1>5. g = MAP_FULL => k \notin KeysOf(Stored(tab))
  <2>1. \A i \in InUse(tab) : i # MAP_FULL
    BY <1>1, InUseIs DEF MAP_FULL
  <2> QED
    BY <1>4, <2>1 DEF KeysOf, Stored
<1> QED
  BY <1>2, <1>3, <1>4, <1>5

\* Only the slot that is written changes.
LEMMA StoreIs ==
  ASSUME NEW tab, IsTable(tab), tab.size \in Nat,
         NEW e \in Entry, NEW i \in (0 .. tab.table_size - 1) \ InUse(tab)
  PROVE  LET new_tab == Store(tab, i, e.key, e.data)
         IN  /\ IsTable(new_tab)
             /\ new_tab.table_size = tab.table_size
             /\ new_tab.size = tab.size + 1
             /\ InUse(new_tab) = InUse(tab) \cup {i}
             /\ new_tab.data[i] = e
             /\ \A j \in InUse(tab) : new_tab.data[j] = tab.data[j]
<1> DEFINE t == Store(tab, i, e.key, e.data)
<1>1. [key |-> e.key, data |-> e.data] = e
  BY DEF Entry
<1>2. DOMAIN t = DOMAIN tab
  BY DEF Store, IsTable
<1>3. /\ t.data = [tab.data EXCEPT ![i] = e]
      /\ t.table_size = tab.table_size /\ t.size = tab.size + 1
  BY <1>1 DEF Store, IsTable
<1>4. t.data \in Array(tab.table_size)
  BY <1>3 DEF IsTable, Array
<1>5. IsTable(t)
  BY <1>2, <1>3, <1>4 DEF IsTable
<1>6. /\ t.data[i] = e
      /\ \A j \in (0 .. tab.table_size - 1) \ {i} : t.data[j] = tab.data[j]
  BY <1>3 DEF IsTable, Array
<1>7. InUse(t) = InUse(tab) \cup {i}
  BY <1>3, <1>6, FreeIsNoEntry DEF InUse
<1> HIDE DEF t
<1> QED
  BY <1>3, <1>5, <1>6, <1>7 DEF t, InUse

LEMMA EraseIs ==
  ASSUME NEW tab, IsTable(tab), tab.size \in Nat, NEW i \in InUse(tab)
  PROVE  LET new_tab == Erase(tab, i)
         IN  /\ IsTable(new_tab)
             /\ new_tab.table_size = tab.table_size
             /\ new_tab.size = tab.size - 1
             /\ InUse(new_tab) = InUse(tab) \ {i}
             /\ \A j \in InUse(tab) \ {i} : new_tab.data[j] = tab.data[j]
<1> DEFINE t == Erase(tab, i)
<1>1. DOMAIN t = DOMAIN tab
  BY DEF Erase, IsTable
<1>2. /\ t.data = [tab.data EXCEPT ![i] = Free]
      /\ t.table_size = tab.table_size /\ t.size = tab.size - 1
  BY DEF Erase, IsTable
<1>3. t.data \in Array(tab.table_size)
  BY <1>2, Zenon DEF IsTable, Array
<1>4. IsTable(t)
  BY <1>1, <1>2, <1>3 DEF IsTable
<1>5. i \in 0 .. tab.table_size - 1
  BY DEF InUse
<1>6. /\ t.data[i] = Free
      /\ \A j \in (0 .. tab.table_size - 1) \ {i} : t.data[j] = tab.data[j]
  BY <1>2, <1>5 DEF IsTable, Array
<1>7. InUse(t) = InUse(tab) \ {i}
  BY <1>2, <1>6 DEF InUse
<1> HIDE DEF t
<1> QED
  BY <1>2, <1>4, <1>6, <1>7 DEF t, InUse

\* The size of a sound table is a number.
LEMMA SizeType ==
  ASSUME NEW tab, Sound(tab)
  PROVE  IsTable(tab) /\ IsFiniteSet(InUse(tab)) /\ tab.size \in Nat
BY InUseIs, FS_CardinalityType DEF Sound

\* A slot is probed for a key by the size of the table alone.
LEMMA SameChain ==
  ASSUME NEW tab, NEW t, t.table_size = tab.table_size
  PROVE  \A k, i : Probed(tab, k, i) => Probed(t, k, i)
BY DEF Probed, Chain

\* hashmap_put of a new key keeps the table sound: it writes a free slot that
\* hashmap_get probes.
LEMMA StoreSound ==
  ASSUME NEW tab, Sound(tab), NEW e \in Entry, e.key \notin KeysOf(Stored(tab)),
         HashmapHash(tab, e.key) # MAP_FULL
  PROVE  LET new_tab == Store(tab, HashmapHash(tab, e.key), e.key, e.data)
         IN  /\ Sound(new_tab)
             /\ new_tab.table_size = tab.table_size
             /\ Stored(new_tab) = Stored(tab) \cup {e}
<1> DEFINE i == HashmapHash(tab, e.key)
           t == Store(tab, i, e.key, e.data)
<1>1. IsTable(tab) /\ IsFiniteSet(InUse(tab)) /\ tab.size \in Nat
  BY SizeType
<1>2. e.key \in Key
  BY FreeIsNoEntry
<1>3. i \in Holding(tab, None) \cup Holding(tab, e.key) /\ Probed(tab, e.key, i)
  BY <1>1, <1>2, FirstSlotIs DEF HashmapHash, IsTable
<1>4. Holding(tab, e.key) = {}
  BY <1>1, <1>2, HoldingIs DEF KeysOf, Stored
<1>5. i \in (0 .. tab.table_size - 1) \ InUse(tab)
  BY <1>1, <1>3, <1>4, HoldingIs
<1> HIDE DEF i
<1>6. /\ IsTable(t)
      /\ t.table_size = tab.table_size
      /\ t.size = tab.size + 1
      /\ InUse(t) = InUse(tab) \cup {i}
      /\ t.data[i] = e
      /\ \A j \in InUse(tab) : t.data[j] = tab.data[j]
  BY <1>1, <1>5, StoreIs
<1> HIDE DEF t
<1>7. t.size = Cardinality(InUse(t))
  <2>1. tab.size = Cardinality(InUse(tab)) /\ i \notin InUse(tab)
    BY <1>5 DEF Sound
  <2>2. Cardinality(InUse(tab) \cup {i}) = Cardinality(InUse(tab)) + 1
    BY <1>1, <2>1, FS_AddElement, Zenon
  <2> QED
    BY <1>6, <2>1, <2>2
<1>8. \A j \in InUse(tab) : tab.data[j].key # e.key
  BY DEF KeysOf, Stored
<1>9. \A j, k \in InUse(t) : t.data[j].key = t.data[k].key => j = k
  BY <1>6, <1>8 DEF Sound
<1>10. \A j \in InUse(t) : Probed(t, t.data[j].key, j)
  BY <1>3, <1>6, SameChain DEF Sound
<1>11. Stored(t) = Stored(tab) \cup {e}
  BY <1>6 DEF Stored
<1>12. Sound(t)
  BY <1>6, <1>7, <1>9, <1>10 DEF Sound
<1> QED
  BY <1>6, <1>11, <1>12 DEF t, i

\* So does a removal, which leaves a hole.
LEMMA EraseSound ==
  ASSUME NEW tab, Sound(tab), NEW i \in InUse(tab)
  PROVE  /\ Sound(Erase(tab, i))
         /\ Erase(tab, i).table_size = tab.table_size
         /\ InUse(Erase(tab, i)) = InUse(tab) \ {i}
         /\ \A j \in InUse(tab) \ {i} : Erase(tab, i).data[j] = tab.data[j]
         /\ Stored(Erase(tab, i)) = Stored(tab) \ {tab.data[i]}
<1> DEFINE t == Erase(tab, i)
<1>1. IsTable(tab) /\ IsFiniteSet(InUse(tab)) /\ tab.size \in Nat
  BY SizeType
<1>2. /\ IsTable(t)
      /\ t.table_size = tab.table_size
      /\ t.size = tab.size - 1
      /\ InUse(t) = InUse(tab) \ {i}
      /\ \A j \in InUse(tab) \ {i} : t.data[j] = tab.data[j]
  BY <1>1, EraseIs
<1> HIDE DEF t
<1>3. t.size = Cardinality(InUse(t))
  <2>1. tab.size = Cardinality(InUse(tab))
    BY DEF Sound
  <2>2. Cardinality(InUse(tab) \ {i}) = Cardinality(InUse(tab)) - 1
    BY <1>1, FS_RemoveElement, Zenon
  <2> QED
    BY <1>2, <2>1, <2>2
<1>4. \A j, k \in InUse(t) : t.data[j].key = t.data[k].key => j = k
  BY <1>2 DEF Sound
<1>5. \A j \in InUse(t) : Probed(t, t.data[j].key, j)
  BY <1>2, SameChain DEF Sound
<1>6. \A j \in InUse(tab) \ {i} : tab.data[j] # tab.data[i]
  BY DEF Sound
<1>7. Stored(t) = Stored(tab) \ {tab.data[i]}
  BY <1>2, <1>6 DEF Stored
<1>8. Sound(t)
  BY <1>2, <1>3, <1>4, <1>5 DEF Sound
<1> QED
  BY <1>2, <1>7, <1>8 DEF t

\* The entries of a sound table: keys are keys, each names one entry.
LEMMA StoredIs ==
  ASSUME NEW tab, Sound(tab)
  PROVE  Stored(tab) \subseteq Entry /\ Unique(Stored(tab))
<1>1. \A i \in InUse(tab) : tab.data[i] \in Entry
  BY InUseIs DEF Sound
<1> QED
  BY <1>1 DEF Stored, Unique, Sound

-----------------------------------------------------------------------------
\* What MapOf returns.
LEMMA MapOfIs ==
  ASSUME NEW E, Unique(E)
  PROVE  /\ DOMAIN MapOf(E) = KeysOf(E)
         /\ \A e \in E : e.key \in KeysOf(E) /\ MapOf(E)[e.key] = e.data
<1>1. DOMAIN MapOf(E) = KeysOf(E)
  BY DEF MapOf
<1>2. ASSUME NEW e \in E
      PROVE  e.key \in KeysOf(E) /\ MapOf(E)[e.key] = e.data
  <2>1. e.key \in KeysOf(E)
    BY DEF KeysOf
  <2>2. MapOf(E)[e.key] = (CHOOSE f \in E : f.key = e.key).data
    BY <2>1, Zenon DEF MapOf
  <2>3. (CHOOSE f \in E : f.key = e.key) = e
    BY DEF Unique
  <2> QED
    BY <2>1, <2>2, <2>3, Zenon
<1> QED
  BY <1>1, <1>2

\* One more entry is one more key of the map.
LEMMA MapOfAdd ==
  ASSUME NEW E, Unique(E), NEW e, e.key \notin KeysOf(E)
  PROVE  /\ Unique(E \cup {e})
         /\ MapOf(E \cup {e}) =
              [j \in DOMAIN MapOf(E) \cup {e.key} |->
                 IF j = e.key THEN e.data ELSE MapOf(E)[j]]
<1> DEFINE F == E \cup {e}
           g == [j \in DOMAIN MapOf(E) \cup {e.key} |->
                   IF j = e.key THEN e.data ELSE MapOf(E)[j]]
<1>1. Unique(F)
  BY DEF Unique, KeysOf
<1>2. KeysOf(F) = KeysOf(E) \cup {e.key}
  BY DEF KeysOf
<1>3. DOMAIN MapOf(F) = DOMAIN g
  BY <1>1, <1>2, MapOfIs, Zenon
<1>4. ASSUME NEW j \in KeysOf(F)
      PROVE  MapOf(F)[j] = g[j]
  <2>1. PICK f \in F : f.key = j
    BY DEF KeysOf
  <2>2. MapOf(F)[j] = f.data
    BY <1>1, <2>1, MapOfIs
  <2>3. CASE f = e
    BY <2>1, <2>2, <2>3
  <2>4. CASE f # e
    <3>1. f \in E /\ j \in KeysOf(E) /\ j # e.key
      BY <2>1, <2>4 DEF KeysOf
    <3>2. MapOf(E)[j] = f.data
      BY <2>1, <3>1, MapOfIs
    <3> QED
      BY <2>2, <3>1, <3>2, MapOfIs
  <2> QED
    BY <2>3, <2>4
<1>5. MapOf(F) = g
  <2>1. MapOf(F) = [j \in KeysOf(F) |-> MapOf(F)[j]]
    BY DEF MapOf
  <2>2. g = [j \in KeysOf(F) |-> g[j]]
    BY <1>1, <1>3, MapOfIs
  <2> HIDE DEF F, g
  <2> QED
    BY <1>4, <2>1, <2>2
<1> QED
  BY <1>1, <1>5

\* Fewer entries are the map on fewer keys.
LEMMA MapOfSubset ==
  ASSUME NEW E, Unique(E), NEW F \in SUBSET E
  PROVE  /\ Unique(F)
         /\ KeysOf(F) \subseteq DOMAIN MapOf(E)
         /\ MapOf(F) = [j \in KeysOf(F) |-> MapOf(E)[j]]
<1>1. Unique(F)
  BY DEF Unique
<1>2. KeysOf(F) \subseteq KeysOf(E)
  BY DEF KeysOf
<1>3. ASSUME NEW j \in KeysOf(F)
      PROVE  MapOf(F)[j] = MapOf(E)[j]
  <2>1. PICK f \in F : f.key = j
    BY DEF KeysOf
  <2> QED
    BY <1>1, <2>1, MapOfIs
<1>4. MapOf(F) = [j \in KeysOf(F) |-> MapOf(F)[j]]
  BY DEF MapOf
<1> QED
  BY <1>1, <1>2, <1>3, <1>4, MapOfIs

-----------------------------------------------------------------------------
\* The loops of the rehashes: an element that is left to move is an entry,
\* and no two of them have the same key.
Loops == [curr : UNION {Array(n) : n \in Nat}, todo : SUBSET Nat]

LoopsSound(ls) ==
  /\ ls \in Seq(Loops)
  /\ \A j \in 1 .. Len(ls) : \A i \in ls[j].todo : ls[j].curr[i] \in Entry
  /\ \A j1, j2 \in 1 .. Len(ls) : \A i1 \in ls[j1].todo, i2 \in ls[j2].todo :
       ls[j1].curr[i1].key = ls[j2].curr[i2].key => j1 = j2 /\ i1 = i2

\* The elements that are left to move, one by one.
LEMMA MovingIs ==
  ASSUME NEW ls
  PROVE  \A e : e \in Moving(ls) <=>
                 \E j \in 1 .. Len(ls) : \E i \in ls[j].todo : e = ls[j].curr[i]
BY DEF Moving

\* Loops that visit fewer slots of the same tables stay sound, and move no
\* element that was not left to move.
LEMMA FewerLoops ==
  ASSUME NEW ls, LoopsSound(ls), NEW l \in Seq(Loops),
         \A j \in 1 .. Len(l) : /\ j \in 1 .. Len(ls)
                                /\ l[j].curr = ls[j].curr
                                /\ l[j].todo \subseteq ls[j].todo
  PROVE  LoopsSound(l) /\ \A f : f \in Moving(l) => f \in Moving(ls)
<1>1. ASSUME NEW j \in 1 .. Len(l), NEW i \in l[j].todo
      PROVE  j \in 1 .. Len(ls) /\ i \in ls[j].todo /\ l[j].curr[i] = ls[j].curr[i]
  BY Zenon
<1>2. ASSUME NEW j \in 1 .. Len(l), NEW i \in l[j].todo
      PROVE  l[j].curr[i] \in Entry
  <2>1. ls[j].curr[i] \in Entry
    BY <1>1, Zenon DEF LoopsSound
  <2> QED BY <1>1, <2>1, Zenon
<1>3. ASSUME NEW j1 \in 1 .. Len(l), NEW j2 \in 1 .. Len(l),
             NEW i1 \in l[j1].todo, NEW i2 \in l[j2].todo,
             l[j1].curr[i1].key = l[j2].curr[i2].key
      PROVE  j1 = j2 /\ i1 = i2
  <2>1. /\ j1 \in 1 .. Len(ls) /\ i1 \in ls[j1].todo
        /\ l[j1].curr[i1] = ls[j1].curr[i1]
    BY <1>1, Zenon
  <2>2. /\ j2 \in 1 .. Len(ls) /\ i2 \in ls[j2].todo
        /\ l[j2].curr[i2] = ls[j2].curr[i2]
    BY <1>1, Zenon
  <2>3. ls[j1].curr[i1].key = ls[j2].curr[i2].key
    BY <1>3, <2>1, <2>2, Zenon
  <2> QED BY <2>1, <2>2, <2>3 DEF LoopsSound
<1>4. LoopsSound(l)
  BY <1>2, <1>3, Zenon DEF LoopsSound
<1>5. ASSUME NEW f, f \in Moving(l) PROVE f \in Moving(ls)
  <2>1. PICK j \in 1 .. Len(l) : \E i \in l[j].todo : f = l[j].curr[i]
    BY <1>5, MovingIs
  <2>2. PICK i \in l[j].todo : f = l[j].curr[i]
    BY <2>1, Zenon
  <2>3. j \in 1 .. Len(ls) /\ i \in ls[j].todo /\ f = ls[j].curr[i]
    BY <1>1, <2>2, Zenon
  <2> QED BY <2>3, MovingIs, Zenon
<1> QED BY <1>4, <1>5, Zenon

LEMMA MovingUnique ==
  ASSUME NEW ls, LoopsSound(ls)
  PROVE  Moving(ls) \subseteq Entry /\ Unique(Moving(ls))
<1>1. \A e \in Moving(ls) : e \in Entry
  BY MovingIs DEF LoopsSound
<1>2. ASSUME NEW e \in Moving(ls), NEW f \in Moving(ls), e.key = f.key
      PROVE  e = f
  BY <1>2, MovingIs DEF LoopsSound
<1> QED
  BY <1>1, <1>2 DEF Unique

LEMMA NoLoops == LoopsSound(<<>>) /\ Moving(<<>>) = {}
BY DEF LoopsSound, Moving

\* hashmap_rehash begins: what was stored is to be moved.
LEMMA PushLoop ==
  ASSUME NEW ls, LoopsSound(ls), NEW tab, Sound(tab),
         KeysOf(Moving(ls)) \cap KeysOf(Stored(tab)) = {}
  PROVE  LET l == Append(ls, [curr |-> tab.data, todo |-> InUse(tab)])
         IN  LoopsSound(l) /\ Moving(l) = Moving(ls) \cup Stored(tab)
<1> DEFINE r == [curr |-> tab.data, todo |-> InUse(tab)]
           l == Append(ls, r)
           n == Len(ls)
<1>1. IsTable(tab)
  BY DEF Sound
<1>2. /\ InUse(tab) \subseteq 0 .. tab.table_size - 1
      /\ \A i \in InUse(tab) : tab.data[i] \in Entry
  BY <1>1, InUseIs
<1>3. r \in Loops
  BY <1>1, <1>2 DEF Loops, IsTable
<1>4. /\ ls \in Seq(Loops) /\ n \in Nat
      /\ l \in Seq(Loops) /\ Len(l) = n + 1
      /\ \A j \in 1 .. n : l[j] = ls[j]
      /\ l[n + 1] = r
  BY <1>3 DEF LoopsSound
<1>5. r.curr = tab.data /\ r.todo = InUse(tab)
  OBVIOUS
<1> HIDE DEF r, l, n
<1>6. \A j \in 1 .. Len(l) : j \in 1 .. n \/ j = n + 1
  BY <1>4
<1>7. \A j \in 1 .. Len(l) : \A i \in l[j].todo : l[j].curr[i] \in Entry
  BY <1>2, <1>4, <1>5, <1>6 DEF LoopsSound, n
<1>8. \A j \in 1 .. n : \A i \in ls[j].todo : ls[j].curr[i].key \in KeysOf(Moving(ls))
  BY MovingIs DEF KeysOf, n
<1>9. \A i \in InUse(tab) : tab.data[i].key \in KeysOf(Stored(tab))
  BY DEF KeysOf, Stored
<1>10. ASSUME NEW j1 \in 1 .. Len(l), NEW j2 \in 1 .. Len(l),
              NEW i1 \in l[j1].todo, NEW i2 \in l[j2].todo,
              l[j1].curr[i1].key = l[j2].curr[i2].key
       PROVE  j1 = j2 /\ i1 = i2
  <2>1. CASE j1 \in 1 .. n /\ j2 \in 1 .. n
    BY <1>4, <1>10, <2>1, SMTT(30) DEF LoopsSound, n
  <2>2. CASE j1 = n + 1 /\ j2 = n + 1
    BY <1>4, <1>5, <1>10, <2>2 DEF Sound
  <2>3. CASE j1 \in 1 .. n /\ j2 = n + 1
    BY <1>4, <1>5, <1>8, <1>9, <1>10, <2>3, SMTT(30)
  <2>4. CASE j1 = n + 1 /\ j2 \in 1 .. n
    BY <1>4, <1>5, <1>8, <1>9, <1>10, <2>4, SMTT(30)
  <2> QED
    BY <1>6, <2>1, <2>2, <2>3, <2>4
<1>11. LoopsSound(l)
  BY <1>4, <1>7, <1>10 DEF LoopsSound
<1>12. Moving(l) = Moving(ls) \cup Stored(tab)
  <2>1. \A e : e \in Moving(l) => e \in Moving(ls) \cup Stored(tab)
    BY <1>4, <1>5, <1>6, MovingIs DEF Stored, n
  <2>2. \A e : e \in Moving(ls) => e \in Moving(l)
    BY <1>4, MovingIs DEF n
  <2>3. \A e : e \in Stored(tab) => e \in Moving(l)
    BY <1>4, <1>5, MovingIs DEF Stored
  <2> QED
    BY <2>1, <2>2, <2>3
<1> QED
  BY <1>11, <1>12 DEF l, r

\* One element is moved.
LEMMA DropFirst ==
  ASSUME NEW ls, LoopsSound(ls), ls # <<>>, ls[Len(ls)].todo # {}
  PROVE  LET e == ls[Len(ls)].curr[Min(ls[Len(ls)].todo)]
             l == [ls EXCEPT ![Len(ls)].todo = @ \ {Min(@)}]
         IN  LoopsSound(l) /\ e \in Moving(ls) /\ Moving(l) = Moving(ls) \ {e}
<1> DEFINE n == Len(ls)
           x == Min(ls[n].todo)
           e == ls[n].curr[x]
           l == [ls EXCEPT ![n].todo = @ \ {Min(@)}]
<1>1. ls \in Seq(Loops) /\ n \in 1 .. Len(ls) /\ ls[n] \in Loops
  BY DEF LoopsSound
<1>2. x \in ls[n].todo /\ ls[n].todo \in SUBSET Nat
  BY <1>1, MinExists DEF Loops
<1>3. e \in Moving(ls)
  BY <1>1, <1>2, MovingIs
<1>4. [ls[n] EXCEPT !.todo = @ \ {x}] \in Loops
  BY <1>1, <1>2, SMTT(30) DEF Loops
<1>5. l = [ls EXCEPT ![n] = [ls[n] EXCEPT !.todo = @ \ {x}]]
  BY <1>1
<1>6. /\ l \in Seq(Loops) /\ Len(l) = Len(ls)
      /\ \A j \in 1 .. Len(ls) : j # n => l[j] = ls[j]
      /\ l[n] = [ls[n] EXCEPT !.todo = @ \ {x}]
  <2>1. PICK y \in Loops : y = [ls[n] EXCEPT !.todo = @ \ {x}]
    BY <1>4
  <2>2. l = [ls EXCEPT ![n] = y]
    BY <1>5, <2>1
  <2> HIDE DEF l, n, x
  <2>3. l \in Seq(Loops) /\ Len(l) = Len(ls)
    BY <1>1, <2>2, ReplaceOne
  <2> QED
    BY <1>1, <2>1, <2>2, <2>3
<1>7. l[n].curr = ls[n].curr /\ l[n].todo = ls[n].todo \ {x}
  BY <1>1, <1>6 DEF Loops
<1> HIDE DEF l, x, n
<1>8. \A j \in 1 .. Len(l) : l[j].curr = ls[j].curr /\ l[j].todo \subseteq ls[j].todo
  BY <1>6, <1>7, Zenon
<1>9. LoopsSound(l)
  BY <1>6, <1>8, FewerLoops, Zenon
<1>10. \A f : f \in Moving(l) => f \in Moving(ls)
  BY <1>6, <1>8, FewerLoops, Zenon
<1>11. e \notin Moving(l)
  <2> SUFFICES ASSUME NEW j \in 1 .. Len(l), NEW i \in l[j].todo, e = l[j].curr[i]
               PROVE  FALSE
    BY MovingIs
  <2>1. i \in ls[j].todo /\ ls[n].curr[x].key = ls[j].curr[i].key
    BY <1>8
  <2>2. j = n /\ i = x
    BY <1>1, <1>2, <1>6, <2>1 DEF LoopsSound
  <2> QED
    BY <1>7, <2>2
<1>12. ASSUME NEW f \in Moving(ls), f # e
       PROVE  f \in Moving(l)
  <2>1. PICK j \in 1 .. Len(ls) : \E i \in ls[j].todo : f = ls[j].curr[i]
    BY MovingIs
  <2>2. PICK i \in ls[j].todo : f = ls[j].curr[i]
    BY <2>1
  <2>3. i \in l[j].todo
    BY <1>6, <1>7, <1>12, <2>2, Zenon
  <2> QED
    BY <1>6, <1>8, <2>2, <2>3, MovingIs
<1> QED
  BY <1>3, <1>9, <1>10, <1>11, <1>12, Zenon DEF l, x, n

\* The loop ends.
LEMMA PopLoop ==
  ASSUME NEW ls, LoopsSound(ls), ls # <<>>, ls[Len(ls)].todo = {}
  PROVE  LET l == SubSeq(ls, 1, Len(ls) - 1)
         IN  LoopsSound(l) /\ Moving(l) = Moving(ls)
<1> DEFINE n == Len(ls)
           l == SubSeq(ls, 1, n - 1)
<1>1. ls \in Seq(Loops) /\ n \in Nat \ {0}
  BY DEF LoopsSound
<1>2. /\ l \in Seq(Loops) /\ Len(l) = n - 1
      /\ \A j \in 1 .. n - 1 : l[j] = ls[j]
  BY <1>1, DropLast
<1> HIDE DEF l, n
<1>3. \A j \in 1 .. Len(ls) : j \in 1 .. n - 1 \/ j = n
  BY <1>1 DEF n
<1>4. \A j \in 1 .. n - 1 : j \in 1 .. Len(ls)
  BY <1>1 DEF n
<1>5. LoopsSound(l) /\ \A e : e \in Moving(l) => e \in Moving(ls)
  BY <1>2, <1>4, FewerLoops, Zenon
<1>6. ASSUME NEW e, e \in Moving(ls) PROVE e \in Moving(l)
  <2>1. PICK j \in 1 .. Len(ls) : \E i \in ls[j].todo : e = ls[j].curr[i]
    BY <1>6, MovingIs
  <2>2. j \in 1 .. Len(l) /\ l[j] = ls[j]
    BY <1>2, <1>3, <2>1, Zenon DEF n
  <2> QED BY <2>1, <2>2, MovingIs, Zenon
<1> QED
  BY <1>5, <1>6, Zenon DEF l, n

-----------------------------------------------------------------------------
\* The inductive invariant.  An element is in one place: stored, left to move
\* in one of the loops, or the new one; its key is in no other place.  Loops
\* run only inside a put, and a put is not made while an iterator is in use.
HashInv ==
  /\ Sound(m) /\ LoopsSound(loops)
  /\ new \in Entry \cup {Free}
  /\ it \in Int /\ it >= -2
  /\ new = Free => loops = <<>>
  /\ it # NoIterator => new = Free
  /\ KeysOf(Moving(loops)) \cap KeysOf(Stored(m)) = {}
  /\ new # Free => new.key \notin KeysOf(Entries)

LEMMA HashInit == Init => HashInv
<1> SUFFICES ASSUME Init PROVE HashInv
  OBVIOUS
<1>1. Sound(m)
  BY EmptySound, HashmapAssumption DEF Init
<1>2. loops = <<>> /\ new = Free /\ it = -2
  BY DEF Init, NoIterator
<1>3. LoopsSound(loops) /\ Moving(loops) = {}
  BY <1>2, NoLoops
<1>4. KeysOf(Moving(loops)) = {}
  BY <1>3 DEF KeysOf
<1> QED
  BY <1>1, <1>2, <1>3, <1>4 DEF HashInv, NoIterator

\* All the entries are entries, and their keys are different.
LEMMA EntriesUnique ==
  ASSUME HashInv
  PROVE  Entries \subseteq Entry /\ Unique(Entries)
<1>1. Stored(m) \subseteq Entry /\ Unique(Stored(m))
  BY StoredIs DEF HashInv
<1>2. Moving(loops) \subseteq Entry /\ Unique(Moving(loops))
  BY MovingUnique DEF HashInv
<1>3. \A e \in Stored(m), f \in Moving(loops) : e.key # f.key
  BY DEF HashInv, KeysOf
<1> QED
  BY <1>1, <1>2, <1>3 DEF Entries, Unique

\* Between calls all entries are in the table.
LEMMA IdleEntries ==
  ASSUME HashInv, new = Free
  PROVE  loops = <<>> /\ Entries = Stored(m)
BY NoLoops DEF HashInv, Entries

\* The element that is being put.
LEMMA ElementIs ==
  ASSUME HashInv, Putting
  PROVE  /\ Element \in Entry
         /\ Element.key \notin KeysOf(Stored(m))
         /\ loops = <<>> => Element = new
         /\ loops # <<>> => Element \in Moving(loops)
<1>1. CASE loops = <<>>
  <2>1. Element = new /\ new \in Entry /\ new.key \notin KeysOf(Entries)
    BY <1>1 DEF Element, HashInv, Putting
  <2>2. KeysOf(Stored(m)) \subseteq KeysOf(Entries)
    BY DEF KeysOf, Entries
  <2> QED
    BY <1>1, <2>1, <2>2
<1>2. CASE loops # <<>>
  <2>1. LoopsSound(loops) /\ loops[Len(loops)].todo # {}
    BY <1>2 DEF HashInv, Putting, Loop
  <2>2. Element = loops[Len(loops)].curr[Min(loops[Len(loops)].todo)]
    BY <1>2 DEF Element, Loop
  <2>3. Element \in Moving(loops)
    BY <1>2, <2>1, <2>2, DropFirst, Zenon
  <2>4. Element \in Entry
    BY <2>1, <2>3, MovingUnique
  <2>5. Element.key \notin KeysOf(Stored(m))
    BY <2>3, Zenon DEF HashInv, KeysOf
  <2> QED
    BY <1>2, <2>3, <2>4, <2>5
<1> QED
  BY <1>1, <1>2

LEMMA PeerPutKeeps ==
  ASSUME HashInv, NEW k \in Key, NEW v \in Value, PeerPut(k, v)
  PROVE  HashInv' /\ Entries' = Entries
<1>1. new' \in Entry /\ new'.key = k
  BY SMTT(30) DEF PeerPut, Entry
<1>2. k \notin KeysOf(Stored(m))
  BY GetFinds DEF PeerPut, HashInv
<1>3. Entries = Stored(m)
  BY IdleEntries DEF PeerPut, Idle
<1>4. Entries' = Entries
  BY DEF PeerPut, Entries
<1>5. new' # Free
  BY <1>1, FreeIsNoEntry
<1> QED
  BY <1>1, <1>2, <1>3, <1>4, <1>5 DEF HashInv, PeerPut, Idle

\* An element is moved, or the new one is stored.
LEMMA HashmapPutKeeps ==
  ASSUME HashInv, HashmapPut
  PROVE  /\ HashInv'
         /\ loops # <<>> => Entries' = Entries
         /\ loops = <<>> => Entries' = Entries \cup {new}
<1> DEFINE e == Element
<1>1. /\ e \in Entry /\ e.key \notin KeysOf(Stored(m))
      /\ loops = <<>> => e = new
      /\ loops # <<>> => e \in Moving(loops)
  BY ElementIs DEF HashmapPut
<1>2. Sound(m)
  BY DEF HashInv
<1>3. HashmapHash(m, e.key) # MAP_FULL
  BY DEF HashmapPut
<1>4. m' = Store(m, HashmapHash(m, e.key), e.key, e.data)
  BY DEF HashmapPut
<1>5. Sound(m') /\ Stored(m') = Stored(m) \cup {e}
  BY <1>1, <1>2, <1>3, <1>4, StoreSound, Zenon
<1> HIDE DEF e
<1>6. CASE loops = <<>>
  <2>1. new' = Free /\ loops' = <<>> /\ it' = it
    BY <1>6 DEF HashmapPut
  <2>2. Moving(loops) = {} /\ Moving(loops') = {}
    BY <1>6, <2>1, NoLoops
  <2>3. Entries' = Entries \cup {new}
    BY <1>1, <1>5, <1>6, <2>2 DEF Entries
  <2>4. KeysOf(Moving(loops')) = {}
    BY <2>2 DEF KeysOf
  <2>5. HashInv'
    BY <1>5, <2>1, <2>4, NoLoops DEF HashInv
  <2> QED
    BY <1>6, <2>3, <2>5
<1>7. CASE loops # <<>>
  <2>1. /\ new' = new /\ it' = it
        /\ loops' = [loops EXCEPT ![Len(loops)].todo = @ \ {Min(@)}]
    BY <1>7 DEF HashmapPut
  <2>2. LoopsSound(loops) /\ loops[Len(loops)].todo # {} /\ new # Free
    BY <1>7 DEF HashInv, HashmapPut, Putting, Loop
  <2>3. e = loops[Len(loops)].curr[Min(loops[Len(loops)].todo)]
    BY <1>7 DEF e, Element, Loop
  <2>4. LoopsSound(loops') /\ Moving(loops') = Moving(loops) \ {e}
    BY <1>7, <2>1, <2>2, <2>3, DropFirst, Zenon
  <2>5. Entries' = Entries
    BY <1>1, <1>5, <1>7, <2>4 DEF Entries
  <2>6. KeysOf(Moving(loops')) \cap KeysOf(Stored(m')) = {}
    <3>1. \A f \in Moving(loops), g \in Stored(m) : f.key # g.key
      BY DEF HashInv, KeysOf
    <3>2. \A f \in Moving(loops) : f # e => f.key # e.key
      BY <1>1, <1>7, <2>2, MovingUnique DEF Unique
    <3> QED
      BY <1>5, <2>4, <3>1, <3>2 DEF KeysOf
  <2>7. HashInv'
    BY <1>5, <2>1, <2>2, <2>4, <2>5, <2>6, Zenon DEF HashInv
  <2> QED
    BY <1>7, <2>5, <2>7
<1> QED
  BY <1>6, <1>7

LEMMA HashmapRehashKeeps ==
  ASSUME HashInv, HashmapRehash
  PROVE  HashInv' /\ Entries' = Entries
<1>1. /\ loops' = Append(loops, [curr |-> m.data, todo |-> InUse(m)])
      /\ m' = Empty(2 * m.table_size)
      /\ new' = new /\ it' = it /\ new # Free
  BY SMTT(30) DEF HashmapRehash, Putting
<1>2. 2 * m.table_size \in Nat \ {0}
  BY DEF HashInv, Sound, IsTable
<1>3. Sound(m') /\ InUse(m') = {}
  BY <1>1, <1>2, EmptySound
<1>4. Stored(m') = {} /\ KeysOf(Stored(m')) = {}
  BY <1>3 DEF Stored, KeysOf
<1>5. LoopsSound(loops') /\ Moving(loops') = Moving(loops) \cup Stored(m)
  BY <1>1, PushLoop DEF HashInv
<1>6. Entries' = Entries
  BY <1>4, <1>5 DEF Entries
<1> QED
  BY <1>1, <1>3, <1>4, <1>5, <1>6, SMTT(30) DEF HashInv

LEMMA RehashEndKeeps ==
  ASSUME HashInv, RehashEnd
  PROVE  HashInv' /\ Entries' = Entries
<1>1. LoopsSound(loops') /\ Moving(loops') = Moving(loops)
  BY PopLoop, SMTT(30) DEF RehashEnd, HashInv, Loop
<1>2. Entries' = Entries
  BY <1>1 DEF Entries, RehashEnd
<1>3. new # Free
  BY DEF HashInv, RehashEnd
<1> QED
  BY <1>1, <1>2, <1>3 DEF HashInv, RehashEnd

\* What has not been moved is lost, the rest is kept.
LEMMA OutOfMemoryKeeps ==
  ASSUME HashInv, OutOfMemory
  PROVE  HashInv' /\ Entries' = Stored(m)
<1>1. m' = m /\ new' = Free /\ loops' = <<>> /\ it' = it
  BY DEF OutOfMemory
<1>2. LoopsSound(loops') /\ Moving(loops') = {}
  BY <1>1, NoLoops
<1>3. KeysOf(Moving(loops')) = {}
  BY <1>2 DEF KeysOf
<1> QED
  BY <1>1, <1>2, <1>3 DEF HashInv, Entries

LEMMA PeerRemoveKeeps ==
  ASSUME HashInv, NEW k \in Key, PeerRemove(k)
  PROVE  /\ HashInv'
         /\ Entries' = Entries \ {e \in Entries : e.key = k}
<1> DEFINE i == HashmapGet(m, k)
<1>1. new = Free /\ loops = <<>> /\ UNCHANGED <<new, loops, it>>
  BY IdleEntries DEF PeerRemove, Idle
<1>2. Entries = Stored(m) /\ Entries' = Stored(m')
  BY <1>1, NoLoops DEF Entries
<1>3. Sound(m) /\ Moving(loops') = {}
  BY <1>1, NoLoops DEF HashInv
<1>4. KeysOf(Moving(loops')) = {}
  BY <1>3 DEF KeysOf
<1>5. CASE i = MAP_FULL
  <2>1. m' = m
    BY <1>5 DEF PeerRemove
  <2>2. k \notin KeysOf(Stored(m))
    BY <1>3, <1>5, GetFinds
  <2>3. Entries' = Entries \ {e \in Entries : e.key = k}
    BY <1>2, <2>1, <2>2 DEF KeysOf
  <2> QED
    BY <1>1, <1>2, <1>4, <2>1, <2>3 DEF HashInv
<1>6. CASE i # MAP_FULL
  <2>1. m' = Erase(m, i)
    BY <1>6 DEF PeerRemove
  <2>2. i \in InUse(m) /\ m.data[i].key = k
    BY <1>3, <1>6, GetFinds
  <2>3. Sound(m') /\ Stored(m') = Stored(m) \ {m.data[i]}
    BY <1>3, <2>1, <2>2, EraseSound
  <2>4. {e \in Stored(m) : e.key = k} = {m.data[i]}
    BY <1>3, <2>2, StoredIs, SMTT(30) DEF Stored, Unique
  <2>5. Entries' = Entries \ {e \in Entries : e.key = k}
    BY <1>2, <2>3, <2>4
  <2> QED
    BY <1>1, <1>4, <2>3, <2>5 DEF HashInv
<1> QED
  BY <1>5, <1>6

LEMMA ItNextKeeps ==
  ASSUME HashInv, ItNext
  PROVE  HashInv' /\ Entries' = Entries
<1>1. UNCHANGED <<m, new, loops>> /\ new = Free
  BY DEF ItNext, HashInv
<1>2. it' \in Int /\ it' >= -2
  <2>1. CASE Ahead # {}
    <3>1. Ahead \in SUBSET Nat
      BY InUseIs DEF Ahead, HashInv, Sound, IsTable
    <3>2. Min(Ahead) \in Nat
      BY <2>1, <3>1, MinExists, Zenon
    <3> QED
      BY <2>1, <3>2 DEF ItNext
  <2>2. CASE Ahead = {}
    BY <2>2 DEF ItNext, NoIterator
  <2> QED
    BY <2>1, <2>2
<1>3. Entries' = Entries
  BY <1>1 DEF Entries
<1> QED
  BY <1>1, <1>2, <1>3 DEF HashInv

LEMMA ItRemoveKeeps ==
  ASSUME HashInv, ItRemove
  PROVE  HashInv' /\ new = Free /\ Entries' = Entries \ {m.data[it]}
<1>1. it \in InUse(m) /\ m' = Erase(m, it) /\ UNCHANGED <<new, loops, it>>
  BY DEF ItRemove
<1>2. it \in Nat
  BY <1>1, InUseIs, SMTT(30) DEF HashInv, Sound, IsTable
<1>3. new = Free
  BY <1>2 DEF HashInv, NoIterator
<1>4. loops = <<>> /\ Entries = Stored(m) /\ Moving(loops') = {}
  BY <1>1, <1>3, IdleEntries, NoLoops
<1>5. Sound(m') /\ Stored(m') = Stored(m) \ {m.data[it]}
  BY <1>1, EraseSound, SMTT(30) DEF HashInv
<1>6. Entries' = Entries \ {m.data[it]} /\ KeysOf(Moving(loops')) = {}
  BY <1>4, <1>5 DEF Entries, KeysOf
<1> QED
  BY <1>1, <1>3, <1>5, <1>6 DEF HashInv

LEMMA HashNext == HashInv /\ [Next]_vars => HashInv'
<1> SUFFICES ASSUME HashInv, [Next]_vars PROVE HashInv'
  BY SMTT(30)
<1>1. ASSUME NEW k \in Key, NEW v \in Value, PeerPut(k, v) PROVE HashInv'
  BY <1>1, PeerPutKeeps
<1>2. ASSUME NEW k \in Key, PeerGet(k) PROVE HashInv'
  BY <1>2 DEF PeerGet, HashInv, Entries
<1>3. ASSUME NEW k \in Key, PeerRemove(k) PROVE HashInv'
  BY <1>3, PeerRemoveKeeps
<1>4. CASE HashmapPut
  BY <1>4, HashmapPutKeeps
<1>5. CASE HashmapRehash
  BY <1>5, HashmapRehashKeeps
<1>6. CASE RehashEnd
  BY <1>6, RehashEndKeeps
<1>7. CASE OutOfMemory
  BY <1>7, OutOfMemoryKeeps
<1>8. CASE ItNew
  BY <1>8 DEF ItNew, Idle, HashInv, Entries
<1>9. CASE ItNext
  BY <1>9, ItNextKeeps
<1>10. CASE ItRemove
  BY <1>10, ItRemoveKeeps
<1>11. CASE UNCHANGED vars
  BY <1>11 DEF vars, HashInv, Entries
<1> QED
  BY <1>1, <1>2, <1>3, <1>4, <1>5, <1>6, <1>7, <1>8, <1>9, <1>10, <1>11 DEF Next

LEMMA HashInvariant == Spec => []HashInv
BY HashInit, HashNext, PTL DEF Spec

\* At every step of every sequence of calls, whatever the hash function, the
\* sizes and the keys: size counts the entries, no key is stored twice, and
\* hashmap_get finds each entry from its key.
THEOREM ConsistentTheorem == Spec => []Consistent
<1>1. HashInv => Consistent
  <2> SUFFICES ASSUME HashInv PROVE Consistent
    OBVIOUS
  <2>1. Sound(m)
    BY DEF HashInv
  <2>2. \A i \in InUse(m) : m.data[i].key \in Key
    BY <2>1, InUseIs, FreeIsNoEntry DEF Sound
  <2>3. \A i \in InUse(m) : HashmapGet(m, m.data[i].key) = i
    BY <2>1, <2>2, GetFinds
  <2> QED
    BY <2>1, <2>3 DEF Consistent, Sound
<1> QED
  BY <1>1, HashInvariant, PTL

-----------------------------------------------------------------------------
(***************************************************************************)
(* The array implements the map: the steps of a rehash change nothing in   *)
(* the map, the last step of a put adds the entry.                         *)
(***************************************************************************)
LEMMA MapOfRemove ==
  ASSUME NEW E, Unique(E), NEW e \in E
  PROVE  MapOf(E \ {e}) = [j \in DOMAIN MapOf(E) \ {e.key} |-> MapOf(E)[j]]
<1>1. KeysOf(E \ {e}) = KeysOf(E) \ {e.key}
  BY DEF KeysOf, Unique
<1>2. MapOf(E \ {e}) = [j \in KeysOf(E \ {e}) |-> MapOf(E)[j]]
  BY MapOfSubset
<1> QED
  BY <1>1, <1>2, MapOfIs, Zenon

\* No iterator, no keys to visit and no current key.
LEMMA NoCursor ==
  HashInv /\ it = NoIterator => ToVisit = {} /\ Current = None
<1>1. HashInv => \A i \in InUse(m) : i \in Nat
  BY InUseIs DEF HashInv, Sound, IsTable
<1> QED
  BY <1>1 DEF ToVisit, Current, NoIterator

\* What a lookup returns between calls.
LEMMA FoundIs ==
  ASSUME HashInv, new = Free, NEW k \in Key
  PROVE  /\ Found(HashmapGet(m, k)) =
              IF k \in DOMAIN MapOf(Entries) THEN <<"OK", MapOf(Entries)[k]>>
              ELSE Map!Missing
         /\ HashmapGet(m, k) = MAP_FULL <=> k \notin DOMAIN MapOf(Entries)
<1> DEFINE i == HashmapGet(m, k)
<1>1. Entries = Stored(m) /\ Sound(m) /\ Unique(Entries)
  BY IdleEntries, EntriesUnique DEF HashInv
<1>2. DOMAIN MapOf(Entries) = KeysOf(Stored(m))
  BY <1>1, MapOfIs
<1>3. CASE i = MAP_FULL
  BY <1>1, <1>2, <1>3, GetFinds DEF Found, Missing, Map!Missing
<1>4. CASE i # MAP_FULL
  <2>1. i \in InUse(m) /\ m.data[i].key = k
    BY <1>1, <1>4, GetFinds
  <2>2. m.data[i] \in Entries
    BY <1>1, <2>1 DEF Stored
  <2>3. k \in DOMAIN MapOf(Entries) /\ MapOf(Entries)[k] = m.data[i].data
    BY <1>1, <2>1, <2>2, MapOfIs
  <2> QED
    BY <1>4, <2>3, SMTT(30) DEF Found
<1> QED
  BY <1>3, <1>4

LEMMA MapInit == Init => Map!Init
<1> SUFFICES ASSUME Init PROVE Map!Init
  OBVIOUS
<1>1. HashInv
  BY HashInit
<1>2. it = NoIterator /\ new = Free /\ out = Missing
  BY DEF Init
<1>3. Entries = {}
  <2>1. InUse(m) = {}
    BY EmptySound, HashmapAssumption DEF Init
  <2> QED
    BY <1>1, <1>2, <2>1, IdleEntries DEF Stored
<1>4. MapOf(Entries) = [k \in {} |-> None]
  BY <1>3 DEF MapOf, KeysOf
<1>5. ToVisit = {} /\ Current = None
  BY <1>1, <1>2, NoCursor
<1> QED
  BY <1>2, <1>4, <1>5 DEF Map!Init, Map!Missing, Missing

\* Steps inside a put: no iterator, the same entries, nothing returned.
LEMMA MapStutters ==
  ASSUME HashInv, HashInv', it = NoIterator, it' = it, out' = out, Entries' = Entries
  PROVE  UNCHANGED Map!vars
<1>1. ToVisit = {} /\ Current = None
  BY NoCursor
<1>2. ToVisit' = {} /\ Current' = None
  <2>1. (HashInv /\ it = NoIterator => ToVisit = {} /\ Current = None)'
    BY NoCursor, PTL
  <2> QED
    BY <2>1
<1> QED
  BY <1>1, <1>2 DEF Map!vars

LEMMA MapPut ==
  ASSUME HashInv, HashmapPut
  PROVE  UNCHANGED Map!vars \/ \E k \in Key, v \in Value : Map!Put(k, v)
<1>1. HashInv' /\ new # Free /\ it = NoIterator /\ it' = it
  BY HashmapPutKeeps DEF HashmapPut, Putting, HashInv
<1>2. CASE loops # <<>>
  <2>1. Entries' = Entries /\ out' = out
    BY <1>2, HashmapPutKeeps DEF HashmapPut
  <2> QED
    BY <1>1, <2>1, MapStutters
<1>3. CASE loops = <<>>
  <2>1. Entries' = Entries \cup {new} /\ out' = <<"OK", new.data>>
    BY <1>3, HashmapPutKeeps DEF HashmapPut
  <2>2. new \in Entry /\ new.key \notin KeysOf(Entries) /\ Unique(Entries)
    BY <1>1, EntriesUnique DEF HashInv
  <2>3. new.key \in Key /\ new.data \in Value
    BY <2>2, FreeIsNoEntry
  <2>4. MapOf(Entries)' = [j \in DOMAIN MapOf(Entries) \cup {new.key} |->
                             IF j = new.key THEN new.data ELSE MapOf(Entries)[j]]
    <3>1. MapOf(Entries \cup {new}) =
            [j \in DOMAIN MapOf(Entries) \cup {new.key} |->
               IF j = new.key THEN new.data ELSE MapOf(Entries)[j]]
      BY <2>2, MapOfAdd, SMTT(30)
    <3>2. MapOf(Entries)' = MapOf(Entries')
      OBVIOUS
    <3> QED BY <2>1, <3>1, <3>2, Zenon
  <2>5. new.key \notin DOMAIN MapOf(Entries)
    BY <2>2, MapOfIs
  <2>6. /\ ToVisit = {} /\ Current = None
        /\ ToVisit' = {} /\ Current' = None
    <3>1. (HashInv /\ it = NoIterator => ToVisit = {} /\ Current = None)'
      BY NoCursor, PTL
    <3> QED
      BY <1>1, <3>1, NoCursor
  <2>7. Map!Put(new.key, new.data)
    BY <1>1, <2>1, <2>4, <2>5, <2>6 DEF Map!Put
  <2> QED
    BY <2>3, <2>7
<1> QED
  BY <1>2, <1>3

LEMMA MapPutFails ==
  ASSUME HashInv, OutOfMemory
  PROVE  \E k \in Key : Map!PutFails(k)
<1>1. /\ HashInv' /\ Entries' = Stored(m) /\ out' = <<"OMEM", None>>
      /\ new # Free /\ it = NoIterator /\ it' = it
  BY OutOfMemoryKeeps, SMTT(30) DEF OutOfMemory, Putting, HashInv
<1>2. new \in Entry /\ new.key \notin KeysOf(Entries) /\ Unique(Entries)
  BY <1>1, EntriesUnique DEF HashInv
<1>3. new.key \in Key /\ new.key \notin DOMAIN MapOf(Entries)
  BY <1>2, FreeIsNoEntry, MapOfIs
<1>4. Stored(m) \in SUBSET Entries
  BY DEF Entries
<1>5. /\ KeysOf(Stored(m)) \in SUBSET DOMAIN MapOf(Entries)
      /\ MapOf(Entries)' = [j \in KeysOf(Stored(m)) |-> MapOf(Entries)[j]]
  BY <1>1, <1>2, <1>4, MapOfSubset
<1>6. /\ ToVisit = {} /\ Current = None
      /\ ToVisit' = {} /\ Current' = None
  <2>1. (HashInv /\ it = NoIterator => ToVisit = {} /\ Current = None)'
    BY NoCursor, PTL
  <2> QED
    BY <1>1, <2>1, NoCursor
<1>7. Map!PutFails(new.key)
  BY <1>1, <1>3, <1>5, <1>6 DEF Map!PutFails, Map!Restrict
<1> QED
  BY <1>3, <1>7, SMTT(30)

LEMMA MapGet ==
  ASSUME HashInv, NEW k \in Key, PeerGet(k)
  PROVE  Map!Get(k)
<1>1. new = Free /\ it = NoIterator /\ UNCHANGED <<m, new, loops, it>>
  BY DEF PeerGet, Idle
<1>2. out' = IF k \in DOMAIN MapOf(Entries) THEN <<"OK", MapOf(Entries)[k]>>
             ELSE Map!Missing
  BY <1>1, FoundIs DEF PeerGet
<1>3. /\ Entries' = Entries /\ ToVisit' = ToVisit /\ Current' = Current
  BY <1>1 DEF Entries, ToVisit, Ahead, Current
<1> QED
  BY <1>1, <1>2, <1>3 DEF Map!Get

LEMMA MapRemove ==
  ASSUME HashInv, NEW k \in Key, PeerRemove(k)
  PROVE  Map!Remove(k)
<1>1. new = Free /\ it = NoIterator /\ it' = it
  BY DEF PeerRemove, Idle
<1>2. out' = IF k \in DOMAIN MapOf(Entries) THEN <<"OK", MapOf(Entries)[k]>>
             ELSE Map!Missing
  BY <1>1, FoundIs DEF PeerRemove
<1>3. HashInv' /\ Entries' = Entries \ {e \in Entries : e.key = k}
  BY PeerRemoveKeeps
<1>4. Unique(Entries)
  BY EntriesUnique
<1>5. MapOf(Entries)' = [j \in DOMAIN MapOf(Entries) \ {k} |-> MapOf(Entries)[j]]
  <2> DEFINE F == Entries \ {e \in Entries : e.key = k}
  <2>1. KeysOf(F) = KeysOf(Entries) \ {k}
    BY DEF KeysOf
  <2>2. MapOf(F) = [j \in KeysOf(F) |-> MapOf(Entries)[j]]
    BY <1>4, MapOfSubset
  <2>3. DOMAIN MapOf(Entries) = KeysOf(Entries)
    BY <1>4, MapOfIs
  <2> QED
    BY <1>3, <2>1, <2>2, <2>3
<1>6. /\ ToVisit = {} /\ Current = None
      /\ ToVisit' = {} /\ Current' = None
  <2>1. (HashInv /\ it = NoIterator => ToVisit = {} /\ Current = None)'
    BY NoCursor, PTL
  <2> QED
    BY <1>1, <1>3, <2>1, NoCursor
<1> QED
  BY <1>1, <1>2, <1>5, <1>6 DEF Map!Remove, Map!Restrict

LEMMA MapItNew ==
  ASSUME HashInv, ItNew
  PROVE  Map!ItNew
<1>1. new = Free /\ it = NoIterator /\ it' = -1 /\ UNCHANGED <<m, new, loops, out>>
  BY DEF ItNew, Idle
<1>2. Entries' = Entries /\ Entries = Stored(m) /\ Unique(Entries)
  BY <1>1, IdleEntries, EntriesUnique DEF Entries
<1>3. InUse(m) \subseteq Nat
  BY InUseIs, SMTT(30) DEF HashInv, Sound, IsTable
<1>4. Ahead' = InUse(m) /\ Current' = None
  BY <1>1, <1>3 DEF Ahead, Current
<1>5. ToVisit' = KeysOf(Stored(m))
  BY <1>1, <1>4 DEF ToVisit, NoIterator, Stored
<1>6. DOMAIN MapOf(Entries) = KeysOf(Stored(m))
  BY <1>2, MapOfIs
<1> QED
  BY <1>1, <1>2, <1>4, <1>5, <1>6 DEF Map!ItNew, NoIterator

\* The iterator moves to the next slot in use, or is at the end.
LEMMA MapItNext ==
  ASSUME HashInv, ItNext
  PROVE  Map!ItNext \/ Map!ItEnd
<1>1. it # NoIterator /\ new = Free /\ UNCHANGED <<m, new, loops>>
  BY DEF ItNext, HashInv
<1>2. Sound(m) /\ Unique(Entries) /\ Entries = Stored(m) /\ Entries' = Entries
  BY <1>1, EntriesUnique, IdleEntries, ItNextKeeps DEF HashInv
<1>3. InUse(m) \subseteq Nat
  BY InUseIs DEF HashInv, Sound, IsTable
<1>4. ToVisit = KeysOf({m.data[i] : i \in Ahead})
  BY <1>1 DEF ToVisit
<1>5. CASE Ahead # {}
  <2> DEFINE x == Min(Ahead)
             k == m.data[x].key
  <2>1. x \in Ahead /\ \A y \in Ahead : x <= y
    BY <1>3, <1>5, MinExists DEF Ahead
  <2>2. it' = x /\ out' = <<"OK", m.data[x].data>>
    BY <1>5 DEF ItNext
  <2> HIDE DEF x
  <2>3. x \in InUse(m) /\ x \in Nat /\ it \in Int /\ x > it
    BY <1>3, <2>1 DEF Ahead, HashInv
  <2>4. it' # NoIterator
    BY <2>2, <2>3 DEF NoIterator
  <2>5. Current' = k
    BY <1>1, <2>2, <2>3 DEF Current
  <2>6. Ahead' = Ahead \ {x}
    BY <1>1, <1>3, <2>1, <2>2, <2>3 DEF Ahead
  <2>7. k \in ToVisit
    BY <1>4, <2>1 DEF KeysOf
  <2>8. ToVisit' = ToVisit \ {k}
    <3>1. ToVisit' = KeysOf({m.data[i] : i \in Ahead \ {x}})
      BY <1>1, <2>4, <2>6 DEF ToVisit
    <3>2. \A i \in Ahead : i # x => m.data[i].key # k
      BY <1>2, <2>3, SMTT(30) DEF Ahead, Sound
    <3> QED
      BY <1>4, <3>1, <3>2 DEF KeysOf
  <2>9. MapOf(Entries)[k] = m.data[x].data
    <3>1. m.data[x] \in Entries
      BY <1>2, <2>3 DEF Stored
    <3> QED
      BY <1>2, <3>1, MapOfIs
  <2> HIDE DEF k
  <2>10. Map!ItNext
    BY <1>1, <1>2, <2>2, <2>4, <2>5, <2>7, <2>8, <2>9 DEF Map!ItNext
  <2> QED
    BY <2>10
<1>6. CASE Ahead = {}
  <2>1. it' = NoIterator /\ out' = Missing
    BY <1>6 DEF ItNext
  <2>2. ToVisit = {}
    BY <1>4, <1>6 DEF KeysOf
  <2>3. ToVisit' = {} /\ Current' = None
    BY <1>1, <1>3, <2>1 DEF ToVisit, Current, NoIterator
  <2> QED
    BY <1>1, <1>2, <2>1, <2>2, <2>3, SMTT(30) DEF Map!ItEnd, Map!Missing, Missing
<1> QED
  BY <1>5, <1>6

LEMMA MapItRemove ==
  ASSUME HashInv, ItRemove
  PROVE  Map!ItRemove
<1>1. /\ it \in InUse(m) /\ m' = Erase(m, it) /\ it' = it
      /\ out' = <<"OK", None>>
  BY DEF ItRemove
<1>2. new = Free /\ Entries' = Entries \ {m.data[it]} /\ Sound(m)
  BY ItRemoveKeeps, SMTT(30) DEF HashInv
<1>3. Entries = Stored(m) /\ Unique(Entries)
  BY <1>2, IdleEntries, EntriesUnique
<1>4. InUse(m) \subseteq Nat /\ m.data[it] \in Entry
  BY <1>1, InUseIs, SMTT(30) DEF HashInv, Sound, IsTable
<1>5. it # NoIterator
  BY <1>1, <1>4 DEF NoIterator
<1>6. Current = m.data[it].key /\ Current # None
  BY <1>1, <1>4, FreeIsNoEntry DEF Current
<1>7. MapOf(Entries)' = [j \in DOMAIN MapOf(Entries) \ {Current} |-> MapOf(Entries)[j]]
  <2>1. m.data[it] \in Entries
    BY <1>1, <1>3, SMTT(30) DEF Stored
  <2> QED
    BY <1>2, <1>3, <1>6, <2>1, MapOfRemove
<1>8. /\ InUse(m') = InUse(m) \ {it}
      /\ \A j \in InUse(m) \ {it} : m'.data[j] = m.data[j]
  BY <1>1, <1>2, EraseSound
<1>9. Current' = None
  BY <1>1, <1>8 DEF Current
<1>10. ToVisit' = ToVisit
  <2>1. Ahead' = Ahead /\ \A j \in Ahead : m'.data[j] = m.data[j]
    BY <1>1, <1>4, <1>8 DEF Ahead
  <2> QED
    BY <1>1, <1>5, <2>1, SMTT(30) DEF ToVisit, KeysOf
<1> QED
  BY <1>1, <1>5, <1>6, <1>7, <1>9, <1>10 DEF Map!ItRemove, Map!Restrict

LEMMA MapNext == HashInv /\ [Next]_vars => [Map!Next]_(Map!vars)
<1> SUFFICES ASSUME HashInv, [Next]_vars
             PROVE  Map!Next \/ UNCHANGED Map!vars
  BY SMTT(30)
<1>1. ASSUME NEW k \in Key, NEW v \in Value, PeerPut(k, v)
      PROVE  UNCHANGED Map!vars
  <2>1. HashInv' /\ Entries' = Entries
    BY <1>1, PeerPutKeeps
  <2>2. it = NoIterator /\ it' = it /\ out' = out
    BY <1>1 DEF PeerPut, Idle
  <2> QED
    BY <2>1, <2>2, MapStutters
<1>2. ASSUME NEW k \in Key, PeerGet(k) PROVE Map!Next
  BY <1>2, MapGet DEF Map!Next
<1>3. ASSUME NEW k \in Key, PeerRemove(k) PROVE Map!Next
  BY <1>3, MapRemove DEF Map!Next
<1>4. CASE HashmapPut
  BY <1>4, MapPut DEF Map!Next
<1>5. CASE HashmapRehash
  <2>1. HashInv' /\ Entries' = Entries
    BY <1>5, HashmapRehashKeeps
  <2>2. it = NoIterator /\ it' = it /\ out' = out
    BY <1>5, SMTT(30) DEF HashmapRehash, Putting, HashInv
  <2> QED
    BY <2>1, <2>2, MapStutters
<1>6. CASE RehashEnd
  <2>1. HashInv' /\ Entries' = Entries
    BY <1>6, RehashEndKeeps
  <2>2. it = NoIterator /\ it' = it /\ out' = out
    BY <1>6 DEF RehashEnd, HashInv
  <2> QED
    BY <2>1, <2>2, MapStutters
<1>7. CASE OutOfMemory
  BY <1>7, MapPutFails DEF Map!Next
<1>8. CASE ItNew
  BY <1>8, MapItNew DEF Map!Next
<1>9. CASE ItNext
  BY <1>9, MapItNext DEF Map!Next
<1>10. CASE ItRemove
  BY <1>10, MapItRemove DEF Map!Next
<1>11. CASE UNCHANGED vars
  BY <1>11, SMTT(30) DEF vars, Map!vars, Entries, ToVisit, Ahead, Current
<1> QED
  BY <1>1, <1>2, <1>3, <1>4, <1>5, <1>6, <1>7, <1>8, <1>9, <1>10, <1>11 DEF Next

\* The open-addressing array, with its holes, its rehashes that call each
\* other and its failures, implements the map that the peer table relies on,
\* for every hash function, chain length and size.
THEOREM ImplementsMapTheorem == Spec => ImplementsMap
<1>1. Spec => Map!Init
  BY MapInit DEF Spec
<1>2. Spec => [][Map!Next]_(Map!vars)
  BY HashInvariant, MapNext, PTL DEF Spec
<1> QED
  BY <1>1, <1>2, PTL DEF ImplementsMap, Map!Spec
=============================================================================
