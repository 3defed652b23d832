---------------------------- MODULE TxQueue_proofs ----------------------------
(***************************************************************************)
(* The transmit queues of the daemon, for any number of frames and peers,  *)
(* any capacity of the queue and any schedule.                             *)
(*                                                                         *)
(* Every callback is made of three movements of frames: poll_host_device   *)
(* takes frames from the device, awdl_send_multicast takes the head of the *)
(* multicast queue and awdl_send_unicast takes the frame in next.  There   *)
(* is a lemma for each, about the places alone (the queues as they are     *)
(* before and after), and the actions put them together.                   *)
(***************************************************************************)
EXTENDS TxQueue, SequenceTheorems, FiniteSetTheorems, WellFoundedInduction, TLAPS

\* A set of natural numbers has a least element.
LEMMA Least ==
  ASSUME NEW T \in SUBSET Nat, T # {}
  PROVE  \E x \in T : \A y \in T : x <= y
<1>1. PICK x \in T : \A y \in T : ~ (<<y, x>> \in OpToRel(<, Nat))
  BY NatLessThanWellFounded, WFMin, Zenon
<1>2. \A y \in T : ~ (y < x)
  BY <1>1, Zenon DEF OpToRel
<1> QED BY <1>2

\* RunLength is what it says it is.
LEMMA RunLengthType ==
  ASSUME host \in Seq(Frame)
  PROVE  /\ RunLength \in 0 .. Len(host)
         /\ \A i \in 1 .. RunLength : IsMulticast(host[i])
         /\ RunLength < Len(host) => ~IsMulticast(host[RunLength + 1])
<1> DEFINE Run(n) == /\ \A i \in 1 .. n : IsMulticast(host[i])
                     /\ n < Len(host) => ~IsMulticast(host[n + 1])
           others == {i \in 1 .. Len(host) : ~IsMulticast(host[i])}
<1>0. Len(host) \in Nat
  OBVIOUS
<1>1. \E n \in 0 .. Len(host) : Run(n)
  <2>1. CASE others = {}
    <3>1. Run(Len(host))
      BY <1>0, <2>1
    <3> QED BY <1>0, <3>1
  <2>2. CASE others # {}
    <3> HIDE DEF others
    <3>1. others \in SUBSET Nat
      BY <1>0 DEF others
    <3>2. PICK x \in others : \A y \in others : x <= y
      BY <2>2, <3>1, Least
    <3>3. x - 1 \in 0 .. Len(host) /\ (x - 1) + 1 = x
      BY <1>0 DEF others
    <3>4. Run(x - 1)
      BY <1>0, <3>2, <3>3 DEF others
    <3> QED BY <3>3, <3>4
  <2> QED BY <2>1, <2>2
<1>2. RunLength = CHOOSE n \in 0 .. Len(host) : Run(n)
  BY DEF RunLength
<1> HIDE DEF Run
<1>3. RunLength \in 0 .. Len(host) /\ Run(RunLength)
  BY <1>1, <1>2
<1> QED BY <1>3 DEF Run

-----------------------------------------------------------------------------
(* The places of frames: next, the multicast queue mq, the history of sent  *)
(* frames and the set of dropped ones.  The host device holds the frames    *)
(* after the first lo, so these places hold the first lo.                   *)

NextIds(next) == IF next = None THEN {} ELSE {next.id}
GoneIds(g) == {f.id : f \in g}

Places(next, mq, out, g, lo) ==
  /\ next \in Frame \cup {None} /\ ~IsMulticast(next)
  /\ mq \in Seq(Frame) /\ \A i \in 1 .. Len(mq) : IsMulticast(mq[i])
  /\ out \in Seq(Frame)
  /\ g \subseteq Frame
  /\ lo \in 0 .. MaxFrames

\* Each of the first lo frames is in one place, and was sent at most once.
Account(next, mq, out, g, lo) ==
  /\ Ids(mq) \cup NextIds(next) \cup Ids(out) \cup GoneIds(g) = 1 .. lo
  /\ Ids(mq) \cap NextIds(next) = {} /\ Ids(mq) \cap Ids(out) = {}
  /\ Ids(mq) \cap GoneIds(g) = {} /\ NextIds(next) \cap Ids(out) = {}
  /\ NextIds(next) \cap GoneIds(g) = {} /\ Ids(out) \cap GoneIds(g) = {}
  /\ Cardinality(Ids(out)) = Len(out)

\* The frames of a kind were sent in the order of their numbers, and those
\* that wait come after them.
Order(next, mq, out) ==
  /\ \A i, j \in 1 .. Len(mq) : i < j => mq[i].id < mq[j].id
  /\ \A i, j \in 1 .. Len(out) :
       i < j /\ IsMulticast(out[i]) = IsMulticast(out[j]) => out[i].id < out[j].id
  /\ \A i \in 1 .. Len(out), j \in 1 .. Len(mq) :
       IsMulticast(out[i]) => out[i].id < mq[j].id
  /\ next # None =>
       \A i \in 1 .. Len(out) : ~IsMulticast(out[i]) => out[i].id < next.id

\* Neither a frame nor its number is None's.
LEMMA FrameId == \A f \in Frame : f # None /\ f.id \in 1 .. MaxFrames
BY TxAssumption DEF Frame, None

\* The numbers of new frames follow those of the old ones, in order.
LEMMA Later ==
  ASSUME NEW lo \in Nat, NEW n \in Nat, NEW k \in 1 .. n
  PROVE  /\ lo + k \in lo + 1 .. lo + n
         /\ \A x \in 1 .. lo : x < lo + k
         /\ \A l \in 1 .. n : l < k => lo + l < lo + k
OBVIOUS

\* What a send does to the history.
LEMMA SentOne ==
  ASSUME NEW out \in Seq(Frame), NEW f \in Frame
  PROVE  /\ out \o <<f>> \in Seq(Frame) /\ Len(out \o <<f>>) = Len(out) + 1
         /\ \A i \in 1 .. Len(out) : (out \o <<f>>)[i] = out[i]
         /\ (out \o <<f>>)[Len(out) + 1] = f
         /\ Ids(out \o <<f>>) = Ids(out) \cup {f.id}
         /\ f.id \notin Ids(out) /\ Cardinality(Ids(out)) = Len(out)
              => Cardinality(Ids(out \o <<f>>)) = Len(out \o <<f>>)
<1>1. /\ out \o <<f>> \in Seq(Frame) /\ Len(out \o <<f>>) = Len(out) + 1
      /\ \A i \in 1 .. Len(out) : (out \o <<f>>)[i] = out[i]
      /\ (out \o <<f>>)[Len(out) + 1] = f
  OBVIOUS
<1>2. Ids(out \o <<f>>) = Ids(out) \cup {f.id}
  <2>1. Len(out) \in Nat
    OBVIOUS
  <2> HIDE DEF Ids
  <2>2. \A x : x \in Ids(out \o <<f>>) <=> \E i \in 1 .. Len(out) + 1 : x = (out \o <<f>>)[i].id
    BY <1>1 DEF Ids
  <2>3. \A x : x \in Ids(out) <=> \E i \in 1 .. Len(out) : x = out[i].id
    BY DEF Ids
  <2> QED BY <1>1, <2>1, <2>2, <2>3
<1>3. IsFiniteSet(Ids(out))
  <2>1. Ids(out) \subseteq 1 .. MaxFrames
    BY FrameId DEF Ids
  <2>2. IsFiniteSet(1 .. MaxFrames)
    BY TxAssumption, FS_Interval
  <2> QED BY <2>1, <2>2, FS_Subset, Zenon
<1>4. f.id \notin Ids(out) => Cardinality(Ids(out) \cup {f.id}) = Cardinality(Ids(out)) + 1
  BY <1>3, FS_AddElement, Zenon
<1> QED BY <1>1, <1>2, <1>4, Zenon

\* What taking the head does to the multicast queue.
LEMMA TookHead ==
  ASSUME NEW mq \in Seq(Frame), mq # <<>>
  PROVE  /\ Head(mq) = mq[1] /\ Head(mq) \in Frame
         /\ Tail(mq) \in Seq(Frame) /\ Len(Tail(mq)) = Len(mq) - 1
         /\ \A i \in 1 .. Len(Tail(mq)) : Tail(mq)[i] = mq[i + 1]
         /\ 1 \in 1 .. Len(mq)
         /\ Ids(mq) = Ids(Tail(mq)) \cup {Head(mq).id}
<1>1. /\ Head(mq) = mq[1] /\ Head(mq) \in Frame
      /\ Tail(mq) \in Seq(Frame) /\ Len(Tail(mq)) = Len(mq) - 1
      /\ \A i \in 1 .. Len(Tail(mq)) : Tail(mq)[i] = mq[i + 1]
      /\ Len(mq) \in Nat \ {0}
  BY HeadTailProperties
<1>2. \A x : x \in Ids(mq) <=> \E i \in 1 .. Len(mq) : x = mq[i].id
  BY DEF Ids
<1>3. \A x : x \in Ids(Tail(mq)) <=> \E i \in 1 .. Len(mq) - 1 : x = mq[i + 1].id
  BY <1>1 DEF Ids
<1>4. \A i \in 1 .. Len(mq) : i = 1 \/ (i - 1 \in 1 .. Len(mq) - 1 /\ i = (i - 1) + 1)
  BY <1>1
<1>5. \A i \in 1 .. Len(mq) - 1 : i + 1 \in 1 .. Len(mq)
  BY <1>1
<1>6. Ids(Tail(mq)) \cup {Head(mq).id} \subseteq Ids(mq)
  BY <1>1, <1>2, <1>3, <1>5
<1>7. ASSUME NEW x \in Ids(mq) PROVE x \in Ids(Tail(mq)) \cup {Head(mq).id}
  <2>1. PICK i \in 1 .. Len(mq) : x = mq[i].id
    BY <1>2, <1>7
  <2> QED BY <1>1, <1>3, <1>4, <2>1, Zenon
<1> QED BY <1>1, <1>6, <1>7

\* The numbers in a queue, as positions.
LEMMA InIds ==
  ASSUME NEW s, NEW x
  PROVE  x \in Ids(s) <=> \E i \in 1 .. Len(s) : x = s[i].id
BY DEF Ids

-----------------------------------------------------------------------------
\* awdl_send_multicast sends the head of the queue.
LEMMA HeadSent ==
  ASSUME NEW next, NEW mq, NEW out, NEW g, NEW lo,
         Places(next, mq, out, g, lo), Account(next, mq, out, g, lo),
         Order(next, mq, out), mq # <<>>
  PROVE  /\ Places(next, Tail(mq), out \o <<Head(mq)>>, g, lo)
         /\ Account(next, Tail(mq), out \o <<Head(mq)>>, g, lo)
         /\ Order(next, Tail(mq), out \o <<Head(mq)>>)
<1> DEFINE f == Head(mq)
           rest == Tail(mq)
           longer == out \o <<f>>
<1>1. mq \in Seq(Frame) /\ out \in Seq(Frame) /\ Len(mq) \in Nat /\ Len(out) \in Nat
  BY DEF Places
<1>2. /\ f = mq[1] /\ f \in Frame /\ rest \in Seq(Frame) /\ Len(rest) = Len(mq) - 1
      /\ \A i \in 1 .. Len(rest) : rest[i] = mq[i + 1]
      /\ 1 \in 1 .. Len(mq) /\ Ids(mq) = Ids(rest) \cup {f.id}
  BY <1>1, TookHead
<1>3. /\ longer \in Seq(Frame) /\ Len(longer) = Len(out) + 1
      /\ \A i \in 1 .. Len(out) : longer[i] = out[i]
      /\ longer[Len(out) + 1] = f
      /\ Ids(longer) = Ids(out) \cup {f.id}
      /\ f.id \notin Ids(out) /\ Cardinality(Ids(out)) = Len(out)
           => Cardinality(Ids(longer)) = Len(longer)
  BY <1>1, <1>2, SentOne
<1> HIDE DEF f, rest, longer
<1>4. \A i \in 1 .. Len(rest) : i + 1 \in 1 .. Len(mq) /\ 1 < i + 1
  BY <1>1, <1>2
<1>5. IsMulticast(f)
  BY <1>2 DEF Places
<1>6. Places(next, rest, longer, g, lo)
  <2>1. \A i \in 1 .. Len(rest) : IsMulticast(rest[i])
    BY <1>2, <1>4, Zenon DEF Places
  <2> QED BY <1>2, <1>3, <2>1, Zenon DEF Places
<1>10. /\ \A i, j \in 1 .. Len(mq) : i < j => mq[i].id < mq[j].id
       /\ \A i \in 1 .. Len(out), j \in 1 .. Len(mq) :
            IsMulticast(out[i]) => out[i].id < mq[j].id
  BY Zenon DEF Order
<1>7. f.id \notin Ids(rest)
  <2>1. \A i \in 1 .. Len(rest) : f.id < rest[i].id
    BY <1>2, <1>4, <1>10, Zenon
  <2>2. \A i \in 1 .. Len(rest) : rest[i].id \in Int
    BY <1>2, FrameId
  <2>3. f.id \in Int /\ \A i \in 1 .. Len(rest) : rest[i].id # f.id
    BY <1>2, <2>1, <2>2, FrameId
  <2> QED BY <2>3, Zenon DEF Ids
<1>8. Account(next, rest, longer, g, lo)
  <2>1. f.id \in Ids(mq)
    BY <1>2
  <2>2. Cardinality(Ids(longer)) = Len(longer)
    BY <1>3, <2>1 DEF Account
  <2> QED BY <1>2, <1>3, <1>7, <2>1, <2>2 DEF Account
<1>9. Order(next, rest, longer)
  <2>1. \A i, j \in 1 .. Len(rest) : i < j => rest[i].id < rest[j].id
    <3>1. \A i, j \in 1 .. Len(rest) : i < j => i + 1 < j + 1
      OBVIOUS
    <3> QED BY <1>2, <1>4, <1>10, <3>1, Zenon
  <2>2. \A i \in 1 .. Len(longer) : i \in 1 .. Len(out) \/ i = Len(out) + 1
    BY <1>1, <1>3
  <2>3. \A i, j \in 1 .. Len(longer) :
          i < j /\ IsMulticast(longer[i]) = IsMulticast(longer[j])
            => longer[i].id < longer[j].id
    <3> SUFFICES ASSUME NEW i \in 1 .. Len(longer), NEW j \in 1 .. Len(longer), i < j,
                        IsMulticast(longer[i]) = IsMulticast(longer[j])
                 PROVE  longer[i].id < longer[j].id
      OBVIOUS
    <3>1. i \in 1 .. Len(out)
      BY <1>1, <1>3
    <3>2. CASE j \in 1 .. Len(out)
      BY <1>3, <3>1, <3>2 DEF Order
    <3>3. CASE j = Len(out) + 1
      BY <1>2, <1>3, <1>5, <3>1, <3>3 DEF Order
    <3> QED BY <2>2, <3>2, <3>3
  <2>4. \A i \in 1 .. Len(longer), j \in 1 .. Len(rest) :
          IsMulticast(longer[i]) => longer[i].id < rest[j].id
    <3> SUFFICES ASSUME NEW i \in 1 .. Len(longer), NEW j \in 1 .. Len(rest),
                        IsMulticast(longer[i])
                 PROVE  longer[i].id < mq[j + 1].id
      BY <1>2, Zenon
    <3>1. CASE i \in 1 .. Len(out)
      BY <1>3, <1>4, <1>10, <3>1, Zenon
    <3>2. CASE i = Len(out) + 1
      BY <1>2, <1>3, <1>4, <1>10, <3>2, Zenon
    <3> QED BY <2>2, <3>1, <3>2
  <2>5. next # None =>
          \A i \in 1 .. Len(longer) : ~IsMulticast(longer[i]) => longer[i].id < next.id
    BY <1>3, <1>5, <2>2 DEF Order
  <2> QED BY <2>1, <2>3, <2>4, <2>5 DEF Order
<1> QED BY <1>6, <1>8, <1>9 DEF f, rest, longer

\* awdl_send_unicast sends the frame in next.
LEMMA NextSent ==
  ASSUME NEW next, NEW mq, NEW out, NEW g, NEW lo,
         Places(next, mq, out, g, lo), Account(next, mq, out, g, lo),
         Order(next, mq, out), next # None
  PROVE  /\ Places(None, mq, out \o <<next>>, g, lo)
         /\ Account(None, mq, out \o <<next>>, g, lo)
         /\ Order(None, mq, out \o <<next>>)
<1> DEFINE longer == out \o <<next>>
<1>1. out \in Seq(Frame) /\ next \in Frame /\ Len(out) \in Nat /\ ~IsMulticast(next)
  BY DEF Places
<1>2. /\ longer \in Seq(Frame) /\ Len(longer) = Len(out) + 1
      /\ \A i \in 1 .. Len(out) : longer[i] = out[i]
      /\ longer[Len(out) + 1] = next
      /\ Ids(longer) = Ids(out) \cup {next.id}
      /\ next.id \notin Ids(out) /\ Cardinality(Ids(out)) = Len(out)
           => Cardinality(Ids(longer)) = Len(longer)
  BY <1>1, SentOne
<1> HIDE DEF longer
<1>3. Places(None, mq, longer, g, lo)
  BY <1>2 DEF Places, None, IsMulticast
<1>4. Account(None, mq, longer, g, lo)
  <2>1. NextIds(next) = {next.id} /\ NextIds(None) = {}
    BY DEF NextIds
  <2>2. Cardinality(Ids(longer)) = Len(longer)
    BY <1>2, <2>1 DEF Account
  <2> QED BY <1>2, <2>1, <2>2 DEF Account
<1>5. Order(None, mq, longer)
  <2>1. \A i \in 1 .. Len(longer) : i \in 1 .. Len(out) \/ i = Len(out) + 1
    BY <1>1, <1>2
  <2>2. \A i, j \in 1 .. Len(longer) :
          i < j /\ IsMulticast(longer[i]) = IsMulticast(longer[j])
            => longer[i].id < longer[j].id
    <3> SUFFICES ASSUME NEW i \in 1 .. Len(longer), NEW j \in 1 .. Len(longer), i < j,
                        IsMulticast(longer[i]) = IsMulticast(longer[j])
                 PROVE  longer[i].id < longer[j].id
      OBVIOUS
    <3>1. i \in 1 .. Len(out)
      BY <1>1, <1>2
    <3>2. CASE j \in 1 .. Len(out)
      BY <1>2, <3>1, <3>2 DEF Order
    <3>3. CASE j = Len(out) + 1
      BY <1>1, <1>2, <3>1, <3>3 DEF Order
    <3> QED BY <2>1, <3>2, <3>3
  <2>3. \A i \in 1 .. Len(longer), j \in 1 .. Len(mq) :
          IsMulticast(longer[i]) => longer[i].id < mq[j].id
    BY <1>1, <1>2, <2>1, Zenon DEF Order
  <2> QED BY <2>2, <2>3 DEF Order
<1> QED BY <1>3, <1>4, <1>5 DEF longer

\* awdl_send_unicast drops the frame in next, or sends it back to the host.
LEMMA NextDropped ==
  ASSUME NEW next, NEW mq, NEW out, NEW g, NEW lo,
         Places(next, mq, out, g, lo), Account(next, mq, out, g, lo),
         Order(next, mq, out), next # None
  PROVE  /\ Places(None, mq, out, g \cup {next}, lo)
         /\ Account(None, mq, out, g \cup {next}, lo)
         /\ Order(None, mq, out)
<1>1. NextIds(next) = {next.id} /\ NextIds(None) = {}
  BY DEF NextIds
<1>2. GoneIds(g \cup {next}) = GoneIds(g) \cup {next.id}
  BY DEF GoneIds
<1>3. Places(None, mq, out, g \cup {next}, lo)
  BY DEF Places, None, IsMulticast
<1>4. Account(None, mq, out, g \cup {next}, lo)
  BY <1>1, <1>2, Zenon DEF Account
<1> QED BY <1>3, <1>4 DEF Order

\* poll_host_device reads a run of multicast frames.
LEMMA RunQueued ==
  ASSUME NEW next, NEW mq, NEW out, NEW g, NEW lo, NEW run \in Seq(Frame),
         Places(next, mq, out, g, lo), Account(next, mq, out, g, lo),
         Order(next, mq, out), lo + Len(run) <= MaxFrames,
         \A i \in 1 .. Len(run) : IsMulticast(run[i]) /\ run[i].id = lo + i
  PROVE  /\ Places(next, mq \o run, out, g, lo + Len(run))
         /\ Account(next, mq \o run, out, g, lo + Len(run))
         /\ Order(next, mq \o run, out)
<1> DEFINE q == mq \o run
<1>1. /\ mq \in Seq(Frame) /\ out \in Seq(Frame) /\ lo \in Nat
      /\ Len(mq) \in Nat /\ Len(run) \in Nat /\ Len(out) \in Nat /\ MaxFrames \in Nat
  BY TxAssumption DEF Places
<1>2. /\ q \in Seq(Frame) /\ Len(q) = Len(mq) + Len(run)
      /\ \A i \in 1 .. Len(mq) + Len(run) : q[i] = IF i <= Len(mq) THEN mq[i] ELSE run[i - Len(mq)]
  BY <1>1, ConcatProperties
<1> HIDE DEF q
<1>11. \A k \in 1 .. Len(run) :
         /\ lo + k \in lo + 1 .. lo + Len(run)
         /\ \A x \in 1 .. lo : x < lo + k
         /\ \A l \in 1 .. Len(run) : l < k => lo + l < lo + k
  BY <1>1, Later, Zenon
<1>3. \A i \in 1 .. Len(q) : \/ i \in 1 .. Len(mq) /\ q[i] = mq[i]
                             \/ /\ i - Len(mq) \in 1 .. Len(run) /\ i > Len(mq)
                                /\ q[i] = run[i - Len(mq)]
  <2> TAKE i \in 1 .. Len(q)
  <2>1. CASE i <= Len(mq)
    BY <1>1, <1>2, <2>1
  <2>2. CASE i > Len(mq)
    BY <1>1, <1>2, <2>2
  <2> QED BY <1>1, <2>1, <2>2
<1>4. /\ \A i \in 1 .. Len(mq) : i \in 1 .. Len(q) /\ q[i] = mq[i]
      /\ \A i \in 1 .. Len(run) : i + Len(mq) \in 1 .. Len(q) /\ q[i + Len(mq)] = run[i]
  <2>1. \A i \in 1 .. Len(mq) : i \in 1 .. Len(q) /\ q[i] = mq[i]
    BY <1>1, <1>2
  <2>2. ASSUME NEW i \in 1 .. Len(run)
        PROVE  i + Len(mq) \in 1 .. Len(q) /\ q[i + Len(mq)] = run[i]
    <3>1. /\ i + Len(mq) \in 1 .. Len(q) /\ ~ (i + Len(mq) <= Len(mq))
          /\ (i + Len(mq)) - Len(mq) = i
      BY <1>1, <1>2
    <3> QED BY <1>2, <3>1
  <2> QED BY <2>1, <2>2
<1>5. Places(next, q, out, g, lo + Len(run))
  <2>1. \A i \in 1 .. Len(q) : IsMulticast(q[i])
    BY <1>3, Zenon DEF Places
  <2>2. lo + Len(run) \in 0 .. MaxFrames
    BY <1>1
  <2> QED BY <1>2, <2>1, <2>2 DEF Places
<1>6. Ids(q) = Ids(mq) \cup (lo + 1 .. lo + Len(run))
  <2>1. ASSUME NEW x \in Ids(q) PROVE x \in Ids(mq) \cup (lo + 1 .. lo + Len(run))
    <3>1. PICK i \in 1 .. Len(q) : x = q[i].id
      BY <2>1, InIds
    <3>2. CASE i \in 1 .. Len(mq) /\ q[i] = mq[i]
      BY <3>1, <3>2, InIds
    <3>3. CASE i - Len(mq) \in 1 .. Len(run) /\ q[i] = run[i - Len(mq)]
      <4>1. x = lo + (i - Len(mq))
        BY <3>1, <3>3
      <4> QED BY <1>11, <3>3, <4>1, Zenon
    <3> QED BY <1>3, <3>2, <3>3
  <2>2. ASSUME NEW x \in Ids(mq) PROVE x \in Ids(q)
    <3>1. PICK i \in 1 .. Len(mq) : x = mq[i].id
      BY <2>2, InIds
    <3>2. i \in 1 .. Len(q) /\ x = q[i].id
      BY <1>4, <3>1
    <3> QED BY <3>2, InIds
  <2>3. ASSUME NEW x \in lo + 1 .. lo + Len(run) PROVE x \in Ids(q)
    <3>1. x - lo \in 1 .. Len(run) /\ x = lo + (x - lo)
      BY <1>1
    <3>2. x = run[x - lo].id
      BY <3>1
    <3>3. x = q[(x - lo) + Len(mq)].id
      BY <1>4, <3>1, <3>2
    <3> QED BY <1>4, <3>1, <3>3, InIds
  <2> QED BY <2>1, <2>2, <2>3
<1>7. \A x \in 1 .. lo : x \notin lo + 1 .. lo + Len(run)
  BY <1>1
<1>8. 1 .. lo + Len(run) = (1 .. lo) \cup (lo + 1 .. lo + Len(run))
  BY <1>1
<1>9. Account(next, q, out, g, lo + Len(run))
  <2> DEFINE new == lo + 1 .. lo + Len(run)
             old == 1 .. lo
             both == 1 .. lo + Len(run)
  <2>1. Ids(q) = Ids(mq) \cup new /\ both = old \cup new /\ \A x \in old : x \notin new
    BY <1>6, <1>7, <1>8, Zenon
  <2>2. Ids(mq) \cup NextIds(next) \cup Ids(out) \cup GoneIds(g) = old
    BY DEF Account
  <2> HIDE DEF new, old, both
  <2>3. Ids(q) \cup NextIds(next) \cup Ids(out) \cup GoneIds(g) = both
    BY <2>1, <2>2
  <2>4. /\ Ids(q) \cap NextIds(next) = {} /\ Ids(q) \cap Ids(out) = {}
        /\ Ids(q) \cap GoneIds(g) = {}
    BY <2>1, <2>2 DEF Account
  <2> QED BY <2>3, <2>4 DEF Account, both
<1>10. Order(next, q, out)
  <2>1. \A i \in 1 .. Len(mq) : mq[i].id \in 1 .. lo
    BY InIds, Zenon DEF Account
  <2>2. \A i \in 1 .. Len(out) : out[i].id \in 1 .. lo
    BY InIds, Zenon DEF Account
  <2>3. \A i, j \in 1 .. Len(q) : i < j => q[i].id < q[j].id
    <3> SUFFICES ASSUME NEW i \in 1 .. Len(q), NEW j \in 1 .. Len(q), i < j
                 PROVE  q[i].id < q[j].id
      OBVIOUS
    <3>1. CASE j \in 1 .. Len(mq)
      <4>1. i \in 1 .. Len(mq)
        BY <1>1, <1>2, <3>1
      <4> QED BY <1>4, <3>1, <4>1, Zenon DEF Order
    <3>2. CASE j > Len(mq)
      <4>1. j - Len(mq) \in 1 .. Len(run) /\ q[j] = run[j - Len(mq)]
        BY <1>1, <1>3, <3>2
      <4>2. q[j].id = lo + (j - Len(mq))
        BY <4>1
      <4>3. CASE i \in 1 .. Len(mq)
        <5>1. q[i].id \in 1 .. lo
          BY <1>4, <2>1, <4>3
        <5> QED BY <1>11, <4>1, <4>2, <5>1, Zenon
      <4>4. CASE i > Len(mq)
        <5>1. i - Len(mq) \in 1 .. Len(run) /\ q[i] = run[i - Len(mq)]
          BY <1>1, <1>3, <4>4
        <5>2. q[i].id = lo + (i - Len(mq))
          BY <5>1
        <5>3. i - Len(mq) < j - Len(mq)
          BY <1>1
        <5> QED BY <1>11, <4>1, <4>2, <5>1, <5>2, <5>3, Zenon
      <4> QED BY <1>1, <4>3, <4>4
    <3> QED BY <1>1, <3>1, <3>2
  <2>4. \A i \in 1 .. Len(out), j \in 1 .. Len(q) :
          IsMulticast(out[i]) => out[i].id < q[j].id
    <3> SUFFICES ASSUME NEW i \in 1 .. Len(out), NEW j \in 1 .. Len(q),
                        IsMulticast(out[i])
                 PROVE  out[i].id < q[j].id
      OBVIOUS
    <3>1. CASE j \in 1 .. Len(mq) /\ q[j] = mq[j]
      BY <3>1 DEF Order
    <3>2. CASE j - Len(mq) \in 1 .. Len(run) /\ q[j] = run[j - Len(mq)]
      <4>1. q[j].id = lo + (j - Len(mq))
        BY <3>2
      <4> QED BY <1>11, <2>2, <3>2, <4>1, Zenon
    <3> QED BY <1>3, <3>1, <3>2, Zenon
  <2> QED BY <2>3, <2>4 DEF Order
<1> QED BY <1>5, <1>9, <1>10 DEF q

\* poll_host_device reads a frame that is not a multicast frame: it goes to
\* next, or is dropped because it is too short.
LEMMA OtherTaken ==
  ASSUME NEW mq, NEW out, NEW g, NEW lo, NEW f \in Frame,
         Places(None, mq, out, g, lo), Account(None, mq, out, g, lo),
         Order(None, mq, out), ~IsMulticast(f), f.id = lo + 1
  PROVE  /\ Places(f, mq, out, g, lo + 1) /\ Account(f, mq, out, g, lo + 1)
         /\ Order(f, mq, out)
         /\ Places(None, mq, out, g \cup {f}, lo + 1)
         /\ Account(None, mq, out, g \cup {f}, lo + 1)
<1>1. lo \in Nat /\ lo + 1 \in 0 .. MaxFrames /\ f # None
  BY FrameId, TxAssumption DEF Places
<1>2. /\ NextIds(f) = {f.id} /\ NextIds(None) = {}
      /\ GoneIds(g \cup {f}) = GoneIds(g) \cup {f.id}
  BY <1>1 DEF NextIds, GoneIds
<1>3. f.id \notin 1 .. lo /\ 1 .. lo + 1 = (1 .. lo) \cup {f.id}
  BY <1>1
<1>4. Places(f, mq, out, g, lo + 1) /\ Places(None, mq, out, g \cup {f}, lo + 1)
  BY <1>1 DEF Places
<1>5. Account(f, mq, out, g, lo + 1) /\ Account(None, mq, out, g \cup {f}, lo + 1)
  <2> DEFINE old == 1 .. lo
             new == 1 .. lo + 1
  <2>1. f.id \notin old /\ new = old \cup {f.id}
    BY <1>3
  <2>2. Ids(mq) \cup NextIds(None) \cup Ids(out) \cup GoneIds(g) = old
    BY DEF Account
  <2> HIDE DEF old, new
  <2>3. /\ Ids(mq) \cup NextIds(f) \cup Ids(out) \cup GoneIds(g) = new
        /\ Ids(mq) \cup NextIds(None) \cup Ids(out) \cup GoneIds(g \cup {f}) = new
    BY <1>2, <2>1, <2>2, Zenon
  <2>4. f.id \notin Ids(mq) /\ f.id \notin Ids(out) /\ f.id \notin GoneIds(g)
    BY <2>1, <2>2
  <2>5. Account(f, mq, out, g, lo + 1)
    <3>1. /\ Ids(mq) \cap NextIds(f) = {} /\ NextIds(f) \cap Ids(out) = {}
          /\ NextIds(f) \cap GoneIds(g) = {}
      BY <1>2, <2>4, Zenon
    <3> QED BY <2>3, <3>1, Zenon DEF Account, new
  <2>6. Account(None, mq, out, g \cup {f}, lo + 1)
    <3>1. /\ Ids(mq) \cap GoneIds(g \cup {f}) = {} /\ NextIds(None) \cap GoneIds(g \cup {f}) = {}
          /\ Ids(out) \cap GoneIds(g \cup {f}) = {}
      BY <1>2, <2>4, Zenon DEF Account
    <3> QED BY <2>3, <3>1, Zenon DEF Account, new
  <2> QED BY <2>5, <2>6
<1>6. Order(f, mq, out)
  <2>1. \A i \in 1 .. Len(out) : out[i].id \in 1 .. lo
    BY InIds, Zenon DEF Account
  <2>2. \A i \in 1 .. Len(out) : out[i].id < f.id
    BY <1>1, <2>1
  <2> QED BY <2>2, Zenon DEF Order
<1> QED BY <1>4, <1>5, <1>6

-----------------------------------------------------------------------------
(* The callbacks. *)

State ==
  [next : Frame \cup {None}, mq : Seq(Frame), tx_timer : Nat \cup {Off},
   tx_mcast_timer : Nat \cup {Off}, fed : BOOLEAN]

\* An EAW is a positive number of microseconds.
LEMMA EawType == TU \in Nat \ {0} /\ EawTu \in Nat \ {0} /\ EawUs \in Nat \ {0}
<1>1. /\ TU \in Nat \ {0} /\ AwPeriod \in Nat \ {0} /\ Presence \in Nat \ {0}
  BY WidthAssumption
<1>2. EawTu \in Nat \ {0}
  BY <1>1 DEF EawTu
<1> QED BY <1>1, <1>2 DEF EawUs

\* A timer is always set to a time that is not negative.
LEMMA Delays ==
  ASSUME now \in Int
  PROVE  /\ MulticastDelay(now, sync) \in Nat
         /\ \A common : UnicastDelay(now, sync, common) \in Nat
<1> DEFINE next == NextAwUs(now, sync)
<1>1. next \in Int
  <2>1. U64 \in Nat \ {0} /\ now - sync.last_update = now
    BY WidthAssumption DEF sync
  <2>2. Since(now, sync) \in Int
    BY <2>1 DEF Since
  <2> QED BY <2>2, EawType DEF NextAwUs
<1>2. TU * UnicastGuard \in Nat /\ TU * MulticastGuard \in Nat
  BY EawType, GuardAssumption
<1> HIDE DEF next
<1>3. CanSendIn(now, sync, MulticastGuard) \in Int
  BY <1>1, <1>2, EawType DEF CanSendIn, next
<1>4. \A common : CanSendUnicastIn(now, sync, common, UnicastGuard) \in Int
  BY <1>1, <1>2, EawType DEF CanSendUnicastIn, next
<1>5. \A in \in Int : Retry(in, UnicastGuard) \in Nat /\ Retry(in, MulticastGuard) \in Nat
  BY <1>2 DEF Retry
<1>6. MulticastDelay(now, sync) \in Nat
  BY <1>3, <1>5, EawType DEF MulticastDelay
<1>7. \A common : UnicastDelay(now, sync, common) \in Nat
  BY <1>4, <1>5 DEF UnicastDelay
<1> QED BY <1>6, <1>7

\* What awdl_send_multicast does to the state.
LEMMA SendMulticastEffect ==
  ASSUME NEW s \in State, now \in Int
  PROVE  /\ SendMulticast(s) \in State
         /\ SendMulticast(s).next = s.next
         /\ SendMulticast(s).tx_timer = s.tx_timer
         /\ SendMulticast(s).mq = IF SendsMulticast(s) THEN Tail(s.mq) ELSE s.mq
         /\ SendMulticast(s).mq # <<>> => SendMulticast(s).tx_mcast_timer # Off
<1> DEFINE t == IF SendsMulticast(s) THEN [s EXCEPT !.mq = Tail(@)] ELSE s
           in == MulticastDelay(now, sync)
<1>1. in \in Nat
  BY Delays
<1>2. t \in State /\ t.next = s.next /\ t.tx_timer = s.tx_timer
      /\ t.mq = IF SendsMulticast(s) THEN Tail(s.mq) ELSE s.mq
  <2>1. CASE SendsMulticast(s)
    <3>1. s.mq \in Seq(Frame) /\ s.mq # <<>>
      BY <2>1, Zenon DEF State, SendsMulticast
    <3>2. Tail(s.mq) \in Seq(Frame)
      BY <3>1, HeadTailProperties, Zenon
    <3> QED BY <2>1, <3>2, Zenon DEF State
  <2>2. CASE ~SendsMulticast(s)
    BY <2>2, Zenon
  <2> QED BY <2>1, <2>2
<1>3. SendMulticast(s) = RearmMulticast(t, in)
  BY DEF SendMulticast
<1> HIDE DEF t, in
<1>4. CASE t.mq # <<>>
  <2>1. SendMulticast(s) = [t EXCEPT !.tx_mcast_timer = in]
    BY <1>3, <1>4 DEF RearmMulticast
  <2>2. in # Off
    BY <1>1 DEF Off
  <2> QED BY <1>1, <1>2, <2>1, <2>2, Zenon DEF State
<1>5. CASE t.mq = <<>>
  <2>1. SendMulticast(s) = [t EXCEPT !.fed = TRUE]
    BY <1>3, <1>5 DEF RearmMulticast
  <2> QED BY <1>2, <1>5, <2>1, Zenon DEF State
<1> QED BY <1>4, <1>5

\* What awdl_send_unicast does to the state.
LEMMA SendUnicastEffect ==
  ASSUME NEW s \in State, now \in Int
  PROVE  /\ SendUnicast(s) \in State
         /\ SendUnicast(s).mq = s.mq
         /\ SendUnicast(s).tx_mcast_timer = s.tx_mcast_timer
         /\ SendUnicast(s).next = IF Leaves(s) THEN None ELSE s.next
         /\ SendUnicast(s).next # None => SendUnicast(s).tx_timer # Off
<1> DEFINE t == IF Leaves(s) THEN [s EXCEPT !.next = None] ELSE s
           in == UnicastIn(s)
<1>1. in \in Nat
  BY Delays DEF UnicastIn
<1>2. t \in State /\ t.mq = s.mq /\ t.tx_mcast_timer = s.tx_mcast_timer
      /\ t.next = IF Leaves(s) THEN None ELSE s.next
  BY DEF State
<1>3. SendUnicast(s) = RearmUnicast(t, in)
  BY DEF SendUnicast
<1> HIDE DEF t, in
<1>4. CASE t.next # None
  <2>1. SendUnicast(s) = [t EXCEPT !.tx_timer = in]
    BY <1>3, <1>4 DEF RearmUnicast
  <2> QED BY <1>1, <1>2, <2>1 DEF State, Off
<1>5. CASE t.next = None
  <2>1. SendUnicast(s) = [t EXCEPT !.fed = TRUE]
    BY <1>3, <1>5 DEF RearmUnicast
  <2> QED BY <1>2, <1>5, <2>1, Zenon DEF State
<1> QED BY <1>4, <1>5

-----------------------------------------------------------------------------
(* All that is known of a state of the daemon s, the device h, the frames   *)
(* sent and those gone; between the parts of a callback, too.               *)
Frames(s, h, out, g) ==
  /\ s \in State /\ Len(s.mq) <= Capacity
  /\ h \in Seq(Frame) /\ written \in 0 .. MaxFrames /\ Len(h) <= written
  /\ \A i \in 1 .. Len(h) : h[i].id = (written - Len(h)) + i
  /\ Places(s.next, s.mq, out, g, written - Len(h))
  /\ Account(s.next, s.mq, out, g, written - Len(h))
  /\ Order(s.next, s.mq, out)

\* awdl_send_multicast keeps it.
LEMMA MulticastKeeps ==
  ASSUME NEW s, NEW h, NEW out, NEW g, Frames(s, h, out, g), now \in Int
  PROVE  Frames(SendMulticast(s), h, out \o One(SendsMulticast(s), Head(s.mq)), g)
<1> DEFINE s2 == SendMulticast(s)
<1>0. s \in State /\ s.mq \in Seq(Frame) /\ out \in Seq(Frame)
  BY DEF Frames, State, Places
<1>1. /\ s2 \in State /\ s2.next = s.next
      /\ s2.mq = IF SendsMulticast(s) THEN Tail(s.mq) ELSE s.mq
  BY <1>0, SendMulticastEffect
<1> HIDE DEF s2
<1>2. CASE SendsMulticast(s)
  <2>1. s.mq # <<>> /\ One(SendsMulticast(s), Head(s.mq)) = <<Head(s.mq)>>
    BY <1>2, SMTT(30) DEF SendsMulticast, One
  <2>2. s2.mq = Tail(s.mq)
    BY <1>1, <1>2
  <2>3. Len(s2.mq) <= Capacity
    <3>1. Len(s2.mq) = Len(s.mq) - 1 /\ Len(s.mq) \in Nat
      BY <1>0, <2>1, <2>2, HeadTailProperties
    <3> QED BY <3>1, TxAssumption, SMTT(30) DEF Frames
  <2>4. /\ Places(s2.next, s2.mq, out \o <<Head(s.mq)>>, g, written - Len(h))
        /\ Account(s2.next, s2.mq, out \o <<Head(s.mq)>>, g, written - Len(h))
        /\ Order(s2.next, s2.mq, out \o <<Head(s.mq)>>)
    BY <1>1, <2>1, <2>2, HeadSent, SMTT(30) DEF Frames
  <2> QED BY <1>1, <2>1, <2>3, <2>4, SMTT(30) DEF Frames, s2
<1>3. CASE ~SendsMulticast(s)
  <2>1. One(SendsMulticast(s), Head(s.mq)) = <<>> /\ out \o <<>> = out /\ s2.mq = s.mq
    BY <1>0, <1>1, <1>3, ConcatEmptySeq DEF One
  <2> QED BY <1>1, <2>1, Zenon DEF Frames, s2
<1> QED BY <1>2, <1>3

\* awdl_send_unicast keeps it.
LEMMA UnicastKeeps ==
  ASSUME NEW s, NEW h, NEW out, NEW g, Frames(s, h, out, g), now \in Int
  PROVE  Frames(SendUnicast(s), h, out \o One(SendsUnicast(s), s.next), g \cup Lost(s))
<1> DEFINE s2 == SendUnicast(s)
<1>0. s \in State /\ out \in Seq(Frame)
  BY DEF Frames, Places
<1>1. s2 \in State /\ s2.mq = s.mq /\ s2.next = IF Leaves(s) THEN None ELSE s.next
  BY <1>0, SendUnicastEffect
<1>2. out \o <<>> = out
  BY <1>0, ConcatEmptySeq
<1> HIDE DEF s2
<1>3. CASE Leaves(s) /\ SendsUnicast(s)
  <2>1. /\ s.next # None /\ s2.next = None
        /\ One(SendsUnicast(s), s.next) = <<s.next>> /\ Lost(s) = {}
    BY <1>1, <1>3, SMTT(30) DEF Leaves, One, Lost
  <2>2. g \cup Lost(s) = g
    BY <2>1
  <2>3. /\ Places(None, s.mq, out \o <<s.next>>, g, written - Len(h))
        /\ Account(None, s.mq, out \o <<s.next>>, g, written - Len(h))
        /\ Order(None, s.mq, out \o <<s.next>>)
    BY <2>1, NextSent, SMTT(30) DEF Frames
  <2> QED BY <1>1, <2>1, <2>2, <2>3, SMTT(30) DEF Frames, s2
<1>4. CASE Leaves(s) /\ ~SendsUnicast(s)
  <2>1. /\ s.next # None /\ s2.next = None
        /\ One(SendsUnicast(s), s.next) = <<>> /\ Lost(s) = {s.next}
    BY <1>1, <1>4, SMTT(30) DEF Leaves, One, Lost
  <2>2. /\ Places(None, s.mq, out, g \cup {s.next}, written - Len(h))
        /\ Account(None, s.mq, out, g \cup {s.next}, written - Len(h))
        /\ Order(None, s.mq, out)
    BY <2>1, NextDropped, Zenon DEF Frames
  <2> QED BY <1>1, <1>2, <2>1, <2>2, SMTT(30) DEF Frames, s2
<1>5. CASE ~Leaves(s)
  <2>1. s2.next = s.next /\ One(SendsUnicast(s), s.next) = <<>> /\ Lost(s) = {}
    BY <1>1, <1>5, SMTT(30) DEF SendsUnicast, One, Lost
  <2>2. g \cup Lost(s) = g
    BY <2>1
  <2> QED BY <1>1, <1>2, <2>1, <2>2, SMTT(30) DEF Frames, s2
<1> QED BY <1>3, <1>4, <1>5

\* What poll_host_device takes from the device.
Taken == NewMulticast + (IF ReadsOther THEN 1 ELSE 0)

LEMMA PollReads ==
  ASSUME Frames(st, host, sent, gone)
  PROVE  /\ NewMulticast \in 0 .. Len(host) /\ Len(st.mq) + NewMulticast <= Capacity
         /\ \A i \in 1 .. NewMulticast : IsMulticast(host[i])
         /\ ReadsOther => /\ st.next = None /\ NewMulticast < Len(host)
                          /\ ~IsMulticast(host[NewMulticast + 1])
<1>0. st.mq \in Seq(Frame)
  BY SMTT(30) DEF Frames, State
<1>1. host \in Seq(Frame) /\ Len(host) \in Nat /\ Len(st.mq) \in Nat /\ Capacity \in Nat
      /\ Len(st.mq) <= Capacity
  BY <1>0, TxAssumption DEF Frames
<1>2. /\ RunLength \in 0 .. Len(host)
      /\ \A i \in 1 .. RunLength : IsMulticast(host[i])
      /\ RunLength < Len(host) => ~IsMulticast(host[RunLength + 1])
  BY <1>1, RunLengthType
<1>3. Room \in Nat /\ Len(st.mq) + Room <= Capacity /\ (Room > 0 => st.next = None)
  <2>1. CASE st.next = None
    <3>1. Room = Capacity - Len(st.mq)
      BY <2>1 DEF Room
    <3> QED BY <1>1, <2>1, <3>1
  <2>2. CASE st.next # None
    <3>1. Room = 0
      BY <2>2 DEF Room
    <3> QED BY <1>1, <3>1
  <2> QED BY <2>1, <2>2
<1>4. NewMulticast \in Nat /\ NewMulticast <= RunLength /\ NewMulticast <= Room
      /\ (NewMulticast < Room => NewMulticast = RunLength)
  BY <1>2, <1>3 DEF NewMulticast
<1>5. ReadsOther => NewMulticast < Room /\ NewMulticast < Len(host)
  BY DEF ReadsOther
<1> QED BY <1>1, <1>2, <1>3, <1>4, <1>5

\* What is left in the device keeps its numbers.
LEMMA RestOfHost ==
  ASSUME NEW h \in Seq(Frame), NEW k \in 0 .. Len(h), NEW lo \in Nat,
         \A i \in 1 .. Len(h) : h[i].id = lo + i
  PROVE  LET rest == SubSeq(h, k + 1, Len(h))
         IN  /\ rest \in Seq(Frame) /\ Len(rest) = Len(h) - k
             /\ \A i \in 1 .. Len(rest) : rest[i].id = (lo + k) + i
<1> DEFINE rest == SubSeq(h, k + 1, Len(h))
<1>0. Len(h) \in Nat /\ k \in Nat /\ k <= Len(h)
  OBVIOUS
<1>1. /\ rest \in Seq(Frame)
      /\ Len(rest) = IF k + 1 <= Len(h) THEN Len(h) - (k + 1) + 1 ELSE 0
      /\ \A i \in 1 .. Len(h) - (k + 1) + 1 : rest[i] = h[(k + 1) + i - 1]
  <2>1. k + 1 \in Int /\ Len(h) \in Int /\ \A i \in k + 1 .. Len(h) : h[i] \in Frame
    BY <1>0
  <2> QED BY <2>1, SubSeqProperties
<1> HIDE DEF rest
<1>2. Len(rest) = Len(h) - k
  BY <1>0, <1>1
<1>3. ASSUME NEW i \in 1 .. Len(rest) PROVE rest[i].id = (lo + k) + i
  <2>1. /\ i \in 1 .. Len(h) - (k + 1) + 1 /\ (k + 1) + i - 1 \in 1 .. Len(h)
        /\ lo + ((k + 1) + i - 1) = (lo + k) + i
    BY <1>0, <1>2, SMTT(30)
  <2>2. rest[i] = h[(k + 1) + i - 1]
    BY <1>1, <2>1
  <2> QED BY <2>1, <2>2
<1> QED BY <1>1, <1>2, <1>3 DEF rest

\* poll_host_device keeps what is known of the frames.
LEMMA PollKeeps ==
  ASSUME Frames(st, host, sent, gone)
  PROVE  Frames(Polled, SubSeq(host, Taken + 1, Len(host)), sent,
                gone \cup (IF ReadsOther /\ ~NewUnicast THEN {Other} ELSE {}))
<1> DEFINE n == NewMulticast
           run == SubSeq(host, 1, n)
           rest == SubSeq(host, Taken + 1, Len(host))
           lo == written - Len(host)
           g2 == gone \cup (IF ReadsOther /\ ~NewUnicast THEN {Other} ELSE {})
<1>1. /\ st \in State /\ st.mq \in Seq(Frame) /\ Len(st.mq) \in Nat /\ Capacity \in Nat
      /\ host \in Seq(Frame) /\ Len(host) \in Nat /\ MaxFrames \in Nat
      /\ written \in Nat /\ written <= MaxFrames /\ lo \in Nat
      /\ \A i \in 1 .. Len(host) : host[i].id = lo + i /\ host[i] \in Frame
  BY TxAssumption, SMTT(30) DEF Frames, State
<1>2. /\ n \in 0 .. Len(host) /\ Len(st.mq) + n <= Capacity
      /\ \A i \in 1 .. n : IsMulticast(host[i])
      /\ ReadsOther => /\ st.next = None /\ n < Len(host)
                       /\ ~IsMulticast(host[n + 1])
  BY PollReads
<1>3. /\ Taken \in 0 .. Len(host)
      /\ Taken = IF ReadsOther THEN n + 1 ELSE n
  BY <1>1, <1>2 DEF Taken
<1>4. run \in Seq(Frame) /\ Len(run) = n /\ \A i \in 1 .. n : run[i] = host[i]
  <2>1. \A i \in 1 .. n : host[i] \in Frame
    BY <1>1, <1>2
  <2>2. /\ run \in Seq(Frame) /\ Len(run) = IF 1 <= n THEN n - 1 + 1 ELSE 0
        /\ \A i \in 1 .. n - 1 + 1 : run[i] = host[1 + i - 1]
    BY <1>1, <1>2, <2>1, SubSeqProperties, SMTT(30)
  <2>3. \A i \in 1 .. n : i \in 1 .. n - 1 + 1 /\ 1 + i - 1 = i
    BY <1>2
  <2> QED BY <1>2, <2>2, <2>3
<1>5. /\ rest \in Seq(Frame) /\ Len(rest) = Len(host) - Taken
      /\ \A i \in 1 .. Len(rest) : rest[i].id = (lo + Taken) + i
  BY <1>1, <1>3, RestOfHost, ZenonT(30)
<1> HIDE DEF n, run, rest, lo, g2
<1>6. written - Len(rest) = lo + Taken /\ Len(rest) <= written
  <2>1. Taken \in Nat /\ Taken <= Len(host) /\ Len(rest) = Len(host) - Taken
    BY <1>1, <1>3, <1>5
  <2>2. lo = written - Len(host) /\ lo \in Nat /\ written \in Nat /\ Len(host) \in Nat
    BY <1>1 DEF lo
  <2> QED BY <2>1, <2>2
<1>7. st.mq \o run \in Seq(Frame) /\ Len(st.mq \o run) = Len(st.mq) + n
  BY <1>1, <1>4, ConcatProperties, Zenon
<1>8. PutAll(st.mq, run) = st.mq \o run
  BY <1>1, <1>2, <1>7, SMTT(30) DEF PutAll
<1>9. /\ Places(st.next, st.mq \o run, sent, gone, lo + n)
      /\ Account(st.next, st.mq \o run, sent, gone, lo + n)
      /\ Order(st.next, st.mq \o run, sent)
  <2>1. /\ Places(st.next, st.mq, sent, gone, lo) /\ Account(st.next, st.mq, sent, gone, lo)
        /\ Order(st.next, st.mq, sent)
    BY SMTT(30) DEF Frames, lo
  <2>2. lo + Len(run) <= MaxFrames
    BY <1>1, <1>2, <1>4 DEF lo
  <2>3. \A i \in 1 .. n : i \in 1 .. Len(host)
    BY <1>1, <1>2
  <2>4. \A i \in 1 .. Len(run) : IsMulticast(run[i]) /\ run[i].id = lo + i
    BY <1>1, <1>2, <1>4, <2>3, Zenon
  <2>5. /\ Places(st.next, st.mq \o run, sent, gone, lo + Len(run))
        /\ Account(st.next, st.mq \o run, sent, gone, lo + Len(run))
        /\ Order(st.next, st.mq \o run, sent)
    BY <1>4, <2>1, <2>2, <2>4, RunQueued, Zenon
  <2> QED BY <1>4, <2>5, Zenon
<1>10. ReadsOther => /\ Other \in Frame /\ ~IsMulticast(Other) /\ Other.id = (lo + n) + 1
                     /\ st.next = None
  <2>1. ReadsOther => n + 1 \in 1 .. Len(host) /\ lo + (n + 1) = (lo + n) + 1
    BY <1>1, <1>2, SMTT(30)
  <2>2. Other = host[n + 1]
    BY DEF Other, n
  <2> QED BY <1>1, <1>2, <2>1, <2>2, SMTT(30)
<1>11. /\ Polled.mq = st.mq \o run
       /\ Polled.next = IF NewUnicast THEN Other ELSE st.next
       /\ Polled \in State
  <2>1. Polled = [st EXCEPT !.mq = st.mq \o run,
                            !.next = IF NewUnicast THEN Other ELSE @, !.fed = FALSE]
    BY <1>8, Zenon DEF Polled, run, n
  <2>2. NewUnicast => Other \in Frame
    BY <1>10 DEF NewUnicast
  <2> QED BY <1>1, <1>7, <2>1, <2>2, Zenon DEF State
<1>12. /\ Places(Polled.next, Polled.mq, sent, g2, lo + Taken)
       /\ Account(Polled.next, Polled.mq, sent, g2, lo + Taken)
       /\ Order(Polled.next, Polled.mq, sent)
  <2>1. CASE ~ReadsOther
    <3>1. Taken = n /\ Polled.next = st.next /\ g2 = gone
      BY <1>3, <1>11, <2>1 DEF NewUnicast, g2
    <3> QED BY <1>9, <1>11, <3>1, SMTT(30)
  <2>2. CASE ReadsOther
    <3>1. lo + Taken = (lo + n) + 1 /\ st.next = None
      BY <1>1, <1>2, <1>3, <2>2
    <3>2. /\ Places(Other, st.mq \o run, sent, gone, (lo + n) + 1)
          /\ Account(Other, st.mq \o run, sent, gone, (lo + n) + 1)
          /\ Order(Other, st.mq \o run, sent)
          /\ Places(None, st.mq \o run, sent, gone \cup {Other}, (lo + n) + 1)
          /\ Account(None, st.mq \o run, sent, gone \cup {Other}, (lo + n) + 1)
      BY <1>9, <1>10, <2>2, <3>1, OtherTaken, SMTT(30)
    <3>3. CASE NewUnicast
      <4>1. g2 = gone /\ Polled.next = Other
        BY <1>11, <3>3, SMTT(30) DEF g2
      <4> QED BY <1>11, <3>1, <3>2, <4>1, SMTT(30)
    <3>4. CASE ~NewUnicast
      <4>1. g2 = gone \cup {Other} /\ Polled.next = None
        BY <1>11, <2>2, <3>1, <3>4, SMTT(30) DEF g2
      <4> QED BY <1>9, <1>11, <3>1, <3>2, <4>1, SMTT(30)
    <3> QED BY <3>3, <3>4
  <2> QED BY <2>1, <2>2
<1>13. Len(Polled.mq) <= Capacity
  BY <1>2, <1>7, <1>11, SMTT(30)
<1>14. \A i \in 1 .. Len(rest) : rest[i].id = (written - Len(rest)) + i
  BY <1>5, <1>6, Zenon
<1>15. Frames(Polled, rest, sent, g2)
  <2>1. written \in 0 .. MaxFrames
    BY DEF Frames
  <2> QED BY <2>1, <1>5, <1>6, <1>11, <1>12, <1>13, <1>14, Zenon DEF Frames
<1> QED BY <1>15, Zenon DEF rest, g2

\* poll_host_device leaves the timers alone; what it does not read does not
\* change the queues.
LEMMA PollTimers ==
  ASSUME Frames(st, host, sent, gone)
  PROVE  /\ Polled.tx_timer = st.tx_timer
         /\ Polled.tx_mcast_timer = st.tx_mcast_timer
         /\ ~NewUnicast => Polled.next = st.next
         /\ ~ (NewMulticast > 0) => Polled.mq = st.mq
<1>1. st \in State /\ st.mq \in Seq(Frame) /\ host \in Seq(Frame)
  BY DEF Frames, State
<1>2. /\ Polled.tx_timer = st.tx_timer /\ Polled.tx_mcast_timer = st.tx_mcast_timer
      /\ ~NewUnicast => Polled.next = st.next
      /\ Polled.mq = PutAll(st.mq, SubSeq(host, 1, NewMulticast))
  BY <1>1 DEF Polled, State
<1>3. ASSUME ~ (NewMulticast > 0) PROVE Polled.mq = st.mq
  <2>1. NewMulticast \in Int /\ NewMulticast < 1
    BY <1>3, PollReads
  <2>2. SubSeq(host, 1, NewMulticast) = <<>>
    BY <2>1, SubSeqEmpty
  <2>3. st.mq \o <<>> = st.mq
    BY <1>1, ConcatEmptySeq
  <2>4. Len(st.mq) <= Capacity
    BY DEF Frames
  <2> QED BY <1>2, <2>2, <2>3, <2>4, Zenon DEF PutAll
<1> QED BY <1>2, <1>3

-----------------------------------------------------------------------------
(* The inductive invariant. *)
TxInv ==
  /\ Frames(st, host, sent, gone)
  /\ now \in Int
  /\ NoLostWakeup

\* host_device_ready
LEMMA HostDeviceReadyKeeps == TxInv /\ HostDeviceReady => TxInv'
<1> SUFFICES ASSUME TxInv, HostDeviceReady PROVE TxInv'
  OBVIOUS
<1> DEFINE rest == SubSeq(host, Taken + 1, Len(host))
           runt == IF ReadsOther /\ ~NewUnicast THEN {Other} ELSE {}
           s1 == IF NewMulticast > 0 THEN SendMulticast(Polled) ELSE Polled
           s2 == IF NewUnicast THEN SendUnicast(s1) ELSE s1
           a == One(NewMulticast > 0 /\ SendsMulticast(Polled), Head(Polled.mq))
           b == One(NewUnicast /\ SendsUnicast(s1), s1.next)
           lost == IF NewUnicast THEN Lost(s1) ELSE {}
<1>1. Frames(st, host, sent, gone) /\ now \in Int
  BY DEF TxInv
<1>2. /\ st' = s2 /\ sent' = sent \o a \o b /\ gone' = gone \cup (runt \cup lost)
      /\ now' = now /\ written' = written
  BY DEF HostDeviceReady, Log
<1>3. host' = rest
  <2>1. NewMulticast \in Int
    BY <1>1, PollReads
  <2>2. Taken + 1 = NewMulticast + (IF ReadsOther THEN 2 ELSE 1)
    BY <2>1 DEF Taken
  <2> QED BY <2>2, Zenon DEF HostDeviceReady
<1>4. Frames(Polled, rest, sent, gone \cup runt)
  BY <1>1, PollKeeps
<1>5. Polled \in State /\ sent \in Seq(Frame)
  BY <1>4, SMTT(30) DEF Frames, Places
<1>6. /\ Polled.tx_timer = st.tx_timer
      /\ Polled.tx_mcast_timer = st.tx_mcast_timer
      /\ ~NewUnicast => Polled.next = st.next
      /\ ~ (NewMulticast > 0) => Polled.mq = st.mq
  BY <1>1, PollTimers, SMTT(30)
<1> HIDE DEF rest, runt
<1>7. /\ Frames(s1, rest, sent \o a, gone \cup runt)
      /\ s1.next = Polled.next /\ s1.tx_timer = st.tx_timer
      /\ s1.mq # <<>> => s1.tx_mcast_timer # Off
  <2>1. CASE NewMulticast > 0
    <3>1. s1 = SendMulticast(Polled) /\ a = One(SendsMulticast(Polled), Head(Polled.mq))
      BY <2>1, SMTT(30) DEF One
    <3> QED BY <1>1, <1>4, <1>5, <1>6, <3>1, MulticastKeeps, SendMulticastEffect, SMTT(30)
  <2>2. CASE ~ (NewMulticast > 0)
    <3>1. s1 = Polled /\ a = <<>>
      BY <2>2 DEF One
    <3>2. sent \o <<>> = sent
      BY <1>5, ConcatEmptySeq
    <3> HIDE DEF s1, a
    <3>3. s1.mq # <<>> => s1.tx_mcast_timer # Off
      BY <1>6, <2>2, <3>1 DEF TxInv, NoLostWakeup
    <3> QED BY <1>4, <1>6, <3>1, <3>2, <3>3, SMTT(30)
  <2> QED BY <2>1, <2>2, SMTT(30)
<1> HIDE DEF s1, a
<1>8. s1 \in State /\ sent \o a \in Seq(Frame)
  BY <1>7, SMTT(30) DEF Frames, Places
<1>9. /\ Frames(s2, rest, sent \o a \o b, (gone \cup runt) \cup lost)
      /\ s2.next # None => s2.tx_timer # Off
      /\ s2.mq # <<>> => s2.tx_mcast_timer # Off
  <2>1. CASE NewUnicast
    <3>1. s2 = SendUnicast(s1) /\ b = One(SendsUnicast(s1), s1.next) /\ lost = Lost(s1)
      BY <2>1 DEF One
    <3> HIDE DEF s2, b, lost
    <3>2. Frames(s2, rest, sent \o a \o b, (gone \cup runt) \cup lost)
      BY <1>1, <1>7, <3>1, UnicastKeeps, Zenon
    <3>3. /\ s2.mq = s1.mq /\ s2.tx_mcast_timer = s1.tx_mcast_timer
          /\ s2.next # None => s2.tx_timer # Off
      BY <1>1, <1>8, <3>1, SendUnicastEffect
    <3> QED BY <1>7, <3>2, <3>3, SMTT(30)
  <2>2. CASE ~NewUnicast
    <3>1. s2 = s1 /\ b = <<>> /\ lost = {}
      BY <2>2 DEF One
    <3> HIDE DEF s2, b, lost
    <3>2. sent \o a \o <<>> = sent \o a /\ (gone \cup runt) \cup lost = gone \cup runt
      BY <1>8, <3>1, ConcatEmptySeq
    <3>3. s2.next # None => s2.tx_timer # Off
      BY <1>6, <1>7, <2>2, <3>1, SMTT(30) DEF TxInv, NoLostWakeup
    <3> QED BY <1>7, <3>1, <3>2, <3>3, SMTT(30)
  <2> QED BY <2>1, <2>2, SMTT(30)
<1> HIDE DEF s2, b, lost
<1>10. gone' = (gone \cup runt) \cup lost
  BY <1>2
<1>11. Frames(st', host', sent', gone')
  BY <1>2, <1>3, <1>9, <1>10, Zenon
<1>12. Frames(st, host, sent, gone)'
  BY <1>2, <1>11, SMTT(30) DEF Frames
<1> QED BY <1>1, <1>2, <1>9, <1>12, SMTT(30) DEF TxInv, NoLostWakeup

\* The unicast timer
LEMMA TxTimerKeeps == TxInv /\ TxTimer => TxInv'
<1> SUFFICES ASSUME TxInv, TxTimer PROVE TxInv'
  OBVIOUS
<1> DEFINE s == [st EXCEPT !.tx_timer = Off]
<1>1. Frames(st, host, sent, gone) /\ st \in State /\ now \in Int /\ sent \in Seq(Frame)
  BY SMTT(30) DEF TxInv, Frames, Places
<1>2. /\ s \in State /\ s.next = st.next /\ s.mq = st.mq
      /\ s.tx_mcast_timer = st.tx_mcast_timer
  BY <1>1 DEF State
<1>3. /\ st' = SendUnicast(s) /\ sent' = sent \o <<>> \o One(SendsUnicast(s), s.next)
      /\ gone' = gone \cup Lost(s)
      /\ host' = host /\ now' = now /\ written' = written
  BY DEF TxTimer, Log
<1> HIDE DEF s
<1>4. Frames(s, host, sent, gone)
  BY <1>1, <1>2, SMTT(30) DEF Frames
<1>5. sent \o <<>> = sent
  BY <1>1, ConcatEmptySeq
<1>6. Frames(st', host', sent', gone')
  BY <1>1, <1>3, <1>4, <1>5, UnicastKeeps, Zenon
<1>7. Frames(st, host, sent, gone)'
  BY <1>3, <1>6, Zenon DEF Frames
<1>8. /\ st'.mq = st.mq /\ st'.tx_mcast_timer = st.tx_mcast_timer
      /\ st'.next # None => st'.tx_timer # Off
  BY <1>1, <1>2, <1>3, SendUnicastEffect
<1> QED BY <1>1, <1>3, <1>7, <1>8, SMTT(30) DEF TxInv, NoLostWakeup

\* The multicast timer
LEMMA TxMcastTimerKeeps == TxInv /\ TxMcastTimer => TxInv'
<1> SUFFICES ASSUME TxInv, TxMcastTimer PROVE TxInv'
  OBVIOUS
<1> DEFINE s == [st EXCEPT !.tx_mcast_timer = Off]
<1>1. Frames(st, host, sent, gone) /\ st \in State /\ now \in Int /\ gone \cup {} = gone
  BY Zenon DEF TxInv, Frames
<1>2. s \in State /\ s.next = st.next /\ s.mq = st.mq /\ s.tx_timer = st.tx_timer
  BY <1>1 DEF State
<1>3. /\ st' = SendMulticast(s)
      /\ sent' = sent \o One(SendsMulticast(s), Head(s.mq)) \o <<>>
      /\ gone' = gone \cup {}
      /\ host' = host /\ now' = now /\ written' = written
  BY DEF TxMcastTimer, Log
<1> HIDE DEF s
<1>4. Frames(s, host, sent, gone)
  BY <1>1, <1>2, Zenon DEF Frames
<1>5. Frames(st', host, sent \o One(SendsMulticast(s), Head(s.mq)), gone)
  BY <1>1, <1>3, <1>4, MulticastKeeps
<1>6. sent' = sent \o One(SendsMulticast(s), Head(s.mq))
  <2>1. sent \o One(SendsMulticast(s), Head(s.mq)) \in Seq(Frame)
    BY <1>5, SMTT(30) DEF Frames, Places
  <2> QED BY <1>3, <2>1, ConcatEmptySeq
<1>7. Frames(st, host, sent, gone)'
  BY <1>1, <1>3, <1>5, <1>6, SMTT(30) DEF Frames
<1>8. /\ st'.next = st.next /\ st'.tx_timer = st.tx_timer
      /\ st'.mq # <<>> => st'.tx_mcast_timer # Off
  BY <1>1, <1>2, <1>3, SendMulticastEffect, SMTT(30)
<1> QED BY <1>1, <1>3, <1>7, <1>8, SMTT(30) DEF TxInv, NoLostWakeup

\* The host writes a frame.
LEMMA HostWritesKeeps ==
  ASSUME TxInv, NEW to \in Dest, HostWrites(to)
  PROVE  TxInv'
<1> DEFINE f == [id |-> written + 1, to |-> to]
<1>1. /\ host \in Seq(Frame) /\ Len(host) \in Nat /\ MaxFrames \in Nat
      /\ written \in Nat /\ written < MaxFrames /\ written' = written + 1
      /\ Len(host) <= written
      /\ \A i \in 1 .. Len(host) : host[i].id = (written - Len(host)) + i
  BY TxAssumption, SMTT(30) DEF TxInv, Frames, HostWrites
<1>2. f \in Frame
  BY <1>1 DEF Frame
<1>3. /\ host' \in Seq(Frame) /\ Len(host') = Len(host) + 1
      /\ \A i \in 1 .. Len(host) : host'[i] = host[i]
      /\ host'[Len(host) + 1] = f
  <2>1. host' = Append(host, f)
    BY DEF HostWrites
  <2> QED BY <1>1, <1>2, <2>1, AppendProperties, SMTT(30)
<1>4. UNCHANGED <<st, now, sent, gone>>
  BY DEF HostWrites
<1>5. /\ written' - Len(host') = written - Len(host) /\ written' \in 0 .. MaxFrames
      /\ Len(host') <= written'
  BY <1>1, <1>3, SMTT(30)
<1>6. ASSUME NEW i \in 1 .. Len(host')
      PROVE  host'[i].id = (written' - Len(host')) + i
  <2>1. CASE i \in 1 .. Len(host)
    BY <1>1, <1>3, <1>5, <2>1, Zenon
  <2>2. CASE i = Len(host) + 1
    <3>1. host'[i].id = written + 1
      BY <1>3, <2>2, SMTT(30)
    <3>2. (written - Len(host)) + i = written + 1
      BY <1>1, <2>2
    <3> QED BY <1>5, <3>1, <3>2
  <2> QED BY <1>1, <1>3, <2>1, <2>2, SMTT(30)
<1>7. Frames(st, host, sent, gone)'
  BY <1>3, <1>4, <1>5, <1>6, SMTT(30) DEF TxInv, Frames
<1> QED BY <1>4, <1>7, SMTT(30) DEF TxInv, NoLostWakeup

\* Time passes.
LEMMA TickKeeps == TxInv /\ Tick => TxInv'
<1> SUFFICES ASSUME TxInv, Tick PROVE TxInv'
  OBVIOUS
<1>1. st \in State
  BY DEF TxInv, Frames
<1>2. /\ st' \in State /\ st'.next = st.next /\ st'.mq = st.mq
      /\ st.tx_timer # Off => st'.tx_timer # Off
      /\ st.tx_mcast_timer # Off => st'.tx_mcast_timer # Off
  <2> DEFINE Down(timer) == IF timer = Off THEN Off ELSE timer - 1
  <2>1. \A timer \in Nat \cup {Off} :
          timer # 0 => Down(timer) \in Nat \cup {Off} /\ (timer # Off => Down(timer) # Off)
    BY DEF Off
  <2>2. /\ st.tx_timer \in Nat \cup {Off} /\ st.tx_mcast_timer \in Nat \cup {Off}
        /\ st.tx_timer # 0 /\ st.tx_mcast_timer # 0
    BY <1>1 DEF State, Tick
  <2>3. st' = [st EXCEPT !.tx_timer = Down(@), !.tx_mcast_timer = Down(@)]
    BY DEF Tick
  <2> HIDE DEF Down
  <2> QED BY <1>1, <2>1, <2>2, <2>3, Zenon DEF State
<1>3. UNCHANGED <<host, written, sent, gone>>
  BY DEF Tick
<1>4. now' \in Int
  <2>1. Cycle \in Nat \ {0}
    BY GuardAssumption, EawType DEF Cycle
  <2> QED BY <2>1 DEF TxInv, Tick
<1>5. Frames(st, host, sent, gone)'
  BY <1>2, <1>3, SMTT(30) DEF TxInv, Frames
<1> QED BY <1>2, <1>4, <1>5, SMTT(30) DEF TxInv, NoLostWakeup

\* Every reachable state satisfies the invariant.
LEMMA TxInvariant == Spec => []TxInv
<1>1. Init => TxInv
  <2> SUFFICES ASSUME Init PROVE TxInv
    OBVIOUS
  <2>1. /\ st = [next |-> None, mq |-> <<>>, tx_timer |-> 0, tx_mcast_timer |-> 0,
                 fed |-> FALSE]
        /\ host = <<>> /\ written = 0 /\ now = 0 /\ sent = <<>> /\ gone = {}
    BY DEF Init
  <2>2. st \in State /\ st.next = None /\ st.mq = <<>>
    BY <2>1 DEF State
  <2>3. Ids(<<>>) = {} /\ NextIds(None) = {} /\ GoneIds({}) = {} /\ 1 .. 0 = {}
    BY DEF Ids, NextIds, GoneIds
  <2>4. Cardinality({}) = 0
    BY FS_EmptySet
  <2>5. Places(None, <<>>, <<>>, {}, 0)
    BY TxAssumption DEF Places, None, IsMulticast
  <2>6. Account(None, <<>>, <<>>, {}, 0)
    <3>1. Cardinality(Ids(<<>>)) = Len(<<>>)
      BY <2>3, <2>4, Zenon
    <3>2. Ids(<<>>) \cup NextIds(None) \cup Ids(<<>>) \cup GoneIds({}) = 1 .. 0
      BY <2>3
    <3> QED BY <2>3, <3>1, <3>2, SMTT(30) DEF Account
  <2>7. Order(None, <<>>, <<>>)
    BY DEF Order
  <2>8. written - Len(host) = 0 /\ Len(host) = 0 /\ Len(<<>>) = 0
    <3>1. Len(<<>>) = 0
      OBVIOUS
    <3>2. Len(host) = 0 /\ written = 0
      BY <2>1, <3>1
    <3> QED BY <3>1, <3>2
  <2>9. Frames(st, host, sent, gone)
    BY <2>1, <2>2, <2>5, <2>6, <2>7, <2>8, TxAssumption, SMTT(30) DEF Frames
  <2> QED BY <2>1, <2>2, <2>9 DEF TxInv, NoLostWakeup
<1>2. TxInv /\ [Next]_vars => TxInv'
  <2> SUFFICES ASSUME TxInv, [Next]_vars PROVE TxInv'
    BY SMTT(30)
  <2>1. CASE HostDeviceReady
    BY <2>1, HostDeviceReadyKeeps
  <2>2. CASE TxTimer
    BY <2>2, TxTimerKeeps
  <2>3. CASE TxMcastTimer
    BY <2>3, TxMcastTimerKeeps
  <2>4. CASE Tick
    BY <2>4, TickKeeps
  <2>5. ASSUME NEW to \in Dest, HostWrites(to) PROVE TxInv'
    BY <2>5, HostWritesKeeps
  <2>6. ASSUME UNCHANGED <<st, host, written, sent, gone>>, now' \in Int PROVE TxInv'
    BY <2>6, SMTT(30) DEF TxInv, Frames, NoLostWakeup
  <2>7. ASSUME NEW k \in SUBSET Peer, PeersChange(k) PROVE TxInv'
    BY <2>6, <2>7 DEF PeersChange, TxInv
  <2>8. ASSUME NEW new, NEW t \in Int, SlotsChange(new, t) PROVE TxInv'
    BY <2>6, <2>8 DEF SlotsChange
  <2>9. CASE UNCHANGED vars
    BY <2>6, <2>9 DEF vars, TxInv
  <2> QED
    BY <2>1, <2>2, <2>3, <2>4, <2>5, <2>7, <2>8, <2>9, SMTT(30) DEF Next, TxInv
<1> QED BY <1>1, <1>2, PTL DEF Spec

\* Whenever a frame waits in next or in the multicast queue, the timer that
\* will send it is armed: no order of the callbacks loses the wake-up.
THEOREM WakeupTheorem == Spec => []NoLostWakeup
BY TxInvariant, PTL DEF TxInv

-----------------------------------------------------------------------------
\* The numbers in the device follow those of all other places.
LEMMA HostIds ==
  ASSUME Frames(st, host, sent, gone)
  PROVE  Ids(host) = (written - Len(host)) + 1 .. written
<1> DEFINE lo == written - Len(host)
<1>1. /\ lo \in Nat /\ Len(host) \in Nat /\ written = lo + Len(host)
      /\ \A i \in 1 .. Len(host) : host[i].id = lo + i
  BY DEF Frames
<1> HIDE DEF lo
<1>2. ASSUME NEW x \in Ids(host) PROVE x \in lo + 1 .. written
  <2>1. PICK i \in 1 .. Len(host) : x = host[i].id
    BY <1>2, InIds
  <2> QED BY <1>1, <2>1
<1>3. ASSUME NEW x \in lo + 1 .. written PROVE x \in Ids(host)
  <2>1. x - lo \in 1 .. Len(host) /\ lo + (x - lo) = x
    BY <1>1
  <2>2. x = host[x - lo].id
    BY <1>1, <2>1
  <2> QED BY <2>1, <2>2, InIds
<1>4. Ids(host) = lo + 1 .. written
  BY <1>2, <1>3, Zenon
<1> QED BY <1>4 DEF lo

\* The frame in next, as a queue of one.
LEMMA WaitingIds == Ids(Waiting) = NextIds(st.next)
<1>1. CASE st.next = None
  BY <1>1, SMTT(30) DEF Ids, Waiting, NextIds
<1>2. CASE st.next # None
  <2>1. Waiting = <<st.next>> /\ Len(<<st.next>>) = 1 /\ <<st.next>>[1] = st.next
    BY <1>2 DEF Waiting
  <2>2. \A x : x \in Ids(Waiting) <=> x = st.next.id
    BY <2>1, InIds
  <2> QED BY <1>2, <2>2 DEF NextIds
<1> QED BY <1>1, <1>2

\* No frame the host wrote is lost, duplicated or sent twice, and the
\* multicast queue is never overwritten.
THEOREM AccountedTheorem == Spec => []Accounted
<1>1. TxInv => Accounted
  <2> SUFFICES ASSUME TxInv PROVE Accounted
    OBVIOUS
  <2> DEFINE lo == written - Len(host)
             H == Ids(host)
             M == Ids(st.mq)
             W == Ids(Waiting)
             S == Ids(sent)
             L == {f.id : f \in gone}
             places == <<H, M, W, S, L>>
  <2>1. Frames(st, host, sent, gone) /\ lo \in Nat /\ written \in Nat /\ lo <= written
    BY SMTT(30) DEF TxInv, Frames
  <2>2. Account(st.next, st.mq, sent, gone, lo)
    BY <2>1, SMTT(30) DEF Frames
  <2>3. H = lo + 1 .. written
    BY <2>1, HostIds
  <2>4. /\ M \cup W \cup S \cup L = 1 .. lo
        /\ M \cap W = {} /\ M \cap S = {} /\ M \cap L = {}
        /\ W \cap S = {} /\ W \cap L = {} /\ S \cap L = {}
        /\ Cardinality(S) = Len(sent)
    BY <2>2, WaitingIds, SMTT(30) DEF Account, GoneIds
  <2>5. (lo + 1 .. written) \cup (1 .. lo) = 1 .. written
        /\ (lo + 1 .. written) \cap (1 .. lo) = {}
    BY <2>1
  <2> HIDE DEF H, M, W, S, L, lo
  <2>6. H \cup (M \cup W \cup S \cup L) = 1 .. written
    BY <2>3, <2>4, <2>5, SMTT(30)
  <2>7. H \cap M = {} /\ H \cap W = {} /\ H \cap S = {} /\ H \cap L = {}
    BY <2>3, <2>4, <2>5, SMTT(30)
  <2>8. /\ places[1] = H /\ places[2] = M /\ places[3] = W /\ places[4] = S
        /\ places[5] = L
    OBVIOUS
  <2>9. UNION {places[i] : i \in 1 .. 5} = H \cup (M \cup W \cup S \cup L)
    <3>1. 1 .. 5 = {1, 2, 3, 4, 5}
      OBVIOUS
    <3> QED BY <2>8, <3>1
  <2>10. \A i, j \in 1 .. 5 : i # j => places[i] \cap places[j] = {}
    <3> HIDE DEF places
    <3> SUFFICES ASSUME NEW i \in 1 .. 5, NEW j \in 1 .. 5, i < j
                 PROVE  places[i] \cap places[j] = {}
      BY SMTT(30)
    <3>1. \/ i = 1 /\ j \in 2 .. 5
          \/ i = 2 /\ j \in 3 .. 5
          \/ i = 3 /\ j \in 4 .. 5
          \/ i = 4 /\ j = 5
      OBVIOUS
    <3> QED BY <2>4, <2>7, <2>8, <3>1, SMTT(30)
  <2> QED BY <2>4, <2>6, <2>9, <2>10, SMTT(30) DEF Accounted, H, M, W, S, L
<1> QED BY <1>1, TxInvariant, PTL

-----------------------------------------------------------------------------
\* Two queues in order, the second behind the first.
LEMMA OrderedConcat ==
  ASSUME NEW a \in Seq(Frame), NEW b \in Seq(Frame), NEW m \in BOOLEAN,
         Ordered(a, m), Ordered(b, m),
         \A i \in 1 .. Len(a), j \in 1 .. Len(b) :
           IsMulticast(a[i]) = m /\ IsMulticast(b[j]) = m => a[i].id < b[j].id
  PROVE  /\ Ordered(a \o b, m) /\ a \o b \in Seq(Frame)
         /\ Ids(a \o b) \subseteq Ids(a) \cup Ids(b)
<1> DEFINE q == a \o b
<1>1. /\ q \in Seq(Frame) /\ Len(q) = Len(a) + Len(b) /\ Len(a) \in Nat /\ Len(b) \in Nat
      /\ \A i \in 1 .. Len(a) + Len(b) : q[i] = IF i <= Len(a) THEN a[i] ELSE b[i - Len(a)]
  BY ConcatProperties, SMTT(30)
<1> HIDE DEF q
<1>2. \A i \in 1 .. Len(q) : \/ i \in 1 .. Len(a) /\ q[i] = a[i]
                             \/ /\ i - Len(a) \in 1 .. Len(b) /\ i > Len(a)
                                /\ q[i] = b[i - Len(a)]
  <2> TAKE i \in 1 .. Len(q)
  <2>1. CASE i <= Len(a)
    BY <1>1, <2>1, SMTT(30)
  <2>2. CASE i > Len(a)
    BY <1>1, <2>2, SMTT(30)
  <2> QED BY <1>1, <2>1, <2>2, SMTT(30)
<1>3. ASSUME NEW i \in 1 .. Len(q), NEW j \in 1 .. Len(q), i < j,
             IsMulticast(q[i]) = m, IsMulticast(q[j]) = m
      PROVE  q[i].id < q[j].id
  <2>1. CASE j <= Len(a)
    <3>1. i \in 1 .. Len(a) /\ j \in 1 .. Len(a) /\ q[i] = a[i] /\ q[j] = a[j]
      BY <1>1, <1>2, <1>3, <2>1, SMTT(30)
    <3> QED BY <1>3, <3>1, SMTT(30) DEF Ordered
  <2>2. CASE i <= Len(a) /\ j > Len(a)
    <3>1. /\ i \in 1 .. Len(a) /\ j - Len(a) \in 1 .. Len(b)
          /\ q[i] = a[i] /\ q[j] = b[j - Len(a)]
      BY <1>1, <1>2, <2>2, SMTT(30)
    <3> QED BY <1>3, <3>1, SMTT(30)
  <2>3. CASE i > Len(a)
    <3>1. /\ i - Len(a) \in 1 .. Len(b) /\ j - Len(a) \in 1 .. Len(b)
          /\ i - Len(a) < j - Len(a)
          /\ q[i] = b[i - Len(a)] /\ q[j] = b[j - Len(a)]
      BY <1>1, <1>2, <1>3, <2>3, SMTT(30)
    <3> QED BY <1>3, <3>1, Zenon DEF Ordered
  <2> QED BY <1>1, <1>3, <2>1, <2>2, <2>3, SMTT(30)
<1>4. ASSUME NEW x \in Ids(q) PROVE x \in Ids(a) \cup Ids(b)
  <2>1. PICK i \in 1 .. Len(q) : x = q[i].id
    BY <1>4, InIds, SMTT(30)
  <2> QED BY <1>2, <2>1, InIds, SMTT(30)
<1>5. Ordered(q, m)
  BY <1>3, SMTT(30) DEF Ordered
<1> QED BY <1>1, <1>4, <1>5, SMTT(30) DEF q

\* Multicast frames leave in the order in which the host wrote them, and so
\* do unicast frames, through both queues and every callback.
THEOREM InOrderTheorem == Spec => []InOrder
<1>1. TxInv => InOrder
  <2> SUFFICES ASSUME TxInv PROVE InOrder
    OBVIOUS
  <2> DEFINE lo == written - Len(host)
  <2>1. /\ Frames(st, host, sent, gone) /\ lo \in Nat /\ host \in Seq(Frame)
        /\ \A i \in 1 .. Len(host) : host[i].id = lo + i
    BY SMTT(30) DEF TxInv, Frames
  <2>2. /\ Places(st.next, st.mq, sent, gone, lo)
        /\ Account(st.next, st.mq, sent, gone, lo) /\ Order(st.next, st.mq, sent)
    BY <2>1, SMTT(30) DEF Frames
  <2> HIDE DEF lo
  <2>3. /\ st.mq \in Seq(Frame) /\ sent \in Seq(Frame) /\ ~IsMulticast(st.next)
        /\ \A i \in 1 .. Len(st.mq) : IsMulticast(st.mq[i])
        /\ st.next \in Frame \cup {None}
    BY <2>2, SMTT(30) DEF Places
  <2>4. Waiting \in Seq(Frame)
    BY <2>3 DEF Waiting
  <2>5. /\ Ids(sent) \subseteq 1 .. lo /\ Ids(st.mq) \subseteq 1 .. lo
        /\ Ids(Waiting) \subseteq 1 .. lo
    BY <2>2, WaitingIds, SMTT(30) DEF Account
  <2>6. Ordered(sent, TRUE) /\ Ordered(sent, FALSE)
    BY <2>2, Zenon DEF Ordered, Order
  <2>7. Ordered(st.mq, TRUE)
    BY <2>2, SMTT(30) DEF Ordered, Order
  <2>8. Ordered(Waiting, FALSE)
    <3>1. Len(Waiting) \in {0, 1}
      BY DEF Waiting
    <3> QED BY <3>1, SMTT(30) DEF Ordered
  <2>9. Ordered(host, TRUE) /\ Ordered(host, FALSE)
    BY <2>1 DEF Ordered
  <2>10. /\ Ordered(sent \o st.mq, TRUE) /\ sent \o st.mq \in Seq(Frame)
         /\ Ids(sent \o st.mq) \subseteq Ids(sent) \cup Ids(st.mq)
    <3>1. \A i \in 1 .. Len(sent), j \in 1 .. Len(st.mq) :
            IsMulticast(sent[i]) = TRUE /\ IsMulticast(st.mq[j]) = TRUE
              => sent[i].id < st.mq[j].id
      BY <2>2, SMTT(30) DEF Order
    <3> QED BY <2>3, <2>6, <2>7, <3>1, OrderedConcat, Zenon
  <2>11. /\ Ordered(sent \o Waiting, FALSE) /\ sent \o Waiting \in Seq(Frame)
         /\ Ids(sent \o Waiting) \subseteq Ids(sent) \cup Ids(Waiting)
    <3>1. \A i \in 1 .. Len(sent), j \in 1 .. Len(Waiting) :
            IsMulticast(sent[i]) = FALSE /\ IsMulticast(Waiting[j]) = FALSE
              => sent[i].id < Waiting[j].id
      <4> SUFFICES ASSUME NEW i \in 1 .. Len(sent), NEW j \in 1 .. Len(Waiting),
                          IsMulticast(sent[i]) = FALSE
                   PROVE  sent[i].id < Waiting[j].id
        OBVIOUS
      <4>1. st.next # None /\ Waiting[j] = st.next
        BY DEF Waiting
      <4> QED BY <2>2, <4>1, Zenon DEF Order
    <3> QED BY <2>3, <2>4, <2>6, <2>8, <3>1, OrderedConcat, Zenon
  <2>12. ASSUME NEW q \in Seq(Frame), Ids(q) \subseteq 1 .. lo, NEW m \in BOOLEAN,
                Ordered(q, m), Ordered(host, m)
         PROVE  Ordered(q \o host, m)
    <3>1. \A i \in 1 .. Len(q) : q[i].id \in 1 .. lo
      BY <2>12, InIds, SMTT(30)
    <3>2. \A i \in 1 .. Len(q), j \in 1 .. Len(host) : q[i].id < host[j].id
      BY <2>1, <3>1
    <3> QED BY <2>1, <2>12, <3>2, OrderedConcat, SMTT(30)
  <2>13. Ordered(sent \o st.mq \o host, TRUE)
    BY <2>5, <2>9, <2>10, <2>12, Zenon
  <2>14. Ordered(sent \o Waiting \o host, FALSE)
    BY <2>5, <2>9, <2>11, <2>12, Zenon
  <2> QED BY <2>3, <2>13, <2>14, Zenon DEF InOrder
<1> QED BY <1>1, TxInvariant, PTL
=============================================================================
