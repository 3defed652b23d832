---------------------------- MODULE MCReception ----------------------------
(* Instance of Reception for TLC. *)
EXTENDS Reception

State(h, master, via, metric, counter) ==
  [height |-> h, master_addr |-> master, sync_addr |-> via,
   master_metric |-> metric, self_metric |-> 60,
   master_counter |-> counter, self_counter |-> 0]

\* The sender as its own master, and following another directly or through a
\* third node.
MCElections ==
  {State(0, "p", "p", 60, 0), State(1, "m", "m", 70, 5), State(2, "m", "r", 70, 6)}

MCClocks == {<<3, 8>>, <<64, 12>>}

Byte(b) == <<1, 1, b>>

\* What a host may write: less than 4 bytes, and as much as the MTU allows.
Ether(src, payload) ==
  [dst |-> "me", src |-> src, type |-> "IPv6", payload |-> payload]

Short == <<Byte("h"), Byte("e"), Byte("y")>>
Full == [i \in 1 .. MTU |-> Byte(i)]

MCHostFrames == {Ether("p", Short), Ether("p", Full), [Ether("p", Full) EXCEPT !.type = "ARP"]}

\* Frames as other implementations build them.
Body(e) == LlcHdr \o DataHdr(e.type) \o e.payload

BadLlc(e) == Encode(<< <<8, "no llc">> >>) \o DataHdr(e.type) \o e.payload

Subframe(e, body) ==
  Encode(<< <<6, e.dst>>, <<6, e.src>>, <<2, Len(body)>> >>) \o body

Padded(sub) == sub \o [i \in 1 .. (4 - (Len(sub) % 4)) % 4 |-> Byte(0)]

Hdr(fc, src) == Ieee80211Hdr(fc, src, "me")

Qos(control) == Encode(<< <<2, control>> >>)

Arrives(kind, flags, broken, carries, bytes) ==
  [radiotap |-> "ok", flags |-> flags, kind |-> kind, broken |-> broken,
   missing |-> 0, carries |-> carries, bytes |-> bytes]

Plain(e) == Arrives("data", "none", {}, <<e>>, Hdr("qos data", e.src) \o Qos("plain") \o Body(e))

Amsdu(e, f, flags) ==
  Arrives("amsdu", flags, {}, <<e, f>>,
          Hdr("qos data", "p") \o Qos("A-MSDU")
            \o Padded(Subframe(e, Body(e))) \o Subframe(f, Body(f)))

\* The same, with a bad subframe in second place or its end missing.
AmsduBad(e, f) ==
  Arrives("amsdu", "none", {f.src}, <<e, f>>,
          Hdr("qos data", "p") \o Qos("A-MSDU")
            \o Padded(Subframe(e, Body(e))) \o Subframe(f, BadLlc(f)))

Cut(f, n) == [f EXCEPT !.bytes = Take(@, n), !.missing = n]

P == Ether("p", Short)
Q == Ether("q", Full)
TooLong == [Q EXCEPT !.payload = Full \o Full]

MCForeign ==
  {Plain(Q), Plain(TooLong), [Plain(P) EXCEPT !.radiotap = "bad", !.broken = {"p"}],
   [Plain(P) EXCEPT !.radiotap = "long", !.broken = {"p"}],
   [Plain(P) EXCEPT !.flags = "badfcs", !.broken = {"p"}],
   Arrives("data", "fcs", {"p"}, <<P>>, Short),
   Arrives("other", "none", {}, <<>>, Hdr("beacon", "p")),
   Arrives("other", "none", {}, <<>>, Hdr("action", "p") \o Encode(<< <<16, "block ack">> >>)),
   Arrives("data", "none", {"p"}, <<P>>, Ieee80211Hdr("data", Self, "q") \o Body(P)),
   Arrives("data", "none", {"p"}, <<P>>, Hdr("data", "p") \o BadLlc(P))}
  \cup {Amsdu(e, f, flags) : e, f \in {P, Q}, flags \in {"none", "absent"}}
  \cup {AmsduBad(e, f) : e, f \in {P, Q}}
  \* Cut in the payload, in the AWDL header, in the LLC header, in the QoS field,
  \* in the 802.11 header; cut so that it just does not or just does fit the
  \* buffer; an A-MSDU in the last payload, in its header, in the padding.
  \cup {Cut(Plain(P), n) : n \in {1, 3, 4, 12, 20, 26}}
  \cup {Cut(Plain(TooLong), n) : n \in {3, 4}}
  \cup {Cut(Amsdu(e, f, "none"), n) : e, f \in {P, Q}, n \in {1, 25}}
  \cup {Cut(Amsdu(P, f, "none"), 2 + Len(Subframe(f, Body(f)))) : f \in {P, Q}}
=============================================================================
