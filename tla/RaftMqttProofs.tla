--------------------------- MODULE RaftMqttProofs ---------------------------
(***************************************************************************)
(* The MQTT transport implements RaftNetwork, for any number of nodes, any *)
(* size of the ring, and any number of messages, stops, crashes and lost   *)
(* connections.                                                            *)
(*                                                                         *)
(* A message passes from the broker through the ring and the loop of       *)
(* mqtt_recv to the engine.  Line says that along this way one sender's    *)
(* messages are in the order of their numbers and that none has a number   *)
(* its sender has not reached.  Head and tail of the ring run freely and   *)
(* are taken modulo its size: SlotsApart is why the callback never writes  *)
(* over a message that has not been taken out.                             *)
(***************************************************************************)
EXTENDS RaftMqttTransport, Integers, SequenceTheorems, TLAPS

Size == RAFT_MQTT_POSIX_QUEUE_SIZE

Pub == [topic : {"inbox", "join"}, source : Node, number : Nat]

Hal == [link : BOOLEAN, thread : BOOLEAN, ring : [Slots -> Pub \cup {Nothing}],
        r_head : Nat, r_tail : Nat]

Main == [at : {"idle", "recv", "drain", "subscribe", "announce"}, out : Seq(Network!Envelope)]

\* The indexes of what is in the ring, and what is there.
InRing(h) == h.r_head..(h.r_tail - 1)
At(h, i) == h.ring[i % Size]

RingOK(h) ==
    /\ h.r_head <= h.r_tail /\ h.r_tail <= h.r_head + Size
    /\ \A i \in InRing(h) : At(h, i) \in Pub

TypeInv ==
    /\ hal \in [Node -> Hal] /\ main \in [Node -> Main]
    /\ routed \in [Node -> Seq(Pub)]
    /\ sent \in [Node -> [Node -> Nat]]
    /\ received \in [Node -> Seq(Network!Envelope)]

\* x and y are publishes or envelopes for one target.
Older(x, y) == x.source = y.source => x.number < y.number

NewerThan(x, s) == \A i \in 1..Len(s) : Older(s[i], x)

\* num[a]: how many messages a has sent to the target.
WasSent(x, num) == x.number \in 1..num[x.source]

IsRaft(p) == p.topic = "inbox"

\* The message may come after what was handed over and what the loop has collected.
MayFollow(x, rec, out, num) == WasSent(x, num) /\ NewerThan(x, rec) /\ NewerThan(x, out)

HandedOver(rec, num) ==
    \A i \in 1..Len(rec) :
        WasSent(rec[i], num) /\ \A j \in 1..(i - 1) : Older(rec[j], rec[i])

Collected(out, rec, num) ==
    \A i \in 1..Len(out) :
        /\ WasSent(out[i], num) /\ NewerThan(out[i], rec)
        /\ \A j \in 1..(i - 1) : Older(out[j], out[i])

Buffered(h, rec, out, num) ==
    \A i \in InRing(h) : IsRaft(At(h, i)) =>
        /\ MayFollow(At(h, i), rec, out, num)
        /\ \A j \in h.r_head..(i - 1) : IsRaft(At(h, j)) => Older(At(h, j), At(h, i))

Waiting(w, h, rec, out, num) ==
    \A i \in 1..Len(w) : IsRaft(w[i]) =>
        /\ MayFollow(w[i], rec, out, num)
        /\ \A j \in InRing(h) : IsRaft(At(h, j)) => Older(At(h, j), w[i])
        /\ \A j \in 1..(i - 1) : IsRaft(w[j]) => Older(w[j], w[i])

\* The stages of one node: what was handed over, the loop, the ring and the broker.
Line(rec, out, h, w, num) ==
    /\ HandedOver(rec, num)
    /\ Collected(out, rec, num)
    /\ Buffered(h, rec, out, num)
    /\ Waiting(w, h, rec, out, num)

SentTo(b) == [a \in Node |-> sent[a][b]]

Good(rec, m, h, w, num) == RingOK(h) /\ Line(rec, m.out, h, w, num)

TransportInv ==
    /\ TypeInv
    /\ \A n \in Node : Good(received[n], main[n], hal[n], routed[n], SentTo(n))

-----------------------------------------------------------------------------
(* The ring.                                                               *)

\* Quotient and remainder.
LEMMA Remainder ==
    ASSUME NEW q \in Nat \ {0}, NEW i \in Nat
    PROVE  i % q \in 0..(q - 1) /\ i \div q \in Nat /\ i = q * (i \div q) + (i % q)
OBVIOUS

\* A multiple of q is 0 or at least q away from it.
LEMMA Multiple ==
    ASSUME NEW q \in Nat \ {0}, NEW k \in Int, k # 0
    PROVE  q * k >= q \/ q * k <= -q
OBVIOUS

\* Indexes less than q apart have different slots.
LEMMA SlotsApart ==
    ASSUME NEW q \in Nat \ {0}, NEW i \in Nat, NEW j \in Nat, i < j, j < i + q
    PROVE  i % q # j % q
<1> DEFINE a == i \div q
           b == j \div q
           r == i % q
<1>1. SUFFICES ASSUME i % q = j % q PROVE FALSE
  OBVIOUS
<1>2. i = q * a + r /\ j = q * b + r /\ a \in Nat /\ b \in Nat /\ r \in Nat
  <2>1. i = q * (i \div q) + (i % q) /\ i \div q \in Nat /\ i % q \in Nat
    BY Remainder
  <2>2. j = q * (j \div q) + (j % q) /\ j \div q \in Nat
    BY Remainder
  <2> QED
    BY <1>1, <2>1, <2>2
<1> HIDE DEF a, b, r
<1>3. q * (b - a) = j - i
  BY <1>2
<1>4. b - a # 0 /\ b - a \in Int
  BY <1>2, <1>3
<1>5. q * (b - a) >= q \/ q * (b - a) <= -q
  BY <1>4, Multiple
<1> QED
  BY <1>3, <1>5

\* The size of the ring and the fields of a node.
LEMMA Fields ==
    /\ Size \in Nat \ {0} /\ Slots = 0..(Size - 1)
    /\ \A h \in Hal : /\ h.ring \in [Slots -> Pub \cup {Nothing}]
                      /\ h.r_head \in Nat /\ h.r_tail \in Nat
    /\ \A m \in Main : m.out \in Seq(Network!Envelope)
    /\ \A p \in Pub : p.topic \in {"inbox", "join"} /\ p.source \in Node /\ p.number \in Nat
    /\ \A e \in Network!Envelope : e.source \in Node /\ e.number \in Nat
BY MqttAssumption DEF Size, RAFT_MQTT_POSIX_QUEUE_SIZE, Slots, Hal, Main, Pub, Network!Envelope

\* What the callback puts into the ring comes last, and the rest stays.
LEMMA RingPut ==
    ASSUME NEW h \in Hal, RingOK(h), NEW p \in Pub, Filled(h) < Size
    PROVE  LET k == Put(h, p)
           IN  /\ k \in Hal /\ RingOK(k)
               /\ k.r_head = h.r_head /\ k.r_tail = h.r_tail + 1
               /\ At(k, h.r_tail) = p
               /\ \A i \in InRing(h) : At(k, i) = At(h, i)
<1> DEFINE x == h.r_tail % Size
           ring == [h.ring EXCEPT ![x] = p]
           k == [h EXCEPT !.ring = ring, !.r_tail = h.r_tail + 1]
<1>1. Put(h, p) = k
  BY DEF Put, Size
<1>2. /\ Size \in Nat \ {0} /\ h.r_head \in Nat /\ h.r_tail \in Nat
      /\ h.ring \in [Slots -> Pub \cup {Nothing}]
  BY Fields
<1>3. \A i \in Nat : i % Size \in Slots
  BY <1>2, Fields, Remainder
<1>4. ring \in [Slots -> Pub \cup {Nothing}]
  BY <1>2, <1>3
<1>5. /\ k.ring = ring /\ k.r_head = h.r_head /\ k.r_tail = h.r_tail + 1
  BY DEF Hal
<1>6. k \in Hal
  <2>1. h.r_tail + 1 \in Nat
    BY <1>2
  <2> HIDE DEF ring
  <2> QED
    BY <1>4, <2>1, Zenon DEF Hal
<1>7. At(k, h.r_tail) = p
  BY <1>2, <1>3, <1>5 DEF At
<1>8. ASSUME NEW i \in InRing(h) PROVE At(k, i) = At(h, i)
  <2>1. i \in Nat /\ i < h.r_tail /\ h.r_tail < i + Size
    BY <1>2, <1>8 DEF InRing, Filled
  <2>2. i % Size # h.r_tail % Size
    BY <1>2, <2>1, SlotsApart
  <2> QED
    BY <1>2, <1>3, <1>5, <2>1, <2>2 DEF At
<1> HIDE DEF k
<1>9. RingOK(k)
  <2>1. k.r_head <= k.r_tail /\ k.r_tail <= k.r_head + Size
    BY <1>2, <1>5 DEF RingOK, Filled
  <2>2. ASSUME NEW i \in InRing(k) PROVE At(k, i) \in Pub
    <3>1. i \in InRing(h) \/ i = h.r_tail
      BY <1>2, <1>5, <2>2 DEF InRing
    <3> QED
      BY <1>7, <1>8, <3>1 DEF RingOK
  <2> QED
    BY <2>1, <2>2 DEF RingOK
<1> QED
  BY <1>1, <1>5, <1>6, <1>7, <1>8, <1>9

\* What is taken out of the ring is the first, and the rest stays.
LEMMA RingTaken ==
    ASSUME NEW h \in Hal, RingOK(h), ~IsEmpty(h)
    PROVE  LET k == Taken(h)
           IN  /\ k \in Hal /\ RingOK(k)
               /\ h.r_head \in InRing(h) /\ First(h) = At(h, h.r_head)
               /\ k.r_head = h.r_head + 1 /\ k.r_tail = h.r_tail
               /\ \A i \in InRing(k) : i \in InRing(h) /\ At(k, i) = At(h, i)
<1> DEFINE x == h.r_head % Size
           ring == [h.ring EXCEPT ![x] = Nothing]
           k == [h EXCEPT !.ring = ring, !.r_head = h.r_head + 1]
<1>1. Taken(h) = k
  BY DEF Taken, Size
<1>2. /\ Size \in Nat \ {0} /\ h.r_head \in Nat /\ h.r_tail \in Nat
      /\ h.ring \in [Slots -> Pub \cup {Nothing}]
  BY Fields
<1>3. \A i \in Nat : i % Size \in Slots
  BY <1>2, Fields, Remainder
<1>4. ring \in [Slots -> Pub \cup {Nothing}]
  BY <1>2, <1>3
<1>5. /\ k.ring = ring /\ k.r_head = h.r_head + 1 /\ k.r_tail = h.r_tail
  BY DEF Hal
<1>6. k \in Hal
  <2>1. h.r_head + 1 \in Nat
    BY <1>2
  <2> HIDE DEF ring
  <2> QED
    BY <1>4, <2>1, Zenon DEF Hal
<1>7. h.r_head \in InRing(h) /\ First(h) = At(h, h.r_head)
  BY <1>2 DEF RingOK, IsEmpty, InRing, First, At, Size
<1> HIDE DEF k
<1>8. ASSUME NEW i \in InRing(k) PROVE i \in InRing(h) /\ At(k, i) = At(h, i)
  <2>1. i \in Nat /\ h.r_head < i /\ i < h.r_head + Size /\ i \in InRing(h)
    BY <1>2, <1>5, <1>8 DEF InRing, RingOK
  <2>2. h.r_head % Size # i % Size
    BY <1>2, <2>1, SlotsApart
  <2> QED
    BY <1>2, <1>3, <1>5, <2>1, <2>2 DEF At
<1>9. RingOK(k)
  BY <1>2, <1>5, <1>7, <1>8 DEF RingOK, InRing
<1> QED
  BY <1>1, <1>5, <1>6, <1>7, <1>8, <1>9

-----------------------------------------------------------------------------
(* Messages move one stage on, or are dropped.                             *)

\* What the broker, the loop or the whole ring held is dropped; the ring may lose its first.
LEMMA LineDrops ==
    ASSUME NEW rec, NEW out, NEW h \in Hal, NEW w, NEW num, Line(rec, out, h, w, num)
    PROVE  /\ Line(rec, out, h, << >>, num)
           /\ Line(rec, << >>, h, w, num)
           /\ \A k \in Hal :
                 /\ k.r_head >= h.r_head
                 /\ \A i \in InRing(k) : i \in InRing(h) /\ At(k, i) = At(h, i)
                 => Line(rec, out, k, w, num)
<1>1. Line(rec, out, h, << >>, num)
  BY DEF Line, Waiting
<1>2. Line(rec, << >>, h, w, num)
  BY DEF Line, Collected, Buffered, Waiting, MayFollow, NewerThan
<1>3. ASSUME NEW k \in Hal, k.r_head >= h.r_head,
             \A i \in InRing(k) : i \in InRing(h) /\ At(k, i) = At(h, i)
      PROVE  Line(rec, out, k, w, num)
  <2>1. ASSUME NEW i \in InRing(k), IsRaft(At(k, i))
        PROVE  /\ MayFollow(At(k, i), rec, out, num)
               /\ \A j \in k.r_head..(i - 1) : IsRaft(At(k, j)) => Older(At(k, j), At(k, i))
    <3>1. i \in InRing(h) /\ At(k, i) = At(h, i)
      BY <1>3
    <3>2. ASSUME NEW j \in k.r_head..(i - 1) PROVE j \in h.r_head..(i - 1) /\ At(k, j) = At(h, j)
      <4>1. h.r_head \in Nat /\ k.r_head \in Nat /\ k.r_tail \in Nat
        BY Fields
      <4>2. j \in InRing(k) /\ j \in h.r_head..(i - 1)
        BY <1>3, <4>1, <2>1 DEF InRing
      <4> QED
        BY <1>3, <4>2
    <3> QED
      BY <2>1, <3>1, <3>2 DEF Line, Buffered
  <2>2. Buffered(k, rec, out, num)
    BY <2>1 DEF Buffered
  <2>3. Waiting(w, k, rec, out, num)
    BY <1>3 DEF Line, Waiting
  <2> QED
    BY <2>2, <2>3 DEF Line
<1> QED
  BY <1>1, <1>2, <1>3

\* The broker gets a publish for the node.
LEMMA LineAppend ==
    ASSUME NEW rec, NEW out, NEW h \in Hal, NEW w \in Seq(Pub), NEW num,
           Line(rec, out, h, w, num), NEW p \in Pub,
           IsRaft(p) => /\ MayFollow(p, rec, out, num)
                        /\ \A j \in InRing(h) : IsRaft(At(h, j)) => Older(At(h, j), p)
                        /\ \A i \in 1..Len(w) : IsRaft(w[i]) => Older(w[i], p)
    PROVE  Line(rec, out, h, Append(w, p), num)
<1>1. Waiting(Append(w, p), h, rec, out, num)
  BY AppendProperties DEF Line, Waiting
<1> QED
  BY <1>1 DEF Line

\* The count of one sender grows.
LEMMA LineGrows ==
    ASSUME NEW rec \in Seq(Network!Envelope), NEW out \in Seq(Network!Envelope),
           NEW h \in Hal, RingOK(h), NEW w \in Seq(Pub), NEW num \in [Node -> Nat],
           Line(rec, out, h, w, num),
           NEW a \in Node, NEW more, more = [num EXCEPT ![a] = @ + 1]
    PROVE  Line(rec, out, h, w, more)
<1>1. ASSUME NEW x, x.source \in Node, WasSent(x, num) PROVE WasSent(x, more)
  BY <1>1 DEF WasSent
<1>2. /\ \A i \in 1..Len(rec) : rec[i].source \in Node
      /\ \A i \in 1..Len(out) : out[i].source \in Node
      /\ \A i \in 1..Len(w) : w[i].source \in Node
      /\ \A i \in InRing(h) : At(h, i).source \in Node
  BY Fields, ElementOfSeq DEF RingOK
<1>3. HandedOver(rec, more)
  BY <1>1, <1>2 DEF Line, HandedOver
<1>4. Collected(out, rec, more)
  BY <1>1, <1>2 DEF Line, Collected
<1>5. Buffered(h, rec, out, more)
  BY <1>1, <1>2 DEF Line, Buffered, MayFollow
<1>6. Waiting(w, h, rec, out, more)
  BY <1>1, <1>2 DEF Line, Waiting, MayFollow
<1> QED
  BY <1>3, <1>4, <1>5, <1>6 DEF Line

\* A new message of a is newer than everything on its way.
LEMMA LineSend ==
    ASSUME NEW rec \in Seq(Network!Envelope), NEW out \in Seq(Network!Envelope),
           NEW h \in Hal, RingOK(h), NEW w \in Seq(Pub), NEW num \in [Node -> Nat],
           Line(rec, out, h, w, num),
           NEW a \in Node, NEW more, more = [num EXCEPT ![a] = @ + 1],
           NEW p \in Pub, IsRaft(p), p.source = a, p.number = num[a] + 1
    PROVE  Line(rec, out, h, Append(w, p), more)
<1>1. Line(rec, out, h, w, more)
  BY LineGrows
<1>2. ASSUME NEW x, x.source \in Node, WasSent(x, num) PROVE Older(x, p)
  BY <1>2 DEF WasSent, Older
<1>3. /\ \A i \in 1..Len(rec) : rec[i].source \in Node
      /\ \A i \in 1..Len(out) : out[i].source \in Node
      /\ \A i \in 1..Len(w) : w[i].source \in Node
      /\ \A i \in InRing(h) : At(h, i).source \in Node
  BY Fields, ElementOfSeq DEF RingOK
<1>4. WasSent(p, more)
  BY DEF WasSent
<1>5. MayFollow(p, rec, out, more)
  BY <1>2, <1>3, <1>4 DEF MayFollow, NewerThan, Line, HandedOver, Collected
<1>6. \A j \in InRing(h) : IsRaft(At(h, j)) => Older(At(h, j), p)
  BY <1>2, <1>3 DEF Line, Buffered, MayFollow
<1>7. \A i \in 1..Len(w) : IsRaft(w[i]) => Older(w[i], p)
  BY <1>2, <1>3 DEF Line, MayFollow, Waiting
<1> QED
  BY <1>1, <1>5, <1>6, <1>7, LineAppend

\* The callback puts the first publish of the broker into the ring, or drops it.
LEMMA LinePut ==
    ASSUME NEW rec, NEW out, NEW h \in Hal, RingOK(h), NEW w \in Seq(Pub), w # << >>,
           NEW num, Line(rec, out, h, w, num)
    PROVE  /\ Put(h, Head(w)) \in Hal /\ RingOK(Put(h, Head(w)))
           /\ Line(rec, out, Put(h, Head(w)), Tail(w), num)
<1> DEFINE k == Put(h, Head(w))
           v == Tail(w)
<1>1. /\ Len(w) \in Nat \ {0} /\ Head(w) = w[1] /\ Head(w) \in Pub /\ v \in Seq(Pub)
      /\ Len(v) = Len(w) - 1 /\ \A i \in 1..Len(v) : v[i] = w[i + 1]
  BY HeadTailProperties, EmptySeq, ElementOfSeq
<1> HIDE DEF v
<1>2. ASSUME NEW i \in 1..Len(v), IsRaft(v[i])
      PROVE  /\ MayFollow(v[i], rec, out, num)
             /\ \A j \in InRing(h) : IsRaft(At(h, j)) => Older(At(h, j), v[i])
             /\ IsRaft(w[1]) => Older(w[1], v[i])
             /\ \A j \in 1..(i - 1) : IsRaft(v[j]) => Older(v[j], v[i])
  <2>1. v[i] = w[i + 1] /\ i + 1 \in 1..Len(w) /\ 1 \in 1..i
    BY <1>1
  <2>2. /\ MayFollow(w[i + 1], rec, out, num)
        /\ \A j \in InRing(h) : IsRaft(At(h, j)) => Older(At(h, j), w[i + 1])
        /\ \A j \in 1..i : IsRaft(w[j]) => Older(w[j], w[i + 1])
    BY <1>1, <1>2, <2>1 DEF Line, Waiting
  <2>3. ASSUME NEW j \in 1..(i - 1) PROVE v[j] = w[j + 1] /\ j + 1 \in 1..i
    BY <1>1
  <2> QED
    BY <2>1, <2>2, <2>3
<1>3. CASE ~(Filled(h) < Size)
  <2>1. k = h
    BY <1>3 DEF Put, Size
  <2>2. Waiting(v, h, rec, out, num)
    BY <1>2 DEF Waiting
  <2> QED
    BY <2>1, <2>2 DEF Line, v
<1>4. CASE Filled(h) < Size
  <2>1. /\ k \in Hal /\ RingOK(k)
        /\ k.r_head = h.r_head /\ k.r_tail = h.r_tail + 1
        /\ At(k, h.r_tail) = w[1]
        /\ \A i \in InRing(h) : At(k, i) = At(h, i)
    BY <1>1, <1>4, RingPut
  <2> HIDE DEF k
  <2>2. /\ h.r_head \in Nat /\ h.r_tail \in Nat
    BY Fields
  <2>3. \A i \in InRing(k) : i \in InRing(h) \/ i = h.r_tail
    BY <2>1, <2>2 DEF InRing
  <2>4. ASSUME NEW i \in InRing(k), IsRaft(At(k, i))
        PROVE  /\ MayFollow(At(k, i), rec, out, num)
               /\ \A j \in k.r_head..(i - 1) : IsRaft(At(k, j)) => Older(At(k, j), At(k, i))
    <3>1. \A j \in k.r_head..(i - 1) : j \in InRing(h) /\ j \in h.r_head..(i - 1)
      BY <2>1, <2>2, <2>4 DEF InRing
    <3>2. CASE i \in InRing(h)
      BY <2>1, <2>4, <3>1, <3>2 DEF Line, Buffered
    <3>3. CASE i = h.r_tail
      <4>1. /\ MayFollow(w[1], rec, out, num)
            /\ \A j \in InRing(h) : IsRaft(At(h, j)) => Older(At(h, j), w[1])
        BY <1>1, <2>1, <2>4, <3>3 DEF Line, Waiting
      <4> QED
        BY <2>1, <3>1, <3>3, <4>1
    <3> QED
      BY <2>3, <3>2, <3>3
  <2>5. Buffered(k, rec, out, num)
    BY <2>4 DEF Buffered
  <2>6. Waiting(v, k, rec, out, num)
    BY <1>2, <2>1, <2>3 DEF Waiting
  <2> QED
    BY <2>1, <2>5, <2>6 DEF Line, k, v
<1> QED
  BY <1>3, <1>4

\* The loop of mqtt_recv takes the first message out of the ring.
LEMMA LineTake ==
    ASSUME NEW rec \in Seq(Network!Envelope), NEW out \in Seq(Network!Envelope),
           NEW h \in Hal, RingOK(h), ~IsEmpty(h), NEW w, NEW num, Line(rec, out, h, w, num),
           IsRaft(First(h)),
           NEW e \in Network!Envelope, e.source = First(h).source, e.number = First(h).number
    PROVE  Line(rec, Append(out, e), Taken(h), w, num)
<1> DEFINE k == Taken(h)
           s == Append(out, e)
           p == First(h)
<1>1. /\ k \in Hal /\ h.r_head \in InRing(h) /\ p = At(h, h.r_head)
      /\ k.r_head = h.r_head + 1 /\ k.r_tail = h.r_tail
      /\ \A i \in InRing(k) : i \in InRing(h) /\ At(k, i) = At(h, i)
  BY RingTaken
<1> HIDE DEF k, p
<1>2. h.r_head \in Nat /\ h.r_tail \in Nat
  BY Fields
<1>3. /\ Len(s) = Len(out) + 1 /\ s[Len(out) + 1] = e /\ Len(out) \in Nat
      /\ \A i \in 1..Len(out) : s[i] = out[i]
  BY AppendProperties, LenProperties
<1> HIDE DEF s
<1>4. MayFollow(p, rec, out, num)
  BY <1>1 DEF Line, Buffered, p
<1>5. MayFollow(e, rec, out, num) /\ \A x : Older(p, x) => Older(e, x)
  BY <1>4 DEF MayFollow, WasSent, NewerThan, Older, p
<1>6. Collected(s, rec, num)
  <2> SUFFICES ASSUME NEW i \in 1..Len(s)
               PROVE  /\ WasSent(s[i], num) /\ NewerThan(s[i], rec)
                      /\ \A j \in 1..(i - 1) : Older(s[j], s[i])
    BY DEF Collected
  <2>1. CASE i \in 1..Len(out)
    <3>1. \A j \in 1..(i - 1) : s[j] = out[j]
      BY <1>3, <2>1
    <3> QED
      BY <1>3, <2>1, <3>1 DEF Line, Collected
  <2>2. CASE i = Len(out) + 1
    BY <1>3, <1>5, <2>2 DEF MayFollow, NewerThan
  <2> QED
    BY <1>3, <2>1, <2>2
<1>7. ASSUME NEW x, MayFollow(x, rec, out, num), Older(p, x) PROVE MayFollow(x, rec, s, num)
  BY <1>3, <1>5, <1>7 DEF MayFollow, NewerThan
<1>8. Line(rec, out, k, w, num)
  BY <1>1, <1>2, LineDrops
<1>9. Buffered(k, rec, s, num)
  <2> SUFFICES ASSUME NEW i \in InRing(k), IsRaft(At(k, i))
               PROVE  MayFollow(At(k, i), rec, s, num)
    BY <1>8 DEF Line, Buffered
  <2>1. h.r_head \in h.r_head..(i - 1)
    BY <1>1, <1>2 DEF InRing
  <2>2. Older(p, At(k, i)) /\ MayFollow(At(k, i), rec, out, num)
    BY <1>1, <2>1 DEF Line, Buffered, p
  <2> QED
    BY <1>7, <2>2
<1>10. Waiting(w, k, rec, s, num)
  <2> SUFFICES ASSUME NEW i \in 1..Len(w), IsRaft(w[i])
               PROVE  MayFollow(w[i], rec, s, num)
    BY <1>8 DEF Line, Waiting
  <2>1. Older(p, w[i]) /\ MayFollow(w[i], rec, out, num)
    BY <1>1 DEF Line, Waiting, p
  <2> QED
    BY <1>7, <2>1
<1> QED
  BY <1>6, <1>9, <1>10 DEF Line, k, s

\* mqtt_recv hands what its loop has collected to the engine.
LEMMA LineReceive ==
    ASSUME NEW rec \in Seq(Network!Envelope), NEW out \in Seq(Network!Envelope),
           NEW h \in Hal, NEW w, NEW num, Line(rec, out, h, w, num)
    PROVE  rec \o out \in Seq(Network!Envelope) /\ Line(rec \o out, << >>, h, w, num)
<1> DEFINE all == rec \o out
<1>1. Len(out) \in Nat /\ Len(rec) \in Nat
  BY LenProperties
<1>2. /\ all \in Seq(Network!Envelope) /\ Len(all) = Len(rec) + Len(out)
      /\ \A i \in 1..Len(rec) : all[i] = rec[i]
      /\ \A i \in (Len(rec) + 1)..Len(all) : all[i] = out[i - Len(rec)]
  <2>1. /\ all \in Seq(Network!Envelope) /\ Len(all) = Len(rec) + Len(out)
        /\ \A i \in 1..Len(rec) + Len(out) :
             all[i] = IF i <= Len(rec) THEN rec[i] ELSE out[i - Len(rec)]
    BY ConcatProperties, Zenon
  <2> HIDE DEF all
  <2> QED
    BY <1>1, <2>1
<1> HIDE DEF all
<1>3. ASSUME NEW i \in 1..Len(all)
      PROVE  WasSent(all[i], num) /\ \A j \in 1..(i - 1) : Older(all[j], all[i])
  <2>1. CASE i \in 1..Len(rec)
    <3>1. \A j \in 1..(i - 1) : j \in 1..Len(rec)
      BY <1>1, <2>1
    <3> QED
      BY <1>2, <2>1, <3>1 DEF Line, HandedOver
  <2>2. CASE i \in (Len(rec) + 1)..Len(all)
    <3>1. PICK k \in 1..Len(out) : k = i - Len(rec)
      BY <1>1, <1>2, <2>2
    <3>2. all[i] = out[k]
      BY <1>2, <2>2, <3>1
    <3>3. ASSUME NEW j \in 1..(i - 1) PROVE Older(all[j], all[i])
      <4>1. CASE j <= Len(rec)
        <5>1. all[j] = rec[j] /\ j \in 1..Len(rec)
          BY <1>1, <1>2, <4>1
        <5> QED
          BY <3>2, <5>1 DEF Line, Collected, NewerThan
      <4>2. CASE j > Len(rec)
        <5> DEFINE d == j - Len(rec)
        <5>1. d \in 1..(k - 1) /\ j \in (Len(rec) + 1)..Len(all)
          BY <1>1, <1>2, <2>2, <3>1, <4>2
        <5>2. all[j] = out[d]
          BY <1>2, <5>1
        <5> HIDE DEF d
        <5> QED
          BY <3>2, <5>1, <5>2 DEF Line, Collected
      <4> QED
        BY <1>1, <4>1, <4>2
    <3> QED
      BY <3>2, <3>3 DEF Line, Collected
  <2> QED
    BY <1>1, <1>2, <2>1, <2>2
<1>4. HandedOver(all, num) /\ Collected(<< >>, all, num)
  BY <1>3 DEF HandedOver, Collected
<1>5. ASSUME NEW x, MayFollow(x, rec, out, num) PROVE MayFollow(x, all, << >>, num)
  <2>1. ASSUME NEW i \in 1..Len(all) PROVE Older(all[i], x)
    <3>1. CASE i \in 1..Len(rec)
      BY <1>2, <1>5, <3>1 DEF MayFollow, NewerThan
    <3>2. CASE i \in (Len(rec) + 1)..Len(all)
      <4>1. PICK k \in 1..Len(out) : k = i - Len(rec)
        BY <1>1, <1>2, <3>2
      <4>2. all[i] = out[k]
        BY <1>2, <3>2, <4>1
      <4> QED
        BY <1>5, <4>2 DEF MayFollow, NewerThan
    <3> QED
      BY <1>1, <1>2, <3>1, <3>2
  <2> QED
    BY <1>5, <2>1 DEF MayFollow, NewerThan
<1>6. Buffered(h, all, << >>, num) /\ Waiting(w, h, all, << >>, num)
  BY <1>5 DEF Line, Buffered, Waiting
<1> QED
  BY <1>2, <1>4, <1>6 DEF Line, all

-----------------------------------------------------------------------------
(* Steps.                                                                  *)

\* The invariant of one node, and what UNCHANGED says of it.
LEMMA NodeFacts ==
    ASSUME TransportInv, NEW n \in Node
    PROVE  /\ hal[n] \in Hal /\ main[n] \in Main /\ routed[n] \in Seq(Pub)
           /\ received[n] \in Seq(Network!Envelope) /\ main[n].out \in Seq(Network!Envelope)
           /\ SentTo(n) \in [Node -> Nat] /\ RingOK(hal[n])
           /\ Line(received[n], main[n].out, hal[n], routed[n], SentTo(n))
           /\ hal = [hal EXCEPT ![n] = hal[n]] /\ main = [main EXCEPT ![n] = main[n]]
           /\ routed = [routed EXCEPT ![n] = routed[n]]
           /\ received = [received EXCEPT ![n] = received[n]]
BY Fields DEF TransportInv, TypeInv, Good, SentTo

\* A step of one node that keeps its part of the invariant keeps all of it.
LEMMA NodeStep ==
    ASSUME TransportInv, NEW n \in Node, NEW h \in Hal, NEW m \in Main,
           NEW w \in Seq(Pub), NEW rec \in Seq(Network!Envelope),
           hal' = [hal EXCEPT ![n] = h], main' = [main EXCEPT ![n] = m],
           routed' = [routed EXCEPT ![n] = w], received' = [received EXCEPT ![n] = rec],
           UNCHANGED sent, Good(rec, m, h, w, SentTo(n))
    PROVE  TransportInv'
<1>1. TypeInv'
  BY DEF TransportInv, TypeInv
<1>2. ASSUME NEW b \in Node
      PROVE  Good(received[b], main[b], hal[b], routed[b], SentTo(b))'
  <2>1. SentTo(b)' = SentTo(b)
    BY DEF SentTo
  <2>2. CASE b = n
    <3>1. hal'[n] = h /\ main'[n] = m /\ routed'[n] = w /\ received'[n] = rec
      BY DEF TransportInv, TypeInv
    <3> QED
      BY <2>1, <2>2, <3>1
  <2>3. CASE b # n
    <3>1. /\ hal'[b] = hal[b] /\ main'[b] = main[b]
          /\ routed'[b] = routed[b] /\ received'[b] = received[b]
      BY <2>3 DEF TransportInv, TypeInv
    <3> QED
      BY <2>1, <3>1 DEF TransportInv
  <2> QED
    BY <2>2, <2>3
<1> QED
  BY <1>1, <1>2 DEF TransportInv

\* Steps that touch neither the ring nor the engine: the call the main thread is in, the
\* link and the thread change; what the loop has collected and what the broker holds are
\* kept or dropped.
LEMMA NodeMoves ==
    ASSUME TransportInv, NEW n \in Node, NEW h \in Hal, NEW m \in Main, NEW w,
           hal' = [hal EXCEPT ![n] = h], main' = [main EXCEPT ![n] = m],
           routed' = [routed EXCEPT ![n] = w], UNCHANGED <<sent, received>>,
           h.ring = hal[n].ring, h.r_head = hal[n].r_head, h.r_tail = hal[n].r_tail,
           m.out \in {main[n].out, << >>}, w \in {routed[n], << >>}
    PROVE  TransportInv'
<1>1. /\ hal[n] \in Hal /\ main[n] \in Main /\ routed[n] \in Seq(Pub)
      /\ received[n] \in Seq(Network!Envelope) /\ RingOK(hal[n])
      /\ Line(received[n], main[n].out, hal[n], routed[n], SentTo(n))
      /\ received' = [received EXCEPT ![n] = received[n]]
  BY NodeFacts
<1>2. w \in Seq(Pub)
  <2>1. << >> \in Seq(Pub)
    OBVIOUS
  <2> QED
    BY <1>1, <2>1, Zenon
<1>3. InRing(h) = InRing(hal[n]) /\ \A i : At(h, i) = At(hal[n], i)
  BY DEF InRing, At
<1>4. RingOK(h)
  BY <1>1, <1>3 DEF RingOK
<1>5. Line(received[n], main[n].out, hal[n], w, SentTo(n))
  BY <1>1, LineDrops
<1>6. Line(received[n], m.out, hal[n], w, SentTo(n))
  BY <1>1, <1>5, LineDrops
<1>7. Line(received[n], m.out, h, w, SentTo(n))
  BY <1>3, <1>6 DEF Line, Buffered, Waiting
<1>8. Good(received[n], m, h, w, SentTo(n))
  BY <1>4, <1>7 DEF Good
<1> QED
  BY <1>1, <1>2, <1>8, NodeStep

\* The main thread's place in a call, and what the loop has collected.
LEMMA MainUpdates ==
    ASSUME NEW m \in Main, NEW a \in {"idle", "recv", "drain", "subscribe", "announce"},
           NEW s \in Seq(Network!Envelope)
    PROVE  /\ [m EXCEPT !.at = a] \in Main /\ [m EXCEPT !.at = a].out = m.out
           /\ [m EXCEPT !.out = s] \in Main /\ [m EXCEPT !.out = s].out = s
           /\ [at |-> a, out |-> << >>] \in Main /\ [at |-> a, out |-> << >>].out = << >>
           /\ Idle \in Main /\ Idle.out = << >>
BY DEF Main, Idle

\* The connection and the thread.
LEMMA HalUpdates ==
    ASSUME NEW h \in Hal, NEW a \in BOOLEAN, NEW b \in BOOLEAN
    PROVE  /\ [h EXCEPT !.link = a] \in Hal
           /\ [h EXCEPT !.link = a].ring = h.ring
           /\ [h EXCEPT !.link = a].r_head = h.r_head /\ [h EXCEPT !.link = a].r_tail = h.r_tail
           /\ [h EXCEPT !.link = a, !.thread = b] \in Hal
           /\ [h EXCEPT !.link = a, !.thread = b].ring = h.ring
           /\ [h EXCEPT !.link = a, !.thread = b].r_head = h.r_head
           /\ [h EXCEPT !.link = a, !.thread = b].r_tail = h.r_tail
<1>1. [h EXCEPT !.link = a] \in Hal /\ [h EXCEPT !.link = a, !.thread = b] \in Hal
  BY Zenon DEF Hal
<1>2. /\ [h EXCEPT !.link = a].ring = h.ring
      /\ [h EXCEPT !.link = a].r_head = h.r_head /\ [h EXCEPT !.link = a].r_tail = h.r_tail
  BY Zenon DEF Hal
<1>3. /\ [h EXCEPT !.link = a, !.thread = b].ring = h.ring
      /\ [h EXCEPT !.link = a, !.thread = b].r_head = h.r_head
      /\ [h EXCEPT !.link = a, !.thread = b].r_tail = h.r_tail
  BY Zenon DEF Hal
<1> QED
  BY <1>1, <1>2, <1>3

\* One MQTT_ProcessLoop of the thread.
LEMMA ProcessLoopInv ==
    ASSUME TransportInv, NEW n \in Node, ProcessLoop(n)
    PROVE  TransportInv'
<1> DEFINE h == Put(hal[n], Head(routed[n]))
           w == Tail(routed[n])
<1>1. /\ routed[n] # << >> /\ UNCHANGED <<main, sent, received>>
      /\ hal' = [hal EXCEPT ![n] = h] /\ routed' = [routed EXCEPT ![n] = w]
  BY Zenon DEF ProcessLoop
<1>2. /\ h \in Hal /\ RingOK(h)
      /\ Line(received[n], main[n].out, h, w, SentTo(n))
  BY <1>1, NodeFacts, LinePut
<1>3. w \in Seq(Pub)
  BY <1>1, NodeFacts, HeadTailProperties
<1> HIDE DEF h, w
<1>4. Good(received[n], main[n], h, w, SentTo(n))
  BY <1>2 DEF Good
<1> QED
  BY <1>1, <1>2, <1>3, <1>4, NodeFacts, NodeStep

\* The first of the ring is dropped, or goes to the join queue.
LEMMA TakenInv ==
    ASSUME TransportInv, NEW n \in Node, ~IsEmpty(hal[n]),
           NEW h, h = Taken(hal[n]), hal' = [hal EXCEPT ![n] = h],
           UNCHANGED <<main, routed, sent, received>>
    PROVE  TransportInv'
<1>1. hal[n] \in Hal /\ RingOK(hal[n]) /\ hal[n].r_head \in Nat
  BY NodeFacts, Fields
<1>2. /\ h \in Hal /\ RingOK(h) /\ h.r_head = hal[n].r_head + 1
      /\ \A i \in InRing(h) : i \in InRing(hal[n]) /\ At(h, i) = At(hal[n], i)
  BY <1>1, RingTaken
<1>3. h.r_head >= hal[n].r_head
  BY <1>1, <1>2
<1>4. Line(received[n], main[n].out, h, routed[n], SentTo(n))
  BY <1>2, <1>3, NodeFacts, LineDrops
<1>5. Good(received[n], main[n], h, routed[n], SentTo(n))
  BY <1>2, <1>4 DEF Good
<1>6. TypeInv'
  BY <1>2 DEF TransportInv, TypeInv
<1>7. ASSUME NEW b \in Node PROVE Good(received[b], main[b], hal[b], routed[b], SentTo(b))'
  <2>1. /\ SentTo(b)' = SentTo(b) /\ hal'[b] = IF b = n THEN h ELSE hal[b]
        /\ Good(received[b], main[b], hal[b], routed[b], SentTo(b))
    BY DEF SentTo, TransportInv, TypeInv
  <2> QED
    BY <1>5, <2>1
<1> QED
  BY <1>6, <1>7 DEF TransportInv

\* One turn of the loop of mqtt_recv.
LEMMA RecvOneInv ==
    ASSUME TransportInv, NEW n \in Node, RecvOne(n)
    PROVE  TransportInv'
<1> DEFINE p == First(hal[n])
           e == [source |-> p.source, number |-> p.number]
           s == Append(main[n].out, e)
           m == [main[n] EXCEPT !.out = s]
           h == Taken(hal[n])
<1>1. /\ ~IsEmpty(hal[n]) /\ hal' = [hal EXCEPT ![n] = Taken(hal[n])]
      /\ UNCHANGED <<routed, sent, received>>
  BY Zenon DEF RecvOne
<1>2. CASE ~(p.topic = "inbox" /\ mqtt[n].enabled)
  <2>1. UNCHANGED main
    BY <1>2, Zenon DEF RecvOne
  <2> QED
    BY <1>1, <2>1, TakenInv
<1>3. CASE p.topic = "inbox" /\ mqtt[n].enabled
  <2>1. main' = [main EXCEPT ![n] = m]
    BY <1>3, Zenon DEF RecvOne
  <2>2. h \in Hal /\ RingOK(h) /\ p \in Pub
    <3>1. hal[n] \in Hal /\ RingOK(hal[n])
      BY NodeFacts
    <3> QED
      BY <1>1, <3>1, RingTaken DEF RingOK
  <2> HIDE DEF h, p
  <2>3. e \in Network!Envelope /\ e.source = p.source /\ e.number = p.number
    BY <2>2, Fields DEF Network!Envelope
  <2> HIDE DEF e
  <2>4. s \in Seq(Network!Envelope)
    BY <2>3, NodeFacts, AppendProperties
  <2>5. Line(received[n], s, h, routed[n], SentTo(n))
    BY <1>1, <1>3, <2>2, <2>3, NodeFacts, LineTake DEF p, h, IsRaft
  <2> HIDE DEF s
  <2>6. m \in Main /\ m.out = s
    <3>1. "idle" \in {"idle", "recv", "drain", "subscribe", "announce"}
      OBVIOUS
    <3> QED
      BY <2>4, <3>1, NodeFacts, MainUpdates, Zenon
  <2> HIDE DEF m
  <2>7. Good(received[n], m, h, routed[n], SentTo(n))
    BY <2>2, <2>5, <2>6 DEF Good
  <2>8. hal' = [hal EXCEPT ![n] = h]
    BY <1>1 DEF h
  <2>9. /\ routed[n] \in Seq(Pub) /\ received[n] \in Seq(Network!Envelope)
        /\ routed' = [routed EXCEPT ![n] = routed[n]]
        /\ received' = [received EXCEPT ![n] = received[n]] /\ UNCHANGED sent
    BY <1>1, NodeFacts
  <2> QED
    BY <2>1, <2>2, <2>6, <2>7, <2>8, <2>9, NodeStep
<1> QED
  BY <1>2, <1>3

\* mqtt_recv returns: the engine has the messages.
LEMMA EndRecvInv ==
    ASSUME TransportInv, NEW n \in Node, EndRecv(n)
    PROVE  TransportInv'
<1> DEFINE rec == received[n] \o main[n].out
<1>1. /\ received' = [received EXCEPT ![n] = rec] /\ main' = [main EXCEPT ![n] = Idle]
      /\ UNCHANGED <<hal, routed, sent>>
  BY Zenon DEF EndRecv
<1>2. /\ rec \in Seq(Network!Envelope)
      /\ Line(rec, << >>, hal[n], routed[n], SentTo(n))
  BY NodeFacts, LineReceive, Zenon
<1>3. Idle \in Main /\ Idle.out = << >>
  BY DEF Idle, Main
<1> HIDE DEF rec
<1>4. Good(rec, Idle, hal[n], routed[n], SentTo(n))
  BY <1>2, <1>3, NodeFacts DEF Good
<1> QED
  BY <1>1, <1>2, <1>3, <1>4, NodeFacts, NodeStep

\* The process starts anew with an empty ring.
LEMMA CrashInv ==
    ASSUME TransportInv, NEW n \in Node, Crash(n)
    PROVE  TransportInv'
<1>1. /\ hal' = [hal EXCEPT ![n] = InitialHal] /\ main' = [main EXCEPT ![n] = Idle]
      /\ routed' = [routed EXCEPT ![n] = << >>] /\ UNCHANGED <<sent, received>>
  BY DEF Crash
<1>2. InitialHal \in Hal /\ RingOK(InitialHal) /\ InRing(InitialHal) = {}
  <2>1. Size \in Nat
    BY Fields
  <2>2. InitialHal.r_head = 0 /\ InitialHal.r_tail = 0 /\ InitialHal \in Hal
    BY DEF InitialHal, Hal
  <2> QED
    BY <2>1, <2>2 DEF InRing, RingOK
<1>3. Idle \in Main /\ Idle.out = << >> /\ << >> \in Seq(Pub)
  BY DEF Idle, Main
<1>4. Line(received[n], << >>, InitialHal, << >>, SentTo(n))
  <2>1. HandedOver(received[n], SentTo(n))
    BY NodeFacts DEF Line
  <2> QED
    BY <1>2, <2>1 DEF Line, Collected, Buffered, Waiting
<1>5. Good(received[n], Idle, InitialHal, << >>, SentTo(n))
  BY <1>2, <1>3, <1>4 DEF Good
<1> QED
  BY <1>1, <1>2, <1>3, <1>5, NodeFacts, NodeStep

\* Calls that begin or end, connections that are made and lost.
LEMMA OtherStepsInv ==
    ASSUME TransportInv, NEW n \in Node,
           \/ BeginRecv(n) \/ Disable(n) \/ EndDrain(n)
           \/ Connect(n) \/ Subscribe(n) \/ Discover(n)
           \/ SubscribeFails(n) \/ raft_mqtt_transport_stop(n) \/ LoseLink(n)
    PROVE  TransportInv'
<1> DEFINE Place == {"idle", "recv", "drain", "subscribe", "announce"}
<1>1. /\ hal[n] \in Hal /\ main[n] \in Main
      /\ hal = [hal EXCEPT ![n] = hal[n]] /\ main = [main EXCEPT ![n] = main[n]]
      /\ routed = [routed EXCEPT ![n] = routed[n]]
  BY NodeFacts
<1>2. \A m \in Main, a \in Place :
          /\ [m EXCEPT !.at = a] \in Main /\ [m EXCEPT !.at = a].out = m.out
          /\ [at |-> a, out |-> << >>] \in Main /\ [at |-> a, out |-> << >>].out = << >>
  <2> SUFFICES ASSUME NEW m \in Main, NEW a \in Place
               PROVE  /\ [m EXCEPT !.at = a] \in Main /\ [m EXCEPT !.at = a].out = m.out
                      /\ [at |-> a, out |-> << >>] \in Main
                      /\ [at |-> a, out |-> << >>].out = << >>
    OBVIOUS
  <2>1. m.out \in Seq(Network!Envelope)
    BY Fields
  <2> QED
    BY <2>1, MainUpdates, Zenon
<1>3. Idle \in Main /\ Idle.out = << >>
  BY DEF Idle, Main
<1>4. "recv" \in Place /\ "drain" \in Place /\ "subscribe" \in Place /\ "announce" \in Place
  OBVIOUS
<1> HIDE DEF Place
<1>5. UNCHANGED <<sent, received>>
  BY DEF BeginRecv, Disable, EndDrain, Connect, Subscribe, Discover, SubscribeFails,
         raft_mqtt_transport_stop, LoseLink
<1>6. PICK m \in Main : main' = [main EXCEPT ![n] = m] /\ m.out \in {main[n].out, << >>}
  <2>1. CASE BeginRecv(n)
    <3> DEFINE m == [at |-> "recv", out |-> << >>]
    <3>1. main' = [main EXCEPT ![n] = m]
      BY <2>1, Zenon DEF BeginRecv
    <3>2. m \in Main /\ m.out = << >>
      BY <1>1, <1>2, <1>4, Zenon
    <3> QED
      BY <3>1, <3>2, Zenon
  <2>2. CASE Disable(n)
    <3> DEFINE m == [main[n] EXCEPT !.at = "drain"]
    <3>1. main' = [main EXCEPT ![n] = m]
      BY <2>2, Zenon DEF Disable
    <3>2. m \in Main /\ m.out = main[n].out
      BY <1>1, <1>2, <1>4, Zenon
    <3> QED
      BY <3>1, <3>2, Zenon
  <2>3. CASE Connect(n)
    <3> DEFINE m == [main[n] EXCEPT !.at = "subscribe"]
    <3>1. main' = [main EXCEPT ![n] = m]
      BY <2>3, Zenon DEF Connect
    <3>2. m \in Main /\ m.out = main[n].out
      BY <1>1, <1>2, <1>4, Zenon
    <3> QED
      BY <3>1, <3>2, Zenon
  <2>4. CASE Discover(n)
    <3> DEFINE m == [main[n] EXCEPT !.at = "announce"]
    <3>1. main' = [main EXCEPT ![n] = m]
      BY <2>4, Zenon DEF Discover
    <3>2. m \in Main /\ m.out = main[n].out
      BY <1>1, <1>2, <1>4, Zenon
    <3> QED
      BY <3>1, <3>2, Zenon
  <2>5. CASE EndDrain(n) \/ Subscribe(n) \/ SubscribeFails(n)
    <3>1. main' = [main EXCEPT ![n] = Idle]
      BY <2>5, Zenon DEF EndDrain, Subscribe, SubscribeFails
    <3> QED
      BY <1>3, <3>1, Zenon
  <2>6. CASE raft_mqtt_transport_stop(n) \/ LoseLink(n)
    <3>1. main' = [main EXCEPT ![n] = main[n]]
      BY <1>1, <2>6, Zenon DEF raft_mqtt_transport_stop, LoseLink
    <3> QED
      BY <1>1, <3>1, Zenon
  <2> QED
    BY <2>1, <2>2, <2>3, <2>4, <2>5, <2>6, Zenon
<1>7. PICK h \in Hal : /\ hal' = [hal EXCEPT ![n] = h] /\ h.ring = hal[n].ring
                       /\ h.r_head = hal[n].r_head /\ h.r_tail = hal[n].r_tail
  <2>1. CASE LoseLink(n)
    <3> DEFINE h == [hal[n] EXCEPT !.link = FALSE]
    <3>1. hal' = [hal EXCEPT ![n] = h]
      BY <2>1, Zenon DEF LoseLink
    <3>2. h \in Hal /\ h.ring = hal[n].ring /\ h.r_head = hal[n].r_head /\ h.r_tail = hal[n].r_tail
      <4>1. FALSE \in BOOLEAN
        OBVIOUS
      <4> QED
        BY <1>1, <4>1, HalUpdates, Zenon
    <3> QED
      BY <3>1, <3>2, Zenon
  <2>2. CASE Connect(n)
    <3> DEFINE h == [hal[n] EXCEPT !.link = TRUE, !.thread = TRUE]
    <3>1. hal' = [hal EXCEPT ![n] = h]
      <4>1. hal \in [Node -> Hal] /\ hal' = [hal EXCEPT ![n].link = TRUE, ![n].thread = TRUE]
        BY <2>2, Zenon DEF Connect, TransportInv, TypeInv
      <4> QED
        BY <4>1, Zenon
    <3>2. h \in Hal /\ h.ring = hal[n].ring /\ h.r_head = hal[n].r_head /\ h.r_tail = hal[n].r_tail
      <4>1. TRUE \in BOOLEAN
        OBVIOUS
      <4> QED
        BY <1>1, <4>1, HalUpdates, Zenon
    <3> QED
      BY <3>1, <3>2, Zenon
  <2>3. CASE SubscribeFails(n) \/ raft_mqtt_transport_stop(n)
    <3> DEFINE h == [hal[n] EXCEPT !.link = FALSE, !.thread = FALSE]
    <3>1. hal' = [hal EXCEPT ![n] = h]
      <4>1. hal \in [Node -> Hal] /\ hal' = [hal EXCEPT ![n].link = FALSE, ![n].thread = FALSE]
        BY <2>3, Zenon DEF SubscribeFails, raft_mqtt_transport_stop, Disconnect, TransportInv, TypeInv
      <4> QED
        BY <4>1, Zenon
    <3>2. h \in Hal /\ h.ring = hal[n].ring /\ h.r_head = hal[n].r_head /\ h.r_tail = hal[n].r_tail
      <4>1. FALSE \in BOOLEAN
        OBVIOUS
      <4> QED
        BY <1>1, <4>1, HalUpdates, Zenon
    <3> QED
      BY <3>1, <3>2, Zenon
  <2>4. CASE BeginRecv(n) \/ Disable(n) \/ EndDrain(n) \/ Subscribe(n) \/ Discover(n)
    <3>1. hal' = [hal EXCEPT ![n] = hal[n]]
      BY <1>1, <2>4, Zenon DEF BeginRecv, Disable, EndDrain, Subscribe, Discover
    <3> QED
      BY <1>1, <3>1, Zenon
  <2> QED
    BY <2>1, <2>2, <2>3, <2>4, Zenon
<1>8. PICK w \in {routed[n], << >>} : routed' = [routed EXCEPT ![n] = w]
  <2>1. CASE SubscribeFails(n) \/ raft_mqtt_transport_stop(n) \/ LoseLink(n)
    BY <2>1, Zenon DEF SubscribeFails, raft_mqtt_transport_stop, LoseLink, Disconnect
  <2>2. CASE BeginRecv(n) \/ Disable(n) \/ EndDrain(n) \/ Connect(n) \/ Subscribe(n) \/ Discover(n)
    BY <1>1, <2>2, Zenon DEF BeginRecv, Disable, EndDrain, Connect, Subscribe, Discover
  <2> QED
    BY <2>1, <2>2, Zenon
<1> QED
  BY <1>5, <1>6, <1>7, <1>8, NodeMoves

\* A publish that is no Raft message may reach any node.
LEMMA AnnounceInv ==
    ASSUME TransportInv, NEW n \in Node, Announce(n)
    PROVE  TransportInv'
<1> DEFINE p == Announcement(n)
<1>1. p \in Pub /\ ~IsRaft(p)
  BY DEF Announcement, Pub, IsRaft
<1>2. /\ Publish(n, "join", Node, p) /\ main' = [main EXCEPT ![n] = Idle]
      /\ UNCHANGED <<hal, sent, received>>
  BY DEF Announce
<1> HIDE DEF p
<1>3. /\ routed' \in [Node -> Seq(Pub)]
      /\ \A b \in Node : routed'[b] \in {routed[b], Append(routed[b], p)}
  <2>1. \A b \in Node : routed[b] \in Seq(Pub) /\ Append(routed[b], p) \in Seq(Pub)
    BY <1>1, NodeFacts, AppendProperties
  <2> QED
    BY <1>2, <2>1 DEF Publish, TransportInv, TypeInv
<1>4. Idle \in Main /\ Idle.out = << >>
  BY DEF Idle, Main
<1>5. TypeInv'
  BY <1>2, <1>3, <1>4 DEF TransportInv, TypeInv
<1>6. ASSUME NEW b \in Node PROVE Good(received[b], main[b], hal[b], routed[b], SentTo(b))'
  <2>1. SentTo(b)' = SentTo(b) /\ hal'[b] = hal[b] /\ received'[b] = received[b]
    BY <1>2 DEF SentTo
  <2>2. main'[b].out \in {main[b].out, << >>}
    BY <1>2, <1>4 DEF TransportInv, TypeInv
  <2>3. Line(received[b], main[b].out, hal[b], routed'[b], SentTo(b))
    <3>1. /\ routed[b] \in Seq(Pub) /\ hal[b] \in Hal
          /\ Line(received[b], main[b].out, hal[b], routed[b], SentTo(b))
      BY NodeFacts
    <3>2. Line(received[b], main[b].out, hal[b], Append(routed[b], p), SentTo(b))
      BY <1>1, <3>1, LineAppend
    <3> QED
      BY <1>3, <3>1, <3>2
  <2>4. Line(received[b], main'[b].out, hal[b], routed'[b], SentTo(b))
    BY <2>2, <2>3, NodeFacts, LineDrops
  <2> QED
    BY <2>1, <2>4, NodeFacts DEF Good
<1> QED
  BY <1>5, <1>6 DEF TransportInv

\* mqtt_send: a message of a, numbered after all its earlier ones, is routed to b or lost.
LEMMA SendInv ==
    ASSUME TransportInv, NEW a \in Node, NEW b \in Node, mqtt_send(a, b)
    PROVE  TransportInv'
<1> DEFINE p == Message(a, sent[a][b] + 1)
           more == [SentTo(b) EXCEPT ![a] = @ + 1]
<1>1. sent \in [Node -> [Node -> Nat]] /\ SentTo(b)[a] = sent[a][b] /\ sent[a][b] \in Nat
  BY DEF TransportInv, TypeInv, SentTo
<1>2. p \in Pub /\ IsRaft(p) /\ p.source = a /\ p.number = SentTo(b)[a] + 1
  BY <1>1 DEF Message, Pub, IsRaft
<1>3. /\ Publish(a, "inbox", {b}, p) /\ sent' = [sent EXCEPT ![a][b] = @ + 1]
      /\ UNCHANGED <<hal, main, received>>
  BY DEF mqtt_send
<1> HIDE DEF p
<1>4. /\ sent' \in [Node -> [Node -> Nat]]
      /\ [d \in Node |-> sent'[d][b]] = more
      /\ \A c \in Node \ {b} : [d \in Node |-> sent'[d][c]] = SentTo(c)
  <2>1. sent' \in [Node -> [Node -> Nat]] /\ sent'[a][b] = sent[a][b] + 1
    BY <1>1, <1>3
  <2>2. \A d \in Node, c \in Node : d # a \/ c # b => sent'[d][c] = sent[d][c]
    BY <1>1, <1>3
  <2> QED
    BY <1>1, <2>1, <2>2 DEF SentTo
<1>5. /\ routed' \in [Node -> Seq(Pub)]
      /\ routed'[b] \in {routed[b], Append(routed[b], p)}
      /\ \A c \in Node \ {b} : routed'[c] = routed[c]
  <2>1. \A c \in Node : routed[c] \in Seq(Pub) /\ Append(routed[c], p) \in Seq(Pub)
    BY <1>2, NodeFacts, AppendProperties
  <2> QED
    BY <1>3, <2>1 DEF Publish, TransportInv, TypeInv
<1>6. TypeInv'
  BY <1>3, <1>4, <1>5 DEF TransportInv, TypeInv
<1>7. ASSUME NEW c \in Node PROVE Good(received[c], main[c], hal[c], routed[c], SentTo(c))'
  <2>1. CASE c = b
    <3>1. Line(received[b], main[b].out, hal[b], routed[b], more)
      BY NodeFacts, LineGrows
    <3>2. Line(received[b], main[b].out, hal[b], Append(routed[b], p), more)
      <4>1. /\ routed[b] \in Seq(Pub) /\ hal[b] \in Hal /\ RingOK(hal[b])
            /\ received[b] \in Seq(Network!Envelope) /\ main[b].out \in Seq(Network!Envelope)
            /\ SentTo(b) \in [Node -> Nat]
            /\ Line(received[b], main[b].out, hal[b], routed[b], SentTo(b))
        BY NodeFacts
      <4> QED
        BY <1>2, <4>1, LineSend
    <3>3. SentTo(b)' = more
      BY <1>4 DEF SentTo
    <3> HIDE DEF more
    <3> QED
      BY <1>3, <1>5, <2>1, <3>1, <3>2, <3>3, NodeFacts DEF Good
  <2>2. CASE c # b
    <3>1. SentTo(c)' = SentTo(c) /\ routed'[c] = routed[c]
      BY <1>4, <1>5, <2>2 DEF SentTo
    <3> QED
      BY <1>3, <3>1, NodeFacts DEF Good
  <2> QED
    BY <2>1, <2>2
<1> QED
  BY <1>6, <1>7 DEF TransportInv

-----------------------------------------------------------------------------
\* Nothing is sent, held or handed over in an initial state.
LEMMA InitInv == Init => TransportInv
<1> SUFFICES ASSUME Init PROVE TransportInv
  OBVIOUS
<1>1. InitialHal \in Hal /\ InitialHal.r_head = 0 /\ InitialHal.r_tail = 0
  BY DEF InitialHal, Hal
<1>2. Idle \in Main /\ Idle.out = << >>
  BY DEF Idle, Main
<1>3. TypeInv
  BY <1>1, <1>2 DEF Init, TypeInv
<1>4. ASSUME NEW n \in Node PROVE Good(received[n], main[n], hal[n], routed[n], SentTo(n))
  <2>1. hal[n] = InitialHal /\ main[n] = Idle /\ routed[n] = << >> /\ received[n] = << >>
    BY DEF Init
  <2>2. RingOK(InitialHal) /\ InRing(InitialHal) = {}
    BY <1>1, Fields DEF RingOK, InRing
  <2>3. Line(<< >>, << >>, InitialHal, << >>, SentTo(n))
    BY <2>2 DEF Line, HandedOver, Collected, Buffered, Waiting
  <2> QED
    BY <1>2, <2>1, <2>2, <2>3 DEF Good
<1> QED
  BY <1>3, <1>4 DEF TransportInv

\* The state the invariant is about does not change.
LEMMA Unmoved ==
    ASSUME TransportInv, UNCHANGED <<hal, main, routed, sent, received>>
    PROVE  TransportInv'
BY DEF TransportInv, TypeInv, SentTo

\* Every step of a thread, of the application and of the broker keeps the invariant.
LEMMA NextInv == TransportInv /\ [Next]_vars => TransportInv'
<1> SUFFICES ASSUME TransportInv, [Next]_vars PROVE TransportInv'
  OBVIOUS
<1>1. CASE UNCHANGED vars
  BY <1>1, Unmoved DEF vars
<1>2. ASSUME NEW n \in Node, MainStep(n) PROVE TransportInv'
  <2>1. CASE DrainOne(n)
    <3>1. /\ ~IsEmpty(hal[n]) /\ hal' = [hal EXCEPT ![n] = Taken(hal[n])]
          /\ UNCHANGED <<main, routed, sent, received>>
      BY <2>1, Zenon DEF DrainOne
    <3> QED
      BY <3>1, TakenInv
  <2> QED
    BY <1>2, <2>1, RecvOneInv, EndRecvInv, OtherStepsInv, AnnounceInv DEF MainStep
<1>3. ASSUME NEW n \in Node, mqtt_recv_commands(n) \/ ReportJoins(n) PROVE TransportInv'
  BY <1>3, Unmoved DEF mqtt_recv_commands, ReportJoins
<1>4. ASSUME NEW n \in Node, NEW m \in Observed, mqtt_send(n, m) PROVE TransportInv'
  BY <1>4, MqttAssumption, SendInv
<1>5. ASSUME NEW n \in Node, Operation(n) PROVE TransportInv'
  <2>1. CASE mqtt_submit_command(n) \/ Enable(n) \/ Expel(n) \/ ResetForJoin(n)
    BY <2>1, Unmoved DEF mqtt_submit_command, Enable, Expel, ResetForJoin
  <2> QED
    BY <1>5, <2>1, OtherStepsInv, CrashInv DEF Operation
<1> QED
  BY <1>1, <1>2, <1>3, <1>4, <1>5, ProcessLoopInv, OtherStepsInv DEF Next

\* The inductive invariant holds of every reachable state.
LEMMA Invariance == Spec => []TransportInv
BY InitInv, NextInv, PTL DEF Spec

\* What was added to a sequence is its end.
LEMMA BatchOfConcat ==
    ASSUME NEW S, NEW s \in Seq(S), NEW e \in Seq(S), Len(e) # 0
    PROVE  /\ SubSeq(s \o e, Len(s) + 1, Len(s \o e)) = e
           /\ Len(s \o e) > Len(s)
<1>1. Len(s) \in Nat /\ Len(e) \in Nat
  BY LenProperties
<1>2. s \o e \in Seq(S) /\ Len(s \o e) = Len(s) + Len(e)
  BY ConcatProperties, Zenon
<1> DEFINE all == s \o e
           b == SubSeq(all, Len(s) + 1, Len(all))
<1>3. \A i \in 1..Len(e) : all[Len(s) + i] = e[i]
  <2>1. \A i \in 1..(Len(s) + Len(e)) :
            all[i] = IF i <= Len(s) THEN s[i] ELSE e[i - Len(s)]
    BY ConcatProperties, Zenon
  <2> HIDE DEF all
  <2> QED
    BY <1>1, <2>1
<1> HIDE DEF all
<1>4. \A i \in (Len(s) + 1)..Len(all) : all[i] \in S
  <2>1. all \in Seq(S)
    BY <1>2 DEF all
  <2> QED
    BY <1>1, <2>1, ElementOfSeq
<1>5. Len(all) = Len(s) + Len(e)
  BY <1>2 DEF all
<1>6. /\ b \in Seq(S) /\ Len(b) = Len(e)
      /\ \A i \in 1..Len(e) : b[i] = all[Len(s) + i]
  BY <1>1, <1>4, <1>5, SubSeqProperties
<1>7. b = e
  <2> HIDE DEF b
  <2> QED
    BY <1>3, <1>6, SeqEqual
<1> QED
  BY <1>1, <1>5, <1>7 DEF all

\* A call of mqtt_recv that found messages is, when it returns, a step of the abstract network.
LEMMA RecvRefines ==
    ASSUME TransportInv, NEW n \in Node, EndRecv(n), Len(main[n].out) # 0
    PROVE  Network!Next
<1> DEFINE e == main[n].out
           all == received[n] \o e
           batch == SubSeq(all, Len(received[n]) + 1, Len(all))
<1>1. /\ hal[n] \in Hal /\ received[n] \in Seq(Network!Envelope)
      /\ e \in Seq(Network!Envelope)
      /\ Line(received[n], e, hal[n], routed[n], SentTo(n))
      /\ received \in [Node -> Seq(Network!Envelope)]
  BY NodeFacts DEF TransportInv, TypeInv
<1>2. received' = [received EXCEPT ![n] = all] /\ sent' = sent
  BY Zenon DEF EndRecv
<1> HIDE DEF e
<1>3. all \in Seq(Network!Envelope) /\ Line(all, << >>, hal[n], routed[n], SentTo(n))
  BY <1>1, LineReceive, Zenon
<1>4. batch = e /\ Len(all) > Len(received[n])
  BY <1>1, BatchOfConcat DEF e
<1>5. received'[n] = all
  BY <1>1, <1>2
<1>6. ASSUME NEW i \in 1..Len(e) PROVE e[i] \in Network!Envelope /\ Network!WasSentTo(n, e[i])
  <2>1. e[i] \in Network!Envelope /\ e[i].source \in Node
    BY <1>1, Fields, ElementOfSeq
  <2>2. WasSent(e[i], SentTo(n))
    BY <1>1 DEF Line, Collected
  <2> QED
    BY <2>1, <2>2 DEF Network!WasSentTo, WasSent, SentTo
<1>7. Network!InOrder(received[n] \o e)
  <2> HIDE DEF all
  <2>1. HandedOver(all, SentTo(n)) /\ Len(all) \in Nat
    BY <1>3, LenProperties DEF Line
  <2>2. \A i, j \in 1..Len(all) : i < j => Older(all[i], all[j])
    BY <2>1 DEF HandedOver
  <2>3. Network!InOrder(all)
    BY <2>2 DEF Network!InOrder, Older
  <2> QED
    BY <2>3 DEF all
<1>8. Network!Receive(n, e)
  BY <1>2, <1>6, <1>7 DEF Network!Receive
<1>9. /\ Len(received'[n]) > Len(received[n])
      /\ Network!Receive(n, SubSeq(received'[n], Len(received[n]) + 1, Len(received'[n])))
  BY <1>4, <1>5, <1>8, Zenon
<1> QED
  BY <1>9, Zenon DEF Network!Next

\* A call that found none changes nothing the engine sees.
LEMMA EmptyRecv ==
    ASSUME TransportInv, NEW n \in Node, EndRecv(n), Len(main[n].out) = 0
    PROVE  UNCHANGED <<sent, received>>
<1>1. /\ received[n] \in Seq(Network!Envelope) /\ main[n].out \in Seq(Network!Envelope)
      /\ received = [received EXCEPT ![n] = received[n]]
  BY NodeFacts
<1>2. main[n].out = << >>
  BY <1>1, EmptySeq
<1>3. received[n] \o main[n].out = received[n]
  BY <1>1, <1>2, ConcatEmptySeq
<1>4. received' = [received EXCEPT ![n] = received[n] \o main[n].out] /\ sent' = sent
  BY Zenon DEF EndRecv
<1> QED
  BY <1>1, <1>3, <1>4

\* The MQTT transport, with its thread, its ring, its reconnections and its crashes, is a
\* network that loses messages but neither invents, repeats, misdelivers nor reorders them.
THEOREM MqttImplementsNetwork == Spec => ImplementsNetwork
<1>1. Init => Network!Init
  BY DEF Init, Network!Init
<1>2. TransportInv /\ [Next]_vars => [Network!Next]_(Network!networkVars)
  <2> SUFFICES ASSUME TransportInv, [Next]_vars
               PROVE  [Network!Next]_(Network!networkVars)
    OBVIOUS
  <2>1. CASE UNCHANGED <<sent, received>>
    BY <2>1 DEF Network!networkVars
  <2>2. ASSUME NEW n \in Node, EndRecv(n) PROVE Network!Next \/ UNCHANGED <<sent, received>>
    BY <2>2, RecvRefines, EmptyRecv
  <2>3. ASSUME NEW n \in Node, NEW m \in Observed, mqtt_send(n, m) PROVE Network!Next
    BY <2>3, MqttAssumption DEF mqtt_send, Network!Next, Network!Send
  <2>4. ASSUME NEW n \in Node, MainStep(n), ~EndRecv(n) PROVE UNCHANGED <<sent, received>>
    BY <2>4 DEF MainStep, RecvOne, DrainOne, EndDrain, Subscribe, Announce
  <2>5. ASSUME NEW n \in Node,
               \/ ProcessLoop(n) \/ BeginRecv(n) \/ mqtt_recv_commands(n)
               \/ ReportJoins(n) \/ Connect(n) \/ Discover(n)
        PROVE  UNCHANGED <<sent, received>>
    BY <2>5 DEF ProcessLoop, BeginRecv, mqtt_recv_commands, ReportJoins, Connect, Discover
  <2>6. ASSUME NEW n \in Node, Operation(n) PROVE UNCHANGED <<sent, received>>
    BY <2>6 DEF Operation, mqtt_submit_command, Enable, Disable, Expel, ResetForJoin,
                SubscribeFails, raft_mqtt_transport_stop, LoseLink, Crash
  <2> QED
    BY <2>1, <2>2, <2>3, <2>4, <2>5, <2>6, Zenon DEF Next, vars
<1> QED
  BY <1>1, <1>2, Invariance, PTL DEF Spec, ImplementsNetwork, Network!Spec
=============================================================================
