--------------------------- MODULE RaftTcpProofs ---------------------------
(***************************************************************************)
(* The TCP transport implements RaftNetwork, for any number of processes,  *)
(* any sizes of the queues and of the backlog, and any number of frames,   *)
(* stops and crashes.                                                      *)
(*                                                                         *)
(* Neither the order of what is handed over nor that it was sent can be    *)
(* seen from sent and received alone: it depends on the frames between     *)
(* them.  A frame passes through the backlog, the listener thread and      *)
(* in_queue.  Flow says that along this way one sender's messages are in   *)
(* the order of their numbers and that none has a number its sender has    *)
(* not reached; every action takes frames one stage on or drops some.      *)
(***************************************************************************)
EXTENDS RaftTcpTransport, SequenceTheorems, TLAPS

Tcp == [running : BOOLEAN, enabled : BOOLEAN, shutdown : BOOLEAN, listening : BOOLEAN,
        started : BOOLEAN, in_queue : Seq(Frame), join_queue : Seq(Frame),
        fwd_cmd_queue : Seq(Frame), cmd_queue : Nat, peers : SUBSET Node]

Position == {"off", "loop", "select", "recv", "gate", "store"}

Thread == [at : Position, frame : Frame]

Main == [at : {"setup", "setup_save", "save", "idle", "clear", "stop"}, rest : SUBSET Node]

TypeInv ==
    /\ tcp \in [Node -> Tcp] /\ listener \in [Node -> Thread] /\ main \in [Node -> Main]
    /\ backlog \in [Node -> Seq(Frame)]
    /\ files \in [Node -> [peers : SUBSET Node, self : BOOLEAN]]
    /\ sent \in [Node -> [Node -> Nat]]
    /\ received \in [Node -> Seq(Network!Envelope)]
    /\ budget \in [frames : Nat, operations : Nat]

\* x and y are frames or envelopes for one target.
Older(x, y) == x.source = y.source => x.number < y.number

NewerThan(x, s) == \A i \in 1..Len(s) : Older(s[i], x)

\* out[a]: how many messages a has sent to the target.
WasSent(x, out) == x.number \in 1..out[x.source]

IsRaft(f) == f.type = "RAFT"

HoldsMessage(l) == l.at \in {"recv", "gate", "store"} /\ IsRaft(l.frame)

\* The message may come after what was handed over and what is queued.
MayFollow(x, rec, q, out) == WasSent(x, out) /\ NewerThan(x, rec) /\ NewerThan(x, q)

HandedOver(rec, out) ==
    \A i \in 1..Len(rec) :
        WasSent(rec[i], out) /\ \A j \in 1..(i - 1) : Older(rec[j], rec[i])

Queued(q, rec, out) ==
    \A i \in 1..Len(q) :
        /\ IsRaft(q[i]) /\ WasSent(q[i], out) /\ NewerThan(q[i], rec)
        /\ \A j \in 1..(i - 1) : Older(q[j], q[i])

Waiting(w, l, rec, q, out) ==
    \A i \in 1..Len(w) : IsRaft(w[i]) =>
        /\ MayFollow(w[i], rec, q, out)
        /\ HoldsMessage(l) => Older(l.frame, w[i])
        /\ \A j \in 1..(i - 1) : IsRaft(w[j]) => Older(w[j], w[i])

\* The stages of one process: rec, in_queue q, the listener l and the backlog w.
Flow(rec, q, l, w, out) ==
    /\ HandedOver(rec, out)
    /\ Queued(q, rec, out)
    /\ HoldsMessage(l) => MayFollow(l.frame, rec, q, out)
    /\ Waiting(w, l, rec, q, out)

\* StopLeavesOneMessage of one process.
Stopped(t, l, m) ==
    ~t.enabled /\ m.at # "clear" =>
        /\ Len(t.in_queue) <= 1
        /\ l.at = "store" /\ IsRaft(l.frame) => Len(t.in_queue) = 0

\* Only Raft messages are asked whether the transport is enabled; no part of one is stored.
Gated(l) ==
    /\ l.at = "gate" => IsRaft(l.frame)
    /\ l.at = "store" => l.frame.type \notin {"BROKEN", "SILENT"}

SentTo(b) == [a \in Node |-> sent[a][b]]

Good(t, l, m, w, rec, out) ==
    Flow(rec, t.in_queue, l, w, out) /\ Stopped(t, l, m) /\ Gated(l)

TransportInv ==
    /\ TypeInv
    /\ \A n \in Node : Good(tcp[n], listener[n], main[n], backlog[n], received[n], SentTo(n))

-----------------------------------------------------------------------------
(* Records.                                                                *)

\* The fields of a process.
LEMMA ProcessFields ==
    /\ \A t \in Tcp : /\ t.enabled \in BOOLEAN
                      /\ t.in_queue \in Seq(Frame) /\ t.join_queue \in Seq(Frame)
                      /\ t.fwd_cmd_queue \in Seq(Frame) /\ t.cmd_queue \in Nat
                      /\ t.peers \subseteq Node
    /\ \A l \in Thread : l.at \in Position /\ l.frame \in Frame
    /\ \A f \in Frame : f.type \in FrameType /\ f.source \in Node /\ f.number \in Nat
    /\ \A e \in Network!Envelope : e.source \in Node /\ e.number \in Nat
BY DEF Tcp, Thread, Frame, Network!Envelope

\* The updates of a transport that leave its in_queue alone.
LEMMA TcpUpdates ==
    ASSUME NEW t \in Tcp, NEW c \in Nat, NEW p \in SUBSET Node
    PROVE  /\ [t EXCEPT !.cmd_queue = c] \in Tcp
           /\ [t EXCEPT !.cmd_queue = c].in_queue = t.in_queue
           /\ [t EXCEPT !.cmd_queue = c].enabled = t.enabled
           /\ [t EXCEPT !.peers = p] \in Tcp
           /\ [t EXCEPT !.peers = p].in_queue = t.in_queue
           /\ [t EXCEPT !.peers = p].enabled = t.enabled
           /\ Listening(t) \in Tcp
           /\ Listening(t).in_queue = t.in_queue
           /\ Listening(t).enabled = t.enabled
           /\ [t EXCEPT !.shutdown = TRUE, !.listening = FALSE] \in Tcp
           /\ [t EXCEPT !.shutdown = TRUE, !.listening = FALSE].in_queue = t.in_queue
           /\ [t EXCEPT !.shutdown = TRUE, !.listening = FALSE].enabled = t.enabled
BY DEF Tcp, Listening

\* The updates of the queues of frames.
LEMMA QueueUpdates ==
    ASSUME NEW t \in Tcp, NEW q \in Seq(Frame)
    PROVE  /\ [t EXCEPT !.join_queue = q] \in Tcp
           /\ [t EXCEPT !.join_queue = q].in_queue = t.in_queue
           /\ [t EXCEPT !.join_queue = q].enabled = t.enabled
           /\ [t EXCEPT !.fwd_cmd_queue = q] \in Tcp
           /\ [t EXCEPT !.fwd_cmd_queue = q].in_queue = t.in_queue
           /\ [t EXCEPT !.fwd_cmd_queue = q].enabled = t.enabled
           /\ [t EXCEPT !.in_queue = q] \in Tcp
           /\ [t EXCEPT !.in_queue = q].in_queue = q
           /\ [t EXCEPT !.in_queue = q].enabled = t.enabled
           /\ [t EXCEPT !.in_queue = q, !.cmd_queue = 0] \in Tcp
           /\ [t EXCEPT !.in_queue = q, !.cmd_queue = 0].in_queue = q
           /\ [t EXCEPT !.in_queue = q, !.cmd_queue = 0].enabled = t.enabled
BY DEF Tcp, Listening

\* The flags of the node and of its transport.
LEMMA EnabledUpdates ==
    ASSUME NEW t \in Tcp, NEW e \in BOOLEAN
    PROVE  /\ [t EXCEPT !.running = e, !.enabled = e] \in Tcp
           /\ [t EXCEPT !.running = e, !.enabled = e].in_queue = t.in_queue
           /\ [t EXCEPT !.running = e, !.enabled = e].enabled = e
           /\ [t EXCEPT !.running = e] \in Tcp
           /\ [t EXCEPT !.running = e].in_queue = t.in_queue
           /\ [t EXCEPT !.running = e].enabled = t.enabled
BY DEF Tcp, Listening

\* The listener thread moves.
LEMMA ThreadUpdates ==
    ASSUME NEW l \in Thread, NEW a \in Position
    PROVE  /\ [l EXCEPT !.at = a] \in Thread
           /\ [l EXCEPT !.at = a].at = a
           /\ [l EXCEPT !.at = a].frame = l.frame
BY DEF Thread

\* The listener thread ends its turn.
LEMMA TopOfLoopType ==
    ASSUME NEW n \in Node
    PROVE  /\ TopOfLoop \in Thread /\ TopOfLoop.at = "loop"
           /\ ~HoldsMessage(TopOfLoop) /\ Gated(TopOfLoop)
BY DEF TopOfLoop, Thread, Position, NoFrame, Frame, FrameType, HoldsMessage, Gated

\* The listener thread reads a frame.
LEMMA ThreadReads ==
    ASSUME NEW f \in Frame, NEW a \in Position
    PROVE  /\ [at |-> a, frame |-> f] \in Thread
           /\ [at |-> a, frame |-> f].at = a
           /\ [at |-> a, frame |-> f].frame = f
BY DEF Thread

\* The main thread moves.
LEMMA MainUpdates ==
    ASSUME NEW m \in Main, NEW r \in SUBSET Node,
           NEW a \in {"setup", "setup_save", "save", "idle", "clear", "stop"}
    PROVE  /\ [m EXCEPT !.at = a] \in Main
           /\ [m EXCEPT !.at = a].at = a
           /\ [m EXCEPT !.rest = r] \in Main
           /\ [m EXCEPT !.rest = r].at = m.at
           /\ [at |-> a, rest |-> r] \in Main
BY DEF Main

-----------------------------------------------------------------------------
(* Frames move one stage on, or are dropped.                               *)

\* A queue, the listener's frame or the backlog may be dropped, and a frame that is not a
\* Raft message may come anywhere but into in_queue.
LEMMA FlowDrops ==
    ASSUME NEW rec \in Seq(Network!Envelope), NEW q \in Seq(Frame), NEW w \in Seq(Frame),
           NEW l \in Thread, NEW out, Flow(rec, q, l, w, out)
    PROVE  /\ Flow(rec, << >>, l, w, out)
           /\ Flow(rec, q, l, << >>, out)
           /\ \A k \in Thread :
                ~HoldsMessage(k) \/ (HoldsMessage(l) /\ k.frame = l.frame)
                    => Flow(rec, q, k, w, out)
BY DEF Flow, HandedOver, Queued, Waiting, MayFollow, NewerThan, HoldsMessage

\* A connection is added to the backlog.
LEMMA FlowAppend ==
    ASSUME NEW rec \in Seq(Network!Envelope), NEW q \in Seq(Frame), NEW w \in Seq(Frame),
           NEW l \in Thread, NEW out, Flow(rec, q, l, w, out),
           NEW f \in Frame,
           IsRaft(f) => /\ MayFollow(f, rec, q, out)
                        /\ HoldsMessage(l) => Older(l.frame, f)
                        /\ \A i \in 1..Len(w) : IsRaft(w[i]) => Older(w[i], f)
    PROVE  Flow(rec, q, l, Append(w, f), out)
<1>1. Waiting(Append(w, f), l, rec, q, out)
  BY AppendProperties DEF Flow, Waiting
<1> QED
  BY <1>1 DEF Flow

\* The count of one sender grows.
LEMMA FlowGrows ==
    ASSUME NEW rec \in Seq(Network!Envelope), NEW q \in Seq(Frame), NEW w \in Seq(Frame),
           NEW l \in Thread, NEW out \in [Node -> Nat], Flow(rec, q, l, w, out),
           NEW a \in Node, NEW more, more = [out EXCEPT ![a] = @ + 1]
    PROVE  Flow(rec, q, l, w, more)
<1>1. ASSUME NEW x, x.source \in Node, WasSent(x, out) PROVE WasSent(x, more)
  BY <1>1 DEF WasSent
<1>2. /\ \A i \in 1..Len(rec) : rec[i].source \in Node
      /\ \A i \in 1..Len(q) : q[i].source \in Node
      /\ \A i \in 1..Len(w) : w[i].source \in Node
      /\ l.frame.source \in Node
  BY ProcessFields, ElementOfSeq
<1>3. HandedOver(rec, more)
  BY <1>1, <1>2 DEF Flow, HandedOver
<1>4. Queued(q, rec, more)
  BY <1>1, <1>2 DEF Flow, Queued
<1>5. HoldsMessage(l) => MayFollow(l.frame, rec, q, more)
  BY <1>1, <1>2 DEF Flow, MayFollow
<1>6. Waiting(w, l, rec, q, more)
  BY <1>1, <1>2 DEF Flow, Waiting, MayFollow
<1> QED
  BY <1>3, <1>4, <1>5, <1>6 DEF Flow

\* A new message of a is newer than everything on its way.
LEMMA FlowSend ==
    ASSUME NEW rec \in Seq(Network!Envelope), NEW q \in Seq(Frame), NEW w \in Seq(Frame),
           NEW l \in Thread, NEW out \in [Node -> Nat], Flow(rec, q, l, w, out),
           NEW a \in Node, NEW more, more = [out EXCEPT ![a] = @ + 1],
           NEW f \in Frame, IsRaft(f), f.source = a, f.number = out[a] + 1
    PROVE  Flow(rec, q, l, Append(w, f), more)
<1>1. Flow(rec, q, l, w, more)
  BY FlowGrows
<1>2. ASSUME NEW x, x.source \in Node, WasSent(x, out) PROVE Older(x, f)
  BY <1>2 DEF WasSent, Older
<1>3. /\ \A i \in 1..Len(rec) : rec[i].source \in Node
      /\ \A i \in 1..Len(q) : q[i].source \in Node
      /\ \A i \in 1..Len(w) : w[i].source \in Node
      /\ l.frame.source \in Node
  BY ProcessFields, ElementOfSeq
<1>4. WasSent(f, more)
  BY DEF WasSent
<1>5. MayFollow(f, rec, q, more)
  BY <1>2, <1>3, <1>4 DEF MayFollow, NewerThan, Flow, HandedOver, Queued
<1>6. HoldsMessage(l) => Older(l.frame, f)
  BY <1>2, <1>3 DEF Flow, MayFollow
<1>7. \A i \in 1..Len(w) : IsRaft(w[i]) => Older(w[i], f)
  BY <1>2, <1>3 DEF Flow, MayFollow, Waiting
<1> QED
  BY <1>1, <1>5, <1>6, <1>7, FlowAppend

\* Accept takes the head of the backlog.
LEMMA FlowAccept ==
    ASSUME NEW rec \in Seq(Network!Envelope), NEW q \in Seq(Frame), NEW w \in Seq(Frame),
           NEW l \in Thread, NEW out, Flow(rec, q, l, w, out), w # << >>,
           NEW k \in Thread, HoldsMessage(k) => k.frame = Head(w)
    PROVE  Flow(rec, q, k, Tail(w), out)
<1>1. /\ Len(w) \in Nat \ {0} /\ Head(w) = w[1] /\ Len(Tail(w)) = Len(w) - 1
      /\ \A i \in 1..Len(Tail(w)) : Tail(w)[i] = w[i + 1]
  BY HeadTailProperties, EmptySeq
<1>2. HoldsMessage(k) => MayFollow(k.frame, rec, q, out)
  BY <1>1 DEF Flow, Waiting, HoldsMessage
<1>3. ASSUME NEW i \in 1..Len(Tail(w)), IsRaft(Tail(w)[i])
      PROVE  /\ MayFollow(Tail(w)[i], rec, q, out)
             /\ HoldsMessage(k) => Older(k.frame, Tail(w)[i])
             /\ \A j \in 1..(i - 1) : IsRaft(Tail(w)[j]) => Older(Tail(w)[j], Tail(w)[i])
  <2>1. Tail(w)[i] = w[i + 1] /\ i + 1 \in 1..Len(w)
    BY <1>1
  <2>2. /\ MayFollow(w[i + 1], rec, q, out)
        /\ \A j \in 1..i : IsRaft(w[j]) => Older(w[j], w[i + 1])
    BY <1>3, <2>1 DEF Flow, Waiting
  <2> QED
    BY <1>1, <2>1, <2>2 DEF HoldsMessage
<1>4. Waiting(Tail(w), k, rec, q, out)
  BY <1>3 DEF Waiting
<1> QED
  BY <1>2, <1>4 DEF Flow

\* The listener stores the message it holds.
LEMMA FlowStore ==
    ASSUME NEW rec \in Seq(Network!Envelope), NEW q \in Seq(Frame), NEW w \in Seq(Frame),
           NEW l \in Thread, NEW out, Flow(rec, q, l, w, out), HoldsMessage(l),
           NEW k \in Thread, ~HoldsMessage(k)
    PROVE  Flow(rec, Append(q, l.frame), k, w, out)
<1> DEFINE s == Append(q, l.frame)
<1>1. /\ Len(s) = Len(q) + 1 /\ s[Len(q) + 1] = l.frame /\ Len(q) \in Nat
      /\ \A i \in 1..Len(q) : s[i] = q[i]
  BY AppendProperties, ProcessFields, LenProperties
<1> HIDE DEF s
<1>2. Queued(s, rec, out)
  <2>1. Queued(q, rec, out) /\ IsRaft(l.frame) /\ MayFollow(l.frame, rec, q, out)
    BY DEF Flow, HoldsMessage
  <2>2. SUFFICES ASSUME NEW i \in 1..Len(s)
                 PROVE  /\ IsRaft(s[i]) /\ WasSent(s[i], out) /\ NewerThan(s[i], rec)
                        /\ \A j \in 1..(i - 1) : Older(s[j], s[i])
    BY DEF Queued
  <2>3. CASE i \in 1..Len(q)
    <3>1. \A j \in 1..(i - 1) : s[j] = q[j]
      BY <1>1, <2>3
    <3> QED
      BY <1>1, <2>1, <2>3, <3>1 DEF Queued
  <2>4. CASE i = Len(q) + 1
    BY <1>1, <2>1, <2>4 DEF MayFollow, NewerThan
  <2> QED
    BY <1>1, <2>3, <2>4
<1>3. ASSUME NEW x, NewerThan(x, q), Older(l.frame, x) PROVE NewerThan(x, s)
  BY <1>1, <1>3 DEF NewerThan
<1>4. Waiting(w, k, rec, s, out)
  BY <1>3 DEF Flow, Waiting, MayFollow
<1> QED
  BY <1>2, <1>4 DEF Flow, s

\* in_queue is handed over to the engine.
LEMMA FlowReceive ==
    ASSUME NEW rec \in Seq(Network!Envelope), NEW q \in Seq(Frame), NEW w \in Seq(Frame),
           NEW l \in Thread, NEW out, Flow(rec, q, l, w, out)
    PROVE  /\ rec \o Envelopes(q) \in Seq(Network!Envelope)
           /\ Envelopes(q) \in Seq(Network!Envelope) /\ Len(Envelopes(q)) = Len(q)
           /\ Flow(rec \o Envelopes(q), << >>, l, w, out)
<1> DEFINE e == Envelopes(q)
           all == rec \o e
<1>1. /\ Len(q) \in Nat /\ Len(rec) \in Nat
      /\ \A i \in 1..Len(q) : q[i] \in Frame
  BY LenProperties, ElementOfSeq
<1>2. \A i \in 1..Len(q) : [source |-> q[i].source, number |-> q[i].number] \in Network!Envelope
  BY <1>1, ProcessFields DEF Network!Envelope
<1>3. /\ e \in Seq(Network!Envelope) /\ Len(e) = Len(q)
      /\ \A i \in 1..Len(q) : e[i].source = q[i].source /\ e[i].number = q[i].number
  BY <1>1, <1>2 DEF Envelopes
<1> HIDE DEF e
<1>4. /\ all \in Seq(Network!Envelope) /\ Len(all) = Len(rec) + Len(q)
      /\ \A i \in 1..Len(rec) : all[i] = rec[i]
      /\ \A i \in (Len(rec) + 1)..Len(all) : all[i] = e[i - Len(rec)]
  <2>1. /\ all \in Seq(Network!Envelope) /\ Len(all) = Len(rec) + Len(e)
        /\ \A i \in 1..Len(rec) + Len(e) :
             all[i] = IF i <= Len(rec) THEN rec[i] ELSE e[i - Len(rec)]
    BY <1>3, ConcatProperties, Zenon
  <2> HIDE DEF all
  <2> QED
    BY <1>1, <1>3, <2>1
<1> HIDE DEF all
<1>5. ASSUME NEW i \in 1..Len(all)
      PROVE  WasSent(all[i], out) /\ \A j \in 1..(i - 1) : Older(all[j], all[i])
  <2>1. CASE i \in 1..Len(rec)
    <3>1. \A j \in 1..(i - 1) : j \in 1..Len(rec)
      BY <1>1, <2>1
    <3> QED
      BY <1>4, <2>1, <3>1 DEF Flow, HandedOver
  <2>2. CASE i \in (Len(rec) + 1)..Len(all)
    <3>1. PICK k \in 1..Len(q) : k = i - Len(rec)
      BY <1>1, <1>4, <2>2
    <3>2. all[i].source = q[k].source /\ all[i].number = q[k].number
      BY <1>3, <1>4, <2>2, <3>1
    <3>3. ASSUME NEW j \in 1..(i - 1) PROVE Older(all[j], all[i])
      <4>1. CASE j <= Len(rec)
        <5>1. all[j] = rec[j] /\ j \in 1..Len(rec)
          BY <1>1, <1>4, <4>1
        <5>2. Older(rec[j], q[k])
          BY <5>1 DEF Flow, Queued, NewerThan
        <5> QED
          BY <3>2, <5>1, <5>2 DEF Older
      <4>2. CASE j > Len(rec)
        <5> DEFINE h == j - Len(rec)
        <5>1. h \in 1..(k - 1)
          BY <1>1, <1>4, <2>2, <3>1, <4>2
        <5>2. j \in (Len(rec) + 1)..Len(all) /\ h \in 1..Len(q)
          BY <1>1, <1>4, <2>2, <3>1, <4>2, <5>1
        <5>3. all[j].source = q[h].source /\ all[j].number = q[h].number
          BY <1>3, <1>4, <5>1, <5>2
        <5> HIDE DEF h
        <5>4. Older(q[h], q[k])
          BY <5>1 DEF Flow, Queued
        <5> QED
          BY <3>2, <5>3, <5>4 DEF Older
      <4> QED
        BY <1>1, <4>1, <4>2
    <3> QED
      BY <3>2, <3>3 DEF Flow, Queued, WasSent
  <2> QED
    BY <1>1, <1>4, <2>1, <2>2
<1>6. HandedOver(all, out)
  BY <1>5 DEF HandedOver
<1>7. Queued(<< >>, all, out)
  BY DEF Queued
<1>8. ASSUME NEW x, MayFollow(x, rec, q, out) PROVE MayFollow(x, all, << >>, out)
  <2>1. ASSUME NEW i \in 1..Len(all) PROVE Older(all[i], x)
    <3>1. CASE i \in 1..Len(rec)
      BY <1>4, <1>8, <3>1 DEF MayFollow, NewerThan
    <3>2. CASE i \in (Len(rec) + 1)..Len(all)
      <4>1. PICK k \in 1..Len(q) : k = i - Len(rec)
        BY <1>1, <1>4, <3>2
      <4>2. all[i].source = q[k].source /\ all[i].number = q[k].number
        BY <1>3, <1>4, <3>2, <4>1
      <4> QED
        BY <1>8, <4>2 DEF MayFollow, NewerThan, Older
    <3> QED
      BY <1>1, <1>4, <3>1, <3>2
  <2> QED
    BY <1>8, <2>1 DEF MayFollow, NewerThan
<1>9. Waiting(w, l, all, << >>, out)
  BY <1>8 DEF Flow, Waiting
<1> QED
  BY <1>3, <1>4, <1>6, <1>7, <1>8, <1>9 DEF Flow, all, e

-----------------------------------------------------------------------------
(* Steps.                                                                  *)

\* A step of one process that keeps its part of the invariant keeps all of it.
LEMMA ProcessStep ==
    ASSUME TransportInv, NEW n \in Node, NEW t \in Tcp, NEW l \in Thread, NEW m \in Main,
           NEW w \in Seq(Frame), NEW rec \in Seq(Network!Envelope),
           tcp' = [tcp EXCEPT ![n] = t], listener' = [listener EXCEPT ![n] = l],
           main' = [main EXCEPT ![n] = m], backlog' = [backlog EXCEPT ![n] = w],
           received' = [received EXCEPT ![n] = rec],
           sent' \in [Node -> [Node -> Nat]],
           \A a \in Node, b \in Node \ {n} : sent'[a][b] = sent[a][b],
           NEW out \in [Node -> Nat], \A a \in Node : sent'[a][n] = out[a],
           files' \in [Node -> [peers : SUBSET Node, self : BOOLEAN]],
           budget' \in [frames : Nat, operations : Nat],
           Good(t, l, m, w, rec, out)
    PROVE  TransportInv'
<1>1. TypeInv'
  BY DEF TransportInv, TypeInv
<1>2. ASSUME NEW b \in Node
      PROVE  Good(tcp[b], listener[b], main[b], backlog[b], received[b], SentTo(b))'
  <2>2. CASE b = n
    <3>1. tcp'[n] = t /\ listener'[n] = l /\ main'[n] = m /\ backlog'[n] = w /\ received'[n] = rec
      BY DEF TransportInv, TypeInv
    <3>2. SentTo(n)' = out
      BY DEF SentTo
    <3> QED
      BY <2>2, <3>1, <3>2
  <2>3. CASE b # n
    <3>1. /\ tcp'[b] = tcp[b] /\ listener'[b] = listener[b] /\ main'[b] = main[b]
          /\ backlog'[b] = backlog[b] /\ received'[b] = received[b]
      BY <2>3 DEF TransportInv, TypeInv
    <3>2. SentTo(b)' = SentTo(b)
      BY <2>3 DEF SentTo
    <3> QED
      BY <3>1, <3>2 DEF TransportInv
  <2> QED
    BY <2>2, <2>3
<1> QED
  BY <1>1, <1>2 DEF TransportInv

\* The invariant of one process, and what UNCHANGED says of it.
LEMMA ProcessFacts ==
    ASSUME TransportInv, NEW n \in Node
    PROVE  /\ tcp[n] \in Tcp /\ listener[n] \in Thread /\ main[n] \in Main
           /\ backlog[n] \in Seq(Frame) /\ received[n] \in Seq(Network!Envelope)
           /\ SentTo(n) \in [Node -> Nat]
           /\ Flow(received[n], tcp[n].in_queue, listener[n], backlog[n], SentTo(n))
           /\ Stopped(tcp[n], listener[n], main[n]) /\ Gated(listener[n])
           /\ tcp = [tcp EXCEPT ![n] = tcp[n]] /\ listener = [listener EXCEPT ![n] = listener[n]]
           /\ main = [main EXCEPT ![n] = main[n]] /\ backlog = [backlog EXCEPT ![n] = backlog[n]]
           /\ received = [received EXCEPT ![n] = received[n]]
           /\ files \in [Node -> [peers : SUBSET Node, self : BOOLEAN]]
           /\ budget \in [frames : Nat, operations : Nat]
BY DEF TransportInv, TypeInv, Good, SentTo

\* Spending from a budget.
LEMMA SpendType ==
    ASSUME TransportInv, NEW what \in {"frames", "operations"}, Spend(what)
    PROVE  budget' \in [frames : Nat, operations : Nat]
<1>1. PICK b \in [frames : Nat, operations : Nat] : b = budget
  BY DEF TransportInv, TypeInv
<1>2. b["frames"] = b.frames /\ b["operations"] = b.operations /\ b.frames \in Nat /\ b.operations \in Nat
  BY Zenon
<1>3. CASE what = "frames"
  <2>1. b["frames"] > 0 /\ budget' = [b EXCEPT !.frames = b["frames"] - 1]
    BY <1>1, <1>3, Zenon DEF Spend
  <2> QED
    BY <1>2, <2>1
<1>4. CASE what = "operations"
  <2>1. b["operations"] > 0 /\ budget' = [b EXCEPT !.operations = b["operations"] - 1]
    BY <1>1, <1>4, Zenon DEF Spend
  <2> QED
    BY <1>2, <2>1
<1> QED
  BY <1>3, <1>4

\* Sending: the frame, whole or broken, joins the target's backlog or is lost.
LEMMA TransmitInv ==
    ASSUME TransportInv, NEW b \in Node, NEW f \in Frame, Transmit(b, f), Spend("frames"),
           UNCHANGED <<tcp, listener, main, files, received>>,
           sent' \in [Node -> [Node -> Nat]],
           \A a \in Node, c \in Node \ {b} : sent'[a][c] = sent[a][c],
           NEW out \in [Node -> Nat], \A a \in Node : sent'[a][b] = out[a],
           Flow(received[b], tcp[b].in_queue, listener[b], backlog[b], out),
           Flow(received[b], tcp[b].in_queue, listener[b], Append(backlog[b], f), out)
    PROVE  TransportInv'
<1> DEFINE broken == PartOfFrame("BROKEN")
           silent == PartOfFrame("SILENT")
<1>1. broken \in Frame /\ ~IsRaft(broken) /\ silent \in Frame /\ ~IsRaft(silent)
  BY DEF PartOfFrame, NoFrame, Frame, FrameType, IsRaft
<1> HIDE DEF broken, silent
<1>2. PICK w \in {backlog[b], Append(backlog[b], f), Append(backlog[b], broken),
                  Append(backlog[b], silent)} :
          backlog' = [backlog EXCEPT ![b] = w]
  BY ProcessFacts, Zenon DEF Transmit, broken, silent
<1>3. /\ tcp[b] \in Tcp /\ listener[b] \in Thread /\ main[b] \in Main
      /\ backlog[b] \in Seq(Frame) /\ received[b] \in Seq(Network!Envelope)
      /\ tcp[b].in_queue \in Seq(Frame)
      /\ Stopped(tcp[b], listener[b], main[b]) /\ Gated(listener[b])
  BY ProcessFacts, ProcessFields
<1>4. w \in Seq(Frame)
  <2>1. /\ Append(backlog[b], f) \in Seq(Frame) /\ Append(backlog[b], broken) \in Seq(Frame)
        /\ Append(backlog[b], silent) \in Seq(Frame)
    BY <1>1, <1>3, AppendProperties, Zenon
  <2> QED
    BY <1>2, <1>3, <2>1, Zenon
<1>5. Flow(received[b], tcp[b].in_queue, listener[b], w, out)
  BY <1>1, <1>2, <1>3, FlowAppend, Zenon
<1>6. Good(tcp[b], listener[b], main[b], w, received[b], out)
  BY <1>3, <1>5 DEF Good
<1>7. /\ tcp' = [tcp EXCEPT ![b] = tcp[b]] /\ listener' = [listener EXCEPT ![b] = listener[b]]
      /\ main' = [main EXCEPT ![b] = main[b]]
      /\ received' = [received EXCEPT ![b] = received[b]]
      /\ files' \in [Node -> [peers : SUBSET Node, self : BOOLEAN]]
      /\ budget' \in [frames : Nat, operations : Nat]
  BY ProcessFacts, SpendType
<1> QED
  BY <1>2, <1>3, <1>4, <1>6, <1>7, ProcessStep

\* tcp_send: a Raft message of n, numbered after all its earlier ones, is transmitted.
LEMMA SendInv ==
    ASSUME TransportInv, NEW a \in Node, NEW b \in Node, tcp_send(a, b)
    PROVE  TransportInv'
<1> DEFINE f == [type |-> "RAFT", source |-> a, number |-> sent[a][b] + 1]
           out == [SentTo(b) EXCEPT ![a] = @ + 1]
<1>1. f \in Frame /\ IsRaft(f) /\ f.source = a /\ f.number = SentTo(b)[a] + 1
  BY DEF Frame, FrameType, IsRaft, TransportInv, TypeInv, SentTo
<1>2. /\ sent' \in [Node -> [Node -> Nat]]
      /\ \A d \in Node, c \in Node \ {b} : sent'[d][c] = sent[d][c]
      /\ out \in [Node -> Nat] /\ \A d \in Node : sent'[d][b] = out[d]
  <2>1. sent \in [Node -> [Node -> Nat]] /\ sent' = [sent EXCEPT ![a][b] = @ + 1]
    BY DEF tcp_send, TransportInv, TypeInv
  <2>2. /\ sent' \in [Node -> [Node -> Nat]]
        /\ \A d \in Node, c \in Node :
             sent'[d][c] = IF d = a /\ c = b THEN sent[a][b] + 1 ELSE sent[d][c]
    BY <2>1
  <2> QED
    BY <2>1, <2>2 DEF SentTo
<1>3. Transmit(b, f) /\ Spend("frames") /\ UNCHANGED <<tcp, listener, main, files, received>>
  BY DEF tcp_send
<1> HIDE DEF f, out
<1>4. /\ Flow(received[b], tcp[b].in_queue, listener[b], backlog[b], out)
      /\ Flow(received[b], tcp[b].in_queue, listener[b], Append(backlog[b], f), out)
  <2>1. /\ listener[b] \in Thread /\ backlog[b] \in Seq(Frame)
        /\ received[b] \in Seq(Network!Envelope) /\ tcp[b].in_queue \in Seq(Frame)
        /\ SentTo(b) \in [Node -> Nat]
        /\ Flow(received[b], tcp[b].in_queue, listener[b], backlog[b], SentTo(b))
    BY ProcessFacts, ProcessFields
  <2>2. out = [SentTo(b) EXCEPT ![a] = @ + 1]
    BY DEF out
  <2> QED
    BY <1>1, <2>1, <2>2, FlowGrows, FlowSend, Zenon
<1> QED
  BY <1>1, <1>2, <1>3, <1>4, TransmitInv

\* The other frames (forwarded commands, MERGEPEERS announcements) carry no Raft message.
LEMMA SendOtherInv ==
    ASSUME TransportInv, NEW a \in Node, NEW b \in Node, NEW type \in {"JOIN", "CMD"},
           SendOther(a, b, type)
    PROVE  TransportInv'
<1> DEFINE f == [type |-> type, source |-> a, number |-> 0]
           out == SentTo(b)
<1>1. f \in Frame /\ ~IsRaft(f)
  BY DEF Frame, FrameType, IsRaft
<1>2. /\ Transmit(b, f) /\ Spend("frames")
      /\ UNCHANGED <<tcp, listener, main, files, sent, received>>
  BY DEF SendOther
<1> HIDE DEF f
<1>3. /\ sent' \in [Node -> [Node -> Nat]]
      /\ out \in [Node -> Nat] /\ \A d \in Node : sent'[d][b] = out[d]
      /\ \A d \in Node, c \in Node \ {b} : sent'[d][c] = sent[d][c]
  BY <1>2 DEF TransportInv, TypeInv, SentTo
<1>4. /\ Flow(received[b], tcp[b].in_queue, listener[b], backlog[b], out)
      /\ Flow(received[b], tcp[b].in_queue, listener[b], Append(backlog[b], f), out)
  BY <1>1, <1>3, ProcessFacts, ProcessFields, FlowAppend
<1> QED
  BY <1>1, <1>2, <1>3, <1>4, TransmitInv

\* Steps that send nothing.
LEMMA LocalStep ==
    ASSUME TransportInv, NEW n \in Node, NEW t \in Tcp, NEW l \in Thread, NEW m \in Main,
           NEW w \in Seq(Frame),
           tcp' = [tcp EXCEPT ![n] = t], listener' = [listener EXCEPT ![n] = l],
           main' = [main EXCEPT ![n] = m], backlog' = [backlog EXCEPT ![n] = w],
           UNCHANGED <<sent, received>>,
           files' \in [Node -> [peers : SUBSET Node, self : BOOLEAN]],
           budget' \in [frames : Nat, operations : Nat],
           Flow(received[n], t.in_queue, l, w, SentTo(n)), Stopped(t, l, m), Gated(l)
    PROVE  TransportInv'
<1>1. /\ sent' \in [Node -> [Node -> Nat]]
      /\ SentTo(n) \in [Node -> Nat] /\ \A d \in Node : sent'[d][n] = SentTo(n)[d]
      /\ \A d \in Node, c \in Node \ {n} : sent'[d][c] = sent[d][c]
  BY DEF TransportInv, TypeInv, SentTo
<1>2. received' = [received EXCEPT ![n] = received[n]]
  BY ProcessFacts
<1>3. Good(t, l, m, w, received[n], SentTo(n))
  BY DEF Good
<1> QED
  BY <1>1, <1>2, <1>3, ProcessFacts, ProcessStep

\* The listener moves on without a frame for in_queue.
LEMMA ListenerMoves ==
    ASSUME TransportInv, NEW n \in Node, NEW l \in Thread, NEW w \in Seq(Frame),
           listener' = [listener EXCEPT ![n] = l], backlog' = [backlog EXCEPT ![n] = w],
           UNCHANGED <<tcp, main, files, sent, received, budget>>,
           Flow(received[n], tcp[n].in_queue, l, w, SentTo(n)), Gated(l),
           Stopped(tcp[n], l, main[n])
    PROVE  TransportInv'
<1>1. /\ tcp' = [tcp EXCEPT ![n] = tcp[n]] /\ main' = [main EXCEPT ![n] = main[n]]
      /\ tcp[n] \in Tcp /\ main[n] \in Main
      /\ files' \in [Node -> [peers : SUBSET Node, self : BOOLEAN]]
      /\ budget' \in [frames : Nat, operations : Nat]
  BY ProcessFacts
<1> QED
  BY <1>1, LocalStep

\* The listener ends its turn and drops what it held.
LEMMA TurnEnds ==
    ASSUME TransportInv, NEW n \in Node, listener' = [listener EXCEPT ![n] = TopOfLoop],
           UNCHANGED <<tcp, main, backlog, files, sent, received, budget>>
    PROVE  TransportInv'
<1>1. Flow(received[n], tcp[n].in_queue, TopOfLoop, backlog[n], SentTo(n))
  BY TopOfLoopType, ProcessFacts, ProcessFields, FlowDrops
<1>2. Stopped(tcp[n], TopOfLoop, main[n])
  BY TopOfLoopType, ProcessFacts DEF Stopped
<1>3. backlog' = [backlog EXCEPT ![n] = backlog[n]] /\ backlog[n] \in Seq(Frame)
  BY ProcessFacts
<1> QED
  BY <1>1, <1>2, <1>3, TopOfLoopType, ListenerMoves

\* The listener moves on with the frame it has, or without one.
LEMMA TurnGoesOn ==
    ASSUME TransportInv, NEW n \in Node, NEW a \in Position,
           listener' = [listener EXCEPT ![n] = [listener[n] EXCEPT !.at = a]],
           a \in {"gate", "store"} => HoldsMessage(listener[n]) \/ ~IsRaft(listener[n].frame),
           a # "recv",
           a = "gate" => IsRaft(listener[n].frame),
           a = "store" => listener[n].frame.type \notin {"BROKEN", "SILENT"},
           a = "store" => ~IsRaft(listener[n].frame) \/ tcp[n].enabled,
           UNCHANGED <<tcp, main, backlog, files, sent, received, budget>>
    PROVE  TransportInv'
<1> DEFINE l == [listener[n] EXCEPT !.at = a]
<1>1. l \in Thread /\ l.at = a /\ l.frame = listener[n].frame
  BY ProcessFacts, ThreadUpdates, Zenon
<1>2. listener' = [listener EXCEPT ![n] = l]
  OBVIOUS
<1> HIDE DEF l
<1>3. HoldsMessage(l) => HoldsMessage(listener[n])
  BY <1>1 DEF HoldsMessage
<1>4. Flow(received[n], tcp[n].in_queue, l, backlog[n], SentTo(n))
  BY <1>1, <1>3, ProcessFacts, ProcessFields, FlowDrops
<1>5. Gated(l)
  BY <1>1 DEF Gated
<1>6. Stopped(tcp[n], l, main[n])
  BY <1>1, ProcessFacts DEF Stopped
<1>7. backlog' = [backlog EXCEPT ![n] = backlog[n]] /\ backlog[n] \in Seq(Frame)
  BY ProcessFacts
<1> QED
  BY <1>1, <1>2, <1>4, <1>5, <1>6, <1>7, ListenerMoves

\* The test of shutdown moves no frame.
LEMMA TestInv ==
    ASSUME TransportInv, NEW n \in Node, TestShutdown(n)
    PROVE  TransportInv'
<1> DEFINE a == IF tcp[n].shutdown THEN "off" ELSE "select"
<1>1. a \in Position /\ a \notin {"recv", "gate", "store"}
  BY DEF Position
<1>2. /\ listener' = [listener EXCEPT ![n] = [listener[n] EXCEPT !.at = a]]
      /\ UNCHANGED <<tcp, main, backlog, files, sent, received, budget>>
  BY Zenon DEF TestShutdown
<1> HIDE DEF a
<1> QED
  BY <1>1, <1>2, TurnGoesOn

\* The listener accepts a connection: the head of the backlog is what it will read.
LEMMA AcceptInv ==
    ASSUME TransportInv, NEW n \in Node, Accept(n)
    PROVE  TransportInv'
<1> DEFINE f == Head(backlog[n])
           l == [at |-> "recv", frame |-> f]
<1>1. backlog[n] \in Seq(Frame) /\ backlog[n] # << >> /\ listener[n].at = "select"
  BY ProcessFacts DEF Accept, At
<1>2. f \in Frame /\ Tail(backlog[n]) \in Seq(Frame)
  BY <1>1, HeadTailProperties
<1>3. listener' = [listener EXCEPT ![n] = l] /\ backlog' = [backlog EXCEPT ![n] = Tail(@)]
  BY Zenon DEF Accept
<1> HIDE DEF f
<1>4. l \in Thread /\ l.frame = f /\ l.at = "recv"
  <2>1. "recv" \in Position
    BY DEF Position
  <2> QED
    BY <1>2, <2>1, ThreadReads, Zenon
<1> HIDE DEF l
<1>5. HoldsMessage(l) => l.frame = Head(backlog[n])
  BY <1>4 DEF f
<1>6. Flow(received[n], tcp[n].in_queue, l, Tail(backlog[n]), SentTo(n))
  BY <1>1, <1>4, <1>5, ProcessFacts, ProcessFields, FlowAccept
<1>7. Stopped(tcp[n], l, main[n])
  BY <1>4, ProcessFacts DEF Stopped
<1>8. Gated(l)
  BY <1>4 DEF Gated
<1>9. UNCHANGED <<tcp, main, files, sent, received, budget>>
  BY DEF Accept
<1> QED
  BY <1>2, <1>3, <1>4, <1>6, <1>7, <1>8, <1>9, ListenerMoves

\* A frame that has come whole goes to the gate or, if it is no Raft message, to its queue.
LEMMA ReceiveInv ==
    ASSUME TransportInv, NEW n \in Node, Receive(n)
    PROVE  TransportInv'
<1> DEFINE f == listener[n].frame
<1>1. /\ listener[n].at = "recv" /\ f.type # "SILENT"
      /\ UNCHANGED <<tcp, main, backlog, files, sent, received, budget>>
  BY DEF Receive, At, Hangs
<1>2. \/ listener' = [listener EXCEPT ![n] = TopOfLoop]
      \/ /\ f.type = "RAFT"
         /\ listener' = [listener EXCEPT ![n] = [listener[n] EXCEPT !.at = "gate"]]
      \/ /\ f.type \notin {"RAFT", "BROKEN"}
         /\ listener' = [listener EXCEPT ![n] = [listener[n] EXCEPT !.at = "store"]]
  BY Zenon DEF Receive
<1>3. CASE listener' = [listener EXCEPT ![n] = TopOfLoop]
  BY <1>1, <1>3, TurnEnds
<1>4. CASE /\ f.type = "RAFT"
           /\ listener' = [listener EXCEPT ![n] = [listener[n] EXCEPT !.at = "gate"]]
  <2>1. "gate" \in Position /\ HoldsMessage(listener[n]) /\ IsRaft(f)
    BY <1>1, <1>4 DEF Position, HoldsMessage, IsRaft
  <2> QED
    BY <1>1, <1>4, <2>1, TurnGoesOn
<1>5. CASE /\ f.type \notin {"RAFT", "BROKEN"}
           /\ listener' = [listener EXCEPT ![n] = [listener[n] EXCEPT !.at = "store"]]
  <2>1. "store" \in Position /\ ~IsRaft(f)
    BY <1>5 DEF Position, IsRaft
  <2> QED
    BY <1>1, <1>5, <2>1, TurnGoesOn
<1> QED
  BY <1>2, <1>3, <1>4, <1>5

\* The listener looks at enabled before a Raft message is stored.
LEMMA GateInv ==
    ASSUME TransportInv, NEW n \in Node, Gate(n)
    PROVE  TransportInv'
<1>1. /\ listener[n].at = "gate" /\ IsRaft(listener[n].frame)
      /\ UNCHANGED <<tcp, main, backlog, files, sent, received, budget>>
  BY ProcessFacts DEF Gate, At, Gated
<1>2. \/ listener' = [listener EXCEPT ![n] = TopOfLoop]
      \/ /\ tcp[n].enabled
         /\ listener' = [listener EXCEPT ![n] = [listener[n] EXCEPT !.at = "store"]]
  BY Zenon DEF Gate
<1>3. "store" \in Position /\ HoldsMessage(listener[n])
  BY <1>1 DEF Position, HoldsMessage
<1>4. listener[n].frame.type \notin {"BROKEN", "SILENT"}
  BY <1>1 DEF IsRaft
<1> QED
  BY <1>1, <1>2, <1>3, <1>4, TurnEnds, TurnGoesOn

\* The queue of each type of frame.
LEMMA QueueOfTypes ==
    /\ QueueOf("RAFT") = "in_queue" /\ QueueOf("JOIN") = "join_queue"
    /\ QueueOf("CMD") = "fwd_cmd_queue"
BY DEF QueueOf

\* The listener stores the frame it holds in the queue of its type, or drops it when that is full.
LEMMA StoreInv ==
    ASSUME TransportInv, NEW n \in Node, Store(n)
    PROVE  TransportInv'
<1> DEFINE f == listener[n].frame
           q == QueueOf(f.type)
           l == TopOfLoop
           t == [tcp[n] EXCEPT ![q] = IF HasRoom(n, q) THEN Append(tcp[n][q], f) ELSE tcp[n][q]]
<1>1. listener[n].at = "store" /\ f \in Frame /\ tcp[n] \in Tcp
  BY ProcessFacts, ProcessFields DEF Store, At
<1>2. l \in Thread /\ l.at = "loop" /\ ~HoldsMessage(l) /\ Gated(l)
  BY TopOfLoopType
<1>3. tcp' = [tcp EXCEPT ![n] = t] /\ listener' = [listener EXCEPT ![n] = l]
  BY Zenon DEF Store
<1> HIDE DEF l
<1>4. /\ t \in Tcp /\ t.enabled = tcp[n].enabled
      /\ \/ t.in_queue = tcp[n].in_queue
         \/ IsRaft(f) /\ t.in_queue = Append(tcp[n].in_queue, f)
  <2>1. PICK r \in Tcp : r = tcp[n]
    BY <1>1
  <2>2. /\ Append(r.in_queue, f) \in Seq(Frame) /\ Append(r.join_queue, f) \in Seq(Frame)
        /\ Append(r.fwd_cmd_queue, f) \in Seq(Frame)
    BY <1>1, ProcessFields, AppendProperties
  <2>3. CASE q = "join_queue"
    <3>1. PICK v \in {r.join_queue, Append(r.join_queue, f)} : t = [r EXCEPT !.join_queue = v]
      BY <2>1, <2>3, Zenon
    <3>2. v \in Seq(Frame)
      BY <2>2, <3>1, ProcessFields
    <3>3. /\ [r EXCEPT !.join_queue = v] \in Tcp
          /\ [r EXCEPT !.join_queue = v].in_queue = r.in_queue
          /\ [r EXCEPT !.join_queue = v].enabled = r.enabled
      BY <3>2, QueueUpdates, Zenon
    <3> HIDE DEF t
    <3>4. t \in Tcp /\ t.in_queue = r.in_queue /\ t.enabled = r.enabled
      BY <3>1, <3>3, Zenon
    <3> QED
      BY <2>1, <3>1, <3>4, Zenon
  <2>4. CASE q = "fwd_cmd_queue"
    <3>1. PICK v \in {r.fwd_cmd_queue, Append(r.fwd_cmd_queue, f)} :
             t = [r EXCEPT !.fwd_cmd_queue = v]
      BY <2>1, <2>4, Zenon
    <3>2. v \in Seq(Frame)
      BY <2>2, <3>1, ProcessFields
    <3>3. /\ [r EXCEPT !.fwd_cmd_queue = v] \in Tcp
          /\ [r EXCEPT !.fwd_cmd_queue = v].in_queue = r.in_queue
          /\ [r EXCEPT !.fwd_cmd_queue = v].enabled = r.enabled
      BY <3>2, QueueUpdates, Zenon
    <3> HIDE DEF t
    <3>4. t \in Tcp /\ t.in_queue = r.in_queue /\ t.enabled = r.enabled
      BY <3>1, <3>3, Zenon
    <3> QED
      BY <2>1, <3>1, <3>4, Zenon
  <2>5. CASE q = "in_queue" /\ IsRaft(f)
    <3>1. PICK v \in {r.in_queue, Append(r.in_queue, f)} : t = [r EXCEPT !.in_queue = v]
      BY <2>1, <2>5, Zenon
    <3>2. v \in Seq(Frame)
      BY <2>2, <3>1, ProcessFields
    <3>3. /\ [r EXCEPT !.in_queue = v] \in Tcp
          /\ [r EXCEPT !.in_queue = v].in_queue = v
          /\ [r EXCEPT !.in_queue = v].enabled = r.enabled
      BY <3>2, QueueUpdates, Zenon
    <3> HIDE DEF t
    <3>4. t \in Tcp /\ t.in_queue = v /\ t.enabled = r.enabled
      BY <3>1, <3>3, Zenon
    <3> QED
      BY <2>1, <2>5, <3>1, <3>4, Zenon
  <2>6. \/ q = "join_queue"
        \/ q = "fwd_cmd_queue"
        \/ q = "in_queue" /\ IsRaft(f)
    <3>1. f.type \in {"RAFT", "JOIN", "CMD"}
      BY <1>1, ProcessFields, ProcessFacts DEF Gated, FrameType
    <3>2. CASE f.type = "RAFT"
      BY <3>2, QueueOfTypes, Zenon DEF IsRaft
    <3>3. CASE f.type = "JOIN"
      BY <3>3, QueueOfTypes
    <3>4. CASE f.type = "CMD"
      BY <3>4, QueueOfTypes
    <3> QED
      BY <3>1, <3>2, <3>3, <3>4, Zenon
  <2> QED
    BY <2>3, <2>4, <2>5, <2>6
<1> HIDE DEF t
<1>5. HoldsMessage(listener[n]) <=> IsRaft(f)
  BY <1>1 DEF HoldsMessage
<1>6. ~HoldsMessage(l) /\ Gated(l)
  BY <1>2
<1>7. Flow(received[n], t.in_queue, l, backlog[n], SentTo(n))
  <2>1. /\ backlog[n] \in Seq(Frame) /\ received[n] \in Seq(Network!Envelope)
        /\ listener[n] \in Thread /\ tcp[n].in_queue \in Seq(Frame)
        /\ Flow(received[n], tcp[n].in_queue, listener[n], backlog[n], SentTo(n))
    BY ProcessFacts, ProcessFields
  <2>2. CASE t.in_queue = tcp[n].in_queue
    BY <1>2, <1>6, <2>1, <2>2, FlowDrops
  <2>3. CASE IsRaft(f) /\ t.in_queue = Append(tcp[n].in_queue, f)
    BY <1>2, <1>5, <1>6, <2>1, <2>3, FlowStore
  <2> QED
    BY <1>4, <2>2, <2>3
<1>8. Stopped(t, l, main[n])
  <2>1. tcp[n].in_queue \in Seq(Frame) /\ Stopped(tcp[n], listener[n], main[n])
    BY ProcessFacts, ProcessFields
  <2>2. Len(tcp[n].in_queue) \in Nat /\ Len(Append(tcp[n].in_queue, f)) = Len(tcp[n].in_queue) + 1
    <3> HIDE DEF f
    <3> QED
      BY <1>1, <2>1, AppendProperties, LenProperties
  <2>3. SUFFICES ASSUME ~tcp[n].enabled, main[n].at # "clear" PROVE Len(t.in_queue) <= 1
    BY <1>2, <1>4 DEF Stopped
  <2>4. CASE IsRaft(f)
    BY <1>1, <1>4, <2>1, <2>2, <2>3, <2>4 DEF Stopped
  <2>5. CASE ~IsRaft(f)
    BY <1>1, <1>4, <2>1, <2>2, <2>3, <2>5 DEF Stopped
  <2> QED
    BY <2>4, <2>5
<1>9. /\ main' = [main EXCEPT ![n] = main[n]] /\ main[n] \in Main
      /\ backlog' = [backlog EXCEPT ![n] = backlog[n]] /\ backlog[n] \in Seq(Frame)
      /\ UNCHANGED <<sent, received>>
      /\ files' \in [Node -> [peers : SUBSET Node, self : BOOLEAN]]
      /\ budget' \in [frames : Nat, operations : Nat]
  BY ProcessFacts DEF Store
<1> QED
  BY <1>2, <1>3, <1>4, <1>6, <1>7, <1>8, <1>9, LocalStep

\* A stopped transport that gains no message leaves at most one.
LEMMA StoppedKept ==
    ASSUME NEW t, NEW l, NEW m, Stopped(t, l, m), ~t.enabled, m.at # "clear",
           NEW u, NEW k, NEW o, k.at = "store" => k = l,
           Len(t.in_queue) \in Nat, Len(u.in_queue) \in Nat,
           Len(u.in_queue) <= Len(t.in_queue)
    PROVE  Stopped(u, k, o)
BY DEF Stopped

\* The process n after a step that neither sends nor hands over.
ProcessBecomes(n, t, l, m, w) ==
    /\ t \in Tcp /\ l \in Thread /\ m \in Main
    /\ tcp' = [tcp EXCEPT ![n] = t] /\ listener' = [listener EXCEPT ![n] = l]
    /\ main' = [main EXCEPT ![n] = m] /\ backlog' = [backlog EXCEPT ![n] = w]
    /\ UNCHANGED <<sent, received>>
    /\ files' \in [Node -> [peers : SUBSET Node, self : BOOLEAN]]
    /\ budget' \in [frames : Nat, operations : Nat]

\* The main thread changes its process: in_queue is kept or emptied, the listener's frame is
\* kept or dropped, the backlog is kept or reset.
LEMMA MainMoves ==
    ASSUME TransportInv, NEW n \in Node, NEW t, NEW l, NEW m, NEW w,
           ProcessBecomes(n, t, l, m, w), w \in {backlog[n], << >>},
           t.in_queue \in {tcp[n].in_queue, << >>},
           l = listener[n] \/ l.at \in {"off", "loop"},
           \/ t.enabled \/ m.at = "clear"
           \/ t.in_queue = << >> /\ l = listener[n]
           \/ ~tcp[n].enabled /\ main[n].at # "clear"
    PROVE  TransportInv'
<1>1. /\ backlog[n] \in Seq(Frame) /\ received[n] \in Seq(Network!Envelope)
      /\ listener[n] \in Thread /\ tcp[n].in_queue \in Seq(Frame)
      /\ Flow(received[n], tcp[n].in_queue, listener[n], backlog[n], SentTo(n))
      /\ Stopped(tcp[n], listener[n], main[n]) /\ Gated(listener[n])
  BY ProcessFacts, ProcessFields
<1>2. << >> \in Seq(Frame) /\ Len(<< >>) = 0 /\ Len(tcp[n].in_queue) \in Nat
  BY <1>1, LenProperties
<1>3. w \in Seq(Frame) /\ t.in_queue \in Seq(Frame)
  BY <1>1, <1>2, Zenon
<1>4. Flow(received[n], t.in_queue, listener[n], backlog[n], SentTo(n))
  BY <1>1, FlowDrops
<1>5. Flow(received[n], t.in_queue, listener[n], w, SentTo(n))
  BY <1>1, <1>3, <1>4, FlowDrops
<1>6. Flow(received[n], t.in_queue, l, w, SentTo(n))
  <2>1. CASE l = listener[n]
    BY <1>5, <2>1
  <2>2. CASE l.at \in {"off", "loop"}
    <3>1. ~HoldsMessage(l) /\ l \in Thread
      BY <2>2 DEF HoldsMessage, ProcessBecomes
    <3> QED
      BY <1>1, <1>3, <1>5, <3>1, FlowDrops
  <2> QED
    BY <2>1, <2>2
<1>7. Gated(l)
  BY <1>1 DEF Gated
<1>8. Stopped(t, l, m)
  <2>1. CASE t.enabled \/ m.at = "clear"
    BY <2>1 DEF Stopped
  <2>2. CASE t.in_queue = << >> /\ l = listener[n]
    BY <1>2, <2>2 DEF Stopped
  <2>3. CASE ~tcp[n].enabled /\ main[n].at # "clear"
    <3>1. Len(t.in_queue) <= Len(tcp[n].in_queue) /\ Len(t.in_queue) \in Nat
      BY <1>2
    <3>2. l.at = "store" => l = listener[n]
      OBVIOUS
    <3> QED
      BY <1>1, <1>2, <2>3, <3>1, <3>2, StoppedKept
  <2> QED
    BY <2>1, <2>2, <2>3
<1> QED
  BY <1>3, <1>6, <1>7, <1>8, LocalStep DEF ProcessBecomes

\* What an unchanged variable is for MainMoves.
LEMMA Unmoved ==
    ASSUME TransportInv, NEW n \in Node
    PROVE  /\ UNCHANGED tcp => tcp' = [tcp EXCEPT ![n] = tcp[n]]
           /\ UNCHANGED listener => listener' = [listener EXCEPT ![n] = listener[n]]
           /\ UNCHANGED main => main' = [main EXCEPT ![n] = main[n]]
           /\ UNCHANGED backlog => backlog' = [backlog EXCEPT ![n] = backlog[n]]
           /\ UNCHANGED files => files' \in [Node -> [peers : SUBSET Node, self : BOOLEAN]]
           /\ UNCHANGED budget => budget' \in [frames : Nat, operations : Nat]
BY ProcessFacts

\* The main thread changes its transport and nothing else.
LEMMA TcpMoves ==
    ASSUME TransportInv, NEW n \in Node, NEW t \in Tcp, tcp' = [tcp EXCEPT ![n] = t],
           UNCHANGED <<listener, main, backlog, files, sent, received>>,
           budget' \in [frames : Nat, operations : Nat],
           t.in_queue = tcp[n].in_queue, IsIdle(n),
           t.enabled \/ t.enabled = tcp[n].enabled
    PROVE  TransportInv'
<1>1. /\ listener' = [listener EXCEPT ![n] = listener[n]] /\ main' = [main EXCEPT ![n] = main[n]]
      /\ backlog' = [backlog EXCEPT ![n] = backlog[n]]
      /\ files' \in [Node -> [peers : SUBSET Node, self : BOOLEAN]]
  BY Unmoved
<1>2. listener[n] \in Thread /\ main[n] \in Main
  BY ProcessFacts
<1>3. main[n].at # "clear"
  BY DEF IsIdle
<1>4. t.enabled \/ (~tcp[n].enabled /\ main[n].at # "clear")
  BY <1>3, Zenon
<1>5. ProcessBecomes(n, t, listener[n], main[n], backlog[n])
  BY <1>1, <1>2 DEF ProcessBecomes
<1> QED
  BY <1>4, <1>5, MainMoves

\* Draining the other two queues.
LEMMA DrainInv ==
    ASSUME TransportInv, NEW n \in Node, NEW queue \in {"join_queue", "fwd_cmd_queue"},
           Drain(n, queue)
    PROVE  TransportInv'
<1> DEFINE t == [tcp[n] EXCEPT ![queue] = << >>]
<1>1. tcp' = [tcp EXCEPT ![n] = t]
  BY Zenon DEF Drain
<1>2. tcp[n] \in Tcp /\ << >> \in Seq(Frame)
  BY ProcessFacts
<1>3. /\ [tcp[n] EXCEPT !.join_queue = << >>] \in Tcp
      /\ [tcp[n] EXCEPT !.join_queue = << >>].in_queue = tcp[n].in_queue
      /\ [tcp[n] EXCEPT !.join_queue = << >>].enabled = tcp[n].enabled
      /\ [tcp[n] EXCEPT !.fwd_cmd_queue = << >>] \in Tcp
      /\ [tcp[n] EXCEPT !.fwd_cmd_queue = << >>].in_queue = tcp[n].in_queue
      /\ [tcp[n] EXCEPT !.fwd_cmd_queue = << >>].enabled = tcp[n].enabled
  BY <1>2, QueueUpdates, Zenon
<1>4. \/ t = [tcp[n] EXCEPT !.join_queue = << >>]
      \/ t = [tcp[n] EXCEPT !.fwd_cmd_queue = << >>]
  BY Zenon
<1> HIDE DEF t
<1>5. t \in Tcp /\ t.in_queue = tcp[n].in_queue /\ t.enabled = tcp[n].enabled
  BY <1>3, <1>4, Zenon
<1>6. /\ UNCHANGED <<listener, main, backlog, files, sent, received>> /\ IsIdle(n)
      /\ budget' \in [frames : Nat, operations : Nat]
  BY Unmoved DEF Drain
<1> QED
  BY <1>1, <1>5, <1>6, TcpMoves

\* The command queue, and the flags where nothing is emptied.
LEMMA FlagInv ==
    ASSUME TransportInv, NEW n \in Node,
           \/ tcp_submit_command(n) \/ tcp_recv_commands(n) \/ Enable(n)
           \/ Expel(n) \/ ResetForJoin(n)
    PROVE  TransportInv'
<1>1. /\ UNCHANGED <<listener, main, backlog, files, sent, received>> /\ IsIdle(n)
      /\ budget' \in [frames : Nat, operations : Nat]
  BY Unmoved, SpendType DEF tcp_submit_command, tcp_recv_commands, Enable, Expel, ResetForJoin
<1>2. tcp[n] \in Tcp /\ tcp[n].cmd_queue \in Nat
  BY ProcessFacts, ProcessFields
<1>3. CASE tcp_submit_command(n) \/ tcp_recv_commands(n)
  <2>1. PICK c \in {tcp[n].cmd_queue + 1, 0} :
          tcp' = [tcp EXCEPT ![n] = [tcp[n] EXCEPT !.cmd_queue = c]]
    BY <1>3, Zenon DEF tcp_submit_command, tcp_recv_commands
  <2>2. c \in Nat
    BY <1>2, <2>1
  <2>3. /\ [tcp[n] EXCEPT !.cmd_queue = c] \in Tcp
        /\ [tcp[n] EXCEPT !.cmd_queue = c].in_queue = tcp[n].in_queue
        /\ [tcp[n] EXCEPT !.cmd_queue = c].enabled = tcp[n].enabled
    BY <1>2, <2>2, TcpUpdates, Zenon
  <2> QED
    BY <1>1, <2>1, <2>3, TcpMoves, Zenon
<1>4. CASE Enable(n)
  <2>1. tcp' = [tcp EXCEPT ![n] = [tcp[n] EXCEPT !.running = TRUE, !.enabled = TRUE]]
    BY <1>4, Zenon DEF Enable, TransportInv, TypeInv
  <2>2. /\ [tcp[n] EXCEPT !.running = TRUE, !.enabled = TRUE] \in Tcp
        /\ [tcp[n] EXCEPT !.running = TRUE, !.enabled = TRUE].in_queue = tcp[n].in_queue
        /\ [tcp[n] EXCEPT !.running = TRUE, !.enabled = TRUE].enabled
    BY <1>2, EnabledUpdates, Zenon
  <2> QED
    BY <1>1, <2>1, <2>2, TcpMoves, Zenon
<1>5. CASE Expel(n) \/ ResetForJoin(n)
  <2>1. PICK e \in BOOLEAN : tcp' = [tcp EXCEPT ![n] = [tcp[n] EXCEPT !.running = e]]
    BY <1>5, Zenon DEF Expel, ResetForJoin
  <2>2. /\ [tcp[n] EXCEPT !.running = e] \in Tcp
        /\ [tcp[n] EXCEPT !.running = e].in_queue = tcp[n].in_queue
        /\ [tcp[n] EXCEPT !.running = e].enabled = tcp[n].enabled
    BY <1>2, EnabledUpdates, Zenon
  <2> QED
    BY <1>1, <2>1, <2>2, TcpMoves, Zenon
<1> QED
  BY <1>3, <1>4, <1>5

\* tcp_set_enabled(0) before it empties the queue, and after.
LEMMA DisableInv ==
    ASSUME TransportInv, NEW n \in Node, Disable(n)
    PROVE  TransportInv'
<1> DEFINE t == [tcp[n] EXCEPT !.running = FALSE, !.enabled = FALSE]
           m == [main[n] EXCEPT !.at = "clear"]
<1>1. tcp[n] \in Tcp /\ main[n] \in Main /\ listener[n] \in Thread /\ {} \in SUBSET Node
  BY ProcessFacts
<1>2. t \in Tcp /\ t.in_queue = tcp[n].in_queue
  BY <1>1, EnabledUpdates, Zenon
<1>3. m \in Main /\ m.at = "clear"
  <2>1. "clear" \in {"setup", "setup_save", "save", "idle", "clear", "stop"}
    OBVIOUS
  <2> QED
    BY <1>1, <2>1, MainUpdates, Zenon
<1>4. tcp' = [tcp EXCEPT ![n] = t] /\ main' = [main EXCEPT ![n] = m]
  BY Zenon DEF Disable, TransportInv, TypeInv
<1> HIDE DEF t, m
<1>5. ProcessBecomes(n, t, listener[n], m, backlog[n])
  BY <1>1, <1>2, <1>3, <1>4, Unmoved, SpendType DEF Disable, ProcessBecomes
<1> QED
  BY <1>2, <1>3, <1>5, MainMoves

\* tcp_set_enabled(0) empties in_queue, and only a listener past its test can fill it again.
LEMMA ClearInv ==
    ASSUME TransportInv, NEW n \in Node, Clear(n)
    PROVE  TransportInv'
<1> DEFINE t == [tcp[n] EXCEPT !.in_queue = << >>, !.cmd_queue = 0]
<1>1. /\ tcp[n] \in Tcp /\ main[n] \in Main /\ listener[n] \in Thread /\ << >> \in Seq(Frame)
      /\ tcp \in [Node -> Tcp]
  BY ProcessFacts DEF TransportInv, TypeInv
<1>2. t \in Tcp /\ t.in_queue = << >>
  BY <1>1, QueueUpdates, Zenon
<1>3. Idle \in Main
  BY DEF Idle, Main
<1>4. tcp' = [tcp EXCEPT ![n] = t]
  BY <1>1, Zenon DEF Clear
<1>5. main' = [main EXCEPT ![n] = Idle]
  BY Zenon DEF Clear
<1> HIDE DEF t
<1>6. ProcessBecomes(n, t, listener[n], Idle, backlog[n])
  BY <1>1, <1>2, <1>3, <1>4, <1>5, Unmoved DEF Clear, ProcessBecomes
<1> QED
  BY <1>2, <1>6, MainMoves

\* The peer table and peers.txt.
LEMMA AddPeerInv ==
    ASSUME TransportInv, NEW n \in Node, NEW p \in Node, NEW saving \in {"setup_save", "save"},
           AddPeer(n, p, saving), main[n].at # "clear",
           budget' \in [frames : Nat, operations : Nat]
    PROVE  TransportInv'
<1> DEFINE peers == Registered(tcp[n].peers, p)
           t == [tcp[n] EXCEPT !.peers = peers]
           rest == main[n].rest \ {p}
<1>1. /\ tcp[n] \in Tcp /\ main[n] \in Main /\ listener[n] \in Thread
      /\ files \in [Node -> [peers : SUBSET Node, self : BOOLEAN]]
  BY ProcessFacts
<1>2. peers \in SUBSET Node /\ rest \in SUBSET Node
  BY <1>1, ProcessFields DEF Registered, Main
<1>3. t \in Tcp /\ t.in_queue = tcp[n].in_queue /\ t.enabled = tcp[n].enabled
  <2> HIDE DEF peers
  <2> QED
    BY <1>1, <1>2, TcpUpdates, Zenon
<1>4. tcp' = [tcp EXCEPT ![n] = t] /\ UNCHANGED <<listener, backlog, sent, received>>
  BY Zenon DEF AddPeer
<1>5. \/ /\ main' = [main EXCEPT ![n] = [at |-> saving, rest |-> rest]]
         /\ files' = [files EXCEPT ![n].peers = {}]
      \/ main' = [main EXCEPT ![n] = [main[n] EXCEPT !.rest = rest]] /\ UNCHANGED files
  BY Zenon DEF AddPeer
<1>6. [at |-> saving, rest |-> rest] \in Main /\ [main[n] EXCEPT !.rest = rest] \in Main
  <2>1. saving \in {"setup", "setup_save", "save", "idle", "clear", "stop"}
    OBVIOUS
  <2> HIDE DEF rest
  <2> QED
    BY <1>1, <1>2, <2>1, MainUpdates, Zenon
<1>7. PICK m \in Main : main' = [main EXCEPT ![n] = m]
  BY <1>5, <1>6, Zenon
<1>8. files' \in [Node -> [peers : SUBSET Node, self : BOOLEAN]]
  <2>1. [files[n] EXCEPT !.peers = {}] \in [peers : SUBSET Node, self : BOOLEAN]
    <3>1. \A f \in [peers : SUBSET Node, self : BOOLEAN] :
            [f EXCEPT !.peers = {}] \in [peers : SUBSET Node, self : BOOLEAN]
      OBVIOUS
    <3> QED
      BY <1>1, <3>1
  <2>2. \/ files' = [files EXCEPT ![n] = [files[n] EXCEPT !.peers = {}]]
        \/ files' = files
    BY <1>5, Zenon
  <2> QED
    BY <1>1, <2>1, <2>2
<1> HIDE DEF t
<1>9. ProcessBecomes(n, t, listener[n], m, backlog[n])
  BY <1>1, <1>3, <1>4, <1>7, <1>8, Unmoved DEF ProcessBecomes
<1>10. t.enabled \/ (~tcp[n].enabled /\ main[n].at # "clear")
  BY <1>3, Zenon
<1> QED
  BY <1>3, <1>9, <1>10, MainMoves

\* peers.txt is complete again; the Raft messages are not concerned.
LEMMA FinishSaveInv ==
    ASSUME TransportInv, NEW n \in Node, FinishSave(n)
    PROVE  TransportInv'
<1> DEFINE a == IF main[n].at = "save" THEN "idle" ELSE "setup"
           m == [main[n] EXCEPT !.at = a]
<1>1. /\ tcp[n] \in Tcp /\ main[n] \in Main /\ listener[n] \in Thread
      /\ files \in [Node -> [peers : SUBSET Node, self : BOOLEAN]]
      /\ main[n].at # "clear" /\ {} \in SUBSET Node
  BY ProcessFacts DEF FinishSave
<1>2. m \in Main
  <2>1. a \in {"setup", "setup_save", "save", "idle", "clear", "stop"}
    OBVIOUS
  <2> HIDE DEF a
  <2> QED
    BY <1>1, <2>1, MainUpdates, Zenon
<1>3. main' = [main EXCEPT ![n] = m]
  BY Zenon DEF FinishSave
<1>4. files' \in [Node -> [peers : SUBSET Node, self : BOOLEAN]]
  <2>1. [files[n] EXCEPT !.peers = tcp[n].peers] \in [peers : SUBSET Node, self : BOOLEAN]
    <3>1. \A f \in [peers : SUBSET Node, self : BOOLEAN], q \in SUBSET Node :
            [f EXCEPT !.peers = q] \in [peers : SUBSET Node, self : BOOLEAN]
      OBVIOUS
    <3>2. files[n] \in [peers : SUBSET Node, self : BOOLEAN] /\ tcp[n].peers \in SUBSET Node
      BY <1>1, ProcessFields
    <3> QED
      BY <3>1, <3>2, Zenon
  <2>2. files' = [files EXCEPT ![n] = [files[n] EXCEPT !.peers = tcp[n].peers]]
    BY Zenon DEF FinishSave
  <2> QED
    BY <1>1, <2>1, <2>2
<1> HIDE DEF m
<1>5. ProcessBecomes(n, tcp[n], listener[n], m, backlog[n])
  BY <1>1, <1>2, <1>3, <1>4, Unmoved DEF FinishSave, ProcessBecomes
<1>6. tcp[n].enabled \/ (~tcp[n].enabled /\ main[n].at # "clear")
  BY <1>1, Zenon
<1> QED
  BY <1>5, <1>6, MainMoves

\* raft_tcp_transport_start, for a main thread that goes on or ends its setup.
LEMMA StartInv ==
    ASSUME TransportInv, NEW n \in Node, StartListening(n), main[n].at # "clear",
           NEW m \in Main, main' = [main EXCEPT ![n] = m],
           UNCHANGED <<backlog, sent, received, budget>>
    PROVE  TransportInv'
<1> DEFINE t == Listening(tcp[n])
           l == TopOfLoop
<1>1. /\ tcp[n] \in Tcp /\ listener[n] \in Thread
      /\ files \in [Node -> [peers : SUBSET Node, self : BOOLEAN]]
      /\ 0 \in Nat /\ {} \in SUBSET Node
  BY ProcessFacts
<1>2. t \in Tcp /\ t.in_queue = tcp[n].in_queue /\ t.enabled = tcp[n].enabled
  BY <1>1, TcpUpdates, Zenon
<1>3. l \in Thread /\ l.at = "loop"
  BY TopOfLoopType
<1>4. tcp' = [tcp EXCEPT ![n] = t] /\ listener' = [listener EXCEPT ![n] = l]
  BY Zenon DEF StartListening
<1>5. files' \in [Node -> [peers : SUBSET Node, self : BOOLEAN]]
  <2>1. [files[n] EXCEPT !.self = TRUE] \in [peers : SUBSET Node, self : BOOLEAN]
    <3>1. \A f \in [peers : SUBSET Node, self : BOOLEAN] :
            [f EXCEPT !.self = TRUE] \in [peers : SUBSET Node, self : BOOLEAN]
      OBVIOUS
    <3> QED
      BY <1>1, <3>1
  <2>2. files' = [files EXCEPT ![n] = [files[n] EXCEPT !.self = TRUE]]
    BY Zenon DEF StartListening
  <2> QED
    BY <1>1, <2>1, <2>2
<1> HIDE DEF t, l
<1>6. ProcessBecomes(n, t, l, m, backlog[n])
  BY <1>1, <1>2, <1>3, <1>4, <1>5, Unmoved DEF ProcessBecomes
<1>7. t.enabled \/ (~tcp[n].enabled /\ main[n].at # "clear")
  BY <1>2, Zenon
<1> QED
  BY <1>2, <1>3, <1>6, <1>7, MainMoves

\* The setup that follows a start ends without touching the Raft messages.
LEMMA FinishSetupInv ==
    ASSUME TransportInv, NEW n \in Node, FinishSetup(n)
    PROVE  TransportInv'
<1>1. /\ tcp[n] \in Tcp /\ listener[n] \in Thread /\ Idle \in Main
      /\ main[n].at # "clear" /\ main' = [main EXCEPT ![n] = Idle]
      /\ UNCHANGED <<backlog, sent, received, budget>>
  BY ProcessFacts DEF FinishSetup, Idle, Main
<1>2. CASE StartListening(n)
  BY <1>1, <1>2, StartInv
<1>3. CASE UNCHANGED <<tcp, listener, files>>
  <2>1. ProcessBecomes(n, tcp[n], listener[n], Idle, backlog[n])
    BY <1>1, <1>3, Unmoved DEF ProcessBecomes
  <2>2. tcp[n].enabled \/ (~tcp[n].enabled /\ main[n].at # "clear")
    BY <1>1, Zenon
  <2> QED
    BY <2>1, <2>2, MainMoves
<1> QED
  BY <1>2, <1>3 DEF FinishSetup

\* A stopped transport is started again by the application.
LEMMA ListenInv ==
    ASSUME TransportInv, NEW n \in Node, raft_tcp_transport_listen(n)
    PROVE  TransportInv'
<1>1. /\ StartListening(n) /\ main[n].at # "clear" /\ main[n] \in Main
      /\ main' = [main EXCEPT ![n] = main[n]]
      /\ UNCHANGED <<backlog, sent, received, budget>>
  BY ProcessFacts, Unmoved DEF raft_tcp_transport_listen, IsIdle
<1> QED
  BY <1>1, StartInv

\* raft_tcp_transport_stop joins the listener and drops what the backlog held.
LEMMA StopInv ==
    ASSUME TransportInv, NEW n \in Node, Stop(n)
    PROVE  TransportInv'
<1> DEFINE t == [tcp[n] EXCEPT !.shutdown = TRUE, !.listening = FALSE]
           m == [main[n] EXCEPT !.at = "stop"]
<1>1. /\ tcp[n] \in Tcp /\ main[n] \in Main /\ listener[n] \in Thread /\ main[n].at # "clear"
      /\ 0 \in Nat /\ {} \in SUBSET Node /\ tcp \in [Node -> Tcp]
  BY ProcessFacts DEF Stop, IsIdle, TransportInv, TypeInv
<1>2. t \in Tcp /\ t.in_queue = tcp[n].in_queue /\ t.enabled = tcp[n].enabled
  BY <1>1, TcpUpdates, Zenon
<1>3. m \in Main
  <2>1. "stop" \in {"setup", "setup_save", "save", "idle", "clear", "stop"}
    OBVIOUS
  <2> QED
    BY <1>1, <2>1, MainUpdates, Zenon
<1>4. tcp' = [tcp EXCEPT ![n] = t]
  BY <1>1, Zenon DEF Stop
<1>5. main' = [main EXCEPT ![n] = m] /\ backlog' = [backlog EXCEPT ![n] = << >>]
  BY Zenon DEF Stop
<1> HIDE DEF t, m
<1>6. ProcessBecomes(n, t, listener[n], m, << >>)
  BY <1>1, <1>2, <1>3, <1>4, <1>5, Unmoved, SpendType DEF Stop, ProcessBecomes
<1>7. t.enabled \/ (~tcp[n].enabled /\ main[n].at # "clear")
  BY <1>1, <1>2, Zenon
<1> QED
  BY <1>2, <1>6, <1>7, MainMoves

\* A process starts anew: its memory and its connections are gone.
LEMMA BootInv ==
    ASSUME TransportInv, NEW n \in Node, Boot(n),
           budget' \in [frames : Nat, operations : Nat]
    PROVE  TransportInv'
<1> DEFINE m == Setup(n, files[n].peers)
<1>1. InitialTcp \in Tcp /\ InitialTcp.in_queue = << >> /\ InitialTcp.enabled
  BY DEF InitialTcp, Tcp
<1>2. NoThread \in Thread /\ NoThread.at = "off"
  BY DEF NoThread, Thread, Position, NoFrame, Frame, FrameType
<1>3. m \in Main
  <2>1. files[n].peers \in SUBSET Node
    BY ProcessFacts
  <2> QED
    BY <2>1, TcpAssumption DEF Setup, Main
<1>4. /\ tcp' = [tcp EXCEPT ![n] = InitialTcp] /\ listener' = [listener EXCEPT ![n] = NoThread]
      /\ main' = [main EXCEPT ![n] = m] /\ backlog' = [backlog EXCEPT ![n] = << >>]
      /\ UNCHANGED <<files, sent, received>>
  BY DEF Boot
<1> HIDE DEF m
<1>5. ProcessBecomes(n, InitialTcp, NoThread, m, << >>)
  BY <1>1, <1>2, <1>3, <1>4, Unmoved DEF ProcessBecomes
<1> QED
  BY <1>1, <1>2, <1>5, MainMoves

\* tcp_recv hands the whole of in_queue to the engine, in order.
LEMMA RecvInv ==
    ASSUME TransportInv, NEW n \in Node, tcp_recv(n)
    PROVE  TransportInv'
<1> DEFINE q == tcp[n].in_queue
           t == [tcp[n] EXCEPT !.in_queue = << >>]
           rec == received[n] \o Envelopes(q)
<1>1. /\ tcp[n] \in Tcp /\ main[n] \in Main /\ listener[n] \in Thread
      /\ backlog[n] \in Seq(Frame) /\ received[n] \in Seq(Network!Envelope)
      /\ q \in Seq(Frame) /\ << >> \in Seq(Frame) /\ Gated(listener[n])
      /\ Flow(received[n], q, listener[n], backlog[n], SentTo(n))
      /\ SentTo(n) \in [Node -> Nat]
  BY ProcessFacts, ProcessFields DEF tcp_recv
<1>2. t \in Tcp /\ t.in_queue = << >> /\ t.enabled = tcp[n].enabled
  BY <1>1, QueueUpdates, Zenon
<1>3. /\ rec \in Seq(Network!Envelope)
      /\ Flow(rec, << >>, listener[n], backlog[n], SentTo(n))
  BY <1>1, FlowReceive, Zenon
<1>4. tcp' = [tcp EXCEPT ![n] = t] /\ received' = [received EXCEPT ![n] = rec]
  BY Zenon DEF tcp_recv
<1> HIDE DEF t, rec
<1>5. Good(t, listener[n], main[n], backlog[n], rec, SentTo(n))
  <2>1. Len(t.in_queue) = 0
    BY <1>2
  <2>2. Stopped(t, listener[n], main[n])
    BY <2>1 DEF Stopped
  <2> QED
    BY <1>1, <1>2, <1>3, <2>2 DEF Good
<1>6. /\ listener' = [listener EXCEPT ![n] = listener[n]] /\ main' = [main EXCEPT ![n] = main[n]]
      /\ backlog' = [backlog EXCEPT ![n] = backlog[n]]
      /\ files' \in [Node -> [peers : SUBSET Node, self : BOOLEAN]]
      /\ budget' \in [frames : Nat, operations : Nat]
  BY Unmoved DEF tcp_recv
<1>7. /\ sent' \in [Node -> [Node -> Nat]] /\ \A a \in Node : sent'[a][n] = SentTo(n)[a]
      /\ \A a \in Node, b \in Node \ {n} : sent'[a][b] = sent[a][b]
  BY DEF tcp_recv, TransportInv, TypeInv, SentTo
<1> QED
  BY <1>1, <1>2, <1>3, <1>4, <1>5, <1>6, <1>7, ProcessStep

-----------------------------------------------------------------------------
\* Nothing is sent, held or handed over in an initial state.
LEMMA InitInv == Init => TransportInv
<1> SUFFICES ASSUME Init PROVE TransportInv
  OBVIOUS
<1>1. InitialTcp \in Tcp /\ InitialTcp.in_queue = << >> /\ InitialTcp.enabled
  BY DEF InitialTcp, Tcp
<1>2. \A n \in Node : NoThread \in Thread /\ NoThread.at = "off"
  BY DEF NoThread, Thread, Position, NoFrame, Frame, FrameType
<1>3. \A n \in Node : Setup(n, {}) \in Main
  BY TcpAssumption DEF Setup, Main
<1>4. TypeInv
  BY <1>1, <1>2, <1>3, TcpAssumption DEF Init, TypeInv
<1>5. ASSUME NEW n \in Node
      PROVE  Good(tcp[n], listener[n], main[n], backlog[n], received[n], SentTo(n))
  <2>1. tcp[n] = InitialTcp /\ listener[n] = NoThread /\ backlog[n] = << >> /\ received[n] = << >>
    BY DEF Init
  <2>2. Gated(NoThread) /\ ~HoldsMessage(NoThread)
    BY <1>2 DEF Gated, HoldsMessage
  <2>3. Flow(<< >>, << >>, NoThread, << >>, SentTo(n))
    BY <2>2 DEF Flow, HandedOver, Queued, Waiting
  <2> QED
    BY <1>1, <2>1, <2>2, <2>3 DEF Good, Stopped
<1> QED
  BY <1>4, <1>5 DEF TransportInv

\* Every step of a main thread and of a listener thread keeps the invariant.
LEMMA NextInv == TransportInv /\ [Next]_vars => TransportInv'
<1> SUFFICES ASSUME TransportInv, [Next]_vars PROVE TransportInv'
  OBVIOUS
<1>1. CASE UNCHANGED vars
  BY <1>1 DEF vars, TransportInv, TypeInv, SentTo
<1>2. ASSUME NEW n \in Node, ListenerStep(n) PROVE TransportInv'
  <2>1. CASE SelectFails(n)
    BY <2>1, TurnEnds DEF SelectFails
  <2> QED
    BY <1>2, <2>1, TestInv, AcceptInv, ReceiveInv, GateInv, StoreInv DEF ListenerStep
<1>3. ASSUME NEW n \in Node, MainStep(n) PROVE TransportInv'
  <2>1. CASE LoadPeer(n)
    <3>1. PICK p \in main[n].rest : AddPeer(n, p, "setup_save")
      BY <2>1 DEF LoadPeer
    <3>2. p \in Node
      BY ProcessFacts DEF Main
    <3>3. main[n].at # "clear" /\ budget' \in [frames : Nat, operations : Nat]
      BY <2>1, Unmoved DEF LoadPeer
    <3> QED
      BY <3>1, <3>2, <3>3, AddPeerInv
  <2>2. CASE JoinThread(n)
    <3>1. Boot(n) /\ budget' \in [frames : Nat, operations : Nat]
      BY <2>2, Unmoved DEF JoinThread
    <3> QED
      BY <3>1, BootInv
  <2> QED
    BY <1>3, <2>1, <2>2, ClearInv, FinishSaveInv, FinishSetupInv DEF MainStep
<1>4. ASSUME NEW n \in Node, TickStep(n) PROVE TransportInv'
  BY <1>4, RecvInv, FlagInv, DrainInv
     DEF TickStep, raft_tcp_transport_recv_joins, raft_tcp_transport_recv_fwd_cmds
<1>5. ASSUME NEW n \in Node, NEW m \in Observed,
             tcp_send(n, m) \/ tcp_send_join(n, m) \/ raft_tcp_transport_forward_cmd(n, m)
      PROVE  TransportInv'
  <2>1. m \in Node
    BY TcpAssumption
  <2> QED
    BY <1>5, <2>1, SendInv, SendOtherInv DEF tcp_send_join, raft_tcp_transport_forward_cmd
<1>6. ASSUME NEW n \in Node, Operation(n) PROVE TransportInv'
  <2>1. ASSUME NEW p \in Node, LearnPeer(n, p) PROVE TransportInv'
    <3>1. /\ AddPeer(n, p, "save") /\ main[n].at # "clear"
          /\ budget' \in [frames : Nat, operations : Nat]
      BY <2>1, SpendType DEF LearnPeer, IsIdle
    <3> QED
      BY <3>1, AddPeerInv
  <2>2. CASE Crash(n)
    BY <2>2, SpendType, BootInv DEF Crash
  <2> QED
    BY <1>6, <2>1, <2>2, FlagInv, DisableInv, ListenInv, StopInv DEF Operation
<1>7. ASSUME NEW n \in Node, ConnectionReset(n) PROVE TransportInv'
  BY <1>7, TurnEnds DEF ConnectionReset
<1>8. ASSUME NEW n \in Node, AbortInSelect(n) PROVE TransportInv'
  <2>1. Boot(n) /\ budget' \in [frames : Nat, operations : Nat]
    BY <1>8, Unmoved DEF AbortInSelect
  <2> QED
    BY <2>1, BootInv
<1> QED
  BY <1>1, <1>2, <1>3, <1>4, <1>5, <1>6, <1>7, <1>8 DEF Next

\* The inductive invariant holds of every reachable state.
LEMMA Invariance == Spec => []TransportInv
BY InitInv, NextInv, PTL DEF Spec

\* Once tcp_set_enabled(0) has returned, at most one message waits for the next start of the
\* node, however the listener thread and the main thread interleave.
THEOREM StopLeavesOne == Spec => []StopLeavesOneMessage
<1>1. TransportInv => StopLeavesOneMessage
  <2> SUFFICES ASSUME TransportInv, NEW n \in Node, ~tcp[n].enabled, main[n].at # "clear"
               PROVE  Len(tcp[n].in_queue) + (IF PastGate(n) THEN 1 ELSE 0) <= 1
    BY DEF StopLeavesOneMessage
  <2>1. Len(tcp[n].in_queue) \in Nat /\ Stopped(tcp[n], listener[n], main[n])
    BY ProcessFacts, ProcessFields, LenProperties
  <2>2. /\ Len(tcp[n].in_queue) <= 1
        /\ PastGate(n) => Len(tcp[n].in_queue) = 0
    BY <2>1 DEF Stopped, PastGate, At, IsRaft
  <2>3. CASE PastGate(n)
    BY <2>1, <2>2, <2>3
  <2>4. CASE ~PastGate(n)
    BY <2>1, <2>2, <2>4
  <2> QED
    BY <2>3, <2>4
<1> QED
  BY <1>1, Invariance, PTL

\* What was added to a sequence is its end.
LEMMA BatchOfConcat ==
    ASSUME NEW S, NEW s \in Seq(S), NEW e \in Seq(S), Len(e) # 0
    PROVE  /\ SubSeq(s \o e, Len(s) + 1, Len(s \o e)) = e
           /\ Len(s \o e) > Len(s)
<1>1. Len(s) \in Nat /\ Len(e) \in Nat
  BY LenProperties
<1>2. s \o e \in Seq(S) /\ Len(s \o e) = Len(s) + Len(e)
  BY ConcatProperties, Zenon
<1> DEFINE all == s \o e
           b == SubSeq(all, Len(s) + 1, Len(all))
<1>3. \A i \in 1..Len(e) : all[Len(s) + i] = e[i]
  <2>1. \A i \in 1..(Len(s) + Len(e)) :
            all[i] = IF i <= Len(s) THEN s[i] ELSE e[i - Len(s)]
    BY ConcatProperties, Zenon
  <2> HIDE DEF all
  <2> QED
    BY <1>1, <2>1
<1> HIDE DEF all
<1>4. \A i \in (Len(s) + 1)..Len(all) : all[i] \in S
  <2>1. all \in Seq(S)
    BY <1>2 DEF all
  <2> QED
    BY <1>1, <2>1, ElementOfSeq
<1>5. Len(all) = Len(s) + Len(e)
  BY <1>2 DEF all
<1>6. /\ b \in Seq(S) /\ Len(b) = Len(e)
      /\ \A i \in 1..Len(e) : b[i] = all[Len(s) + i]
  BY <1>1, <1>4, <1>5, SubSeqProperties
<1>7. b = e
  <2> HIDE DEF b
  <2> QED
    BY <1>3, <1>6, SeqEqual
<1> QED
  BY <1>1, <1>5, <1>7 DEF all

\* A call of tcp_recv is a step of the abstract network.
LEMMA RecvRefines ==
    ASSUME TransportInv, TransportInv', NEW n \in Node, tcp_recv(n)
    PROVE  Network!Next
<1> DEFINE q == tcp[n].in_queue
           e == Envelopes(q)
           all == received[n] \o e
           batch == SubSeq(all, Len(received[n]) + 1, Len(all))
<1>1. /\ listener[n] \in Thread /\ backlog[n] \in Seq(Frame)
      /\ received[n] \in Seq(Network!Envelope) /\ q \in Seq(Frame) /\ q # << >>
      /\ Flow(received[n], q, listener[n], backlog[n], SentTo(n))
  BY ProcessFacts, ProcessFields DEF tcp_recv
<1>2. /\ e \in Seq(Network!Envelope) /\ Len(e) = Len(q) /\ all \in Seq(Network!Envelope)
      /\ Flow(all, << >>, listener[n], backlog[n], SentTo(n))
  BY <1>1, FlowReceive, Zenon
<1>3. received' = [received EXCEPT ![n] = all] /\ sent' = sent
  BY Zenon DEF tcp_recv
<1>4. Len(q) \in Nat \ {0} /\ Len(received[n]) \in Nat
  BY <1>1, EmptySeq, LenProperties
<1>5. batch = e /\ Len(all) > Len(received[n])
  <2> HIDE DEF e
  <2> QED
    BY <1>1, <1>2, <1>4, BatchOfConcat
<1>6. received'[n] = all
  BY <1>3 DEF TransportInv, TypeInv
<1>7. \A i \in 1..Len(e) : e[i] \in Network!Envelope /\ Network!WasSentTo(n, e[i])
  <2> SUFFICES ASSUME NEW i \in 1..Len(e)
               PROVE  e[i] \in Network!Envelope /\ Network!WasSentTo(n, e[i])
    OBVIOUS
  <2>1. e[i] \in Network!Envelope
    <3> HIDE DEF e
    <3> QED
      BY <1>2, ElementOfSeq
  <2>2. i \in 1..Len(q) /\ q[i] \in Frame
    <3> HIDE DEF e
    <3> QED
      BY <1>1, <1>2, ElementOfSeq
  <2>3. e[i].source = q[i].source /\ e[i].number = q[i].number
    BY <2>2 DEF Envelopes
  <2>4. WasSent(q[i], SentTo(n)) /\ q[i].source \in Node
    BY <1>1, <2>2, ProcessFields DEF Flow, Queued
  <2> HIDE DEF e
  <2> QED
    BY <2>1, <2>3, <2>4 DEF Network!WasSentTo, WasSent, SentTo
<1>8. Network!InOrder(received[n] \o e)
  <2> HIDE DEF all
  <2>1. HandedOver(all, SentTo(n)) /\ Len(all) \in Nat
    BY <1>2, LenProperties DEF Flow
  <2>2. \A i, j \in 1..Len(all) : i < j => Older(all[i], all[j])
    BY <2>1 DEF HandedOver
  <2>3. Network!InOrder(all)
    BY <2>2 DEF Network!InOrder, Older
  <2> QED
    BY <2>3 DEF all
<1>9. Network!Receive(n, e)
  BY <1>3, <1>7, <1>8 DEF Network!Receive
<1>10. /\ Len(received'[n]) > Len(received[n])
       /\ Network!Receive(n, SubSeq(received'[n], Len(received[n]) + 1, Len(received'[n])))
  BY <1>5, <1>6, <1>9, Zenon
<1> QED
  BY <1>10, Zenon DEF Network!Next

\* The TCP transport, with its two threads, its queues, its stops and its crashes, is a
\* network that loses messages but neither invents, repeats, misdelivers nor reorders them.
THEOREM TcpImplementsNetwork == Spec => ImplementsNetwork
<1>1. Init => Network!Init
  BY DEF Init, Network!Init
<1>2. TransportInv /\ TransportInv' /\ [Next]_vars => [Network!Next]_(Network!networkVars)
  <2> SUFFICES ASSUME TransportInv, TransportInv', [Next]_vars
               PROVE  [Network!Next]_(Network!networkVars)
    OBVIOUS
  <2>1. ASSUME NEW n \in Node, tcp_recv(n) PROVE Network!Next
    BY <2>1, RecvRefines
  <2>2. ASSUME NEW n \in Node, NEW m \in Observed, tcp_send(n, m) PROVE Network!Next
    BY <2>2, TcpAssumption DEF tcp_send, Network!Next, Network!Send
  <2>3. CASE UNCHANGED <<sent, received>>
    BY <2>3 DEF Network!networkVars
  <2>4. ASSUME NEW n \in Node, ListenerStep(n) PROVE UNCHANGED <<sent, received>>
    BY <2>4 DEF ListenerStep, TestShutdown, SelectFails, Accept, Receive, Gate, Store
  <2>5. ASSUME NEW n \in Node, MainStep(n) PROVE UNCHANGED <<sent, received>>
    BY <2>5 DEF MainStep, Clear, LoadPeer, FinishSave, FinishSetup, JoinThread, Boot, AddPeer
  <2>6. ASSUME NEW n \in Node, TickStep(n), ~tcp_recv(n) PROVE UNCHANGED <<sent, received>>
    BY <2>6 DEF TickStep, tcp_recv_commands, raft_tcp_transport_recv_joins,
                raft_tcp_transport_recv_fwd_cmds, Drain
  <2>7. ASSUME NEW n \in Node, NEW m \in Observed,
               tcp_send_join(n, m) \/ raft_tcp_transport_forward_cmd(n, m)
        PROVE  UNCHANGED <<sent, received>>
    BY <2>7 DEF tcp_send_join, raft_tcp_transport_forward_cmd, SendOther
  <2>8. ASSUME NEW n \in Node, Operation(n) PROVE UNCHANGED <<sent, received>>
    BY <2>8 DEF Operation, tcp_submit_command, Enable, Disable, Expel, ResetForJoin,
                raft_tcp_transport_listen, Stop, Crash, Boot, LearnPeer, AddPeer
  <2>9. ASSUME NEW n \in Node, ConnectionReset(n) \/ AbortInSelect(n)
        PROVE  UNCHANGED <<sent, received>>
    BY <2>9 DEF ConnectionReset, AbortInSelect, Boot
  <2> QED
    BY <2>1, <2>2, <2>3, <2>4, <2>5, <2>6, <2>7, <2>8, <2>9, Zenon DEF Next, vars
<1> QED
  BY <1>1, <1>2, Invariance, PTL DEF Spec, ImplementsNetwork, Network!Spec
====
