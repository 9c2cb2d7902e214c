---------------------------- MODULE RaftProgress ----------------------------
(***************************************************************************)
(* What the C engine promises to do in the end, if the nodes go on ticking *)
(* and the network does not lose every message.                            *)
(***************************************************************************)
EXTENDS RaftProperties

\* n ticks: it enters its tick, or its memory changes in a whole one.
Ticks(n) == tick'.node = n \/ node'[n] # node[n]

\* n takes a message out of the network, in one of its ticks.
Receives(n) == \E m \in net \ net' : m.target = n

\* A message of this kind from a reaches the network of b.
Reaches(kind, a, b) ==
    \E m \in net' \ net : m.kind = kind /\ m.source = a /\ m.target = b

\* There is room for another message to n within the bound on messages in flight.
HasRoom(n) == Cardinality({m \in net : m.target = n}) < MaxInFlight

\* a is a leader, between ticks, whose heartbeat to b would fit into the network; b is
\* about to answer AppendEntries of a.
MaySend(a, b) ==
    tick.node = Nil /\ node_is_leader(node[a]) /\ b \in Peers(node[a]) /\ HasRoom(b)

MayAnswer(b, a) ==
    /\ Latching(b) /\ HasRoom(a)
    /\ \E m \in Inbox(b) : m.kind = "APPEND_ENTRIES" /\ m.source = a

\* The runtime ticks every node forever: a tick that began ends, a node with something to
\* do does it, and messages that arrived are latched.  The heartbeat timer fires again and
\* again, and of infinitely many messages between two nodes infinitely many arrive.
\* Nothing is assumed about elections, clients, stops, starts and crashes.
Fairness ==
    /\ []<>(tick.node = Nil)
    /\ \A n \in Server :
        /\ []<>(Latching(n) /\ ~Settled(node[n])) => []<><<Ticks(n)>>_vars
        /\ []<>(Latching(n) /\ Inbox(n) # {}) => []<><<Receives(n)>>_vars
    /\ \A a \in Server : \A b \in Server \ {a} :
        /\ []<>MaySend(a, b) => []<><<Reaches("APPEND_ENTRIES", a, b)>>_vars
        /\ []<>MayAnswer(b, a) => []<><<Reaches("APPEND_ENTRIES_RESPONSE", b, a)>>_vars

FairSpec == Spec /\ Fairness

-----------------------------------------------------------------------------
MembersOf(n) == node[n].config_state.old \cup node[n].config_state.new

\* A leader, with the excuse that a member it needs is stopped.
Leads(n) == node_is_leader(node[n]) /\ \A m \in MembersOf(n) : node[m].running

\* Some member has not applied an entry that n created in its term.
Behind(n) ==
    \E p \in 1..node[n].log_count :
        LET e == node[n].log[p]
        IN  /\ e.term = node[n].current_term /\ e.leader_id = n
            /\ \E m \in MembersOf(n) : node[m].last_applied < e.index

\* What a leader appends in its term is applied by every member, unless it loses the
\* lead or a member is stopped: no pattern of lost requests and answers, of late answers that
\* lower match_index and next_index, and no change of peer positions when the learner becomes a
\* member, stops replication for good.
EntriesReachMembers == \A n \in Server : Leads(n) /\ Behind(n) ~> ~Leads(n) \/ ~Behind(n)

Changing(n) ==
    node[n].requested_membership_pending \/ configuration_is_joint(node[n].config_state)

\* The configuration entry the driver waits for is one of an earlier term: node n led
\* before, and without a new entry nothing commits it.
WaitsForOldEntry(n) ==
    LET s == node[n]
        waits_for == CASE s.membership_state = "JOINT_PENDING" -> s.joint_config_index
                       [] s.membership_state = "FINALIZING" -> s.final_config_index
                       [] OTHER -> 0
    IN  waits_for > 0 /\ node_term_at_index(s, waits_for) # s.current_term

\* A membership change a leader was asked for, or found in its log, comes to its end,
\* with the same excuses and the one above: the driver passes through JOINT_PENDING, JOINT
\* and FINALIZING whenever the entries it waits for are applied.
MembershipChangeEndsInTerm ==
    \A n \in Server :
        Leads(n) /\ Changing(n) ~> ~Leads(n) \/ ~Changing(n) \/ WaitsForOldEntry(n)
=============================================================================
