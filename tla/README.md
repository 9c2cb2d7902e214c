# raft_rx: specification and proofs

TLA+ models of the C program of `raft_rx`: the consensus engine and its storage, the TCP and
MQTT transports, and the command line of the demo application. They are model-checked with TLC,
and the engine and the transports are proved in part with TLAPS. Paths below are relative to the repository root.

## The system

| component | source | state | operations |
|---|---|---|---|
| C engine | `c/src/raft.c`, `c/include/raft/raft.h` | `struct raft_node`: term, vote, log array with a snapshot base, commit and apply indexes, configuration and membership state, peer positions, outbox, dirty mark | per tick `latch_inputs`, one row of `RAFT_TRANSITIONS`, `dump_outputs`; the calls `stop`, `start`, `reset_for_join`, `request_membership_change`, `submit_command` |
| C storage | `c/src/raft_storage.c` | `meta.txt`, `log.txt`, `snapshot.bin` per node | save (meta, then log), save_snapshot, load |
| C memory transport | `c/src/raft_transport.c` | a message queue and a command queue per node | send, recv, submit, recv_commands |
| C TCP transport | `c/src/raft_tcp_transport.c` | flags `enabled` and `shutdown`, queues of messages, joins, forwarded commands and commands, peer table; `peers.txt`, `self.txt`; a listener thread | send, recv, set_enabled, join exchange, forwarded commands, add_peer, start, stop |
| C MQTT transport | `c/src/raft_mqtt_transport.c`, `raft_mqtt_join.c`, `raft_mqtt_hal_posix.c` | receive ring, command and join queues, subscriptions; a thread that runs the MQTT library | publish, recv, set_enabled, start, stop, recv_joins |
| C command line | `c/examples/demo_app/src/cli_fsm.c`, `main.c` | pending joins, `leave_pending`, `rejoin_pending` | the lines set, delete, addnode, rmnode, leave, join, merge, stop, start, quit; the handshake of a join |
| key-value application | `c/src/raft_kv_app.c` | a table | apply, reload, snapshot, restore |
| counter example | `c/examples/counter` | a counter | a command line without joins |
| Python engine | `python/src/raft_rx` | the same protocol written a second time | as above |
| rxnet | external submodule | the tick scheduler | latch, transition, dump |

A node is single-threaded: rxnet calls `latch_inputs`, the first row of the table whose guard
holds, then `dump_outputs`. Nodes interact only through messages that the transport delivers
late, in any order, or not at all, and through the files they read again after a crash. The
application sees `apply`, `snapshot`, `restore_snapshot` and `reload`.

A transport has a second thread, which fills queues that the main thread empties. The command
line is a second machine of the same process. It reads the engine's state (role, configuration,
log), calls its API, and talks to the command lines of other processes through the transport's
join and command frames; addresses also travel as commands of the replicated log.

What is hard here, and what the properties are about:

* **crashes between writes**: three files are replaced one after the other, and messages leave
  after them. A vote or an entry that somebody has seen must not be lost
  (`VotesAreDurable`, `OneVotePerTerm`, `SentEntriesAreDurable`, `RestartLosesNothing`).
* **index arithmetic**: logical indexes, array positions and the snapshot boundary, through
  truncation, compaction and load (`TypeOK`, `LogIsContiguous`, `NextToApplyIsInLog`,
  `ClosedForm`).
* **replaced entries that were applied**: merging clusters that were bootstrapped apart is a
  feature of this engine; entries carry their creator, and the application is rebuilt
  (`LogMatching`, `AppliedIsLogPrefix`).
* **snapshots** that are labelled with the index of the slowest peer (`StateMachineSafety`).
* **joint consensus driven from volatile state** (`LeaveMatchesEnter`, `ConfigurationIsLogged`,
  `OnlyMembersLead`, `MembersWereChosen`).
* **stale information**: terms, votes, match indexes and peer positions that outlive what they
  described (`ElectionSafety`, `CommittedOnMajority`).
* **two threads and a queue**: a flag read without the lock, a queue emptied while it is filled,
  a ring at its limit, a stop that waits for a thread (`ImplementsNetwork`,
  `StopLeavesOneMessage`, `EventuallyReceived`, `StopReturnsUnlessHung`, `EventuallyReported`).
* **what must happen in the end**, although messages are lost, answers come late, `next_index` is
  lowered by old ones, and members and peer positions change meanwhile (`EntriesReachMembers`,
  `MembershipChangeEndsInTerm`).
* **the handshake of a join** over two processes and the log: addresses must arrive before the
  configuration that needs them, a command must not be queued twice, a process must not leave
  before it is removed (`MembersKnowEachOther`, `JoinCompletes`, `AppliedOnce`,
  `LeavesWhenRemoved`).

`PROJECT.json` lists every hazard with its line and the properties that would catch it.

## Modules

```
RaftTypes        data, log indexes, peer positions        raft.h, top of raft.c
  RaftStorage    the three files                          raft_storage.c
    RaftCore     replication and message handlers         raft.c 309-589
      RaftNode   apply, compaction, membership, boot      raft.c 594-1337
        RaftCluster     nodes, disks, network; Spec       latch, table, dump, API
          RaftProperties   what must hold
            MCRaft         constants of its runs
            RaftProgress   fairness, what must happen
              MCProgress     constants of its run
              RaftCli        the command line over the engine    cli_fsm.c, main.c
                MCCli          constants of its runs
          RaftTypeProofs   Spec => []TypeOK
            RaftVoteProofs   votes are durable and final (with RaftProperties)
            RaftLogProofs    logs and restarts (with RaftProperties)
              RaftMatchProofs   logs agree
                RaftApplyProofs   what is applied; members
        RaftAppendLoop  the AppendEntries loop, entry by entry
          MCAppendLoop    constants of its run
          RaftAppendLoopProofs   the loop is its closed form

RaftNetwork        what a transport promises the engine (abstract)
RaftTcpTransport   implements it    raft_tcp_transport.c, main.c      MCTcp, RaftTcpProofs
RaftMqttTransport  implements it    raft_mqtt_*.c                     MCMqtt, RaftMqttProofs
```

### The engine

A node is a record with the fields of `struct raft_node`; a handler is an operator from the
node before it to the node after it and keeps the name of the C function. `RaftCluster` has
the actions:

| action | code |
|---|---|
| `LatchResponse`, `LatchAndRow` | `raft_node_latch_inputs`, then the row |
| `BecomeCandidate` ... `SendHeartbeat`, `NoTransition` | the rows of `RAFT_TRANSITIONS`, in their order |
| `Dump`, `ApplyEntry`, `FinishTick` | `raft_node_dump_outputs` |
| `Crash`, `CrashAfterSnapshot`, `CrashAfterMeta`, `CrashAfterSave` | process death, then `raft_node_init` |
| `Stop`, `Start`, `RequestMembershipChange`, `ResetForJoin` | the API of the same names |
| `QuietTicks` | ticks with nothing to do |

Abstractions, and why they lose nothing the properties tell apart:

* **Time.** Deadlines are gone: an election timer may have expired at any tick (within
  `ElectionsFrom`), and so may the heartbeat timer. Every timing the code can show is included.
* **Ticks.** A node touches the network when it latches and when its dump sends, and its disk in
  the dump only. One node at a time is inside its tick; the variable `tick` says which. The tick
  is split where something can come between: responses of one latch, entries applied, file
  writes of a dump if a crash is still allowed.
* **Pending arrays.** The latch fills three arrays of which only the first element is ever
  handled. As the network reorders, that is any message of the kind.
* **Queues.** `RAFT_MAX_QUEUE` overflow of an outbox or a transport queue drops a message, which
  the network may do anyway.
* **Member lists** are sets; ids are positive numbers, so that the sorted positions that index
  `next_index` and `match_index` are the code's. The peers are computed from the configuration
  (`Peers`), where the code keeps them in `config.peers` and refreshes them with it. The one
  exception is `raft_node_start`, which loads the configuration again and refreshes the peers only
  in its fallback branch (`raft.c:1274-1288`). Between ticks the files of a node have the members
  it has in memory, so that this shows only for a learner that boots over the files of an earlier
  life and is stopped and started before it has saved anything: it has peers in the model and none
  in C.
* **Log slots** past `log_count` keep what was written to them; a read outside the array returns
  the constant `OutOfBounds`.
* **The application** is the sequence of commands applied to it. `snapshot` copies it.
* **Files** are replaced atomically and survive the death of the process; loss of power, where
  an unsynced file can be lost, is not modelled. A log line reads back as the entry it was
  written from, which holds for keys without `|` and fields without line breaks.

### The transports

`RaftNetwork` is the abstract specification: a network that may lose messages, and hands the
others to the engine of their target, once, in the order each sender sent them. It is stronger
than the network inside `RaftCluster`, which also reorders and duplicates, so what holds there
holds over either transport. `ImplementsNetwork` is the refinement: `sent` and `received` of the
transports are the abstract variables, everything else is hidden.

| `RaftTcpTransport` | code |
|---|---|
| `tcp_send`, `tcp_send_join`, `raft_tcp_transport_forward_cmd` | the frames; a connection fails, breaks half way, or falls silent |
| `TestShutdown`, `SelectFails`, `Accept`, `Receive`, `Gate`, `Store` | `tcp_listener_thread`: the test of `shutdown`, `select` with its timeout or a socket closed since, `accept`, `recv_full`, the unlocked test of `enabled`, the locked append |
| `Hangs`, `ConnectionReset`, `AbortInSelect` | `recv_full` of a peer that is gone; its connection is reset after all; `FD_SET` of a closed socket in a build that checks it |
| `tcp_recv`, `tcp_recv_commands`, `raft_tcp_transport_recv_joins`, `raft_tcp_transport_recv_fwd_cmds` | the main thread empties a queue under the lock |
| `Enable`, `Disable`, `Clear` | `raft_node_start` and `raft_node_stop` with `tcp_set_enabled`: the flag, then the queues |
| `Expel`, `ResetForJoin` | the node stops, or runs again, and its transport is left as it is |
| `LoadPeer`, `LearnPeer`, `FinishSave` | `add_peer`, and `peers.txt` between `fopen` and `fclose` |
| `FinishSetup`, `raft_tcp_transport_listen`, `Stop`, `JoinThread`, `Crash` | start, stop, process death |

| `RaftMqttTransport` | code |
|---|---|
| `ProcessLoop` | `posix_mqtt_thread` with `posix_mqtt_event_cb`: one publish into the ring |
| `BeginRecv`, `RecvOne`, `EndRecv` | `mqtt_recv`, one ring slot per lock |
| `Enable`, `Disable`, `DrainOne`, `EndDrain` | `mqtt_set_enabled` |
| `Expel`, `ResetForJoin` | as above |
| `Connect`, `Subscribe`, `SubscribeFails`, `raft_mqtt_transport_stop` | start and stop |
| `Discover`, `Announce`, `ReportJoins` | `raft_mqtt_transport_recv_joins` |
| `LoseLink`, `Publish` | the broker and the library (external) |

A critical section is one step, and everything outside the lock is a step of its own. Frames are
complete, broken, or never completed; addresses are the nodes they belong to. MQTT messages have
QoS 0, the default of the header (the repository's test sets 1, with which a broker may repeat
them). MQTT ids are sequences of letters,
because the join queue copies them over one another.

### The command line

`RaftCli` ticks the command line (`CliTick`: latch, a typed line or none, the whole
`cli_dump_outputs`) between ticks of the engine (`EngineTick`, the actions of `RaftCluster` with
the command queue and the addresses of the process). The transport is reduced to what the runs
above show of it: a frame is in the queue of its target, is lost, or is refused by a process that
has quit. `AfterLeaving`,
`HandleJoins`, `HandleMerge`, `HandleJoin` and `HandleForwarded` are the parts of
`cli_dump_outputs`, in their order; the `cmd_*` operators are the lines.

## Runs

Nodes are 1, 2, 3; a bound is a constant with its reason beside it in the module that declares
it. Deadlock is checked wherever ticks go on forever. It is not in `AppendLoop`, which ends, and
in `Tcp` and `Mqtt`, where a behaviour stops when the bounds on frames and calls are used up.

| run | instance | shows |
|---|---|---|
| `Restart` | 2 nodes, contested elections, compaction at threshold 1, 2 crashes between any two writes | `TypeOK`, `RestartLosesNothing`, `LogIsContiguous`, `SentEntriesAreDurable`, `VotesAreDurable`, `OneVotePerTerm` |
| `Merge` | 2 one-node clusters with a common term, merged; messages duplicated, reordered, two per latch | `LogMatching`, `AppliedIsLogPrefix`, `LeaderAppendOnly` |
| `Membership` | {1, 2} becomes {1, 3}, two elections, 2 calls (the request, and a stop or the request again), a log of two slots that fills and is compacted | `LeaveMatchesEnter`, `ConfigurationIsLogged`, `OnlyMembersLead`, `MembersWereChosen`, `NextToApplyIsInLog` |
| `Progress` | a learner becomes a member, two elections, one entry per leader, two messages in flight, lost and reordered; fair | `EntriesReachMembers`, `MembershipChangeEndsInTerm` |
| `AppendLoop` | all logs and messages of up to `RAFT_MAX_LOG` entries | `ClosedForm` |
| `Tcp` | 2 processes, queues and backlog of two, 3 frames, 2 stops, starts, crashes or calls; fair | `ImplementsNetwork`, `StopLeavesOneMessage`, `EventuallyReceived`, `StopReturnsUnlessHung` |
| `Mqtt` | 2 nodes, a ring of two, 2 messages, 2 stops, crashes or lost connections; fair | `ImplementsNetwork`, `EventuallyReceived`, `EventuallyReported` |
| `Join` | a cluster of two, a third process joins through either; fair | `MembersKnowEachOther`, `JoinCompletes` |
| `Cli` | a cluster of one that a second process joins; two of the lines set, leave, join, merge, stop; a frame lost | `AppliedOnce`, `LeavesWhenRemoved` |

Why the bounds are enough: two terms are what it takes for a deposed leader to meet its
successor; one entry per leader is what it takes for a conflict and three for a batch to span
it; a log of two or three slots fills, so that the full-log paths run; threshold 1 compacts at
every entry, a second time before the first snapshot is forgotten; two crashes allow one
inside the recovery from the other. Messages in flight are bounded per target (`MaxInFlight`),
which also stands for queues that overflow. In the transports a queue of two with three frames
(or two messages and two announcements) fills, overflows and wraps; two operations are a stop
and a start, an expulsion and a reset, or a crash while a stop is under way. The sender's own life changes nothing
for the receiver, so that only one process is stopped and crashed (`Observed`). The logs of
`Progress`, `Join` and `Cli` are long enough for every entry: a full log stops a membership
change for good, which is one of the failures below. Two typed lines are what it takes for one
to overtake the effect of the other. Answers that overtake each other need two messages in
flight, which `Progress` has; it latches them one at a time. `Cli` never compacts, so that
`node_log_has_command` finds what was appended.

### Fairness

`RaftProgress.Fairness` and `RaftCli.CliFairness` assume that the runtime ticks every node, as the
main loop does, that a leader's heartbeat timer fires again and again, as its deadline is set
anew after each heartbeat, and that of infinitely many messages between two nodes infinitely
many arrive. They are stated as implications between "again and again", because a message may
be lost whenever it is sent. The transports assume weak fairness of the listener thread and the
MQTT thread, which the operating system schedules, of the rest of a call that has begun, and of
the calls every tick of a running node makes; an expelled node makes none, and nothing is assumed
of a peer that is gone. Nothing is assumed of elections, clients, typed lines, stops,
starts, crashes, or of any single message. What a process may do against a promise (lose the
lead, be stopped or expelled) is an excuse in the property.

### Where the code does not do what its documents say

Three runs end with a violation (`findings` in `PROJECT.json` quotes the documents):

| run | violated | in short |
|---|---|---|
| `TwoLeaders` | `ElectionSafety` | a leader that learns a higher term from a response leads on in it |
| `HeartbeatMatch` | `CommittedOnMajority` | a follower acknowledges its whole log, divergent part included |
| `SlowPeer` | `StateMachineSafety` | a leader with a slow peer snapshots an application that is ahead of the snapshot's label; after a restart it applies entries twice |

`ElectionSafety`, `CommittedOnMajority` and `StateMachineSafety` fail for these reasons; the passing
runs therefore state what does hold: what is durable, what is applied, and that logs match per
creator and term.

Properties that hold in their runs fail under other constants, which no run keeps:

* `LeaveMatchesEnter` with a crash between `meta.txt` and `log.txt` after an `enter_joint` was applied:
  the restarted node is in the joint configuration, applies the entry again, which returns early
  (`raft.c:657`), and does not have the requested members (`raft.c:1167`). The `leave_joint` it
  appends names nobody; the comment at 664-665 keeps the list "so a follower that becomes leader
  can drive the leave_joint with the correct member list". Also when a second request overwrites
  the first.
* `ConfigurationIsLogged` with a crash between `meta.txt` and `log.txt` in the tick in which a node
  receives and applies a configuration entry: after the restart its configuration names an entry
  that its log does not have (`raft_storage.c:197`). Also in a merge that replaces a committed
  configuration entry, as the engine does not take the configuration back (`raft.c:518`).
* `NextToApplyIsInLog` with compaction and a crash between `snapshot.bin` and `meta.txt`
  (`raft_storage.c:344`; the comment at 324-327 says the clamp keeps the node from applying
  "zeroed garbage entries").
* `StopReturnsUnlessHung` without the excuse: `recv_full` has no timeout (`raft_tcp_transport.c:29`);
  while a peer that is gone has sent part of a frame, the listener does not test `shutdown` and
  `pthread_join` (406) does not return. The header says of stop: "Signal the listener thread to
  exit and join it."
* `OnlyMembersLead` with membership changes that overlap: a leader that is a member only through
  one `enter_joint` applies another, which replaces the new members (`raft.c:659`), and leads on
  without being a member; the `leave_joint` does not stop it, as it was no member before
  (`raft.c:697`). It takes two lists and four elections.
* `CommittedOnMajority` where a change of configuration moves peer positions but not
  `match_index`.
* `MembershipChangeEndsInTerm` without `WaitsForOldEntry`: a configuration entry of an earlier
  term waits until somebody submits a command (`raft.c:789`; `docs/user-c.md:464-466`), and a
  full log stops the change for good.

Seen while modelling, and kept in the models as the code has it:

* `peers.txt` is truncated and rewritten in place (`raft_tcp_transport.c:300`;
  `docs/user-c.md:490-492` says atomically); a crash in between loses the addresses.
* The MQTT join queue copies a short id over a longer one without a terminator
  (`raft_mqtt_transport.c:50`), so that an id nobody has is reported; `Mqtt` uses ids of one
  length. `recv_joins` subscribes and announces once, connected or not, and never again after a
  lost connection (`raft_mqtt_join.c:17`). The HAL's lock is used before it is initialised by
  `connect` and after `disconnect` has destroyed it; the model takes it to work.
* `stop` typed after `leave` is taken for the removal: the process quits, or resets its node,
  while it is still a member. `join` typed after `stop` resets the node and leaves its transport
  disabled. A `join` whose leave cannot be forwarded leaves `rejoin_pending` set for a later
  plain `leave`.
* A lost announcement of the leader is never repeated: the joiner is added and cannot answer. A
  follower that is removed often never hears of it, because the leader stops sending to it. A
  leader that leaves a cluster of two can strand the other one.
* A second membership request overwrites one that is pending; a forwarded command that reaches a
  node that no longer leads is dropped without an answer.
* The announcements of a merge go round forever among three or more members (`cli_fsm.c:763`).
* The line `delete` submits `delete`, while `kv_apply` knows `del`; slots of deleted keys are
  not used again.

## Proofs

`RaftTypeProofs` proves `Spec => []TypeOK` from the named assumptions on the constants
(`ServerAssumption`, `LimitAssumption`, `DeploymentAssumption`, `OutOfBoundsAssumption`,
`BoundAssumption`): any finite set of nodes, any log and batch size, any bounds. `TypeOK` is
inductive. There is a lemma per operator and one per action; the arithmetic is in the log
array (`AppendedType`, `MergedCountType`, `DoCompactType`, `LoadedCountType`).

`RaftVoteProofs` proves, for `Learners = {}` and `Rejoining = {}` (no node is told to forget
its files; the code forgets term and vote when it is):

* `VotesDurable`: `Spec => []VotesAreDurable`
* `DurableVoteIsFinal`: `Spec => OneVotePerTerm`

Neither is inductive: a vote passes from a handler to the outbox, from memory to `meta.txt`
and from the outbox to the network. `VoteInv` follows it on the way: a node's vote `Follows`
the one on its disk and equals it unless `persist_dirty` is set; every grant in an outbox is
`Backed` by the node; outside its tick a node has nothing queued; every grant in flight is
backed by the voter's disk. The argument is compositional: each handler of the engine `Moves`
the node (the vote only goes forward, a changed vote is marked dirty, what it queues it backs),
`Moves` is transitive, and the end of the dump turns "marked dirty" into "saved" before
"queued" becomes "sent". A crash reloads what the disk has, whichever files were written.

`RaftLogProofs` proves four of the engine's properties from one invariant, `LogInv`, and `TypeOK`:

| theorem | states | for |
|---|---|---|
| `LogsStayContiguous` | `Spec => []LogIsContiguous` | `LogsSurvive` |
| `LeadersOnlyAppend` | `Spec => LeaderAppendOnly` | `LogsSurvive` |
| `CleanNodesRestart` | `Spec => []RestartLosesNothing` | `LogsSurvive`, `MembersKnown` |
| `AppliedEntriesAreInLog` | `Spec => []NextToApplyIsInLog` | `MaxCrashes = 0` |

What the hypotheses leave out is where the code does something else:

* `LogsSurvive` (no learner, or no crash): a learner discards what it has loaded when it boots,
  and later overwrites its files, `meta.txt` first. If it crashes between the two, the new
  `meta.txt` stands beside the `log.txt` of its former life, and a start by call loads a log that
  is out of place.
* `MembersKnown`: a node that is not started with `--join` has initial members, as
  `raft_node_init` sees to (`raft.c:1155`), and is not reset for a join: `raft_node_reset_for_join`
  saves a node without members, for which a restart without `--join` takes the initial ones.
* `MaxCrashes = 0`: a crash between `snapshot.bin` and `meta.txt` makes the load reject the
  snapshot, so that `last_applied` is 0 below a log that starts later (see above).

The deployments of `Restart` and `Merge` are among those the theorems are about, and for the last
theorem that of `Membership`.

`LogInv` says of each node and its files: the entries are in place, the commit index is not past
the log, and every message in the outbox numbers its entries from `prev_log_index` on (`Sound`);
`log.txt` starts with or before the entry after the snapshot, by the position `meta.txt` has and
by the one in memory (`FilesInPlace`); the configuration is not empty, in memory and in the files
(`Configured`, `FilesConfigured`); a clean node is what a restart loads (`Restarts`); the snapshot
was applied and saved (`AppliedSnapshot`, `SnapshotSaved`). Messages in flight number their
entries too. None of the four properties is inductive without this: an entry comes from a message
or from a file, `meta.txt` can be newer than `log.txt`, and a commit index past the log would be
cut by the load. What a handler does to one node is `Preserves`, which composes, and `Grows` for
the log of a leader; the steps of the cluster then come down to a few cases of what happens to
memory and files (`Handled`, `Acted`, `Dumped`, a restart).

`RaftMatchProofs` and `RaftApplyProofs` prove the properties of several logs and of what is
applied:

| theorem | states | for |
|---|---|---|
| `LogsMatch` | `Spec /\ []NotCompacted => []LogMatching` | `LogsSurvive`, `Rejoining = {}` |
| `AppliedInOrder` | `Spec /\ []NotCompacted => []AppliedIsLogPrefix` | `LogsSurvive` |
| `ExpelledStepsDown` | `Spec /\ [][NoOverlap]_vars => []OnlyMembersLead` | any deployment |
| `OneListIsEnough` | `Spec => []OnlyMembersLead` | `Memberships \subseteq {{}, M}` |
| `ConfigurationWasChosen` | `Spec => []MembersWereChosen` | any deployment |

Their hypotheses:

* `NotCompacted`: the properties compare positions of logs that start with index 1. The runs that
  check them do not compact either.
* `Rejoining = {}`: a node that is reset, or a learner that boots again, forgets its term. It can
  then lead in a term in which it has led before and create a second entry of the same creator,
  term and index.
* `NoOverlap`: a node that campaigns or leads in a joint configuration enters no other joint one.
  It fails exactly in the overlap of two changes described above, and `ExpelledStepsDown` says
  that nothing else makes a node lead that is no member. It holds where one list is asked for,
  which is how `OneListIsEnough` follows; TLC checked it on `Membership`.
* One list: two requests make overlapping changes (see above). `OneListIsEnough` and
  `ConfigurationWasChosen` also take the memory behind the log array (`OutOfBounds`) not to read as
  a configuration entry.

That a `leave_joint` names the list of its `enter_joint`, and that a configuration is the one of the
entry it names, is not true of this code in general (see above); `ConfigurationWasChosen` is what
holds in spite of overlapping requests, crashes between any two writes and early commits: however
lists are mixed up, lost or repeated, nobody becomes a member whom nobody chose.

Two leaders of one term are allowed in all of them, and no theorem uses election safety.

The arguments. `LogMatching` is not inductive, as the log in which two nodes' entries were once
together may be gone. The invariant `MatchInv` therefore says that there is a history: a set of
logs that agree with each other, of which every log on disk, every log in memory and every
message quotes a part (`Within`, `Covered`). What the node in its tick has appended and not saved
makes a larger history, which a save turns into the durable one and a crash takes back. A new
entry of a leader disagrees with nothing, because no log of the history has an entry of this
leader and term behind the leader's own last one (`NoneBehind`), which is why a creator must not
forget; what a follower takes over is a part of a log of the history, by the comparison of term
and `leader_id` at `prev_log_index` and at every later position.

`ApplyInv` is `AppliedIsLogPrefix` with the fact that `snapshot.bin` is never one that a node
without snapshot would load; with `LogInv` the entry to apply is in the log. Replaced applied
entries set `last_applied` to 0 and empty the application, which is the prefix of length 0. The
property counts (`AppliedCommands`, cardinalities) instead of filtering the log, so that the proof
needs no induction over it.

`SpeakInv(L)` follows lists of members: every configuration entry in a log, in a stale slot of its
array, in a file or in a message, every request, and every configuration in memory or on disk is
made of lists of the set `L`, or is a deployed one. `ConfigurationWasChosen` takes for `L` all lists
that are ever asked for, and the empty one, which is what a request forgotten in a crash leaves;
`OneListIsEnough` takes the one list, of which every joint configuration is then made.

`RaftAppendLoopProofs` proves `LoopIsClosedForm`, `Spec => []ClosedForm`, for every log, message
and array size. `LoopInv` is the closed form for the entries the loop has passed. The engine's
modules use the closed form, so that their theorems are about the loop of the code.

`RaftTcpProofs` proves `StopLeavesOne` (`Spec => []StopLeavesOneMessage`) and
`TcpImplementsNetwork` (`Spec => ImplementsNetwork`), `RaftMqttProofs` proves
`MqttImplementsNetwork`, all for any number of processes, queue sizes, messages, stops and
crashes. `RaftNetwork` only says what the engine sees. The inductive invariant (`TransportInv` in
both) says where the messages of one sender are in between, and that from stage to stage they are
in the order of their numbers, none above the number sent: backlog, listener, `in_queue`,
`received` over TCP (`Flow`); broker, ring, loop of `mqtt_recv`, `received` over MQTT (`Line`). For
TCP it adds that a frame past the test of `enabled` is a Raft message (`Gated`) and what a stopped
transport can still hold (`Stopped`). For MQTT it adds that head and tail of the ring are at most
its size apart (`RingOK`); they run freely and are taken modulo the size, and indexes closer than
the size have different slots (`SlotsApart`), so that the callback never overwrites a message that
was not taken out. A call of `recv` is a step of the abstract network when it returns; everything
else but a send is a stutter.

TLC checked each of the inductive invariants on the instances of the runs.

Only model-checked are:

* liveness under fairness, which this proof system cannot do: `EntriesReachMembers`,
  `MembershipChangeEndsInTerm`, `EventuallyReceived`, `StopReturnsUnlessHung`, `EventuallyReported`,
  `JoinCompletes`, `LeavesWhenRemoved`;
* `LeaveMatchesEnter` and `ConfigurationIsLogged`, which hold only where requests do not overlap and no
  process crashes, as in `Membership`;
* `SentEntriesAreDurable`, which is meant for terms with one leader: a leader that adopts a higher
  term from a response may, in the same tick, send entries in it and have them replaced by the
  leader of that term;
* the command line (`MembersKnowEachOther`, `AppliedOnce`): its loop over the pending joins is a
  recursive operator. The modules of the engine and the transports have none.

## Not modelled, and the plan

Not modelled:

* the Python engine, storage, transport and demo: a second implementation, which needs modules
  of its own;
* the ESP32 HAL (a vendor client and a FreeRTOS queue), TLS set-up;
* the key-value application and the counter: sequential, and determined by the sequence of
  applied commands that the models keep;
* text formats: member lists, log lines, frames, arguments, printing, tracing;
* the death of a process in `RaftCli` (`Restart` has it for the engine, `Tcp` for the transport),
  loss of power everywhere.

In this order:

1. proofs: that committed entries stay, for deployments in which one node leads, from the history of
   `RaftMatchProofs`, and with it `ConfigurationIsLogged` there;
2. the key-value application, member-list encoding and log-line format as operators checked
   against reference definitions;
3. the Python engine and its storage, with the differences from C.
