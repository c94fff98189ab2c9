-------------------------------- MODULE Raft --------------------------------
(***************************************************************************)
(* The raft class of a consensus node and the SendMsg handler that drives  *)
(* it: leader election, heartbeats and the list of peers.                  *)
(*                                                                         *)
(* Every node runs one ticker thread, which calls loop_process once a      *)
(* second and blocks in brpc::Join while a round of calls is out, and a    *)
(* pool of brpc workers, which run SendMsg for the other nodes.  Nothing   *)
(* in the class is locked.  A round is modelled call by call: the handler  *)
(* may run before, during or after the caller has given up, or twice.      *)
(* A tick that comes while a round is out (Overlap) is modelled where it   *)
(* makes no calls of its own; that it starts a second round beside the one *)
(* in Join, which a round longer than the second between ticks allows, is  *)
(* not.                                                                    *)
(***************************************************************************)
EXTENDS Integers, FiniteSets

CONSTANTS
  Node,              \* the consensus nodes; consen_node_hosts of each lists the others
  HeartbeatInterval, \* time_interval of the [raft] section
  VoteThreads,       \* brpc workers that may be inside one node's vote() at once
  RequiredChecked,   \* does protobuf refuse a reply whose required fields are unset?
  Lossy,             \* may a call exceed its timeout_ms, or a reply be lost?
  Overlap,           \* may a tick that makes no calls come while another one is in Join?
  MaxLate,           \* bound: abandoned requests that may still be on their way
  MaxRestart         \* bound: restarts of each node's process

ASSUME NodeAssumption == IsFiniteSet(Node) /\ Cardinality(Node) > 1
ASSUME BoundAssumption ==
  /\ HeartbeatInterval \in Nat /\ VoteThreads \in Nat
  /\ MaxLate \in Nat /\ MaxRestart \in Nat
ASSUME FlagAssumption ==
  RequiredChecked \in BOOLEAN /\ Lossy \in BOOLEAN /\ Overlap \in BOOLEAN

VARIABLES
  role,      \* _role
  session,   \* _session
  voted,     \* _voted
  ticket,    \* _ticket_num
  elapsed,   \* _time_elapsed, counted up to _time_trigger
  trigger,   \* _time_trigger
  peers,     \* the keys of _other_nodes and _rpc_channels, always erased together
  pc,        \* what the ticker thread is blocked in
  call,      \* call[n][m]: the call of n's current round to m
  late,      \* requests whose caller no longer waits for them
  life,      \* restarts of each node (history)
  backers,   \* backers[n]: the nodes whose vote() has said yes to n (history)
  lost,      \* has the process lost an election since it started? (history)
  clean      \* did it win its first one with no peer erased? (history)

ballot  == <<session, voted>>
timer   == <<elapsed, trigger>>
rpc     == <<pc, call, late>>
history == <<life, backers, lost, clean>>
vars    == <<role, ballot, ticket, timer, peers, rpc, history>>

Others(n) == Node \ {n}

\* rand()%consen_node_num+hearbeat_interval, consen_node_num being the hosts listed.
Triggers == HeartbeatInterval .. (HeartbeatInterval + Cardinality(Node) - 2)

Waiting  == {"sent", "granting"}
NotFailed == {"agreed", "answered"}   \* mutant: waits for the answers only
Answered == {"agreed", "answered", "failed"}
Requests == [kind : {"vote", "granting", "heartbeat"}, from : Node, to : Node]

NoCalls == [m \in Node |-> "none"]

Init ==
  /\ role    = [n \in Node |-> "FOLLOWER"]
  /\ session = [n \in Node |-> 0]
  /\ voted   = [n \in Node |-> FALSE]
  /\ ticket  = [n \in Node |-> 0]
  /\ elapsed = [n \in Node |-> 0]
  /\ trigger \in [Node -> Triggers]
  /\ peers   = [n \in Node |-> Others(n)]
  /\ pc      = [n \in Node |-> "idle"]
  /\ call    = [n \in Node |-> NoCalls]
  /\ late    = {}
  /\ life    = [n \in Node |-> 0]
  /\ backers = [n \in Node |-> {}]
  /\ lost    = [n \in Node |-> FALSE]
  /\ clean   = [n \in Node |-> FALSE]

-----------------------------------------------------------------------------
(* The ticker thread.                                                      *)

\* _time_elapsed+=1; only its comparison with the trigger is ever used.
Bump(n) == IF elapsed[n] < trigger[n] THEN elapsed[n] + 1 ELSE elapsed[n]

\* One asynchronous SendMsg per channel.
SendAll(n) ==
  call' = [call EXCEPT ![n] = [m \in Node |-> IF m \in peers[n] THEN "sent" ELSE "none"]]

\* loop_process of a LEADER: send_heartbeat up to its first Join.
TickLeader(n) ==
  /\ pc[n] = "idle" /\ role[n] = "LEADER"
  /\ SendAll(n)
  /\ pc' = [pc EXCEPT ![n] = "heartbeat"]
  /\ UNCHANGED <<role, ballot, ticket, timer, peers, late, history>>

\* loop_process of a FOLLOWER whose time has not come.
TickFollower(n) ==
  /\ pc[n] = "idle" \/ Overlap
  /\ role[n] = "FOLLOWER" /\ elapsed[n] < trigger[n]
  /\ elapsed' = [elapsed EXCEPT ![n] = Bump(n)]
  /\ UNCHANGED <<role, ballot, ticket, trigger, peers, rpc, history>>

\* mutant: asks only the clock
TimeIsUp(n) == elapsed[n] >= trigger[n]
MustElect(n) == role[n] = "FOLLOWER" /\ elapsed[n] >= trigger[n]

\* loop_process of a FOLLOWER whose time has come: reselection_leader up to its first Join.
StartElection(n) ==
  /\ pc[n] = "idle" /\ MustElect(n)
  /\ role' = [role EXCEPT ![n] = "CANDIDATE"]
  /\ SendAll(n)
  /\ pc' = [pc EXCEPT ![n] = "election"]
  /\ UNCHANGED <<ballot, ticket, timer, peers, late, history>>

\* What a lost election leaves in _ticket_num; a new process starts from 0 instead.
FreshTicket == 0                      \* mutant: starts from 0 again
LostTicket == 1

\* The majority loop_process asks for, one ticket short of reselection_leader's.
AtLeastHalf(n) == ticket[n] >= Cardinality(peers[n]) \div 2

\* loop_process that finds its own election still running.
TickCandidate(n) ==
  /\ Overlap /\ role[n] = "CANDIDATE"
  /\ IF AtLeastHalf(n)
       THEN /\ role' = [role EXCEPT ![n] = "LEADER"]
            /\ UNCHANGED <<ticket, lost>>
       ELSE /\ role' = [role EXCEPT ![n] = "FOLLOWER"]
            /\ ticket' = [ticket EXCEPT ![n] = LostTicket]
            /\ lost' = [lost EXCEPT ![n] = TRUE]
  /\ UNCHANGED <<ballot, timer, peers, rpc, life, backers, clean>>

\* One brpc::Join of a round, taken in the (unspecified) order of the hash map:
\* a failed call erases the peer for good, a vote that agreed is a ticket.
Join(n, m) ==
  /\ call[n][m] \in Answered
  /\ call' = [call EXCEPT ![n][m] = "none"]
  /\ peers' = IF call[n][m] = "failed" THEN [peers EXCEPT ![n] = @ \ {m}] ELSE peers
  /\ ticket' = IF call[n][m] = "agreed" THEN [ticket EXCEPT ![n] = @ + 1] ELSE ticket
  /\ UNCHANGED <<role, ballot, timer, pc, late, history>>

\* mutant: returns on the last reply without having joined it
LastReply(n) == \A m \in Node : call[n][m] \notin Waiting
RoundOver(n) == call[n] = NoCalls

Elected(n) == ticket[n] > Cardinality(peers[n]) \div 2

\* The end of reselection_leader and, in loop_process, the tick counted after it.
EndElection(n) ==
  /\ pc[n] = "election" /\ RoundOver(n)
  /\ elapsed' = [elapsed EXCEPT ![n] = Bump(n)]
  /\ pc' = [pc EXCEPT ![n] = "idle"]
  /\ UNCHANGED <<ballot, trigger, peers, call, late, life, backers>>

WinElection(n) ==
  /\ EndElection(n)
  /\ Elected(n)
  /\ role' = [role EXCEPT ![n] = "LEADER"]
  /\ clean' = [clean EXCEPT ![n] = ~lost[n] /\ peers[n] = Others(n)]
  /\ UNCHANGED <<ticket, lost>>

LoseElection(n) ==
  /\ EndElection(n)
  /\ ~Elected(n)
  /\ role' = [role EXCEPT ![n] = "FOLLOWER"]
  /\ ticket' = [ticket EXCEPT ![n] = LostTicket]
  /\ lost' = [lost EXCEPT ![n] = TRUE]
  /\ UNCHANGED clean

\* The end of send_heartbeat.
EndHeartbeat(n) ==
  /\ pc[n] = "heartbeat" /\ RoundOver(n)
  /\ pc' = [pc EXCEPT ![n] = "idle"]
  /\ UNCHANGED <<role, ballot, ticket, timer, peers, call, late, history>>

\* A GetTxFromFollower or SendBlockToOtherNode call of a LEADER, made on the thread
\* that distributes blocks, has failed: that peer is erased from the same maps.
LeaderCallFailed(n, m) ==
  /\ Lossy /\ role[n] = "LEADER" /\ m \in peers[n]
  /\ peers' = [peers EXCEPT ![n] = @ \ {m}]
  /\ UNCHANGED <<role, ballot, ticket, timer, rpc, history>>

-----------------------------------------------------------------------------
(* The brpc workers: SendMsg.                                              *)

\* The vote request sets type only; its optional session reads as the default.
ReqSession == 0

SameOrNewer(m) == role[m] = "FOLLOWER" /\ ReqSession >= session[m]     \* mutant: no _voted

\* vote() up to the point where it has decided to say yes.
CanVote(m) ==
  /\ role[m] = "FOLLOWER"
  /\ ReqSession > session[m] \/ (ReqSession = session[m] /\ ~voted[m])

\* vote() from there on.
CastVote(m, n) ==
  /\ session' = [session EXCEPT ![m] = IF ReqSession > @ THEN ReqSession ELSE @]
  /\ voted' = [voted EXCEPT ![m] = TRUE]
  /\ backers' = [backers EXCEPT ![n] = @ \cup {m}]

\* Workers of m that are between the two.
InVote(m) ==
  {n \in Node : call[n][m] = "granting"} \cup
  {n \in Node : [kind |-> "granting", from |-> n, to |-> m] \in late}

TypedReply(a) == a                    \* mutant: the handler sets type

\* Nothing in SendMsg sets the required field type of its reply.
Reply(a) == IF RequiredChecked THEN "failed" ELSE a

\* The reply reaches the caller, or is lost and brpc sends the request again.
Return(n, m, a) ==
  \/ call' = [call EXCEPT ![n][m] = Reply(a)]
  \/ Lossy /\ call' = [call EXCEPT ![n][m] = "sent"]

\* vote() says no, whether by its role, its session or an earlier vote.
VoteRefused(n, m) ==
  /\ pc[n] = "election" /\ call[n][m] = "sent" /\ ~CanVote(m)
  /\ call' = [call EXCEPT ![n][m] = Reply("answered")]
  /\ UNCHANGED <<role, ballot, ticket, timer, peers, pc, late, history>>

VoteChecked(n, m) ==
  /\ pc[n] = "election" /\ call[n][m] = "sent" /\ CanVote(m)
  /\ Cardinality(InVote(m)) < VoteThreads
  /\ call' = [call EXCEPT ![n][m] = "granting"]
  /\ UNCHANGED <<role, ballot, ticket, timer, peers, pc, late, history>>

VoteGranted(n, m) ==
  /\ call[n][m] = "granting"
  /\ CastVote(m, n)
  /\ Return(n, m, "agreed")
  /\ UNCHANGED <<role, ticket, timer, peers, pc, late, life, lost, clean>>

\* reset_elapse_time; an unlocked += 1 of the ticker may overwrite the reset.
ResetElapsed(m) ==
  \/ elapsed' = [elapsed EXCEPT ![m] = 0]
  \/ /\ role[m] = "FOLLOWER"
     /\ elapsed' = [elapsed EXCEPT ![m] = Bump(m)]

Heartbeat(n, m) ==
  /\ pc[n] = "heartbeat" /\ call[n][m] = "sent"
  /\ ResetElapsed(m)
  /\ Return(n, m, "answered")
  /\ UNCHANGED <<role, ballot, ticket, trigger, peers, pc, late, history>>

-----------------------------------------------------------------------------
(* brpc: timeouts and the requests they leave behind; process restarts.    *)

Abandoned(n, m) ==
  [kind |-> IF call[n][m] = "granting" THEN "granting"
            ELSE IF pc[n] = "election" THEN "vote" ELSE "heartbeat",
   from |-> n, to |-> m]

\* timeout_ms is over; the request is lost, or will still be handled one day.
Timeout(n, m) ==
  /\ Lossy /\ call[n][m] \in Waiting
  /\ call' = [call EXCEPT ![n][m] = "failed"]
  /\ \/ UNCHANGED late
     \/ /\ Cardinality(late) < MaxLate
        /\ late' = late \cup {Abandoned(n, m)}
  /\ UNCHANGED <<role, ballot, ticket, timer, peers, pc, history>>

\* SendMsg on behalf of a caller that no longer waits: the effect without the reply.
LateVote(r) ==
  /\ r.kind = "vote"
  /\ IF CanVote(r.to)
       THEN /\ Cardinality(InVote(r.to)) < VoteThreads
            /\ late' = (late \ {r}) \cup {[kind |-> "granting", from |-> r.from, to |-> r.to]}
       ELSE late' = late \ {r}
  /\ UNCHANGED <<role, ballot, ticket, timer, peers, pc, call, history>>

LateGranted(r) ==
  /\ r.kind = "granting"
  /\ CastVote(r.to, r.from)
  /\ late' = late \ {r}
  /\ UNCHANGED <<role, ticket, timer, peers, pc, call, life, lost, clean>>

LateHeartbeat(r) ==
  /\ r.kind = "heartbeat"
  /\ ResetElapsed(r.to)
  /\ late' = late \ {r}
  /\ UNCHANGED <<role, ballot, ticket, trigger, peers, pc, call, history>>

\* The process of n dies and a new one builds its raft object from config.ini.  Of the
\* requests it had out some may still arrive; those its own workers were serving go
\* unanswered.
Restart(n) ==
  /\ life[n] < MaxRestart
  /\ life'    = [life EXCEPT ![n] = @ + 1]
  /\ role'    = [role EXCEPT ![n] = "FOLLOWER"]
  /\ session' = [session EXCEPT ![n] = 0]
  /\ voted'   = [voted EXCEPT ![n] = FALSE]
  /\ ticket'  = [ticket EXCEPT ![n] = 0]
  /\ elapsed' = [elapsed EXCEPT ![n] = 0]
  /\ \E t \in Triggers : trigger' = [trigger EXCEPT ![n] = t]
  /\ peers'   = [peers EXCEPT ![n] = Others(n)]
  /\ pc'      = [pc EXCEPT ![n] = "idle"]
  /\ call'    = [m \in Node |->
                   IF m = n THEN NoCalls
                   ELSE [call[m] EXCEPT ![n] = IF @ = "granting" THEN "sent" ELSE @]]
  /\ \E R \in SUBSET {Abandoned(n, m) : m \in {k \in Node : call[n][k] \in Waiting}} :
       /\ \A m \in Node : call[n][m] = "granting" => Abandoned(n, m) \in R
       /\ late' = R \cup {r \in late : ~(r.kind = "granting" /\ r.to = n)}
       /\ Cardinality(late') <= MaxLate
  /\ lost'    = [lost EXCEPT ![n] = FALSE]
  /\ clean'   = [clean EXCEPT ![n] = FALSE]
  /\ UNCHANGED backers

-----------------------------------------------------------------------------
Ticker(n) ==
  \/ TickLeader(n) \/ TickFollower(n) \/ StartElection(n) \/ TickCandidate(n)
  \/ \E m \in Node : Join(n, m)
  \/ WinElection(n) \/ LoseElection(n) \/ EndHeartbeat(n)

SendMsg(n, m) ==
  VoteRefused(n, m) \/ VoteChecked(n, m) \/ VoteGranted(n, m) \/ Heartbeat(n, m)

LateMsg == \E r \in late : LateVote(r) \/ LateGranted(r) \/ LateHeartbeat(r)

Next ==
  \/ \E n \in Node : Ticker(n) \/ Restart(n)
  \/ \E n, m \in Node : SendMsg(n, m) \/ Timeout(n, m) \/ LeaderCallFailed(n, m)
  \/ LateMsg

Spec == Init /\ [][Next]_vars

\* The ticker is a timer that never stops, and a call ends after timeout_ms at the
\* latest.  Nothing makes a request arrive, so the handlers get no fairness.
Fairness ==
  \A n \in Node : WF_vars(Ticker(n)) /\ \A m \in Node : WF_vars(Timeout(n, m))

FairSpec == Spec /\ Fairness

-----------------------------------------------------------------------------
(* What the election promises.                                             *)

\* The values each variable takes; a peer is never the node itself, and a node never
\* has calls out without its ticker thread being inside a round.
TypeOK ==
  /\ role \in [Node -> {"LEADER", "CANDIDATE", "FOLLOWER"}]
  /\ session \in [Node -> Nat]
  /\ voted \in [Node -> BOOLEAN]
  /\ ticket \in [Node -> Nat]
  /\ elapsed \in [Node -> Nat]
  /\ trigger \in [Node -> Triggers]
  /\ peers \in [Node -> SUBSET Node]
  /\ pc \in [Node -> {"idle", "election", "heartbeat"}]
  /\ call \in [Node -> [Node -> {"none"} \cup Waiting \cup Answered]]
  /\ late \in SUBSET Requests
  /\ life \in [Node -> Nat]
  /\ backers \in [Node -> SUBSET Node]
  /\ lost \in [Node -> BOOLEAN]
  /\ clean \in [Node -> BOOLEAN]
  /\ \A n \in Node : n \notin peers[n] /\ (pc[n] = "idle" => call[n] = NoCalls)

\* The nodes m has said yes to.
VotesOf(m) == {n \in Node : m \in backers[n]}

\* A process votes once in its life (_voted is never reset), but vote() is not locked:
\* until it has voted, every worker that is inside vote() at once may say yes.
VotesBounded == \A m \in Node : life[m] = 0 => Cardinality(VotesOf(m)) <= VoteThreads

\* The one ticket a process holds without anybody's vote, once it has lost an election.
FreeTickets(n) == IF lost[n] THEN 1 ELSE 0

\* Whatever replies were lost, repeated or late, a LEADER has had the votes of more than
\* half of the peers it has left, the free ticket of reselection_leader included; of half
\* of them where a tick may come during an election and apply loop_process's majority.
LeaderBacked ==
  \A n \in Node : role[n] = "LEADER" =>
    LET tickets == FreeTickets(n) + Cardinality(backers[n])
        half    == Cardinality(peers[n]) \div 2
    IN  tickets > half \/ (Overlap /\ tickets >= half)

\* Where vote() never runs twice at once and no process restarts, two nodes cannot both
\* win their first election with all their peers still listed: the first round of
\* elections is the one the code gets right.
FirstElectionUnique ==
  VoteThreads = 1 /\ (\A n \in Node : life[n] = 0) =>
    \A a, b \in Node : clean[a] /\ clean[b] => a = b

\* What the missing required field of the SendMsg reply makes of the election: a node
\* only ever becomes LEADER of nobody, with every peer erased.
LeaderAlone ==
  RequiredChecked => \A n \in Node : role[n] = "LEADER" /\ ~Overlap => peers[n] = {}

\* The roles a node reports move as LeaderRole says: LEADER is for life, and is reached
\* through CANDIDATE.
Roles == INSTANCE LeaderRole
RoleSpec == Roles!Spec

\* The ticker leaves every election it enters, however many replies never come, and then
\* the node is no CANDIDATE.
CandidateResolves ==
  \A n \in Node : pc[n] = "election" ~> pc[n] = "idle" /\ role[n] # "CANDIDATE"

\* With the replies as they are, every node elects itself, on its second try.
EveryNodeLeads == RequiredChecked => \A n \in Node : <>(role[n] = "LEADER")

\* Of two nodes one eventually leads, whatever calls are lost: a failed call erases the
\* peer, a vote that was answered is a ticket, and a lost election leaves one.
SomebodyLeads == Cardinality(Node) = 2 => <>(\E n \in Node : role[n] = "LEADER")
=============================================================================
