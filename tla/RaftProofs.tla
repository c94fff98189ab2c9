----------------------------- MODULE RaftProofs -----------------------------
(***************************************************************************)
(* Theorems about Raft, for every set of nodes and every value of the      *)
(* other constants.                                                        *)
(***************************************************************************)
EXTENDS Raft, FiniteSetTheorems, TLAPS

(* The inductive invariant, by subject. *)

\* Where the ticker thread can be in each role.
RoundInv ==
  \A n \in Node :
    /\ pc[n] = "heartbeat" => role[n] = "LEADER"
    /\ pc[n] = "idle" => role[n] # "CANDIDATE"
    /\ pc[n] = "election" /\ ~Overlap => role[n] = "CANDIDATE"
    /\ \A m \in Node : call[n][m] \in {"granting", "agreed"} => pc[n] = "election"

\* The calls of n's election that are not joined yet.
Open(n) == IF pc[n] = "election" THEN {m \in Node : call[n][m] # "none"} ELSE {}

\* The votes n has counted: those of the peers whose call is joined.
Joined(n) == backers[n] \ Open(n)

\* Every ticket is the free one or a counted vote; only the free one outlives an election.
TicketInv ==
  \A n \in Node :
    /\ ticket[n] <= FreeTickets(n) + Cardinality(Joined(n))
    /\ pc[n] = "idle" /\ role[n] = "FOLLOWER" => ticket[n] <= FreeTickets(n)

\* A reply that agrees comes from a node that voted.
AgreedInv == \A n, m \in Node : call[n][m] = "agreed" => m \in backers[n]

\* A LEADER keeps the majority of its peers it was elected with.
LeaderInv ==
  \A n \in Node : role[n] = "LEADER" => Elected(n) \/ (Overlap /\ AtLeastHalf(n))

\* The nodes m has said yes to, or is about to.
Told(m) == VotesOf(m) \cup InVote(m)

\* A process that has not voted yet said yes to nobody, and nobody more than VoteThreads
\* workers can still be told yes.
VoteInv ==
  \A m \in Node :
    /\ session[m] = 0
    /\ life[m] = 0 =>
         /\ ~voted[m] => VotesOf(m) = {}
         /\ Cardinality(Told(m)) <= VoteThreads

\* With the SendMsg reply as it is, no call of an election ends other than by erasing.
AloneInv ==
  RequiredChecked =>
    \A n \in Node :
      /\ \A m \in Node : call[n][m] \notin NotFailed
      /\ pc[n] = "election" => peers[n] \subseteq Open(n)
      /\ role[n] = "LEADER" /\ ~Overlap => peers[n] = {}

\* Has n asked for votes since it started?
Stood(n) == role[n] # "FOLLOWER" \/ lost[n]

NoRestart == \A n \in Node : life[n] = 0

\* Nobody asks for a vote, or gets one, before it stands; nobody asks itself.
StoodInv ==
  NoRestart =>
    \A n \in Node :
      /\ \A m \in Node : call[n][m] # "none" => Stood(n) /\ m # n
      /\ \A r \in late : r.from = n => Stood(n) /\ r.to # n
      /\ backers[n] # {} => Stood(n)
      /\ n \notin backers[n]

\* Of two nodes that said yes to each other, one had lost an election before it did.
MutualInv ==
  NoRestart =>
    \A n, m \in Node : n \in Told(m) /\ m \in Told(n) => lost[n] \/ lost[m]

\* A node that won its first election with all its peers keeps its votes.
CleanInv ==
  \A n \in Node : clean[n] =>
    /\ role[n] = "LEADER" /\ pc[n] # "election" /\ ~lost[n]
    /\ Cardinality(backers[n]) > Cardinality(Others(n)) \div 2

-----------------------------------------------------------------------------
(* Types, and the states of the ticker thread.                             *)

\* Every variable of a node keeps its type, a node is never its own peer, and a ticker
\* thread that is out of its rounds has no calls left.
THEOREM Typed == Spec => []TypeOK
<1>1. Init => TypeOK
  BY DEF Init, TypeOK, NoCalls, Others
<1>2. TypeOK /\ [Next]_vars => TypeOK'
  <2> SUFFICES ASSUME TypeOK, [Next]_vars
               PROVE  TypeOK'
    OBVIOUS
  <2> USE DEF TypeOK, timer, ballot, rpc, history
  <2>1. ASSUME NEW n \in Node, TickLeader(n)
        PROVE  TypeOK'
    BY <2>1 DEF TickLeader, SendAll, Waiting
  <2>2. ASSUME NEW n \in Node, TickFollower(n)
        PROVE  TypeOK'
    BY <2>2 DEF TickFollower, Bump
  <2>3. ASSUME NEW n \in Node, StartElection(n)
        PROVE  TypeOK'
    BY <2>3 DEF StartElection, SendAll, Waiting, MustElect
  <2>4. ASSUME NEW n \in Node, TickCandidate(n)
        PROVE  TypeOK'
    <3>1. CASE AtLeastHalf(n)
      BY <2>4, <3>1 DEF TickCandidate
    <3>2. CASE ~AtLeastHalf(n)
      <4>1. role' \in [Node -> {"LEADER", "CANDIDATE", "FOLLOWER"}]
        BY <2>4, <3>2 DEF TickCandidate
      <4>2. ticket' \in [Node -> Nat]
        BY <2>4, <3>2 DEF TickCandidate, LostTicket
      <4>3. lost' = [lost EXCEPT ![n] = TRUE]
        BY <2>4, <3>2 DEF TickCandidate
      <4> QED
        BY <2>4, <4>1, <4>2, <4>3 DEF TickCandidate
    <3> QED
      BY <3>1, <3>2
  <2>5. ASSUME NEW n \in Node, NEW m \in Node, Join(n, m)
        PROVE  TypeOK'
    <3>1. pc[n] # "idle" /\ pc' = pc
      BY <2>5 DEF Join, NoCalls, Answered
    <3>2. call' \in [Node -> [Node -> {"none"} \cup Waiting \cup Answered]]
      BY <2>5 DEF Join
    <3>3. \A k \in Node : pc'[k] = "idle" => call'[k] = NoCalls
      BY <2>5, <3>1 DEF Join
    <3>4. peers' \in [Node -> SUBSET Node] /\ \A k \in Node : k \notin peers'[k]
      BY <2>5 DEF Join
    <3>5. ticket' \in [Node -> Nat]
      BY <2>5 DEF Join
    <3> QED
      BY <2>5, <3>2, <3>3, <3>4, <3>5 DEF Join
  <2>6. ASSUME NEW n \in Node, WinElection(n)
        PROVE  TypeOK'
    BY <2>6 DEF WinElection, EndElection, Bump, RoundOver
  <2>7. ASSUME NEW n \in Node, LoseElection(n)
        PROVE  TypeOK'
    BY <2>7 DEF LoseElection, EndElection, Bump, RoundOver, LostTicket
  <2>8. ASSUME NEW n \in Node, EndHeartbeat(n)
        PROVE  TypeOK'
    BY <2>8 DEF EndHeartbeat, RoundOver
  <2>9. ASSUME NEW n \in Node, NEW m \in Node, LeaderCallFailed(n, m)
        PROVE  TypeOK'
    BY <2>9 DEF LeaderCallFailed
  <2>10. ASSUME NEW n \in Node, NEW m \in Node, VoteRefused(n, m)
        PROVE  TypeOK'
    BY <2>10 DEF VoteRefused, Reply, Answered, NoCalls
  <2>11. ASSUME NEW n \in Node, NEW m \in Node, VoteChecked(n, m)
        PROVE  TypeOK'
    BY <2>11 DEF VoteChecked, Waiting, NoCalls
  <2>12. ASSUME NEW n \in Node, NEW m \in Node, VoteGranted(n, m)
        PROVE  TypeOK'
    <3>1. pc[n] # "idle" /\ pc' = pc
      BY <2>12 DEF VoteGranted, NoCalls
    <3>2. call' \in [Node -> [Node -> {"none"} \cup Waiting \cup Answered]]
      <4>1. PICK a \in Waiting \cup Answered : call' = [call EXCEPT ![n][m] = a]
        BY <2>12 DEF VoteGranted, Return, Reply, Answered, Waiting
      <4> QED
        BY <4>1
    <3>3. \A k \in Node : pc'[k] = "idle" => call'[k] = NoCalls
      BY <2>12, <3>1 DEF VoteGranted, Return
    <3>4. /\ session' \in [Node -> Nat] /\ voted' \in [Node -> BOOLEAN]
          /\ backers' \in [Node -> SUBSET Node]
      BY <2>12 DEF VoteGranted, CastVote, ReqSession
    <3> QED
      BY <2>12, <3>2, <3>3, <3>4 DEF VoteGranted
  <2>13. ASSUME NEW n \in Node, NEW m \in Node, Heartbeat(n, m)
        PROVE  TypeOK'
    <3>1. pc[n] # "idle" /\ pc' = pc
      BY <2>13 DEF Heartbeat
    <3>2. call' \in [Node -> [Node -> {"none"} \cup Waiting \cup Answered]]
      <4>1. PICK a \in Waiting \cup Answered : call' = [call EXCEPT ![n][m] = a]
        BY <2>13 DEF Heartbeat, Return, Reply, Answered, Waiting
      <4> QED
        BY <4>1
    <3>3. \A k \in Node : pc'[k] = "idle" => call'[k] = NoCalls
      BY <2>13, <3>1 DEF Heartbeat, Return
    <3>4. elapsed' \in [Node -> Nat]
      BY <2>13 DEF Heartbeat, ResetElapsed, Bump
    <3> QED
      BY <2>13, <3>2, <3>3, <3>4 DEF Heartbeat
  <2>14. ASSUME NEW n \in Node, NEW m \in Node, Timeout(n, m)
        PROVE  TypeOK'
    BY <2>14 DEF Timeout, Answered, Waiting, Abandoned, Requests, NoCalls
  <2>15. ASSUME NEW r \in late, LateVote(r)
        PROVE  TypeOK'
    BY <2>15 DEF LateVote, Requests
  <2>16. ASSUME NEW r \in late, LateGranted(r)
        PROVE  TypeOK'
    BY <2>16 DEF LateGranted, CastVote, ReqSession, Requests
  <2>17. ASSUME NEW r \in late, LateHeartbeat(r)
        PROVE  TypeOK'
    <3>1. r.to \in Node
      BY DEF Requests
    <3>2. elapsed' \in [Node -> Nat]
      BY <2>17, <3>1 DEF LateHeartbeat, ResetElapsed, Bump
    <3> QED
      BY <2>17, <3>2 DEF LateHeartbeat
  <2>18. ASSUME NEW n \in Node, Restart(n)
        PROVE  TypeOK'
    <3>1. call' \in [Node -> [Node -> {"none"} \cup Waiting \cup Answered]]
      BY <2>18 DEF Restart, NoCalls, Waiting
    <3>2. \A k \in Node : pc'[k] = "idle" => call'[k] = NoCalls
      BY <2>18 DEF Restart, NoCalls
    <3>3. late' \in SUBSET Requests
      BY <2>18 DEF Restart, Requests, Abandoned
    <3>4. peers' \in [Node -> SUBSET Node] /\ \A k \in Node : k \notin peers'[k]
      BY <2>18 DEF Restart, Others
    <3>5. trigger' \in [Node -> Triggers]
      BY <2>18 DEF Restart
    <3> QED
      BY <2>18, <3>1, <3>2, <3>3, <3>4, <3>5 DEF Restart
  <2>19. CASE UNCHANGED vars
    BY <2>19 DEF vars
  <2> QED
    BY <2>1, <2>2, <2>3, <2>4, <2>5, <2>6, <2>7, <2>8, <2>9, <2>10, <2>11, <2>12, <2>13,
       <2>14, <2>15, <2>16, <2>17, <2>18, <2>19 DEF Next, Ticker, SendMsg, LateMsg
<1> QED
  BY <1>1, <1>2, PTL DEF Spec

\* The ticker thread is inside an election exactly when its node is a CANDIDATE, and
\* inside a heartbeat only as a LEADER.
THEOREM Rounds == Spec => []RoundInv
<1>1. Init => RoundInv
  BY DEF Init, RoundInv, NoCalls
<1>2. TypeOK /\ RoundInv /\ [Next]_vars => RoundInv'
  <2> SUFFICES ASSUME TypeOK, RoundInv, [Next]_vars
               PROVE  RoundInv'
    OBVIOUS
  <2> USE DEF TypeOK, RoundInv, NoCalls, timer, ballot, rpc, history
  <2>1. ASSUME NEW n \in Node, TickLeader(n)
        PROVE  RoundInv'
    BY <2>1 DEF TickLeader, SendAll
  <2>2. ASSUME NEW n \in Node, TickFollower(n)
        PROVE  RoundInv'
    BY <2>2 DEF TickFollower
  <2>3. ASSUME NEW n \in Node, StartElection(n)
        PROVE  RoundInv'
    BY <2>3 DEF StartElection, SendAll, MustElect
  <2>4. ASSUME NEW n \in Node, TickCandidate(n)
        PROVE  RoundInv'
    BY <2>4 DEF TickCandidate
  <2>5. ASSUME NEW n \in Node, NEW m \in Node, Join(n, m)
        PROVE  RoundInv'
    BY <2>5 DEF Join
  <2>6. ASSUME NEW n \in Node, WinElection(n)
        PROVE  RoundInv'
    BY <2>6 DEF WinElection, EndElection, RoundOver
  <2>7. ASSUME NEW n \in Node, LoseElection(n)
        PROVE  RoundInv'
    BY <2>7 DEF LoseElection, EndElection, RoundOver, LostTicket
  <2>8. ASSUME NEW n \in Node, EndHeartbeat(n)
        PROVE  RoundInv'
    BY <2>8 DEF EndHeartbeat, RoundOver
  <2>9. ASSUME NEW n \in Node, NEW m \in Node, LeaderCallFailed(n, m)
        PROVE  RoundInv'
    BY <2>9 DEF LeaderCallFailed
  <2>10. ASSUME NEW n \in Node, NEW m \in Node, VoteRefused(n, m)
        PROVE  RoundInv'
    BY <2>10 DEF VoteRefused, Reply
  <2>11. ASSUME NEW n \in Node, NEW m \in Node, VoteChecked(n, m)
        PROVE  RoundInv'
    BY <2>11 DEF VoteChecked
  <2>12. ASSUME NEW n \in Node, NEW m \in Node, VoteGranted(n, m)
        PROVE  RoundInv'
    BY <2>12 DEF VoteGranted, Return, Reply
  <2>13. ASSUME NEW n \in Node, NEW m \in Node, Heartbeat(n, m)
        PROVE  RoundInv'
    BY <2>13 DEF Heartbeat, Return, Reply
  <2>14. ASSUME NEW n \in Node, NEW m \in Node, Timeout(n, m)
        PROVE  RoundInv'
    BY <2>14 DEF Timeout, Waiting
  <2>15. ASSUME NEW r \in late, LateVote(r)
        PROVE  RoundInv'
    BY <2>15 DEF LateVote
  <2>16. ASSUME NEW r \in late, LateGranted(r)
        PROVE  RoundInv'
    BY <2>16 DEF LateGranted
  <2>17. ASSUME NEW r \in late, LateHeartbeat(r)
        PROVE  RoundInv'
    BY <2>17 DEF LateHeartbeat
  <2>18. ASSUME NEW n \in Node, Restart(n)
        PROVE  RoundInv'
    BY <2>18 DEF Restart
  <2>19. CASE UNCHANGED vars
    BY <2>19 DEF vars
  <2> QED
    BY <2>1, <2>2, <2>3, <2>4, <2>5, <2>6, <2>7, <2>8, <2>9, <2>10, <2>11, <2>12, <2>13,
       <2>14, <2>15, <2>16, <2>17, <2>18, <2>19 DEF Next, Ticker, SendMsg, LateMsg
<1> QED
  BY <1>1, <1>2, Typed, PTL DEF Spec

-----------------------------------------------------------------------------
(* Sets of nodes are finite, and their sizes compare as one expects.       *)

LEMMA NodeSets ==
  ASSUME NEW S \in SUBSET Node
  PROVE  IsFiniteSet(S) /\ Cardinality(S) \in Nat
BY NodeAssumption, FS_Subset, FS_CardinalityType

LEMMA NodeSetsGrow ==
  ASSUME NEW T \in SUBSET Node, NEW S \in SUBSET T
  PROVE  Cardinality(S) <= Cardinality(T)
BY NodeSets, FS_Subset

LEMMA NodeSetsAdd ==
  ASSUME NEW S \in SUBSET Node, NEW x \in Node \ S
  PROVE  Cardinality(S \cup {x}) = Cardinality(S) + 1
BY NodeSets, FS_AddElement

-----------------------------------------------------------------------------
(* The votes a LEADER has had.                                             *)

\* A reply that agrees is only sent by a handler whose vote() said yes.
THEOREM Agreed == Spec => []AgreedInv
<1>1. Init => AgreedInv
  BY DEF Init, AgreedInv, NoCalls
<1>2. TypeOK /\ AgreedInv /\ [Next]_vars => AgreedInv'
  <2> SUFFICES ASSUME TypeOK, AgreedInv, [Next]_vars
               PROVE  AgreedInv'
    OBVIOUS
  <2> USE DEF TypeOK, AgreedInv, NoCalls, timer, ballot, rpc, history
  <2>1. ASSUME NEW n \in Node, TickLeader(n)
        PROVE  AgreedInv'
    BY <2>1 DEF TickLeader, SendAll
  <2>2. ASSUME NEW n \in Node, TickFollower(n)
        PROVE  AgreedInv'
    BY <2>2 DEF TickFollower
  <2>3. ASSUME NEW n \in Node, StartElection(n)
        PROVE  AgreedInv'
    BY <2>3 DEF StartElection, SendAll, MustElect
  <2>4. ASSUME NEW n \in Node, TickCandidate(n)
        PROVE  AgreedInv'
    BY <2>4 DEF TickCandidate
  <2>5. ASSUME NEW n \in Node, NEW m \in Node, Join(n, m)
        PROVE  AgreedInv'
    BY <2>5 DEF Join
  <2>6. ASSUME NEW n \in Node, WinElection(n)
        PROVE  AgreedInv'
    BY <2>6 DEF WinElection, EndElection, RoundOver
  <2>7. ASSUME NEW n \in Node, LoseElection(n)
        PROVE  AgreedInv'
    BY <2>7 DEF LoseElection, EndElection, RoundOver, LostTicket
  <2>8. ASSUME NEW n \in Node, EndHeartbeat(n)
        PROVE  AgreedInv'
    BY <2>8 DEF EndHeartbeat, RoundOver
  <2>9. ASSUME NEW n \in Node, NEW m \in Node, LeaderCallFailed(n, m)
        PROVE  AgreedInv'
    BY <2>9 DEF LeaderCallFailed
  <2>10. ASSUME NEW n \in Node, NEW m \in Node, VoteRefused(n, m)
        PROVE  AgreedInv'
    BY <2>10 DEF VoteRefused, Reply
  <2>11. ASSUME NEW n \in Node, NEW m \in Node, VoteChecked(n, m)
        PROVE  AgreedInv'
    BY <2>11 DEF VoteChecked
  <2>12. ASSUME NEW n \in Node, NEW m \in Node, VoteGranted(n, m)
        PROVE  AgreedInv'
    BY <2>12 DEF VoteGranted, Return, Reply, CastVote
  <2>13. ASSUME NEW n \in Node, NEW m \in Node, Heartbeat(n, m)
        PROVE  AgreedInv'
    BY <2>13 DEF Heartbeat, Return, Reply
  <2>14. ASSUME NEW n \in Node, NEW m \in Node, Timeout(n, m)
        PROVE  AgreedInv'
    BY <2>14 DEF Timeout, Waiting
  <2>15. ASSUME NEW r \in late, LateVote(r)
        PROVE  AgreedInv'
    BY <2>15 DEF LateVote
  <2>16. ASSUME NEW r \in late, LateGranted(r)
        PROVE  AgreedInv'
    BY <2>16 DEF LateGranted, CastVote, Requests
  <2>17. ASSUME NEW r \in late, LateHeartbeat(r)
        PROVE  AgreedInv'
    BY <2>17 DEF LateHeartbeat
  <2>18. ASSUME NEW n \in Node, Restart(n)
        PROVE  AgreedInv'
    BY <2>18 DEF Restart
  <2>19. CASE UNCHANGED vars
    BY <2>19 DEF vars
  <2> QED
    BY <2>1, <2>2, <2>3, <2>4, <2>5, <2>6, <2>7, <2>8, <2>9, <2>10, <2>11, <2>12, <2>13,
       <2>14, <2>15, <2>16, <2>17, <2>18, <2>19 DEF Next, Ticker, SendMsg, LateMsg
<1> QED
  BY <1>1, <1>2, Typed, PTL DEF Spec

\* The majority that made a LEADER is not undone by the peers it loses later.
THEOREM LeadersElected == Spec => []LeaderInv
<1>1. Init => LeaderInv
  BY DEF Init, LeaderInv
<1>2. TypeOK /\ RoundInv /\ LeaderInv /\ [Next]_vars => LeaderInv'
  <2> SUFFICES ASSUME TypeOK, RoundInv, LeaderInv, [Next]_vars
               PROVE  LeaderInv'
    OBVIOUS
  <2> USE DEF TypeOK, LeaderInv, Elected, AtLeastHalf, timer, ballot, rpc, history
  <2>1. ASSUME NEW n \in Node, TickLeader(n)
        PROVE  LeaderInv'
    BY <2>1 DEF TickLeader, SendAll
  <2>2. ASSUME NEW n \in Node, TickFollower(n)
        PROVE  LeaderInv'
    BY <2>2 DEF TickFollower
  <2>3. ASSUME NEW n \in Node, StartElection(n)
        PROVE  LeaderInv'
    BY <2>3 DEF StartElection, SendAll, MustElect
  <2>4. ASSUME NEW n \in Node, TickCandidate(n)
        PROVE  LeaderInv'
    BY <2>4 DEF TickCandidate
  <2>5. ASSUME NEW n \in Node, NEW m \in Node, Join(n, m)
        PROVE  LeaderInv'
    <3>1. \A k \in Node : peers[k] \in SUBSET Node /\ peers'[k] \in SUBSET peers[k]
      BY <2>5 DEF Join
    <3>2. \A k \in Node : /\ Cardinality(peers[k]) \in Nat /\ Cardinality(peers'[k]) \in Nat
                          /\ Cardinality(peers'[k]) <= Cardinality(peers[k])
      BY <3>1, NodeSets, NodeSetsGrow
    <3>3. \A k \in Node : Cardinality(peers'[k]) \div 2 <= Cardinality(peers[k]) \div 2
      BY <3>2
    <3>4. \A k \in Node : ticket'[k] >= ticket[k] /\ ticket'[k] \in Nat
      BY <2>5 DEF Join
    <3>5. role' = role
      BY <2>5 DEF Join
    <3> HIDE DEF TypeOK
    <3>6. \A k \in Node : ticket[k] \in Nat
      BY DEF TypeOK
    <3>7. \A k \in Node : role[k] = "LEADER" =>
            \/ ticket[k] > Cardinality(peers[k]) \div 2
            \/ Overlap /\ ticket[k] >= Cardinality(peers[k]) \div 2
      BY DEF LeaderInv, Elected, AtLeastHalf
    <3> QED
      BY <3>2, <3>3, <3>4, <3>5, <3>6, <3>7
  <2>6. ASSUME NEW n \in Node, WinElection(n)
        PROVE  LeaderInv'
    BY <2>6 DEF WinElection, EndElection, RoundOver
  <2>7. ASSUME NEW n \in Node, LoseElection(n)
        PROVE  LeaderInv'
    BY <2>7 DEF LoseElection, EndElection, RoundOver, LostTicket
  <2>8. ASSUME NEW n \in Node, EndHeartbeat(n)
        PROVE  LeaderInv'
    BY <2>8 DEF EndHeartbeat, RoundOver
  <2>9. ASSUME NEW n \in Node, NEW m \in Node, LeaderCallFailed(n, m)
        PROVE  LeaderInv'
    <3>1. \A k \in Node : peers[k] \in SUBSET Node /\ peers'[k] \in SUBSET peers[k]
      BY <2>9 DEF LeaderCallFailed
    <3>2. \A k \in Node : /\ Cardinality(peers[k]) \in Nat /\ Cardinality(peers'[k]) \in Nat
                          /\ Cardinality(peers'[k]) <= Cardinality(peers[k])
      BY <3>1, NodeSets, NodeSetsGrow
    <3>3. \A k \in Node : Cardinality(peers'[k]) \div 2 <= Cardinality(peers[k]) \div 2
      BY <3>2
    <3>4. \A k \in Node : ticket'[k] >= ticket[k] /\ ticket'[k] \in Nat
      BY <2>9 DEF LeaderCallFailed
    <3>5. role' = role
      BY <2>9 DEF LeaderCallFailed
    <3> HIDE DEF TypeOK
    <3>6. \A k \in Node : ticket[k] \in Nat
      BY DEF TypeOK
    <3>7. \A k \in Node : role[k] = "LEADER" =>
            \/ ticket[k] > Cardinality(peers[k]) \div 2
            \/ Overlap /\ ticket[k] >= Cardinality(peers[k]) \div 2
      BY DEF LeaderInv, Elected, AtLeastHalf
    <3> QED
      BY <3>2, <3>3, <3>4, <3>5, <3>6, <3>7
  <2>10. ASSUME NEW n \in Node, NEW m \in Node, VoteRefused(n, m)
        PROVE  LeaderInv'
    BY <2>10 DEF VoteRefused, Reply
  <2>11. ASSUME NEW n \in Node, NEW m \in Node, VoteChecked(n, m)
        PROVE  LeaderInv'
    BY <2>11 DEF VoteChecked
  <2>12. ASSUME NEW n \in Node, NEW m \in Node, VoteGranted(n, m)
        PROVE  LeaderInv'
    BY <2>12 DEF VoteGranted, Return, Reply
  <2>13. ASSUME NEW n \in Node, NEW m \in Node, Heartbeat(n, m)
        PROVE  LeaderInv'
    BY <2>13 DEF Heartbeat, Return, Reply
  <2>14. ASSUME NEW n \in Node, NEW m \in Node, Timeout(n, m)
        PROVE  LeaderInv'
    BY <2>14 DEF Timeout, Waiting
  <2>15. ASSUME NEW r \in late, LateVote(r)
        PROVE  LeaderInv'
    BY <2>15 DEF LateVote
  <2>16. ASSUME NEW r \in late, LateGranted(r)
        PROVE  LeaderInv'
    BY <2>16 DEF LateGranted
  <2>17. ASSUME NEW r \in late, LateHeartbeat(r)
        PROVE  LeaderInv'
    BY <2>17 DEF LateHeartbeat
  <2>18. ASSUME NEW n \in Node, Restart(n)
        PROVE  LeaderInv'
    BY <2>18 DEF Restart
  <2>19. CASE UNCHANGED vars
    BY <2>19 DEF vars
  <2> QED
    BY <2>1, <2>2, <2>3, <2>4, <2>5, <2>6, <2>7, <2>8, <2>9, <2>10, <2>11, <2>12, <2>13,
       <2>14, <2>15, <2>16, <2>17, <2>18, <2>19 DEF Next, Ticker, SendMsg, LateMsg
<1> QED
  BY <1>1, <1>2, Typed, Rounds, PTL DEF Spec

\* A step that leaves the tickets alone may only add counted votes.
LEMMA TicketsKept ==
  ASSUME TypeOK, TypeOK', TicketInv,
         \A k \in Node : Joined(k) \subseteq Joined(k)',
         ticket' = ticket, lost' = lost,
         \A k \in Node : pc'[k] = "idle" /\ role'[k] = "FOLLOWER" =>
                           ticket[k] <= FreeTickets(k)
  PROVE  TicketInv'
<1>1. \A k \in Node : Joined(k)' \in SUBSET Node
  BY DEF TypeOK, Joined
<1>2. \A k \in Node : /\ Cardinality(Joined(k)) \in Nat /\ Cardinality(Joined(k)') \in Nat
                      /\ Cardinality(Joined(k)) <= Cardinality(Joined(k)')
  BY <1>1, NodeSets, NodeSetsGrow
<1>3. \A k \in Node : ticket[k] \in Nat /\ FreeTickets(k) \in Nat /\ FreeTickets(k)' = FreeTickets(k)
  BY DEF TypeOK, FreeTickets
<1> QED
  BY <1>2, <1>3 DEF TicketInv

\* _ticket_num counts votes, whatever replies were lost, repeated or late.
THEOREM TicketsCounted == Spec => []TicketInv
<1>1. Init => TicketInv
  <2> SUFFICES ASSUME Init, NEW n \in Node
               PROVE  /\ ticket[n] <= FreeTickets(n) + Cardinality(Joined(n))
                      /\ ticket[n] <= FreeTickets(n)
    BY DEF TicketInv
  <2>1. ticket[n] = 0 /\ FreeTickets(n) = 0 /\ Joined(n) \in SUBSET Node
    BY DEF Init, FreeTickets, Joined
  <2> QED
    BY <2>1, NodeSets
<1>2. TypeOK /\ TypeOK' /\ RoundInv /\ AgreedInv /\ TicketInv /\ [Next]_vars => TicketInv'
  <2> SUFFICES ASSUME TypeOK, TypeOK', RoundInv, AgreedInv, TicketInv, [Next]_vars
               PROVE  TicketInv'
    OBVIOUS
  <2>0. ASSUME \A k \in Node : Joined(k) \subseteq Joined(k)',
               ticket' = ticket, lost' = lost,
               \A k \in Node : pc'[k] = "idle" /\ role'[k] = "FOLLOWER" =>
                                 pc[k] = "idle" /\ role[k] = "FOLLOWER"
        PROVE  TicketInv'
    BY <2>0, TicketsKept DEF TicketInv
  <2> USE DEF TypeOK, NoCalls, timer, ballot, rpc, history
  <2>1. ASSUME NEW n \in Node, TickLeader(n)
        PROVE  TicketInv'
    <3>1. \A k \in Node : Joined(k) \subseteq Joined(k)'
      BY <2>1 DEF TickLeader, SendAll, Joined, Open, RoundInv
    <3>2. ticket' = ticket /\ lost' = lost
      BY <2>1 DEF TickLeader, SendAll
    <3>3. \A k \in Node : pc'[k] = "idle" /\ role'[k] = "FOLLOWER" =>
                           pc[k] = "idle" /\ role[k] = "FOLLOWER"
      BY <2>1 DEF TickLeader, SendAll
    <3> QED
      BY <3>1, <3>2, <3>3, <2>0
  <2>2. ASSUME NEW n \in Node, TickFollower(n)
        PROVE  TicketInv'
    <3>1. \A k \in Node : Joined(k) \subseteq Joined(k)'
      BY <2>2 DEF TickFollower, Joined, Open, RoundInv
    <3>2. ticket' = ticket /\ lost' = lost
      BY <2>2 DEF TickFollower
    <3>3. \A k \in Node : pc'[k] = "idle" /\ role'[k] = "FOLLOWER" =>
                           pc[k] = "idle" /\ role[k] = "FOLLOWER"
      BY <2>2 DEF TickFollower
    <3> QED
      BY <3>1, <3>2, <3>3, <2>0
  <2>3. ASSUME NEW n \in Node, StartElection(n)
        PROVE  TicketInv'
    <3>1. ticket' = ticket /\ lost' = lost /\ pc'[n] # "idle" /\ backers' = backers
      BY <2>3 DEF StartElection, MustElect
    <3>2. ticket[n] <= FreeTickets(n)
      BY <2>3 DEF StartElection, MustElect, TicketInv
    <3>3. \A k \in Node \ {n} : Joined(k)' = Joined(k) /\ pc'[k] = pc[k] /\ role'[k] = role[k]
      BY <2>3 DEF StartElection, SendAll, MustElect, Joined, Open
    <3>4. Joined(n)' \in SUBSET Node
      BY <3>1 DEF Joined
    <3>5. Cardinality(Joined(n)') \in Nat
      BY <3>4, NodeSets
    <3>6. FreeTickets(n)' = FreeTickets(n) /\ FreeTickets(n) \in Nat
      BY <3>1 DEF FreeTickets
    <3>7. ticket'[n] <= FreeTickets(n)' + Cardinality(Joined(n)')
      BY <3>1, <3>2, <3>5, <3>6
    <3> QED
      BY <3>1, <3>3, <3>7 DEF TicketInv, FreeTickets
  <2>4. ASSUME NEW n \in Node, TickCandidate(n)
        PROVE  TicketInv'
    <3>1. CASE AtLeastHalf(n)
      <4>1. \A k \in Node : Joined(k) \subseteq Joined(k)'
        BY <2>4, <3>1 DEF TickCandidate, Joined, Open, RoundInv
      <4>2. ticket' = ticket /\ lost' = lost
        BY <2>4, <3>1 DEF TickCandidate
      <4>3. \A k \in Node : pc'[k] = "idle" /\ role'[k] = "FOLLOWER" =>
                                       pc[k] = "idle" /\ role[k] = "FOLLOWER"
        BY <2>4, <3>1 DEF TickCandidate
      <4> QED
        BY <4>1, <4>2, <4>3, <2>0
    <3>2. CASE ~AtLeastHalf(n)
      <4>1. \A k \in Node \ {n} : /\ Joined(k)' = Joined(k) /\ pc'[k] = pc[k] /\ role'[k] = role[k]
                                                 /\ ticket'[k] = ticket[k] /\ lost'[k] = lost[k]
        BY <2>4, <3>2 DEF TickCandidate, LostTicket, Joined, Open
      <4>2. ticket'[n] = 1 /\ FreeTickets(n)' = 1
        BY <2>4, <3>2 DEF TickCandidate, LostTicket, FreeTickets
      <4>3. Joined(n)' \in SUBSET Node
        BY <2>4, <3>2 DEF TickCandidate, LostTicket, Joined
      <4>4. Cardinality(Joined(n)') \in Nat
        BY <4>3, NodeSets
      <4>5. ticket'[n] <= FreeTickets(n)' + Cardinality(Joined(n)') /\ ticket'[n] <= FreeTickets(n)'
        BY <4>2, <4>4
      <4> QED
        BY <4>1, <4>5 DEF TicketInv, FreeTickets
    <3> QED
      BY <3>1, <3>2
  <2>5. ASSUME NEW n \in Node, NEW m \in Node, Join(n, m)
        PROVE  TicketInv'
    <3>1. \A k \in Node : Joined(k) \subseteq Joined(k)'
      BY <2>5 DEF Join, Answered, NoCalls, Joined, Open
    <3>2. UNCHANGED <<lost, pc, role, backers>> /\ pc[n] # "idle"
      BY <2>5 DEF Join, Answered, NoCalls
    <3>3. CASE call[n][m] # "agreed"
      <4>1. ticket' = ticket
        BY <2>5, <3>3 DEF Join
      <4> QED
        BY <3>1, <3>2, <4>1, <2>0
    <3>4. CASE call[n][m] = "agreed"
      <4>1. \A k \in Node \ {n} : ticket'[k] = ticket[k] /\ Joined(k)' = Joined(k)
        BY <2>5, <3>2 DEF Join, Joined, Open
      <4>2. ticket'[n] = ticket[n] + 1
        BY <2>5, <3>4 DEF Join
      <4>3. m \in backers[n] /\ pc[n] = "election"
        BY <3>4 DEF AgreedInv, RoundInv
      <4>4. Joined(n)' = Joined(n) \cup {m} /\ m \notin Joined(n)
        BY <2>5, <3>2, <3>4, <4>3 DEF Join, Joined, Open
      <4>5. Joined(n) \in SUBSET Node
        BY DEF Joined
      <4>6. /\ Cardinality(Joined(n)) \in Nat
            /\ Cardinality(Joined(n)') = Cardinality(Joined(n)) + 1
        BY <4>4, <4>5, NodeSets, NodeSetsAdd
      <4>7. /\ ticket[n] \in Nat /\ FreeTickets(n) \in Nat /\ FreeTickets(n)' = FreeTickets(n)
            /\ ticket[n] <= FreeTickets(n) + Cardinality(Joined(n))
        BY <3>2 DEF FreeTickets, TicketInv
      <4>8. ticket'[n] <= FreeTickets(n)' + Cardinality(Joined(n)')
        BY <4>2, <4>6, <4>7
      <4> QED
        BY <3>2, <4>1, <4>8 DEF TicketInv, FreeTickets
    <3> QED
      BY <3>3, <3>4
  <2>6. ASSUME NEW n \in Node, WinElection(n)
        PROVE  TicketInv'
    <3>1. \A k \in Node : Joined(k) \subseteq Joined(k)'
      BY <2>6 DEF WinElection, EndElection, RoundOver, NoCalls, Joined, Open
    <3>2. ticket' = ticket /\ lost' = lost
      BY <2>6 DEF WinElection, EndElection
    <3>3. \A k \in Node : pc'[k] = "idle" /\ role'[k] = "FOLLOWER" =>
                           pc[k] = "idle" /\ role[k] = "FOLLOWER"
      BY <2>6 DEF WinElection, EndElection
    <3> QED
      BY <3>1, <3>2, <3>3, <2>0
  <2>7. ASSUME NEW n \in Node, LoseElection(n)
        PROVE  TicketInv'
    <3>1. \A k \in Node \ {n} : /\ Joined(k)' = Joined(k) /\ pc'[k] = pc[k] /\ role'[k] = role[k]
                                 /\ ticket'[k] = ticket[k] /\ lost'[k] = lost[k]
      BY <2>7 DEF LoseElection, EndElection, LostTicket, Joined, Open
    <3>2. ticket'[n] = 1 /\ FreeTickets(n)' = 1
      BY <2>7 DEF LoseElection, EndElection, LostTicket, FreeTickets
    <3>3. Joined(n)' \in SUBSET Node
      BY <2>7 DEF LoseElection, EndElection, LostTicket, Joined
    <3>4. Cardinality(Joined(n)') \in Nat
      BY <3>3, NodeSets
    <3>5. ticket'[n] <= FreeTickets(n)' + Cardinality(Joined(n)') /\ ticket'[n] <= FreeTickets(n)'
      BY <3>2, <3>4
    <3> QED
      BY <3>1, <3>5 DEF TicketInv, FreeTickets
  <2>8. ASSUME NEW n \in Node, EndHeartbeat(n)
        PROVE  TicketInv'
    <3>1. \A k \in Node : Joined(k) \subseteq Joined(k)'
      BY <2>8 DEF EndHeartbeat, RoundOver, Joined, Open, RoundInv
    <3>2. ticket' = ticket /\ lost' = lost
      BY <2>8 DEF EndHeartbeat, RoundOver
    <3>3. \A k \in Node : pc'[k] = "idle" /\ role'[k] = "FOLLOWER" =>
                           pc[k] = "idle" /\ role[k] = "FOLLOWER"
      BY <2>8 DEF EndHeartbeat, RoundInv
    <3> QED
      BY <3>1, <3>2, <3>3, <2>0
  <2>9. ASSUME NEW n \in Node, NEW m \in Node, LeaderCallFailed(n, m)
        PROVE  TicketInv'
    <3>1. \A k \in Node : Joined(k) \subseteq Joined(k)'
      BY <2>9 DEF LeaderCallFailed, Joined, Open, RoundInv
    <3>2. ticket' = ticket /\ lost' = lost
      BY <2>9 DEF LeaderCallFailed
    <3>3. \A k \in Node : pc'[k] = "idle" /\ role'[k] = "FOLLOWER" =>
                           pc[k] = "idle" /\ role[k] = "FOLLOWER"
      BY <2>9 DEF LeaderCallFailed
    <3> QED
      BY <3>1, <3>2, <3>3, <2>0
  <2>10. ASSUME NEW n \in Node, NEW m \in Node, VoteRefused(n, m)
        PROVE  TicketInv'
    <3>1. \A k \in Node : Joined(k) \subseteq Joined(k)'
      BY <2>10 DEF VoteRefused, Reply, Joined, Open, RoundInv
    <3>2. ticket' = ticket /\ lost' = lost
      BY <2>10 DEF VoteRefused, Reply
    <3>3. \A k \in Node : pc'[k] = "idle" /\ role'[k] = "FOLLOWER" =>
                           pc[k] = "idle" /\ role[k] = "FOLLOWER"
      BY <2>10 DEF VoteRefused, Reply
    <3> QED
      BY <3>1, <3>2, <3>3, <2>0
  <2>11. ASSUME NEW n \in Node, NEW m \in Node, VoteChecked(n, m)
        PROVE  TicketInv'
    <3>1. \A k \in Node : Joined(k) \subseteq Joined(k)'
      BY <2>11 DEF VoteChecked, Joined, Open, RoundInv
    <3>2. ticket' = ticket /\ lost' = lost
      BY <2>11 DEF VoteChecked
    <3>3. \A k \in Node : pc'[k] = "idle" /\ role'[k] = "FOLLOWER" =>
                           pc[k] = "idle" /\ role[k] = "FOLLOWER"
      BY <2>11 DEF VoteChecked
    <3> QED
      BY <3>1, <3>2, <3>3, <2>0
  <2>12. ASSUME NEW n \in Node, NEW m \in Node, VoteGranted(n, m)
        PROVE  TicketInv'
    <3>1. \A k \in Node : Joined(k) \subseteq Joined(k)'
      BY <2>12 DEF VoteGranted, Return, Reply, CastVote, Joined, Open, RoundInv
    <3>2. ticket' = ticket /\ lost' = lost
      BY <2>12 DEF VoteGranted, Return, Reply, CastVote
    <3>3. \A k \in Node : pc'[k] = "idle" /\ role'[k] = "FOLLOWER" =>
                           pc[k] = "idle" /\ role[k] = "FOLLOWER"
      BY <2>12 DEF VoteGranted, Return, Reply, CastVote
    <3> QED
      BY <3>1, <3>2, <3>3, <2>0
  <2>13. ASSUME NEW n \in Node, NEW m \in Node, Heartbeat(n, m)
        PROVE  TicketInv'
    <3>1. \A k \in Node : Joined(k) \subseteq Joined(k)'
      BY <2>13 DEF Heartbeat, Return, Reply, Joined, Open, RoundInv
    <3>2. ticket' = ticket /\ lost' = lost
      BY <2>13 DEF Heartbeat, Return, Reply
    <3>3. \A k \in Node : pc'[k] = "idle" /\ role'[k] = "FOLLOWER" =>
                           pc[k] = "idle" /\ role[k] = "FOLLOWER"
      BY <2>13 DEF Heartbeat, Return, Reply
    <3> QED
      BY <3>1, <3>2, <3>3, <2>0
  <2>14. ASSUME NEW n \in Node, NEW m \in Node, Timeout(n, m)
        PROVE  TicketInv'
    <3>1. \A k \in Node : Joined(k) \subseteq Joined(k)'
      BY <2>14 DEF Timeout, Waiting, Joined, Open, RoundInv
    <3>2. ticket' = ticket /\ lost' = lost
      BY <2>14 DEF Timeout, Waiting
    <3>3. \A k \in Node : pc'[k] = "idle" /\ role'[k] = "FOLLOWER" =>
                           pc[k] = "idle" /\ role[k] = "FOLLOWER"
      BY <2>14 DEF Timeout, Waiting
    <3> QED
      BY <3>1, <3>2, <3>3, <2>0
  <2>15. ASSUME NEW r \in late, LateVote(r)
        PROVE  TicketInv'
    <3>1. \A k \in Node : Joined(k) \subseteq Joined(k)'
      BY <2>15 DEF LateVote, Joined, Open, RoundInv
    <3>2. ticket' = ticket /\ lost' = lost
      BY <2>15 DEF LateVote
    <3>3. \A k \in Node : pc'[k] = "idle" /\ role'[k] = "FOLLOWER" =>
                           pc[k] = "idle" /\ role[k] = "FOLLOWER"
      BY <2>15 DEF LateVote
    <3> QED
      BY <3>1, <3>2, <3>3, <2>0
  <2>16. ASSUME NEW r \in late, LateGranted(r)
        PROVE  TicketInv'
    <3>1. \A k \in Node : Joined(k) \subseteq Joined(k)'
      BY <2>16 DEF LateGranted, CastVote, Joined, Open, RoundInv
    <3>2. ticket' = ticket /\ lost' = lost
      BY <2>16 DEF LateGranted, CastVote
    <3>3. \A k \in Node : pc'[k] = "idle" /\ role'[k] = "FOLLOWER" =>
                           pc[k] = "idle" /\ role[k] = "FOLLOWER"
      BY <2>16 DEF LateGranted, CastVote
    <3> QED
      BY <3>1, <3>2, <3>3, <2>0
  <2>17. ASSUME NEW r \in late, LateHeartbeat(r)
        PROVE  TicketInv'
    <3>1. \A k \in Node : Joined(k) \subseteq Joined(k)'
      BY <2>17 DEF LateHeartbeat, Joined, Open, RoundInv
    <3>2. ticket' = ticket /\ lost' = lost
      BY <2>17 DEF LateHeartbeat
    <3>3. \A k \in Node : pc'[k] = "idle" /\ role'[k] = "FOLLOWER" =>
                           pc[k] = "idle" /\ role[k] = "FOLLOWER"
      BY <2>17 DEF LateHeartbeat
    <3> QED
      BY <3>1, <3>2, <3>3, <2>0
  <2>18. ASSUME NEW n \in Node, Restart(n)
        PROVE  TicketInv'
    <3>1. \A k \in Node \ {n} : /\ Joined(k)' = Joined(k) /\ pc'[k] = pc[k] /\ role'[k] = role[k]
                                 /\ ticket'[k] = ticket[k] /\ lost'[k] = lost[k]
      BY <2>18 DEF Restart, Joined, Open
    <3>2. ticket'[n] = 0 /\ FreeTickets(n)' = 0
      BY <2>18 DEF Restart, FreeTickets
    <3>3. Joined(n)' \in SUBSET Node
      BY <2>18 DEF Restart, Joined
    <3>4. Cardinality(Joined(n)') \in Nat
      BY <3>3, NodeSets
    <3>5. ticket'[n] <= FreeTickets(n)' + Cardinality(Joined(n)') /\ ticket'[n] <= FreeTickets(n)'
      BY <3>2, <3>4
    <3> QED
      BY <3>1, <3>5 DEF TicketInv, FreeTickets
  <2>19. CASE UNCHANGED vars
    BY <2>19 DEF vars, TicketInv, Joined, Open, FreeTickets
  <2> QED
    BY <2>1, <2>2, <2>3, <2>4, <2>5, <2>6, <2>7, <2>8, <2>9, <2>10, <2>11, <2>12, <2>13,
       <2>14, <2>15, <2>16, <2>17, <2>18, <2>19 DEF Next, Ticker, SendMsg, LateMsg
<1> QED
  BY <1>1, <1>2, Typed, Rounds, Agreed, PTL DEF Spec

\* The tickets and the majority of a LEADER give its votes.
THEOREM LeadersBacked == Spec => []LeaderBacked
<1>1. TypeOK /\ TicketInv /\ LeaderInv => LeaderBacked
  <2> SUFFICES ASSUME TypeOK, TicketInv, LeaderInv, NEW n \in Node, role[n] = "LEADER"
               PROVE  LET tickets == FreeTickets(n) + Cardinality(backers[n])
                          half    == Cardinality(peers[n]) \div 2
                      IN  tickets > half \/ (Overlap /\ tickets >= half)
    BY DEF LeaderBacked
  <2>1. backers[n] \in SUBSET Node /\ Joined(n) \in SUBSET backers[n] /\ peers[n] \in SUBSET Node
    BY DEF TypeOK, Joined
  <2>2. /\ Cardinality(Joined(n)) \in Nat /\ Cardinality(backers[n]) \in Nat
        /\ Cardinality(peers[n]) \in Nat
        /\ Cardinality(Joined(n)) <= Cardinality(backers[n])
    BY <2>1, NodeSets, NodeSetsGrow
  <2>3. ticket[n] \in Nat /\ FreeTickets(n) \in Nat
    BY DEF TypeOK, FreeTickets
  <2>4. ticket[n] <= FreeTickets(n) + Cardinality(Joined(n))
    BY DEF TicketInv
  <2>5. \/ ticket[n] > Cardinality(peers[n]) \div 2
        \/ Overlap /\ ticket[n] >= Cardinality(peers[n]) \div 2
    BY DEF LeaderInv, Elected, AtLeastHalf
  <2> QED
    BY <2>2, <2>3, <2>4, <2>5
<1> QED
  BY <1>1, Typed, TicketsCounted, LeadersElected, PTL

-----------------------------------------------------------------------------
(* How often a process votes.                                              *)

\* The voters and the workers about to vote only become fewer, or a voter of the latter.
LEMMA VotesShrink ==
  ASSUME TypeOK, TypeOK', VoteInv,
         \A k \in Node : session'[k] = 0 \/ session'[k] = session[k],
         \A k \in Node : life'[k] = 0 =>
           /\ life[k] = 0
           /\ Told(k)' \subseteq Told(k)
           /\ voted'[k] = TRUE \/ (voted'[k] = voted[k] /\ VotesOf(k)' = VotesOf(k))
  PROVE  VoteInv'
<1>1. \A k \in Node : Told(k) \in SUBSET Node
  BY DEF VotesOf, InVote, Told
<1>2. \A k \in Node : Told(k)' \in SUBSET Node
  BY DEF VotesOf, InVote, Told
<1>3. \A k \in Node : life'[k] = 0 =>
        /\ Cardinality(Told(k)) \in Nat
        /\ Cardinality(Told(k)') \in Nat
        /\ Cardinality(Told(k)') <= Cardinality(Told(k))
  BY <1>1, <1>2, NodeSets, NodeSetsGrow
<1>4. \A k \in Node : life'[k] = 0 => Cardinality(Told(k)') <= VoteThreads
  <2> SUFFICES ASSUME NEW k \in Node, life'[k] = 0
               PROVE  Cardinality(Told(k)') <= VoteThreads
    OBVIOUS
  <2>1. Cardinality(Told(k)) <= VoteThreads
    BY DEF VoteInv
  <2> QED
    BY <1>3, <2>1, BoundAssumption
<1>5. \A k \in Node : life'[k] = 0 => (~voted'[k] => VotesOf(k)' = {})
  BY DEF VoteInv
<1>6. \A k \in Node : session'[k] = 0
  BY DEF VoteInv
<1> QED
  BY <1>4, <1>5, <1>6 DEF VoteInv

\* The common case: nobody votes.
LEMMA VotesKept ==
  ASSUME TypeOK, TypeOK', VoteInv,
         UNCHANGED <<session, voted, backers>>,
         \A k \in Node : life'[k] = 0 => life[k] = 0 /\ InVote(k)' \subseteq InVote(k)
  PROVE  VoteInv'
<1>1. \A k \in Node : VotesOf(k)' = VotesOf(k)
  BY DEF VotesOf
<1> QED
  BY <1>1, VotesShrink DEF Told

\* A worker passes the checks of vote(): its process has not voted yet.
LEMMA VoteAdded ==
  ASSUME TypeOK, TypeOK', VoteInv, NEW m \in Node, NEW n \in Node,
         session' = session, voted' = voted, backers' = backers, life' = life,
         ~voted[m], Cardinality(InVote(m)) < VoteThreads,
         \A k \in Node \ {m} : InVote(k)' \subseteq InVote(k),
         InVote(m)' \subseteq InVote(m) \cup {n}
  PROVE  VoteInv'
<1>1. \A k \in Node : VotesOf(k)' = VotesOf(k)
  BY DEF VotesOf
<1>2. \A k \in Node : /\ InVote(k) \in SUBSET Node /\ InVote(k)' \in SUBSET Node
                      /\ VotesOf(k) \in SUBSET Node
  BY DEF InVote, VotesOf
<1>3. Cardinality(InVote(m)') <= VoteThreads
  <2>1. Cardinality(InVote(m) \cup {n}) <= Cardinality(InVote(m)) + 1
    <3>1. CASE n \in InVote(m)
      <4>1. InVote(m) \cup {n} = InVote(m)
        BY <3>1
      <4> QED
        BY <4>1, <1>2, NodeSets
    <3>2. CASE n \notin InVote(m)
      BY <3>2, <1>2, NodeSets, NodeSetsAdd
    <3> QED
      BY <3>1, <3>2
  <2>2. Cardinality(InVote(m)') <= Cardinality(InVote(m) \cup {n})
    BY <1>2, NodeSetsGrow
  <2>3. /\ Cardinality(InVote(m)) \in Nat /\ Cardinality(InVote(m)') \in Nat
        /\ Cardinality(InVote(m) \cup {n}) \in Nat
    BY <1>2, NodeSets
  <2> QED
    BY <2>1, <2>2, <2>3, BoundAssumption
<1>4. life[m] = 0 => Cardinality(Told(m)') <= VoteThreads
  <2> SUFFICES ASSUME life[m] = 0
               PROVE  Cardinality(Told(m)') <= VoteThreads
    OBVIOUS
  <2>1. Told(m)' = InVote(m)'
    BY <1>1 DEF VoteInv, Told
  <2> QED
    BY <2>1, <1>3
<1>5. \A k \in Node \ {m} : life[k] = 0 => Cardinality(Told(k)') <= VoteThreads
  <2>1. \A k \in Node \ {m} : /\ Told(k) \in SUBSET Node
                               /\ Told(k)' \subseteq Told(k)
    BY <1>1, <1>2 DEF Told
  <2>2. \A k \in Node \ {m} :
          /\ Cardinality(Told(k)) \in Nat
          /\ Cardinality(Told(k)') \in Nat
          /\ Cardinality(Told(k)') <= Cardinality(Told(k))
    BY <2>1, NodeSets, NodeSetsGrow
  <2>3. \A k \in Node : life[k] = 0 => Cardinality(Told(k)) <= VoteThreads
    BY DEF VoteInv
  <2> SUFFICES ASSUME NEW k \in Node \ {m}, life[k] = 0
               PROVE  Cardinality(Told(k)') <= VoteThreads
    OBVIOUS
  <2> QED
    BY <2>2, <2>3, BoundAssumption
<1> QED
  BY <1>1, <1>4, <1>5 DEF VoteInv

\* vote() says yes at most once per worker that is inside it before it has said yes.
THEOREM VotersCounted == Spec => []VoteInv
<1>1. Init => VoteInv
  <2> SUFFICES ASSUME Init, NEW m \in Node
               PROVE  /\ session[m] = 0 /\ VotesOf(m) = {}
                      /\ Cardinality(Told(m)) <= VoteThreads
    BY DEF VoteInv
  <2>1. session[m] = 0 /\ VotesOf(m) = {} /\ Told(m) = {}
    BY DEF Init, VotesOf, InVote, NoCalls, Told
  <2> QED
    BY <2>1, FS_EmptySet, BoundAssumption
<1>2. TypeOK /\ TypeOK' /\ VoteInv /\ [Next]_vars => VoteInv'
  <2> SUFFICES ASSUME TypeOK, TypeOK', VoteInv, [Next]_vars
               PROVE  VoteInv'
    OBVIOUS
  <2> USE DEF TypeOK, NoCalls, timer, ballot, rpc, history
  <2>1. ASSUME NEW n \in Node, TickLeader(n)
        PROVE  VoteInv'
    <3>1. \A k \in Node : life'[k] = 0 => life[k] = 0 /\ InVote(k)' \subseteq InVote(k)
      BY <2>1 DEF TickLeader, SendAll, InVote
    <3>2. UNCHANGED <<session, voted, backers>>
      BY <2>1 DEF TickLeader, SendAll
    <3> QED
      BY <3>1, <3>2, VotesKept
  <2>2. ASSUME NEW n \in Node, TickFollower(n)
        PROVE  VoteInv'
    <3>1. \A k \in Node : life'[k] = 0 => life[k] = 0 /\ InVote(k)' \subseteq InVote(k)
      BY <2>2 DEF TickFollower, InVote
    <3>2. UNCHANGED <<session, voted, backers>>
      BY <2>2 DEF TickFollower
    <3> QED
      BY <3>1, <3>2, VotesKept
  <2>3. ASSUME NEW n \in Node, StartElection(n)
        PROVE  VoteInv'
    <3>1. \A k \in Node : life'[k] = 0 => life[k] = 0 /\ InVote(k)' \subseteq InVote(k)
      BY <2>3 DEF StartElection, SendAll, MustElect, InVote
    <3>2. UNCHANGED <<session, voted, backers>>
      BY <2>3 DEF StartElection, SendAll, MustElect
    <3> QED
      BY <3>1, <3>2, VotesKept
  <2>4. ASSUME NEW n \in Node, TickCandidate(n)
        PROVE  VoteInv'
    <3>1. \A k \in Node : life'[k] = 0 => life[k] = 0 /\ InVote(k)' \subseteq InVote(k)
      BY <2>4 DEF TickCandidate, InVote
    <3>2. UNCHANGED <<session, voted, backers>>
      BY <2>4 DEF TickCandidate
    <3> QED
      BY <3>1, <3>2, VotesKept
  <2>5. ASSUME NEW n \in Node, NEW m \in Node, Join(n, m)
        PROVE  VoteInv'
    <3>1. \A k \in Node : life'[k] = 0 => life[k] = 0 /\ InVote(k)' \subseteq InVote(k)
      BY <2>5 DEF Join, InVote
    <3>2. UNCHANGED <<session, voted, backers>>
      BY <2>5 DEF Join
    <3> QED
      BY <3>1, <3>2, VotesKept
  <2>6. ASSUME NEW n \in Node, WinElection(n)
        PROVE  VoteInv'
    <3>1. \A k \in Node : life'[k] = 0 => life[k] = 0 /\ InVote(k)' \subseteq InVote(k)
      BY <2>6 DEF WinElection, EndElection, RoundOver, InVote
    <3>2. UNCHANGED <<session, voted, backers>>
      BY <2>6 DEF WinElection, EndElection, RoundOver
    <3> QED
      BY <3>1, <3>2, VotesKept
  <2>7. ASSUME NEW n \in Node, LoseElection(n)
        PROVE  VoteInv'
    <3>1. \A k \in Node : life'[k] = 0 => life[k] = 0 /\ InVote(k)' \subseteq InVote(k)
      BY <2>7 DEF LoseElection, EndElection, RoundOver, LostTicket, InVote
    <3>2. UNCHANGED <<session, voted, backers>>
      BY <2>7 DEF LoseElection, EndElection, RoundOver, LostTicket
    <3> QED
      BY <3>1, <3>2, VotesKept
  <2>8. ASSUME NEW n \in Node, EndHeartbeat(n)
        PROVE  VoteInv'
    <3>1. \A k \in Node : life'[k] = 0 => life[k] = 0 /\ InVote(k)' \subseteq InVote(k)
      BY <2>8 DEF EndHeartbeat, RoundOver, InVote
    <3>2. UNCHANGED <<session, voted, backers>>
      BY <2>8 DEF EndHeartbeat, RoundOver
    <3> QED
      BY <3>1, <3>2, VotesKept
  <2>9. ASSUME NEW n \in Node, NEW m \in Node, LeaderCallFailed(n, m)
        PROVE  VoteInv'
    <3>1. \A k \in Node : life'[k] = 0 => life[k] = 0 /\ InVote(k)' \subseteq InVote(k)
      BY <2>9 DEF LeaderCallFailed, InVote
    <3>2. UNCHANGED <<session, voted, backers>>
      BY <2>9 DEF LeaderCallFailed
    <3> QED
      BY <3>1, <3>2, VotesKept
  <2>10. ASSUME NEW n \in Node, NEW m \in Node, VoteRefused(n, m)
        PROVE  VoteInv'
    <3>1. \A k \in Node : life'[k] = 0 => life[k] = 0 /\ InVote(k)' \subseteq InVote(k)
      BY <2>10 DEF VoteRefused, Reply, InVote
    <3>2. UNCHANGED <<session, voted, backers>>
      BY <2>10 DEF VoteRefused, Reply
    <3> QED
      BY <3>1, <3>2, VotesKept
  <2>11. ASSUME NEW n \in Node, NEW m \in Node, VoteChecked(n, m)
        PROVE  VoteInv'
    <3>1. ~voted[m] /\ Cardinality(InVote(m)) < VoteThreads
      BY <2>11 DEF VoteChecked, CanVote, ReqSession, VoteInv
    <3>2. /\ \A k \in Node \ {m} : InVote(k)' \subseteq InVote(k)
          /\ InVote(m)' \subseteq InVote(m) \cup {n}
      BY <2>11 DEF VoteChecked, InVote
    <3>3. UNCHANGED <<session, voted, backers, life>>
      BY <2>11 DEF VoteChecked
    <3> QED
      BY <3>1, <3>2, <3>3, VoteAdded
  <2>12. ASSUME NEW n \in Node, NEW m \in Node, VoteGranted(n, m)
        PROVE  VoteInv'
    <3>1. n \in InVote(m) /\ \A k \in Node : InVote(k)' \subseteq InVote(k)
      BY <2>12 DEF VoteGranted, Return, Reply, InVote
    <3>2. /\ \A k \in Node \ {m} : VotesOf(k)' = VotesOf(k)
          /\ VotesOf(m)' = VotesOf(m) \cup {n}
      BY <2>12 DEF VoteGranted, CastVote, VotesOf
    <3>3. /\ \A k \in Node \ {m} : voted'[k] = voted[k]
          /\ voted'[m] = TRUE /\ life' = life
          /\ \A k \in Node : session'[k] = session[k]
      BY <2>12 DEF VoteGranted, CastVote, ReqSession, VoteInv
    <3>4. \A k \in Node : Told(k)' \subseteq Told(k)
      <4>1. \A k \in Node \ {m} : Told(k)' \subseteq Told(k)
        BY <3>1, <3>2 DEF Told
      <4>2. Told(m)' \subseteq Told(m)
        BY <3>1, <3>2 DEF Told
      <4> QED
        BY <4>1, <4>2
    <3> QED
      BY <3>2, <3>3, <3>4, VotesShrink
  <2>13. ASSUME NEW n \in Node, NEW m \in Node, Heartbeat(n, m)
        PROVE  VoteInv'
    <3>1. \A k \in Node : life'[k] = 0 => life[k] = 0 /\ InVote(k)' \subseteq InVote(k)
      <4>1. \A k, x \in Node : call'[x][k] = "granting" => call[x][k] = "granting"
        BY <2>13 DEF Heartbeat, Return, Reply
      <4>2. \A k, x \in Node : [kind |-> "granting", from |-> x, to |-> k] \in late' =>
              \/ [kind |-> "granting", from |-> x, to |-> k] \in late
              \/ call[x][k] = "granting"
        BY <2>13 DEF Heartbeat, Return, Reply
      <4> QED
        BY <2>13, <4>1, <4>2 DEF Heartbeat, InVote
    <3>2. UNCHANGED <<session, voted, backers>>
      BY <2>13 DEF Heartbeat, Return, Reply
    <3> QED
      BY <3>1, <3>2, VotesKept
  <2>14. ASSUME NEW n \in Node, NEW m \in Node, Timeout(n, m)
        PROVE  VoteInv'
    <3>1. \A k \in Node : life'[k] = 0 => life[k] = 0 /\ InVote(k)' \subseteq InVote(k)
      <4>1. \A k, x \in Node : call'[x][k] = "granting" => call[x][k] = "granting"
        BY <2>14 DEF Timeout, Waiting, Abandoned
      <4>2. \A k, x \in Node : [kind |-> "granting", from |-> x, to |-> k] \in late' =>
              \/ [kind |-> "granting", from |-> x, to |-> k] \in late
              \/ call[x][k] = "granting"
        BY <2>14 DEF Timeout, Waiting, Abandoned
      <4> QED
        BY <2>14, <4>1, <4>2 DEF Timeout, InVote
    <3>2. UNCHANGED <<session, voted, backers>>
      BY <2>14 DEF Timeout, Waiting
    <3> QED
      BY <3>1, <3>2, VotesKept
  <2>15. ASSUME NEW r \in late, LateVote(r)
        PROVE  VoteInv'
    <3>0. PICK n, m \in Node : r = [kind |-> "vote", from |-> n, to |-> m]
      BY <2>15 DEF LateVote, Requests
    <3>a. CASE ~CanVote(m)
      <4>1. \A k \in Node : life'[k] = 0 => life[k] = 0 /\ InVote(k)' \subseteq InVote(k)
        BY <2>15, <3>0, <3>a DEF LateVote, InVote
      <4>2. UNCHANGED <<session, voted, backers>>
        BY <2>15, <3>0, <3>a DEF LateVote
      <4> QED
        BY <4>1, <4>2, VotesKept
    <3>b. CASE CanVote(m)
      <4>1. ~voted[m] /\ Cardinality(InVote(m)) < VoteThreads
        BY <2>15, <3>0, <3>b DEF LateVote, CanVote, ReqSession, VoteInv
      <4>2. /\ \A k \in Node \ {m} : InVote(k)' \subseteq InVote(k)
            /\ InVote(m)' \subseteq InVote(m) \cup {n}
        BY <2>15, <3>0, <3>b DEF LateVote, InVote
      <4>3. UNCHANGED <<session, voted, backers, life>>
        BY <2>15, <3>0, <3>b DEF LateVote
      <4> QED
        BY <4>1, <4>2, <4>3, VoteAdded
    <3> QED
      BY <3>a, <3>b
  <2>16. ASSUME NEW r \in late, LateGranted(r)
        PROVE  VoteInv'
    <3>0. r.to \in Node /\ r.from \in Node /\ r = [kind |-> "granting", from |-> r.from, to |-> r.to]
      BY <2>16 DEF LateGranted, Requests
    <3>1. r.from \in InVote(r.to) /\ \A k \in Node : InVote(k)' \subseteq InVote(k)
      BY <2>16, <3>0 DEF LateGranted, InVote
    <3>2. /\ \A k \in Node \ {r.to} : VotesOf(k)' = VotesOf(k)
          /\ VotesOf(r.to)' = VotesOf(r.to) \cup {r.from}
      BY <2>16, <3>0 DEF LateGranted, CastVote, VotesOf
    <3>3. /\ \A k \in Node \ {r.to} : voted'[k] = voted[k]
          /\ voted'[r.to] = TRUE /\ life' = life
          /\ \A k \in Node : session'[k] = session[k]
      BY <2>16, <3>0 DEF LateGranted, CastVote, ReqSession, VoteInv
    <3>4. \A k \in Node : Told(k)' \subseteq Told(k)
      <4>1. \A k \in Node \ {r.to} : Told(k)' \subseteq Told(k)
        BY <3>1, <3>2 DEF Told
      <4>2. Told(r.to)' \subseteq Told(r.to)
        BY <3>0, <3>1, <3>2 DEF Told
      <4> QED
        BY <4>1, <4>2
    <3> QED
      BY <3>2, <3>3, <3>4, VotesShrink
  <2>17. ASSUME NEW r \in late, LateHeartbeat(r)
        PROVE  VoteInv'
    <3>1. \A k \in Node : life'[k] = 0 => life[k] = 0 /\ InVote(k)' \subseteq InVote(k)
      BY <2>17 DEF LateHeartbeat, InVote
    <3>2. UNCHANGED <<session, voted, backers>>
      BY <2>17 DEF LateHeartbeat
    <3> QED
      BY <3>1, <3>2, VotesKept
  <2>18. ASSUME NEW n \in Node, Restart(n)
        PROVE  VoteInv'
    <3>1. \A k \in Node : life'[k] = 0 => k # n /\ life[k] = 0
      BY <2>18 DEF Restart
    <3>2. \A k \in Node \ {n} : /\ InVote(k)' \subseteq InVote(k)
                                 /\ session'[k] = session[k] /\ voted'[k] = voted[k]
      <4>1. \A k \in Node \ {n}, x \in Node : call'[x][k] = "granting" => call[x][k] = "granting"
        BY <2>18 DEF Restart
      <4>2. \A k, x \in Node : [kind |-> "granting", from |-> x, to |-> k] \in late' =>
              \/ [kind |-> "granting", from |-> x, to |-> k] \in late
              \/ call[x][k] = "granting"
        <5>1. \A q \in late' : q \in late \/ \E k \in Node : q = Abandoned(n, k)
          BY <2>18 DEF Restart
        <5>2. \A k, x, y \in Node :
                [kind |-> "granting", from |-> x, to |-> k] = Abandoned(n, y) =>
                  x = n /\ k = y /\ call[n][y] = "granting"
          BY DEF Abandoned
        <5> QED
          BY <5>1, <5>2
      <4> QED
        BY <2>18, <4>1, <4>2 DEF Restart, InVote
    <3>3. session'[n] = 0 /\ backers' = backers
      BY <2>18 DEF Restart
    <3>4. \A k \in Node \ {n} : Told(k)' \subseteq Told(k)
      BY <3>2, <3>3 DEF VotesOf, Told
    <3>5. \A k \in Node \ {n} : VotesOf(k)' = VotesOf(k)
      BY <3>3 DEF VotesOf
    <3> QED
      BY <3>1, <3>2, <3>3, <3>4, <3>5, VotesShrink
  <2>19. CASE UNCHANGED vars
    <3>1. \A k \in Node : InVote(k)' = InVote(k)
      BY <2>19 DEF vars, InVote
    <3> QED
      BY <2>19, <3>1, VotesKept DEF vars
  <2> QED
    BY <2>1, <2>2, <2>3, <2>4, <2>5, <2>6, <2>7, <2>8, <2>9, <2>10, <2>11, <2>12, <2>13,
       <2>14, <2>15, <2>16, <2>17, <2>18, <2>19 DEF Next, Ticker, SendMsg, LateMsg
<1> QED
  BY <1>1, <1>2, Typed, PTL DEF Spec

\* A process gives at most VoteThreads votes in its first life.
THEOREM VotesAreBounded == Spec => []VotesBounded
<1>1. TypeOK /\ VoteInv => VotesBounded
  <2> SUFFICES ASSUME TypeOK, VoteInv, NEW m \in Node, life[m] = 0
               PROVE  Cardinality(VotesOf(m)) <= VoteThreads
    BY DEF VotesBounded
  <2>1. Told(m) \in SUBSET Node /\ VotesOf(m) \in SUBSET Told(m)
    BY DEF VotesOf, InVote, Told
  <2>2. /\ Cardinality(VotesOf(m)) \in Nat
        /\ Cardinality(Told(m)) \in Nat
        /\ Cardinality(VotesOf(m)) <= Cardinality(Told(m))
    BY <2>1, NodeSets, NodeSetsGrow
  <2>3. Cardinality(Told(m)) <= VoteThreads
    BY DEF VoteInv
  <2> QED
    BY <2>2, <2>3, BoundAssumption
<1> QED
  BY <1>1, Typed, VotersCounted, PTL

-----------------------------------------------------------------------------
(* The first round of elections.                                           *)

\* A vote request leaves a node only after it became a CANDIDATE.
THEOREM AskersStood == Spec => []StoodInv
<1>1. Init => StoodInv
  BY DEF Init, StoodInv, NoCalls
<1>2. TypeOK /\ RoundInv /\ StoodInv /\ [Next]_vars => StoodInv'
  <2> SUFFICES ASSUME TypeOK, RoundInv, StoodInv, [Next]_vars
               PROVE  StoodInv'
    OBVIOUS
  <2> USE DEF TypeOK, RoundInv, StoodInv, Stood, NoRestart, NoCalls, timer, ballot, rpc, history
  <2>1. ASSUME NEW n \in Node, TickLeader(n)
        PROVE  StoodInv'
    BY <2>1 DEF TickLeader, SendAll
  <2>2. ASSUME NEW n \in Node, TickFollower(n)
        PROVE  StoodInv'
    BY <2>2 DEF TickFollower
  <2>3. ASSUME NEW n \in Node, StartElection(n)
        PROVE  StoodInv'
    BY <2>3 DEF StartElection, SendAll, MustElect
  <2>4. ASSUME NEW n \in Node, TickCandidate(n)
        PROVE  StoodInv'
    BY <2>4 DEF TickCandidate
  <2>5. ASSUME NEW n \in Node, NEW m \in Node, Join(n, m)
        PROVE  StoodInv'
    BY <2>5 DEF Join
  <2>6. ASSUME NEW n \in Node, WinElection(n)
        PROVE  StoodInv'
    BY <2>6 DEF WinElection, EndElection, RoundOver
  <2>7. ASSUME NEW n \in Node, LoseElection(n)
        PROVE  StoodInv'
    BY <2>7 DEF LoseElection, EndElection, RoundOver, LostTicket
  <2>8. ASSUME NEW n \in Node, EndHeartbeat(n)
        PROVE  StoodInv'
    BY <2>8 DEF EndHeartbeat, RoundOver
  <2>9. ASSUME NEW n \in Node, NEW m \in Node, LeaderCallFailed(n, m)
        PROVE  StoodInv'
    BY <2>9 DEF LeaderCallFailed
  <2>10. ASSUME NEW n \in Node, NEW m \in Node, VoteRefused(n, m)
        PROVE  StoodInv'
    BY <2>10 DEF VoteRefused, Reply
  <2>11. ASSUME NEW n \in Node, NEW m \in Node, VoteChecked(n, m)
        PROVE  StoodInv'
    BY <2>11 DEF VoteChecked
  <2>12. ASSUME NEW n \in Node, NEW m \in Node, VoteGranted(n, m)
        PROVE  StoodInv'
    BY <2>12 DEF VoteGranted, Return, Reply, CastVote
  <2>13. ASSUME NEW n \in Node, NEW m \in Node, Heartbeat(n, m)
        PROVE  StoodInv'
    BY <2>13 DEF Heartbeat, Return, Reply
  <2>14. ASSUME NEW n \in Node, NEW m \in Node, Timeout(n, m)
        PROVE  StoodInv'
    BY <2>14 DEF Timeout, Waiting, Abandoned
  <2>15. ASSUME NEW r \in late, LateVote(r)
        PROVE  StoodInv'
    BY <2>15 DEF LateVote, Requests
  <2>16. ASSUME NEW r \in late, LateGranted(r)
        PROVE  StoodInv'
    BY <2>16 DEF LateGranted, CastVote, Requests
  <2>17. ASSUME NEW r \in late, LateHeartbeat(r)
        PROVE  StoodInv'
    BY <2>17 DEF LateHeartbeat
  <2>18. ASSUME NEW n \in Node, Restart(n)
        PROVE  StoodInv'
    BY <2>18 DEF Restart
  <2>19. CASE UNCHANGED vars
    BY <2>19 DEF vars
  <2> QED
    BY <2>1, <2>2, <2>3, <2>4, <2>5, <2>6, <2>7, <2>8, <2>9, <2>10, <2>11, <2>12, <2>13,
       <2>14, <2>15, <2>16, <2>17, <2>18, <2>19 DEF Next, Ticker, SendMsg, LateMsg
<1> QED
  BY <1>1, <1>2, Typed, Rounds, PTL DEF Spec

\* Nobody votes in this step.
LEMMA NobodyTold ==
  ASSUME MutualInv, backers' = backers, life' = life,
         \A k \in Node : InVote(k)' \subseteq InVote(k),
         \A k \in Node : lost[k] => lost'[k]
  PROVE  MutualInv'
<1>1. \A k \in Node : Told(k)' \subseteq Told(k)
  BY DEF Told, VotesOf
<1> QED
  BY <1>1 DEF MutualInv, NoRestart

\* A worker of m decides for n: if n had decided for m before, m had stood and come back.
LEMMA OneMoreTold ==
  ASSUME TypeOK, StoodInv, MutualInv, NEW n \in Node, NEW m \in Node, NoRestart => n # m,
         backers' = backers, life' = life, lost' = lost, role[m] = "FOLLOWER",
         \A k \in Node \ {m} : InVote(k)' \subseteq InVote(k),
         InVote(m)' \subseteq InVote(m) \cup {n}
  PROVE  MutualInv'
<1> SUFFICES ASSUME NoRestart
             PROVE  MutualInv'
  BY DEF MutualInv, NoRestart
<1>1. /\ \A k \in Node \ {m} : Told(k)' \subseteq Told(k)
      /\ Told(m)' \subseteq Told(m) \cup {n}
  BY DEF Told, VotesOf
<1>2. \A k \in Node : m \in Told(k) => lost[m]
  <2> SUFFICES ASSUME NEW k \in Node, m \in Told(k)
               PROVE  Stood(m)
    BY DEF Stood
  <2>1. CASE k \in backers[m]
    BY <2>1 DEF StoodInv
  <2>2. CASE call[m][k] = "granting"
    BY <2>2 DEF StoodInv
  <2>3. CASE [kind |-> "granting", from |-> m, to |-> k] \in late
    BY <2>3 DEF StoodInv
  <2> QED
    BY <2>1, <2>2, <2>3 DEF Told, VotesOf, InVote
<1> QED
  BY <1>1, <1>2 DEF MutualInv

\* Two nodes that both stand for the first time do not both vote for each other.
THEOREM Mutual == Spec => []MutualInv
<1>1. Init => MutualInv
  BY DEF Init, MutualInv, Told, VotesOf, InVote, NoCalls
<1>2. TypeOK /\ StoodInv /\ MutualInv /\ [Next]_vars => MutualInv'
  <2> SUFFICES ASSUME TypeOK, StoodInv, MutualInv, [Next]_vars
               PROVE  MutualInv'
    OBVIOUS
  <2> USE DEF TypeOK, NoCalls, timer, ballot, rpc, history
  <2>1. ASSUME NEW n \in Node, TickLeader(n)
        PROVE  MutualInv'
    <3>1. \A k \in Node : InVote(k)' \subseteq InVote(k)
      BY <2>1 DEF TickLeader, SendAll, InVote
    <3>2. backers' = backers /\ life' = life /\ \A k \in Node : lost[k] => lost'[k]
      BY <2>1 DEF TickLeader, SendAll
    <3> QED
      BY <3>1, <3>2, NobodyTold
  <2>2. ASSUME NEW n \in Node, TickFollower(n)
        PROVE  MutualInv'
    <3>1. \A k \in Node : InVote(k)' \subseteq InVote(k)
      BY <2>2 DEF TickFollower, InVote
    <3>2. backers' = backers /\ life' = life /\ \A k \in Node : lost[k] => lost'[k]
      BY <2>2 DEF TickFollower
    <3> QED
      BY <3>1, <3>2, NobodyTold
  <2>3. ASSUME NEW n \in Node, StartElection(n)
        PROVE  MutualInv'
    <3>1. \A k \in Node : InVote(k)' \subseteq InVote(k)
      BY <2>3 DEF StartElection, SendAll, MustElect, InVote
    <3>2. backers' = backers /\ life' = life /\ \A k \in Node : lost[k] => lost'[k]
      BY <2>3 DEF StartElection, SendAll, MustElect
    <3> QED
      BY <3>1, <3>2, NobodyTold
  <2>4. ASSUME NEW n \in Node, TickCandidate(n)
        PROVE  MutualInv'
    <3>1. \A k \in Node : InVote(k)' \subseteq InVote(k)
      BY <2>4 DEF TickCandidate, InVote
    <3>2. backers' = backers /\ life' = life /\ \A k \in Node : lost[k] => lost'[k]
      <4>1. CASE AtLeastHalf(n)
        BY <2>4, <4>1 DEF TickCandidate
      <4>2. CASE ~AtLeastHalf(n)
        BY <2>4, <4>2 DEF TickCandidate
      <4> QED
        BY <4>1, <4>2
    <3> QED
      BY <3>1, <3>2, NobodyTold
  <2>5. ASSUME NEW n \in Node, NEW m \in Node, Join(n, m)
        PROVE  MutualInv'
    <3>1. \A k \in Node : InVote(k)' \subseteq InVote(k)
      BY <2>5 DEF Join, InVote
    <3>2. backers' = backers /\ life' = life /\ \A k \in Node : lost[k] => lost'[k]
      BY <2>5 DEF Join
    <3> QED
      BY <3>1, <3>2, NobodyTold
  <2>6. ASSUME NEW n \in Node, WinElection(n)
        PROVE  MutualInv'
    <3>1. \A k \in Node : InVote(k)' \subseteq InVote(k)
      BY <2>6 DEF WinElection, EndElection, RoundOver, InVote
    <3>2. backers' = backers /\ life' = life /\ \A k \in Node : lost[k] => lost'[k]
      BY <2>6 DEF WinElection, EndElection, RoundOver
    <3> QED
      BY <3>1, <3>2, NobodyTold
  <2>7. ASSUME NEW n \in Node, LoseElection(n)
        PROVE  MutualInv'
    <3>1. \A k \in Node : InVote(k)' \subseteq InVote(k)
      BY <2>7 DEF LoseElection, EndElection, RoundOver, LostTicket, InVote
    <3>2. backers' = backers /\ life' = life /\ \A k \in Node : lost[k] => lost'[k]
      BY <2>7 DEF LoseElection, EndElection, RoundOver, LostTicket
    <3> QED
      BY <3>1, <3>2, NobodyTold
  <2>8. ASSUME NEW n \in Node, EndHeartbeat(n)
        PROVE  MutualInv'
    <3>1. \A k \in Node : InVote(k)' \subseteq InVote(k)
      BY <2>8 DEF EndHeartbeat, RoundOver, InVote
    <3>2. backers' = backers /\ life' = life /\ \A k \in Node : lost[k] => lost'[k]
      BY <2>8 DEF EndHeartbeat, RoundOver
    <3> QED
      BY <3>1, <3>2, NobodyTold
  <2>9. ASSUME NEW n \in Node, NEW m \in Node, LeaderCallFailed(n, m)
        PROVE  MutualInv'
    <3>1. \A k \in Node : InVote(k)' \subseteq InVote(k)
      BY <2>9 DEF LeaderCallFailed, InVote
    <3>2. backers' = backers /\ life' = life /\ \A k \in Node : lost[k] => lost'[k]
      BY <2>9 DEF LeaderCallFailed
    <3> QED
      BY <3>1, <3>2, NobodyTold
  <2>10. ASSUME NEW n \in Node, NEW m \in Node, VoteRefused(n, m)
        PROVE  MutualInv'
    <3>1. \A k \in Node : InVote(k)' \subseteq InVote(k)
      BY <2>10 DEF VoteRefused, Reply, InVote
    <3>2. backers' = backers /\ life' = life /\ \A k \in Node : lost[k] => lost'[k]
      BY <2>10 DEF VoteRefused, Reply
    <3> QED
      BY <3>1, <3>2, NobodyTold
  <2>11. ASSUME NEW n \in Node, NEW m \in Node, VoteChecked(n, m)
        PROVE  MutualInv'
    <3>1. /\ \A k \in Node \ {m} : InVote(k)' \subseteq InVote(k)
          /\ InVote(m)' \subseteq InVote(m) \cup {n}
      BY <2>11 DEF VoteChecked, InVote
    <3>2. backers' = backers /\ life' = life /\ lost' = lost /\ role[m] = "FOLLOWER"
      BY <2>11 DEF VoteChecked, CanVote
    <3>3. NoRestart => n # m
      BY <2>11 DEF VoteChecked, StoodInv
    <3> QED
      BY <3>1, <3>2, <3>3, OneMoreTold
  <2>12. ASSUME NEW n \in Node, NEW m \in Node, VoteGranted(n, m)
        PROVE  MutualInv'
    <3>1. n \in InVote(m) /\ \A k \in Node : InVote(k)' \subseteq InVote(k)
      BY <2>12 DEF VoteGranted, Return, Reply, InVote
    <3>2. \A k \in Node : VotesOf(k)' \subseteq VotesOf(k) \cup InVote(k)
      BY <2>12, <3>1 DEF VoteGranted, CastVote, VotesOf
    <3>3. \A k \in Node : Told(k)' \subseteq Told(k)
      BY <3>1, <3>2 DEF Told
    <3>4. life' = life /\ lost' = lost
      BY <2>12 DEF VoteGranted
    <3> QED
      BY <3>3, <3>4 DEF MutualInv, NoRestart
  <2>13. ASSUME NEW n \in Node, NEW m \in Node, Heartbeat(n, m)
        PROVE  MutualInv'
    <3>1. \A k \in Node : InVote(k)' \subseteq InVote(k)
      <4>1. \A k, x \in Node : call'[x][k] = "granting" => call[x][k] = "granting"
        BY <2>13 DEF Heartbeat, Return, Reply
      <4>2. \A k, x \in Node : [kind |-> "granting", from |-> x, to |-> k] \in late' =>
              \/ [kind |-> "granting", from |-> x, to |-> k] \in late
              \/ call[x][k] = "granting"
        BY <2>13 DEF Heartbeat, Return, Reply
      <4> QED
        BY <4>1, <4>2 DEF InVote
    <3>2. backers' = backers /\ life' = life /\ \A k \in Node : lost[k] => lost'[k]
      BY <2>13 DEF Heartbeat, Return, Reply
    <3> QED
      BY <3>1, <3>2, NobodyTold
  <2>14. ASSUME NEW n \in Node, NEW m \in Node, Timeout(n, m)
        PROVE  MutualInv'
    <3>1. \A k \in Node : InVote(k)' \subseteq InVote(k)
      <4>1. \A k, x \in Node : call'[x][k] = "granting" => call[x][k] = "granting"
        BY <2>14 DEF Timeout, Waiting, Abandoned
      <4>2. \A k, x \in Node : [kind |-> "granting", from |-> x, to |-> k] \in late' =>
              \/ [kind |-> "granting", from |-> x, to |-> k] \in late
              \/ call[x][k] = "granting"
        <5>1. \A q \in late' : q \in late \/ q = Abandoned(n, m)
          BY <2>14 DEF Timeout
        <5>2. \A k, x \in Node :
                [kind |-> "granting", from |-> x, to |-> k] = Abandoned(n, m) =>
                  x = n /\ k = m /\ call[n][m] = "granting"
          BY DEF Abandoned
        <5> QED
          BY <5>1, <5>2
      <4> QED
        BY <4>1, <4>2 DEF InVote
    <3>2. backers' = backers /\ life' = life /\ \A k \in Node : lost[k] => lost'[k]
      BY <2>14 DEF Timeout, Waiting
    <3> QED
      BY <3>1, <3>2, NobodyTold
  <2>15. ASSUME NEW r \in late, LateVote(r)
        PROVE  MutualInv'
    <3>0. PICK n, m \in Node : r = [kind |-> "vote", from |-> n, to |-> m]
      BY <2>15 DEF LateVote, Requests
    <3>a. CASE ~CanVote(m)
      <4>1. \A k \in Node : InVote(k)' \subseteq InVote(k)
        BY <2>15, <3>0, <3>a DEF LateVote, InVote
      <4>2. backers' = backers /\ life' = life /\ \A k \in Node : lost[k] => lost'[k]
        BY <2>15, <3>0, <3>a DEF LateVote
      <4> QED
        BY <4>1, <4>2, NobodyTold
    <3>b. CASE CanVote(m)
      <4>1. /\ \A k \in Node \ {m} : InVote(k)' \subseteq InVote(k)
            /\ InVote(m)' \subseteq InVote(m) \cup {n}
        BY <2>15, <3>0, <3>b DEF LateVote, InVote
      <4>2. backers' = backers /\ life' = life /\ lost' = lost /\ role[m] = "FOLLOWER"
        BY <2>15, <3>0, <3>b DEF LateVote, CanVote
      <4>3. NoRestart => n # m
        BY <2>15, <3>0, <3>b DEF LateVote, StoodInv
      <4> QED
        BY <4>1, <4>2, <4>3, OneMoreTold
    <3> QED
      BY <3>a, <3>b
  <2>16. ASSUME NEW r \in late, LateGranted(r)
        PROVE  MutualInv'
    <3>0. PICK n, m \in Node : r = [kind |-> "granting", from |-> n, to |-> m]
      BY <2>16 DEF LateGranted, Requests
    <3>1. n \in InVote(m) /\ \A k \in Node : InVote(k)' \subseteq InVote(k)
      BY <2>16, <3>0 DEF LateGranted, InVote
    <3>2. \A k \in Node : VotesOf(k)' \subseteq VotesOf(k) \cup InVote(k)
      BY <2>16, <3>0, <3>1 DEF LateGranted, CastVote, VotesOf
    <3>3. \A k \in Node : Told(k)' \subseteq Told(k)
      BY <3>1, <3>2 DEF Told
    <3>4. life' = life /\ lost' = lost
      BY <2>16 DEF LateGranted
    <3> QED
      BY <3>3, <3>4 DEF MutualInv, NoRestart
  <2>17. ASSUME NEW r \in late, LateHeartbeat(r)
        PROVE  MutualInv'
    <3>1. \A k \in Node : InVote(k)' \subseteq InVote(k)
      BY <2>17 DEF LateHeartbeat, InVote
    <3>2. backers' = backers /\ life' = life /\ \A k \in Node : lost[k] => lost'[k]
      BY <2>17 DEF LateHeartbeat
    <3> QED
      BY <3>1, <3>2, NobodyTold
  <2>18. ASSUME NEW n \in Node, Restart(n)
        PROVE  MutualInv'
    BY <2>18 DEF Restart, MutualInv, NoRestart
  <2>19. CASE UNCHANGED vars
    <3>1. \A k \in Node : InVote(k)' = InVote(k)
      BY <2>19 DEF vars, InVote
    <3> QED
      BY <2>19, <3>1, NobodyTold DEF vars
  <2> QED
    BY <2>1, <2>2, <2>3, <2>4, <2>5, <2>6, <2>7, <2>8, <2>9, <2>10, <2>11, <2>12, <2>13,
       <2>14, <2>15, <2>16, <2>17, <2>18, <2>19 DEF Next, Ticker, SendMsg, LateMsg
<1> QED
  BY <1>1, <1>2, Typed, AskersStood, PTL DEF Spec

\* A node that won keeps its role, and votes are never taken back.
LEMMA CleanKept ==
  ASSUME TypeOK, TypeOK', CleanInv,
         \A k \in Node : clean'[k] => /\ clean[k] /\ role'[k] = role[k]
                                      /\ pc'[k] # "election" /\ lost'[k] = lost[k],
         \A k \in Node : backers[k] \subseteq backers'[k]
  PROVE  CleanInv'
<1>1. \A k \in Node : backers'[k] \in SUBSET Node /\ backers[k] \in SUBSET backers'[k]
  BY DEF TypeOK
<1>2. \A k \in Node : /\ Cardinality(backers[k]) \in Nat /\ Cardinality(backers'[k]) \in Nat
                      /\ Cardinality(backers[k]) <= Cardinality(backers'[k])
  BY <1>1, NodeSets, NodeSetsGrow DEF TypeOK
<1>3. \A k \in Node : Cardinality(Others(k)) \div 2 \in Int
  BY NodeSets DEF Others
<1> QED
  BY <1>2, <1>3 DEF CleanInv

\* A first-round winner has the votes of more than half of the other nodes.
THEOREM CleanWins == Spec => []CleanInv
<1>1. Init => CleanInv
  BY DEF Init, CleanInv
<1>2. TypeOK /\ TypeOK' /\ RoundInv /\ TicketInv /\ CleanInv /\ [Next]_vars => CleanInv'
  <2> SUFFICES ASSUME TypeOK, TypeOK', RoundInv, TicketInv, CleanInv, [Next]_vars
               PROVE  CleanInv'
    OBVIOUS
  <2> USE DEF TypeOK, NoCalls, timer, ballot, rpc, history
  <2>1. ASSUME NEW n \in Node, TickLeader(n)
        PROVE  CleanInv'
    <3>1. \A k \in Node : clean'[k] => /\ clean[k] /\ role'[k] = role[k]
                                         /\ pc'[k] # "election" /\ lost'[k] = lost[k]
      BY <2>1 DEF TickLeader, SendAll, CleanInv, RoundInv
    <3>2. \A k \in Node : backers[k] \subseteq backers'[k]
      BY <2>1 DEF TickLeader, SendAll
    <3> QED
      BY <3>1, <3>2, CleanKept
  <2>2. ASSUME NEW n \in Node, TickFollower(n)
        PROVE  CleanInv'
    <3>1. \A k \in Node : clean'[k] => /\ clean[k] /\ role'[k] = role[k]
                                         /\ pc'[k] # "election" /\ lost'[k] = lost[k]
      BY <2>2 DEF TickFollower, CleanInv, RoundInv
    <3>2. \A k \in Node : backers[k] \subseteq backers'[k]
      BY <2>2 DEF TickFollower
    <3> QED
      BY <3>1, <3>2, CleanKept
  <2>3. ASSUME NEW n \in Node, StartElection(n)
        PROVE  CleanInv'
    <3>1. \A k \in Node : clean'[k] => /\ clean[k] /\ role'[k] = role[k]
                                         /\ pc'[k] # "election" /\ lost'[k] = lost[k]
      BY <2>3 DEF StartElection, SendAll, MustElect, CleanInv, RoundInv
    <3>2. \A k \in Node : backers[k] \subseteq backers'[k]
      BY <2>3 DEF StartElection, SendAll, MustElect
    <3> QED
      BY <3>1, <3>2, CleanKept
  <2>4. ASSUME NEW n \in Node, TickCandidate(n)
        PROVE  CleanInv'
    <3>1. \A k \in Node : clean'[k] => /\ clean[k] /\ role'[k] = role[k]
                                         /\ pc'[k] # "election" /\ lost'[k] = lost[k]
      BY <2>4 DEF TickCandidate, CleanInv, RoundInv
    <3>2. \A k \in Node : backers[k] \subseteq backers'[k]
      BY <2>4 DEF TickCandidate
    <3> QED
      BY <3>1, <3>2, CleanKept
  <2>5. ASSUME NEW n \in Node, NEW m \in Node, Join(n, m)
        PROVE  CleanInv'
    <3>1. \A k \in Node : clean'[k] => /\ clean[k] /\ role'[k] = role[k]
                                         /\ pc'[k] # "election" /\ lost'[k] = lost[k]
      BY <2>5 DEF Join, CleanInv, RoundInv
    <3>2. \A k \in Node : backers[k] \subseteq backers'[k]
      BY <2>5 DEF Join
    <3> QED
      BY <3>1, <3>2, CleanKept
  <2>6. ASSUME NEW n \in Node, WinElection(n)
        PROVE  CleanInv'
    <3>1. \A k \in Node \ {n} : UNCHANGED <<clean[k], role[k], pc[k], lost[k]>>
      BY <2>6 DEF WinElection, EndElection
    <3>2. clean'[n] => /\ role'[n] = "LEADER" /\ pc'[n] = "idle" /\ ~lost'[n] /\ ~lost[n]
                       /\ peers[n] = Others(n)
      <4>1. role'[n] = "LEADER" /\ pc'[n] = "idle" /\ lost' = lost
        BY <2>6 DEF WinElection, EndElection
      <4>2. clean' = [clean EXCEPT ![n] = ~lost[n] /\ peers[n] = Others(n)]
        BY <2>6 DEF WinElection
      <4>3. clean'[n] = (~lost[n] /\ peers[n] = Others(n))
        BY <4>2, Zenon
      <4> QED
        BY <4>1, <4>3
    <3>3. backers' = backers /\ ticket[n] > Cardinality(peers[n]) \div 2
      BY <2>6 DEF WinElection, EndElection, Elected
    <3>4. ~lost[n] => Cardinality(backers[n]) >= ticket[n]
      <4>1. backers[n] \in SUBSET Node /\ Joined(n) \in SUBSET backers[n]
        BY DEF Joined
      <4>2. /\ Cardinality(Joined(n)) \in Nat /\ Cardinality(backers[n]) \in Nat
            /\ Cardinality(Joined(n)) <= Cardinality(backers[n]) /\ ticket[n] \in Nat
        BY <4>1, NodeSets, NodeSetsGrow
      <4>3. ~lost[n] => ticket[n] <= 0 + Cardinality(Joined(n))
        BY DEF TicketInv, FreeTickets
      <4> QED
        BY <4>2, <4>3
    <3>5. /\ Cardinality(peers[n]) \in Nat /\ Cardinality(backers[n]) \in Nat /\ ticket[n] \in Nat
      BY NodeSets
    <3>6. clean'[n] => Cardinality(backers'[n]) > Cardinality(Others(n)) \div 2
      <4> SUFFICES ASSUME clean'[n]
                   PROVE  Cardinality(backers[n]) > Cardinality(peers[n]) \div 2
        BY <3>2, <3>3
      <4> QED
        BY <3>2, <3>3, <3>4, <3>5
    <3> QED
      BY <3>1, <3>2, <3>3, <3>6 DEF CleanInv
  <2>7. ASSUME NEW n \in Node, LoseElection(n)
        PROVE  CleanInv'
    <3>1. \A k \in Node : clean'[k] => /\ clean[k] /\ role'[k] = role[k]
                                         /\ pc'[k] # "election" /\ lost'[k] = lost[k]
      <4>1. ~clean[n]
        BY <2>7 DEF LoseElection, EndElection, CleanInv
      <4>2. \A k \in Node \ {n} : UNCHANGED <<role[k], pc[k], lost[k]>>
        BY <2>7 DEF LoseElection, EndElection
      <4> QED
        BY <2>7, <4>1, <4>2 DEF LoseElection, CleanInv
    <3>2. \A k \in Node : backers[k] \subseteq backers'[k]
      BY <2>7 DEF LoseElection, EndElection, RoundOver, LostTicket
    <3> QED
      BY <3>1, <3>2, CleanKept
  <2>8. ASSUME NEW n \in Node, EndHeartbeat(n)
        PROVE  CleanInv'
    <3>1. \A k \in Node : clean'[k] => /\ clean[k] /\ role'[k] = role[k]
                                         /\ pc'[k] # "election" /\ lost'[k] = lost[k]
      BY <2>8 DEF EndHeartbeat, RoundOver, CleanInv, RoundInv
    <3>2. \A k \in Node : backers[k] \subseteq backers'[k]
      BY <2>8 DEF EndHeartbeat, RoundOver
    <3> QED
      BY <3>1, <3>2, CleanKept
  <2>9. ASSUME NEW n \in Node, NEW m \in Node, LeaderCallFailed(n, m)
        PROVE  CleanInv'
    <3>1. \A k \in Node : clean'[k] => /\ clean[k] /\ role'[k] = role[k]
                                         /\ pc'[k] # "election" /\ lost'[k] = lost[k]
      BY <2>9 DEF LeaderCallFailed, CleanInv, RoundInv
    <3>2. \A k \in Node : backers[k] \subseteq backers'[k]
      BY <2>9 DEF LeaderCallFailed
    <3> QED
      BY <3>1, <3>2, CleanKept
  <2>10. ASSUME NEW n \in Node, NEW m \in Node, VoteRefused(n, m)
        PROVE  CleanInv'
    <3>1. \A k \in Node : clean'[k] => /\ clean[k] /\ role'[k] = role[k]
                                         /\ pc'[k] # "election" /\ lost'[k] = lost[k]
      BY <2>10 DEF VoteRefused, Reply, CleanInv, RoundInv
    <3>2. \A k \in Node : backers[k] \subseteq backers'[k]
      BY <2>10 DEF VoteRefused, Reply
    <3> QED
      BY <3>1, <3>2, CleanKept
  <2>11. ASSUME NEW n \in Node, NEW m \in Node, VoteChecked(n, m)
        PROVE  CleanInv'
    <3>1. \A k \in Node : clean'[k] => /\ clean[k] /\ role'[k] = role[k]
                                         /\ pc'[k] # "election" /\ lost'[k] = lost[k]
      BY <2>11 DEF VoteChecked, CleanInv, RoundInv
    <3>2. \A k \in Node : backers[k] \subseteq backers'[k]
      BY <2>11 DEF VoteChecked
    <3> QED
      BY <3>1, <3>2, CleanKept
  <2>12. ASSUME NEW n \in Node, NEW m \in Node, VoteGranted(n, m)
        PROVE  CleanInv'
    <3>1. \A k \in Node : clean'[k] => /\ clean[k] /\ role'[k] = role[k]
                                         /\ pc'[k] # "election" /\ lost'[k] = lost[k]
      BY <2>12 DEF VoteGranted, Return, Reply, CastVote, CleanInv, RoundInv
    <3>2. \A k \in Node : backers[k] \subseteq backers'[k]
      BY <2>12 DEF VoteGranted, Return, Reply, CastVote
    <3> QED
      BY <3>1, <3>2, CleanKept
  <2>13. ASSUME NEW n \in Node, NEW m \in Node, Heartbeat(n, m)
        PROVE  CleanInv'
    <3>1. \A k \in Node : clean'[k] => /\ clean[k] /\ role'[k] = role[k]
                                         /\ pc'[k] # "election" /\ lost'[k] = lost[k]
      BY <2>13 DEF Heartbeat, Return, Reply, CleanInv, RoundInv
    <3>2. \A k \in Node : backers[k] \subseteq backers'[k]
      BY <2>13 DEF Heartbeat, Return, Reply
    <3> QED
      BY <3>1, <3>2, CleanKept
  <2>14. ASSUME NEW n \in Node, NEW m \in Node, Timeout(n, m)
        PROVE  CleanInv'
    <3>1. \A k \in Node : clean'[k] => /\ clean[k] /\ role'[k] = role[k]
                                         /\ pc'[k] # "election" /\ lost'[k] = lost[k]
      BY <2>14 DEF Timeout, Waiting, CleanInv, RoundInv
    <3>2. \A k \in Node : backers[k] \subseteq backers'[k]
      BY <2>14 DEF Timeout, Waiting
    <3> QED
      BY <3>1, <3>2, CleanKept
  <2>15. ASSUME NEW r \in late, LateVote(r)
        PROVE  CleanInv'
    <3>1. \A k \in Node : clean'[k] => /\ clean[k] /\ role'[k] = role[k]
                                         /\ pc'[k] # "election" /\ lost'[k] = lost[k]
      BY <2>15 DEF LateVote, CleanInv, RoundInv
    <3>2. \A k \in Node : backers[k] \subseteq backers'[k]
      BY <2>15 DEF LateVote
    <3> QED
      BY <3>1, <3>2, CleanKept
  <2>16. ASSUME NEW r \in late, LateGranted(r)
        PROVE  CleanInv'
    <3>1. \A k \in Node : clean'[k] => /\ clean[k] /\ role'[k] = role[k]
                                         /\ pc'[k] # "election" /\ lost'[k] = lost[k]
      BY <2>16 DEF LateGranted, CastVote, CleanInv, RoundInv
    <3>2. \A k \in Node : backers[k] \subseteq backers'[k]
      BY <2>16 DEF LateGranted, CastVote
    <3> QED
      BY <3>1, <3>2, CleanKept
  <2>17. ASSUME NEW r \in late, LateHeartbeat(r)
        PROVE  CleanInv'
    <3>1. \A k \in Node : clean'[k] => /\ clean[k] /\ role'[k] = role[k]
                                         /\ pc'[k] # "election" /\ lost'[k] = lost[k]
      BY <2>17 DEF LateHeartbeat, CleanInv, RoundInv
    <3>2. \A k \in Node : backers[k] \subseteq backers'[k]
      BY <2>17 DEF LateHeartbeat
    <3> QED
      BY <3>1, <3>2, CleanKept
  <2>18. ASSUME NEW n \in Node, Restart(n)
        PROVE  CleanInv'
    BY <2>18 DEF Restart, CleanInv
  <2>19. CASE UNCHANGED vars
    BY <2>19 DEF vars, CleanInv
  <2> QED
    BY <2>1, <2>2, <2>3, <2>4, <2>5, <2>6, <2>7, <2>8, <2>9, <2>10, <2>11, <2>12, <2>13,
       <2>14, <2>15, <2>16, <2>17, <2>18, <2>19 DEF Next, Ticker, SendMsg, LateMsg
<1> QED
  BY <1>1, <1>2, Typed, Rounds, TicketsCounted, PTL DEF Spec

\* Two first-round winners would need more voters than there are nodes: their voters are
\* distinct, neither votes for itself, and they did not both vote for each other.
THEOREM FirstElections == Spec => []FirstElectionUnique
<1>1. TypeOK /\ VoteInv /\ StoodInv /\ MutualInv /\ CleanInv => FirstElectionUnique
  <2> SUFFICES ASSUME TypeOK, VoteInv, StoodInv, MutualInv, CleanInv,
                      VoteThreads = 1, NoRestart,
                      NEW a \in Node, NEW b \in Node, clean[a], clean[b], a # b
               PROVE  FALSE
    BY DEF FirstElectionUnique, NoRestart
  <2>1. backers[a] \cap backers[b] = {}
    <3> SUFFICES ASSUME NEW m \in Node, a \in VotesOf(m), b \in VotesOf(m)
                 PROVE  FALSE
      BY DEF TypeOK, VotesOf
    <3>1. Told(m) \in SUBSET Node /\ {a, b} \in SUBSET Told(m)
      BY DEF Told, VotesOf, InVote
    <3>2. Cardinality({a, b}) <= Cardinality(Told(m))
      BY <3>1, NodeSetsGrow
    <3>3. Cardinality({a, b}) = 2
      <4>1. {a, b} = {a} \cup {b} /\ Cardinality({a}) = 1
        BY FS_Singleton
      <4> QED
        BY <4>1, NodeSetsAdd
    <3>4. Cardinality(Told(m)) <= 1 /\ Cardinality(Told(m)) \in Nat
      BY <3>1, NodeSets DEF VoteInv, NoRestart
    <3> QED
      BY <3>2, <3>3, <3>4
  <2>2. b \notin backers[a] \/ a \notin backers[b]
    BY DEF MutualInv, CleanInv, Told, VotesOf
  <2>3. PICK x \in {a, b} : x \notin backers[a] /\ x \notin backers[b]
    BY <2>2 DEF StoodInv
  <2>4. backers[a] \in SUBSET Others(x) /\ backers[b] \in SUBSET Others(x)
    BY <2>3 DEF TypeOK, Others
  <2>5. Cardinality(backers[a] \cup backers[b]) = Cardinality(backers[a]) + Cardinality(backers[b])
    <3>1. IsFiniteSet(backers[a]) /\ IsFiniteSet(backers[b])
      BY NodeSets DEF TypeOK
    <3>2. Cardinality(backers[a] \cap backers[b]) = 0
      BY <2>1, FS_EmptySet
    <3>3. Cardinality(backers[a]) \in Nat /\ Cardinality(backers[b]) \in Nat
      BY NodeSets DEF TypeOK
    <3>4. Cardinality(backers[a] \cup backers[b]) =
            Cardinality(backers[a]) + Cardinality(backers[b]) - Cardinality(backers[a] \cap backers[b])
      BY <3>1, FS_Union
    <3> QED
      BY <3>2, <3>3, <3>4
  <2>6. Cardinality(backers[a]) + Cardinality(backers[b]) <= Cardinality(Others(x))
    <3>1. Others(x) \in SUBSET Node /\ backers[a] \cup backers[b] \in SUBSET Others(x)
      BY <2>4 DEF Others
    <3> QED
      BY <2>5, <3>1, NodeSetsGrow
  <2>7. \A y \in Node : Cardinality(Others(y)) = Cardinality(Node) - 1
    BY NodeAssumption, FS_RemoveElement DEF Others
  <2>8. /\ Cardinality(backers[a]) > (Cardinality(Node) - 1) \div 2
        /\ Cardinality(backers[b]) > (Cardinality(Node) - 1) \div 2
    BY <2>7 DEF CleanInv
  <2>9. /\ Cardinality(Node) \in Nat /\ Cardinality(backers[a]) \in Nat
        /\ Cardinality(backers[b]) \in Nat
    BY NodeAssumption, NodeSets, FS_CardinalityType DEF TypeOK
  <2> QED
    BY <2>6, <2>7, <2>8, <2>9
<1> QED
  BY <1>1, Typed, VotersCounted, AskersStood, Mutual, CleanWins, PTL

-----------------------------------------------------------------------------
(* The election as the SendMsg reply makes it.                             *)

\* With type unset in every reply, an election erases each peer it asks.
THEOREM CallsFail == Spec => []AloneInv
<1>1. Init => AloneInv
  BY DEF Init, AloneInv, NoCalls, NotFailed
<1>2. TypeOK /\ RoundInv /\ AloneInv /\ [Next]_vars => AloneInv'
  <2> SUFFICES ASSUME TypeOK, RoundInv, AloneInv, [Next]_vars, RequiredChecked
               PROVE  AloneInv'
    BY DEF AloneInv
  <2> USE DEF TypeOK, RoundInv, AloneInv, NoCalls, timer, ballot, rpc, history
  <2>1. ASSUME NEW n \in Node, TickLeader(n)
        PROVE  AloneInv'
    BY <2>1 DEF TickLeader, SendAll, NotFailed, Open, Waiting, Answered
  <2>2. ASSUME NEW n \in Node, TickFollower(n)
        PROVE  AloneInv'
    BY <2>2 DEF TickFollower, NotFailed, Open, Waiting, Answered, Bump
  <2>3. ASSUME NEW n \in Node, StartElection(n)
        PROVE  AloneInv'
    BY <2>3 DEF StartElection, SendAll, MustElect, NotFailed, Open, Waiting, Answered
  <2>4. ASSUME NEW n \in Node, TickCandidate(n)
        PROVE  AloneInv'
    BY <2>4 DEF TickCandidate, NotFailed, Open, Waiting, Answered
  <2>5. ASSUME NEW n \in Node, NEW m \in Node, Join(n, m)
        PROVE  AloneInv'
    <3>1. \A k, x \in Node : call'[k][x] \notin NotFailed
      BY <2>5 DEF Join, NotFailed
    <3>2. call[n][m] = "failed"
      BY <2>5 DEF Join, Answered, NotFailed
    <3>3. /\ peers'[n] = peers[n] \ {m} /\ UNCHANGED <<role, pc>>
          /\ \A k \in Node \ {n} : UNCHANGED <<peers[k], call[k]>>
      BY <2>5, <3>2 DEF Join
    <3>4. Open(n) \ {m} \subseteq Open(n)' \/ pc[n] # "election"
      BY <2>5, <3>3 DEF Join, Open
    <3>5. \A k \in Node \ {n} : Open(k)' = Open(k)
      <4>1. \A k \in Node \ {n}, x \in Node : call'[k][x] = call[k][x]
        BY <3>3
      <4> SUFFICES ASSUME NEW k \in Node \ {n}
                   PROVE  Open(k)' = Open(k)
        OBVIOUS
      <4>2. pc'[k] = pc[k]
        BY <3>3
      <4>3. {x \in Node : call'[k][x] # "none"} = {x \in Node : call[k][x] # "none"}
        BY <4>1
      <4> QED
        BY <4>2, <4>3 DEF Open
    <3> QED
      BY <3>1, <3>3, <3>4, <3>5
  <2>6. ASSUME NEW n \in Node, WinElection(n)
        PROVE  AloneInv'
    <3>1. peers[n] = {}
      BY <2>6 DEF WinElection, EndElection, RoundOver, Open
    <3> QED
      BY <2>6, <3>1 DEF WinElection, EndElection, Open
  <2>7. ASSUME NEW n \in Node, LoseElection(n)
        PROVE  AloneInv'
    BY <2>7 DEF LoseElection, EndElection, RoundOver, LostTicket, NotFailed, Open, Waiting, Answered
  <2>8. ASSUME NEW n \in Node, EndHeartbeat(n)
        PROVE  AloneInv'
    BY <2>8 DEF EndHeartbeat, RoundOver, NotFailed, Open, Waiting, Answered
  <2>9. ASSUME NEW n \in Node, NEW m \in Node, LeaderCallFailed(n, m)
        PROVE  AloneInv'
    <3>1. UNCHANGED <<role, call, pc>> /\ \A k \in Node : peers'[k] \subseteq peers[k]
      BY <2>9 DEF LeaderCallFailed
    <3>2. \A k \in Node : Open(k)' = Open(k)
      BY <3>1 DEF Open
    <3> QED
      BY <3>1, <3>2
  <2>10. ASSUME NEW n \in Node, NEW m \in Node, VoteRefused(n, m)
        PROVE  AloneInv'
    BY <2>10 DEF VoteRefused, Reply, NotFailed, Open, Waiting, Answered
  <2>11. ASSUME NEW n \in Node, NEW m \in Node, VoteChecked(n, m)
        PROVE  AloneInv'
    BY <2>11 DEF VoteChecked, NotFailed, Open, Waiting, Answered
  <2>12. ASSUME NEW n \in Node, NEW m \in Node, VoteGranted(n, m)
        PROVE  AloneInv'
    <3>1. PICK a \in {"failed", "sent"} : call' = [call EXCEPT ![n][m] = a]
      BY <2>12 DEF VoteGranted, Return, Reply
    <3>2. call[n][m] # "none" /\ UNCHANGED <<role, pc, peers>>
      BY <2>12 DEF VoteGranted
    <3>3. \A k, x \in Node : /\ call'[k][x] \notin NotFailed
                             /\ call[k][x] # "none" => call'[k][x] # "none"
      BY <3>1, <3>2 DEF NotFailed
    <3>4. \A k \in Node : Open(k) \subseteq Open(k)'
      <4> SUFFICES ASSUME NEW k \in Node, NEW x \in Open(k)
                   PROVE  x \in Open(k)'
        OBVIOUS
      <4>1. pc[k] = "election" /\ x \in Node /\ call[k][x] # "none"
        BY DEF Open
      <4> QED
        BY <4>1, <3>2, <3>3 DEF Open
    <3> QED
      BY <3>2, <3>3, <3>4
  <2>13. ASSUME NEW n \in Node, NEW m \in Node, Heartbeat(n, m)
        PROVE  AloneInv'
    <3>1. PICK a \in {"failed", "sent"} : call' = [call EXCEPT ![n][m] = a]
      BY <2>13 DEF Heartbeat, Return, Reply
    <3>2. call[n][m] # "none" /\ UNCHANGED <<role, pc, peers>>
      BY <2>13 DEF Heartbeat
    <3>3. \A k, x \in Node : /\ call'[k][x] \notin NotFailed
                             /\ call[k][x] # "none" => call'[k][x] # "none"
      BY <3>1, <3>2 DEF NotFailed
    <3>4. \A k \in Node : Open(k) \subseteq Open(k)'
      <4> SUFFICES ASSUME NEW k \in Node, NEW x \in Open(k)
                   PROVE  x \in Open(k)'
        OBVIOUS
      <4>1. pc[k] = "election" /\ x \in Node /\ call[k][x] # "none"
        BY DEF Open
      <4> QED
        BY <4>1, <3>2, <3>3 DEF Open
    <3> QED
      BY <3>2, <3>3, <3>4
  <2>14. ASSUME NEW n \in Node, NEW m \in Node, Timeout(n, m)
        PROVE  AloneInv'
    BY <2>14 DEF Timeout, NotFailed, Open, Waiting, Answered
  <2>15. ASSUME NEW r \in late, LateVote(r)
        PROVE  AloneInv'
    BY <2>15 DEF LateVote, NotFailed, Open, Waiting, Answered
  <2>16. ASSUME NEW r \in late, LateGranted(r)
        PROVE  AloneInv'
    BY <2>16 DEF LateGranted, NotFailed, Open, Waiting, Answered
  <2>17. ASSUME NEW r \in late, LateHeartbeat(r)
        PROVE  AloneInv'
    BY <2>17 DEF LateHeartbeat, NotFailed, Open, Waiting, Answered
  <2>18. ASSUME NEW n \in Node, Restart(n)
        PROVE  AloneInv'
    BY <2>18 DEF Restart, Others, NotFailed, Open, Waiting, Answered
  <2>19. CASE UNCHANGED vars
    BY <2>19 DEF vars, Open
  <2> QED
    BY <2>1, <2>2, <2>3, <2>4, <2>5, <2>6, <2>7, <2>8, <2>9, <2>10, <2>11, <2>12, <2>13,
       <2>14, <2>15, <2>16, <2>17, <2>18, <2>19 DEF Next, Ticker, SendMsg, LateMsg
<1> QED
  BY <1>1, <1>2, Typed, Rounds, PTL DEF Spec

\* A LEADER is a LEADER of nobody for as long as SendMsg leaves type unset.
THEOREM LeadersAlone == Spec => []LeaderAlone
<1>1. AloneInv => LeaderAlone
  BY DEF AloneInv, LeaderAlone
<1> QED
  BY <1>1, CallsFail, PTL

-----------------------------------------------------------------------------
(* The roles.                                                              *)

\* Raft implements LeaderRole as long as no tick comes during an election.
THEOREM RolesImplemented ==
  ASSUME ~Overlap
  PROVE  Spec => RoleSpec
<1>1. Init => Roles!Init
  BY DEF Init, Roles!Init
<1>2. TypeOK /\ RoundInv /\ [Next]_vars => [Roles!Next]_(Roles!vars)
  <2> SUFFICES ASSUME TypeOK, RoundInv, [Next]_vars
               PROVE  [Roles!Next]_(Roles!vars)
    OBVIOUS
  <2> USE DEF TypeOK, RoundInv, timer, ballot, rpc, history, Roles!vars
  <2>1. ASSUME NEW n \in Node, TickLeader(n)
        PROVE  [Roles!Next]_(Roles!vars)
    BY <2>1 DEF TickLeader, SendAll, Roles!vars
  <2>2. ASSUME NEW n \in Node, TickFollower(n)
        PROVE  [Roles!Next]_(Roles!vars)
    BY <2>2 DEF TickFollower, Roles!vars
  <2>3. ASSUME NEW n \in Node, StartElection(n)
        PROVE  [Roles!Next]_(Roles!vars)
    <3>1. Roles!Stand(n)
      BY <2>3 DEF StartElection, MustElect, Roles!Stand, Roles!Move
    <3> QED
      BY <3>1 DEF Roles!Next
  <2>4. ASSUME NEW n \in Node, TickCandidate(n)
        PROVE  [Roles!Next]_(Roles!vars)
    BY <2>4 DEF TickCandidate, Roles!vars
  <2>5. ASSUME NEW n \in Node, NEW m \in Node, Join(n, m)
        PROVE  [Roles!Next]_(Roles!vars)
    BY <2>5 DEF Join, Roles!vars
  <2>6. ASSUME NEW n \in Node, WinElection(n)
        PROVE  [Roles!Next]_(Roles!vars)
    <3>1. Roles!Win(n)
      BY <2>6 DEF WinElection, EndElection, Roles!Win, Roles!Move
    <3> QED
      BY <3>1 DEF Roles!Next
  <2>7. ASSUME NEW n \in Node, LoseElection(n)
        PROVE  [Roles!Next]_(Roles!vars)
    <3>1. Roles!Lose(n)
      BY <2>7 DEF LoseElection, EndElection, Roles!Lose, Roles!Move
    <3> QED
      BY <3>1 DEF Roles!Next
  <2>8. ASSUME NEW n \in Node, EndHeartbeat(n)
        PROVE  [Roles!Next]_(Roles!vars)
    BY <2>8 DEF EndHeartbeat, RoundOver, Roles!vars
  <2>9. ASSUME NEW n \in Node, NEW m \in Node, LeaderCallFailed(n, m)
        PROVE  [Roles!Next]_(Roles!vars)
    BY <2>9 DEF LeaderCallFailed, Roles!vars
  <2>10. ASSUME NEW n \in Node, NEW m \in Node, VoteRefused(n, m)
        PROVE  [Roles!Next]_(Roles!vars)
    BY <2>10 DEF VoteRefused, Reply, Roles!vars
  <2>11. ASSUME NEW n \in Node, NEW m \in Node, VoteChecked(n, m)
        PROVE  [Roles!Next]_(Roles!vars)
    BY <2>11 DEF VoteChecked, Roles!vars
  <2>12. ASSUME NEW n \in Node, NEW m \in Node, VoteGranted(n, m)
        PROVE  [Roles!Next]_(Roles!vars)
    BY <2>12 DEF VoteGranted, Return, Reply, Roles!vars
  <2>13. ASSUME NEW n \in Node, NEW m \in Node, Heartbeat(n, m)
        PROVE  [Roles!Next]_(Roles!vars)
    BY <2>13 DEF Heartbeat, Return, Reply, Roles!vars
  <2>14. ASSUME NEW n \in Node, NEW m \in Node, Timeout(n, m)
        PROVE  [Roles!Next]_(Roles!vars)
    BY <2>14 DEF Timeout, Waiting, Roles!vars
  <2>15. ASSUME NEW r \in late, LateVote(r)
        PROVE  [Roles!Next]_(Roles!vars)
    BY <2>15 DEF LateVote, Roles!vars
  <2>16. ASSUME NEW r \in late, LateGranted(r)
        PROVE  [Roles!Next]_(Roles!vars)
    BY <2>16 DEF LateGranted, Roles!vars
  <2>17. ASSUME NEW r \in late, LateHeartbeat(r)
        PROVE  [Roles!Next]_(Roles!vars)
    BY <2>17 DEF LateHeartbeat, Roles!vars
  <2>18. ASSUME NEW n \in Node, Restart(n)
        PROVE  [Roles!Next]_(Roles!vars)
    <3>1. Roles!Reborn(n)
      BY <2>18 DEF Restart, Roles!Reborn
    <3> QED
      BY <3>1 DEF Roles!Next
  <2>19. CASE UNCHANGED vars
    BY <2>19 DEF vars
  <2> QED
    BY <2>1, <2>2, <2>3, <2>4, <2>5, <2>6, <2>7, <2>8, <2>9, <2>10, <2>11, <2>12, <2>13,
       <2>14, <2>15, <2>16, <2>17, <2>18, <2>19 DEF Next, Ticker, SendMsg, LateMsg
<1> QED
  BY <1>1, <1>2, Typed, Rounds, PTL DEF Spec, RoleSpec, Roles!Spec
=============================================================================
