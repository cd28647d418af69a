-------------------------------- MODULE Raft --------------------------------
(***************************************************************************)
(* The consensus core: raft/raft.go and raft/log.go, one event loop per    *)
(* node.  run() selects one event at a time and runs its handler to the    *)
(* end, so a handler is one action.  Everything a handler starts with `go' *)
(* (one goroutine per outgoing call) is an RPC in flight: the goroutine    *)
(* may be scheduled at any time, so requests and responses of one pair of  *)
(* nodes overtake each other.  A call the transport fails (the peer's      *)
(* channel is full, a connection breaks) is one that is never handled: no  *)
(* step of Next has to happen.                                             *)
(*                                                                         *)
(* A candidate calls each peer once per term, so vote RPCs are sets; equal *)
(* AppendEntries calls can be in flight at once, so those are bags.        *)
(***************************************************************************)
EXTENDS Integers, Sequences, FiniteSets, InFlight

CONSTANTS
    Server,         \* config.Peers; ids 1..len(Peers) in the code
    Nil,            \* the id 0: no vote, no known leader
    Command,        \* commands clients propose
    MaxBatch,       \* entries per AppendEntries (100 in the code)
    ProposeCap,     \* capacity of proposeCh (64 in the code)
    MaxElections,   \* bound: elections started
    MaxLog,         \* bound: no proposal past this log length
    MaxAppendRPC,   \* bound: AppendEntries calls in flight
    MaxHeartbeatRPC \* bound: the same, for a heartbeat to be sent

ASSUME RaftAssumption ==
    /\ IsFiniteSet(Server)
    /\ Nil \notin Server
    /\ MaxBatch \in Nat \ {0}
    /\ ProposeCap \in Nat
    /\ MaxElections \in Nat
    /\ MaxLog \in Nat
    /\ MaxAppendRPC \in Nat
    /\ MaxHeartbeatRPC \in Nat

VARIABLES
    currentTerm, votedFor, log,       \* "persistent" state, kept in memory
    commitIndex, lastApplied,
    state, leaderID,
    nextIndex, matchIndex,            \* leader's view of its peers
    votesReceived,                    \* a counter, as in the code
    electionTimer, heartbeatTimer,    \* TRUE while the timer is armed
    proposeCh,                        \* commands accepted by Propose
    applied,                          \* what was sent on applyCh, in order
    voteReqs, voteResps,              \* RequestVote calls in flight
    appendReqs, appendResps,          \* AppendEntries calls in flight
    ballots, counted, elected         \* history: votes cast, votes counted
                                      \* in this candidacy, leaders so far

roleVars == <<state, leaderID, electionTimer, heartbeatTimer>>
termVars == <<currentTerm, votedFor>>
logVars == <<log, commitIndex, lastApplied, applied>>
leaderVars == <<nextIndex, matchIndex>>
voteVars == <<votesReceived, counted>>
voteNet == <<voteReqs, voteResps>>
appendNet == <<appendReqs, appendResps>>
history == <<ballots, elected>>

vars == <<roleVars, termVars, logVars, leaderVars, voteVars, proposeCh,
          voteNet, appendNet, history>>

-----------------------------------------------------------------------------
(* Types *)

State == {"Follower", "Candidate", "Leader"}
Term == Nat
LogEntry == [index : Nat, term : Term, cmd : Command]
VoteRequest ==
    [from : Server, to : Server, term : Term, lastIndex : Nat, lastTerm : Term]
\* reqTerm names the call that is answered: the goroutine that waits for it.
VoteResponse ==
    [from : Server, to : Server, reqTerm : Term, term : Term, granted : BOOLEAN]
AppendRequest ==
    [from : Server, to : Server, term : Term, prevIndex : Nat, prevTerm : Term,
     entries : Seq(LogEntry), commit : Nat]
AppendResponse ==
    [from : Server, to : Server, term : Term, success : BOOLEAN, lastIndex : Nat]

TypeOK ==
    /\ currentTerm \in [Server -> Term]
    /\ votedFor \in [Server -> Server \cup {Nil}]
    /\ log \in [Server -> Seq(LogEntry)]
    /\ commitIndex \in [Server -> Nat]
    /\ lastApplied \in [Server -> Nat]
    /\ applied \in [Server -> Seq(LogEntry)]
    /\ state \in [Server -> State]
    /\ leaderID \in [Server -> Server \cup {Nil}]
    /\ nextIndex \in [Server -> [Server -> Nat \ {0}]]
    /\ matchIndex \in [Server -> [Server -> Nat]]
    /\ votesReceived \in [Server -> Nat]
    /\ electionTimer \in [Server -> BOOLEAN]
    /\ heartbeatTimer \in [Server -> BOOLEAN]
    /\ proposeCh \in [Server -> Seq(Command)]
    /\ voteReqs \subseteq VoteRequest
    /\ voteResps \subseteq VoteResponse
    /\ IsCalls(appendReqs, AppendRequest)
    /\ IsCalls(appendResps, AppendResponse)
    /\ ballots \subseteq [term : Term, voter : Server, candidate : Server]
    /\ counted \in [Server -> SUBSET Server]
    /\ elected \subseteq [term : Term, leader : Server]

-----------------------------------------------------------------------------
(* raft/log.go.  The dummy entry at index 0 is the empty prefix. *)

Smaller(a, b) == IF a < b THEN a ELSE b
Larger(a, b) == IF a > b THEN a ELSE b

Has(l, n) == n \in 1 .. Len(l)
LastIndex(l) == IF l = <<>> THEN 0 ELSE l[Len(l)].index
LastTerm(l) == IF l = <<>> THEN 0 ELSE l[Len(l)].term
Truncate(l, from) == SubSeq(l, 1, Smaller(from - 1, Len(l)))
Slice(l, start, end) == SubSeq(l, Larger(start, 1), Smaller(end - 1, Len(l)))

-----------------------------------------------------------------------------
(* State transitions *)

Peers(i) == Server \ {i}
VotesNeeded == Cardinality(Server) \div 2 + 1

\* What becomeFollower(t) leaves of the term and the vote; the handlers call
\* it only for a newer term.
TermAfter(i, t) == Larger(t, currentTerm[i])
VoteAfter(i, t) == IF t > currentTerm[i] THEN Nil ELSE votedFor[i]

Mut_BecomeFollower(i, t) ==    \* keeps the leader's timers
    /\ currentTerm' = [currentTerm EXCEPT ![i] = TermAfter(i, t)]
    /\ votedFor' = [votedFor EXCEPT ![i] = VoteAfter(i, t)]
    /\ state' = [state EXCEPT ![i] = "Follower"]
    /\ leaderID' = [leaderID EXCEPT ![i] = Nil]
    /\ UNCHANGED <<electionTimer, heartbeatTimer>>

BecomeFollower(i, t) ==
    /\ currentTerm' = [currentTerm EXCEPT ![i] = TermAfter(i, t)]
    /\ votedFor' = [votedFor EXCEPT ![i] = VoteAfter(i, t)]
    /\ state' = [state EXCEPT ![i] = "Follower"]
    /\ leaderID' = [leaderID EXCEPT ![i] = Nil]
    /\ electionTimer' = [electionTimer EXCEPT ![i] = TRUE]
    /\ heartbeatTimer' = [heartbeatTimer EXCEPT ![i] = FALSE]

Ballot(i, t, c) == [term |-> t, voter |-> i, candidate |-> c]

BecomeCandidate(i) ==
    /\ state' = [state EXCEPT ![i] = "Candidate"]
    /\ currentTerm' = [currentTerm EXCEPT ![i] = @ + 1]
    /\ votedFor' = [votedFor EXCEPT ![i] = i]
    /\ votesReceived' = [votesReceived EXCEPT ![i] = 1]
    /\ electionTimer' = [electionTimer EXCEPT ![i] = TRUE]
    /\ counted' = [counted EXCEPT ![i] = {i}]
    /\ ballots' = ballots \cup {Ballot(i, currentTerm[i] + 1, i)}

Mut_BecomeLeader(i) ==    \* sends from the last entry, not the one after
    /\ state' = [state EXCEPT ![i] = "Leader"]
    /\ leaderID' = [leaderID EXCEPT ![i] = i]
    /\ nextIndex' = [nextIndex EXCEPT ![i] = [j \in Server |-> LastIndex(log[i])]]
    /\ matchIndex' = [matchIndex EXCEPT ![i] = [j \in Server |-> 0]]
    /\ electionTimer' = [electionTimer EXCEPT ![i] = FALSE]
    /\ heartbeatTimer' = [heartbeatTimer EXCEPT ![i] = TRUE]
    /\ elected' = elected \cup {[term |-> currentTerm[i], leader |-> i]}

BecomeLeader(i) ==
    /\ state' = [state EXCEPT ![i] = "Leader"]
    /\ leaderID' = [leaderID EXCEPT ![i] = i]
    /\ nextIndex' = [nextIndex EXCEPT ![i] =
                        [j \in Server |-> LastIndex(log[i]) + 1]]
    /\ matchIndex' = [matchIndex EXCEPT ![i] = [j \in Server |-> 0]]
    /\ electionTimer' = [electionTimer EXCEPT ![i] = FALSE]
    /\ heartbeatTimer' = [heartbeatTimer EXCEPT ![i] = TRUE]
    /\ elected' = elected \cup {[term |-> currentTerm[i], leader |-> i]}

-----------------------------------------------------------------------------
(* Election *)

\* The elections started so far: each one is a node's vote for itself.
Candidacies == {b \in ballots : b.voter = b.candidate}

BroadcastRequestVote(i) ==
    voteReqs' = voteReqs \cup
        {[from |-> i, to |-> j, term |-> currentTerm[i] + 1,
          lastIndex |-> LastIndex(log[i]), lastTerm |-> LastTerm(log[i])] :
            j \in Peers(i)}

\* run() receives from electionTimer.C.  A leader would ignore it, and has the
\* timer stopped (TimersArmed).
HandleElectionTimeout(i) ==
    /\ electionTimer[i]
    /\ state[i] # "Leader"
    /\ Cardinality(Candidacies) < MaxElections
    /\ BecomeCandidate(i)
    /\ BroadcastRequestVote(i)
    /\ UNCHANGED <<leaderID, heartbeatTimer, logVars, leaderVars, proposeCh,
                   voteResps, appendNet, elected>>

\* The candidate's log is at least as up to date as this node's.
LogOK(i, m) ==
    \/ m.lastTerm > LastTerm(log[i])
    \/ m.lastTerm = LastTerm(log[i]) /\ m.lastIndex >= LastIndex(log[i])

Mut_GrantsVote(i, m) == m.term >= currentTerm[i] /\ LogOK(i, m)

GrantsVote(i, m) ==
    /\ m.term >= currentTerm[i]
    /\ VoteAfter(i, m.term) \in {Nil, m.from}
    /\ LogOK(i, m)

HandleRequestVote(m) ==
    LET i == m.to
        newer == m.term > currentTerm[i]
        grant == GrantsVote(i, m)
    IN  /\ currentTerm' = [currentTerm EXCEPT ![i] = TermAfter(i, m.term)]
        /\ votedFor' = [votedFor EXCEPT ![i] =
                           IF grant THEN m.from ELSE VoteAfter(i, m.term)]
        /\ state' = [state EXCEPT ![i] = IF newer THEN "Follower" ELSE @]
        /\ leaderID' = [leaderID EXCEPT ![i] = IF newer THEN Nil ELSE @]
        /\ electionTimer' = [electionTimer EXCEPT ![i] = @ \/ newer \/ grant]
        /\ heartbeatTimer' = [heartbeatTimer EXCEPT ![i] = @ /\ ~newer]
        /\ voteReqs' = voteReqs \ {m}
        /\ voteResps' = voteResps \cup
             {[from |-> i, to |-> m.from, reqTerm |-> m.term,
               term |-> TermAfter(i, m.term), granted |-> grant]}
        /\ ballots' = ballots \cup
             (IF grant THEN {Ballot(i, m.term, m.from)} ELSE {})
        /\ UNCHANGED <<logVars, leaderVars, voteVars, proposeCh, appendNet,
                       elected>>

\* The response carries no voter: a granted vote only bumps the counter.
CountVote(m) ==
    LET i == m.to
    IN  /\ votesReceived' = [votesReceived EXCEPT ![i] = @ + 1]
        /\ counted' = [counted EXCEPT ![i] = @ \cup {m.from}]
        /\ IF votesReceived[i] + 1 >= VotesNeeded
             THEN BecomeLeader(i)
             ELSE UNCHANGED <<roleVars, leaderVars, elected>>
        /\ UNCHANGED termVars

HandleRequestVoteResponse(m) ==
    LET i == m.to
        current == m.term = currentTerm[i] /\ state[i] = "Candidate"
    IN  /\ voteResps' = voteResps \ {m}
        /\ \/ /\ m.term > currentTerm[i]
              /\ BecomeFollower(i, m.term)
              /\ UNCHANGED <<leaderVars, voteVars, elected>>
           \/ /\ m.term <= currentTerm[i]
              /\ ~(current /\ m.granted)
              /\ UNCHANGED <<roleVars, termVars, leaderVars, voteVars, elected>>
           \/ /\ current /\ m.granted
              /\ CountVote(m)
        /\ UNCHANGED <<logVars, proposeCh, voteReqs, appendNet, ballots>>

-----------------------------------------------------------------------------
(* Replication: the leader's side *)

\* sendAppendEntriesTo(j) when the leader's log is l.
AppendTo(i, j, next, l) ==
    [from |-> i, to |-> j, term |-> currentTerm[i],
     prevIndex |-> next - 1,
     prevTerm |-> IF Has(l, next - 1) THEN l[next - 1].term ELSE 0,
     entries |-> Slice(l, next, next + MaxBatch),
     commit |-> commitIndex[i]]

BroadcastAppendEntries(i, l) ==
    appendReqs' =
        Start(appendReqs, {AppendTo(i, j, nextIndex[i][j], l) : j \in Peers(i)})

RoomToBroadcast(bound) ==
    CallCount(appendReqs) + CallCount(appendResps)
        + Cardinality(Server) - 1 <= bound

\* run() receives from heartbeatTimer.C; the timer is armed again.
HandleHeartbeatTimeout(i) ==
    /\ heartbeatTimer[i]
    /\ state[i] = "Leader"
    /\ RoomToBroadcast(MaxHeartbeatRPC)
    /\ BroadcastAppendEntries(i, log[i])
    /\ UNCHANGED <<roleVars, termVars, logVars, leaderVars, voteVars, proposeCh,
                   voteNet, appendResps, history>>

Mut_ApplyCommitted(i, l, c) ==    \* starts at the entry applied last
    /\ commitIndex' = [commitIndex EXCEPT ![i] = c]
    /\ lastApplied' = [lastApplied EXCEPT ![i] = Larger(@, c)]
    /\ applied' = [applied EXCEPT ![i] =
          @ \o SubSeq(l, Larger(lastApplied[i], 1), Smaller(c, Len(l)))]

\* applyCommitted with log l once the commit index is c.
ApplyCommitted(i, l, c) ==
    /\ commitIndex' = [commitIndex EXCEPT ![i] = c]
    /\ lastApplied' = [lastApplied EXCEPT ![i] = Larger(@, c)]
    /\ applied' = [applied EXCEPT ![i] =
          @ \o SubSeq(l, lastApplied[i] + 1, Smaller(c, Len(l)))]

\* advanceCommitIndex: entries of older terms are passed over, and the first
\* entry of this term that lacks a majority ends the loop.
Replicated(i, match, n) ==
    1 + Cardinality({j \in Peers(i) : match[j] >= n})
        > Cardinality(Server) \div 2
Committable(i, l, match) ==
    {n \in commitIndex[i] + 1 .. Len(l) :
        /\ l[n].term = currentTerm[i]
        /\ \A k \in commitIndex[i] + 1 .. n :
              l[k].term = currentTerm[i] => Replicated(i, match, k)}
AdvancedCommit(i, l, match) ==
    LET S == Committable(i, l, match)
    IN  IF S = {} THEN commitIndex[i]
                  ELSE CHOOSE n \in S : \A k \in S : k <= n

\* Propose, on the caller's goroutine: accepted while this node is leader and
\* the channel has room.
Propose(i, cmd) ==
    /\ state[i] = "Leader"
    /\ Len(proposeCh[i]) < ProposeCap
    /\ Len(log[i]) + Len(proposeCh[i]) < MaxLog
    /\ proposeCh' = [proposeCh EXCEPT ![i] = Append(@, cmd)]
    /\ UNCHANGED <<roleVars, termVars, logVars, leaderVars, voteVars, voteNet,
                   appendNet, history>>

\* run() receives from proposeCh.
HandlePropose(i) ==
    LET entry == [index |-> LastIndex(log[i]) + 1, term |-> currentTerm[i],
                  cmd |-> Head(proposeCh[i])]
        newLog == Append(log[i], entry)
    IN  /\ proposeCh[i] # <<>>
        /\ proposeCh' = [proposeCh EXCEPT ![i] = Tail(@)]
        /\ \/ /\ state[i] # "Leader"
              /\ UNCHANGED <<logVars, appendReqs>>
           \/ /\ state[i] = "Leader"
              /\ RoomToBroadcast(MaxAppendRPC)
              /\ log' = [log EXCEPT ![i] = newLog]
              /\ BroadcastAppendEntries(i, newLog)
              /\ ApplyCommitted(i, newLog,
                                AdvancedCommit(i, newLog, matchIndex[i]))
        /\ UNCHANGED <<roleVars, termVars, leaderVars, voteVars, voteNet,
                       appendResps, history>>

\* The peer has the leader's log up to the acknowledged index.
AckAppend(i, m) ==
    LET match == IF m.lastIndex > matchIndex[i][m.from]
                   THEN [matchIndex[i] EXCEPT ![m.from] = m.lastIndex]
                   ELSE matchIndex[i]
        next == IF m.lastIndex > matchIndex[i][m.from]
                  THEN [nextIndex[i] EXCEPT ![m.from] = m.lastIndex + 1]
                  ELSE nextIndex[i]
    IN  /\ matchIndex' = [matchIndex EXCEPT ![i] = match]
        /\ nextIndex' = [nextIndex EXCEPT ![i] = next]
        /\ ApplyCommitted(i, log[i], AdvancedCommit(i, log[i], match))
        /\ UNCHANGED <<log, appendReqs>>

\* The peer refused: back up one entry and call it again.
BackUp(i, m) ==
    LET next == Larger(nextIndex[i][m.from] - 1, 1)
    IN  /\ nextIndex' = [nextIndex EXCEPT ![i][m.from] = next]
        /\ appendReqs' = Start(appendReqs, {AppendTo(i, m.from, next, log[i])})
        /\ UNCHANGED <<matchIndex, logVars>>

HandleAppendEntriesResponse(m) ==
    LET i == m.to
        current == m.term = currentTerm[i] /\ state[i] = "Leader"
    IN  /\ appendResps' = Finish(appendResps, m)
        /\ \/ /\ m.term > currentTerm[i]
              /\ BecomeFollower(i, m.term)
              /\ UNCHANGED <<logVars, leaderVars, appendReqs>>
           \/ /\ m.term <= currentTerm[i]
              /\ ~current
              /\ UNCHANGED <<roleVars, termVars, logVars, leaderVars, appendReqs>>
           \/ /\ current /\ m.success
              /\ AckAppend(i, m)
              /\ UNCHANGED <<roleVars, termVars>>
           \/ /\ current /\ ~m.success
              /\ BackUp(i, m)
              /\ UNCHANGED <<roleVars, termVars>>
        /\ UNCHANGED <<voteVars, proposeCh, voteNet, history>>

-----------------------------------------------------------------------------
(* Replication: the follower's side *)

ReplyToAppend(m, term, success, lastIndex) ==
    /\ appendReqs' = Finish(appendReqs, m)
    /\ appendResps' = Start(appendResps,
          {[from |-> m.to, to |-> m.from, term |-> term, success |-> success,
            lastIndex |-> lastIndex]})

RefuseStaleAppend(m) ==
    /\ m.term < currentTerm[m.to]
    /\ ReplyToAppend(m, currentTerm[m.to], FALSE, 0)
    /\ UNCHANGED <<roleVars, termVars, logVars>>

\* A request of this or a newer term makes its sender the leader.
FollowSender(m) ==
    LET i == m.to
    IN  /\ m.term >= currentTerm[i]
        /\ currentTerm' = [currentTerm EXCEPT ![i] = TermAfter(i, m.term)]
        /\ votedFor' = [votedFor EXCEPT ![i] = VoteAfter(i, m.term)]
        /\ state' = [state EXCEPT ![i] = "Follower"]
        /\ leaderID' = [leaderID EXCEPT ![i] = m.from]
        /\ electionTimer' = [electionTimer EXCEPT ![i] = TRUE]
        /\ heartbeatTimer' = [heartbeatTimer EXCEPT ![i] =
                                 @ /\ m.term <= currentTerm[i]]

PrevMatches(l, m) ==
    m.prevIndex > 0 =>
        Has(l, m.prevIndex) /\ l[m.prevIndex].term = m.prevTerm

RefuseGap(m) ==
    /\ ~PrevMatches(log[m.to], m)
    /\ FollowSender(m)
    /\ ReplyToAppend(m, m.term, FALSE, 0)
    /\ UNCHANGED logVars

Mut_Overwrite(l, m) ==    \* keeps the entries it has instead of comparing
    l \o Slice(m.entries, Len(l) - m.prevIndex + 1, Len(m.entries) + 1)

\* The log after a non-empty request: cut after prevIndex, whether or not the
\* entries there conflict with the request's.
Overwrite(l, m) ==
    IF m.entries = <<>> THEN l ELSE Truncate(l, m.prevIndex + 1) \o m.entries

AcceptAppend(m) ==
    LET i == m.to
        newLog == Overwrite(log[i], m)
    IN  /\ PrevMatches(log[i], m)
        /\ FollowSender(m)
        /\ log' = [log EXCEPT ![i] = newLog]
        /\ IF m.commit > commitIndex[i]
             THEN ApplyCommitted(i, newLog, Smaller(m.commit, LastIndex(newLog)))
             ELSE UNCHANGED <<commitIndex, lastApplied, applied>>
        /\ ReplyToAppend(m, m.term, TRUE, m.prevIndex + Len(m.entries))

HandleAppendEntries(m) ==
    /\ RefuseStaleAppend(m) \/ RefuseGap(m) \/ AcceptAppend(m)
    /\ UNCHANGED <<leaderVars, voteVars, proposeCh, voteNet, history>>

-----------------------------------------------------------------------------

Init ==
    /\ currentTerm = [i \in Server |-> 0]
    /\ votedFor = [i \in Server |-> Nil]
    /\ log = [i \in Server |-> <<>>]
    /\ commitIndex = [i \in Server |-> 0]
    /\ lastApplied = [i \in Server |-> 0]
    /\ applied = [i \in Server |-> <<>>]
    /\ state = [i \in Server |-> "Follower"]
    /\ leaderID = [i \in Server |-> Nil]
    /\ nextIndex = [i \in Server |-> [j \in Server |-> 1]]
    /\ matchIndex = [i \in Server |-> [j \in Server |-> 0]]
    /\ votesReceived = [i \in Server |-> 0]
    /\ electionTimer = [i \in Server |-> TRUE]
    /\ heartbeatTimer = [i \in Server |-> FALSE]
    /\ proposeCh = [i \in Server |-> <<>>]
    /\ voteReqs = {} /\ voteResps = {}
    /\ appendReqs = NoCalls /\ appendResps = NoCalls
    /\ ballots = {} /\ elected = {}
    /\ counted = [i \in Server |-> {}]

Next ==
    \/ \E i \in Server :
          \/ HandleElectionTimeout(i)
          \/ HandleHeartbeatTimeout(i)
          \/ HandlePropose(i)
          \/ \E cmd \in Command : Propose(i, cmd)
    \/ \E m \in voteReqs : HandleRequestVote(m)
    \/ \E m \in voteResps : HandleRequestVoteResponse(m)
    \/ \E m \in DOMAIN appendReqs : HandleAppendEntries(m)
    \/ \E m \in DOMAIN appendResps : HandleAppendEntriesResponse(m)

Spec == Init /\ [][Next]_vars

-----------------------------------------------------------------------------
(* Properties *)

\* At most one node is ever elected in a term, although votes are a bare
\* counter and their answers may be late, lost or overtaken (becomeLeader).
ElectionSafety ==
    \A e, f \in elected : e.term = f.term => e.leader = f.leader

\* A vote in a term is cast once; a node remembers the one it cast in its
\* current term (handleRequestVote, becomeCandidate).
BallotsCastOnce ==
    /\ \A b, c \in ballots :
          b.term = c.term /\ b.voter = c.voter => b.candidate = c.candidate
    /\ \A b \in ballots :
          /\ b.term <= currentTerm[b.voter]
          /\ b.term = currentTerm[b.voter] => votedFor[b.voter] = b.candidate

\* A peer is called once per candidacy: a call is a request in flight, or a
\* response in flight, or over; and a granting response stands for a ballot.
OneCallPerVote ==
    /\ \A q \in voteReqs : q.term <= currentTerm[q.from]
    /\ \A r \in voteResps :
          /\ r.reqTerm <= currentTerm[r.to]
          /\ r.granted =>
                r.term = r.reqTerm /\ Ballot(r.from, r.reqTerm, r.to) \in ballots
    /\ \A q, p \in voteReqs :
          q.from = p.from /\ q.to = p.to /\ q.term = p.term => q = p
    /\ \A r, s \in voteResps :
          r.from = s.from /\ r.to = s.to /\ r.reqTerm = s.reqTerm => r = s
    /\ \A q \in voteReqs, r \in voteResps :
          ~(q.from = r.to /\ q.to = r.from /\ q.term = r.reqTerm)

\* The bare counter votesReceived is the number of different nodes that voted
\* for this candidate in this term, and none of them can be counted again.
CounterCountsVoters ==
    \A i \in Server : state[i] = "Candidate" =>
        /\ votesReceived[i] = Cardinality(counted[i])
        /\ \A j \in counted[i] : Ballot(j, currentTerm[i], i) \in ballots
        /\ \A q \in voteReqs :
              q.from = i /\ q.term = currentTerm[i] => q.to \notin counted[i]
        /\ \A r \in voteResps :
              r.to = i /\ r.reqTerm = currentTerm[i] => r.from \notin counted[i]

\* Every node that became leader had the ballots of a majority in its term
\* (handleRequestVoteResponse compares the counter with votesNeeded).
ElectedByMajority ==
    \A e \in elected : \E Q \in SUBSET Server :
        /\ 2 * Cardinality(Q) > Cardinality(Server)
        /\ \A j \in Q : Ballot(j, e.term, e.leader) \in ballots

\* Why ElectionSafety holds: the four facts above are inductive together.
ElectionInv ==
    /\ BallotsCastOnce
    /\ OneCallPerVote
    /\ CounterCountsVoters
    /\ ElectedByMajority

\* Two logs that hold an entry of the same term at an index agree on
\* everything up to it, however AppendEntries calls are reordered and
\* whatever they cut off (handleAppendEntries).
LogMatching ==
    \A i, j \in Server : \A n \in DOMAIN log[i] \cap DOMAIN log[j] :
        log[i][n].term = log[j][n].term =>
            SubSeq(log[i], 1, n) = SubSeq(log[j], 1, n)

\* applyCommitted hands each index to the application exactly once and in
\* order, even on a node whose log is later cut below its commit index.
AppliedOnceInOrder ==
    \A i \in Server :
        /\ Len(applied[i]) = lastApplied[i]
        /\ \A n \in DOMAIN applied[i] : applied[i][n].index = n

\* Every node keeps the timer its role needs: a leader beats and does not
\* campaign, any other node will campaign and does not beat.
TimersArmed ==
    \A i \in Server :
        /\ heartbeatTimer[i] <=> state[i] = "Leader"
        /\ electionTimer[i] <=> state[i] # "Leader"

\* Who leads: a leader was elected in its term and a node that has been is no
\* candidate in it again (becomeLeader); AppendEntries calls come from leaders
\* and go to others (broadcastAppendEntries); a node that campaigns or leads
\* voted for itself (becomeCandidate), and never calls itself.
LeadershipInv ==
    /\ \A i \in Server : state[i] = "Leader" =>
          [term |-> currentTerm[i], leader |-> i] \in elected
    /\ \A e \in elected :
          /\ e.term <= currentTerm[e.leader]
          /\ e.term = currentTerm[e.leader] => state[e.leader] # "Candidate"
    /\ \A m \in DOMAIN appendReqs :
          m.from # m.to /\ [term |-> m.term, leader |-> m.from] \in elected
    /\ \A i \in Server : state[i] # "Follower" => votedFor[i] = i
    /\ \A q \in voteReqs : q.from # q.to

\* An entry with the term of the entry before it, that is, what the consistency
\* check of handleAppendEntries compares; and all that logs and calls hold.
Link(l, n, prev) == [entry |-> l[n], prev |-> IF n = 1 THEN prev ELSE l[n - 1].term]
LinksOf(l, prev) == {Link(l, n, prev) : n \in DOMAIN l}
Links ==
    UNION ({LinksOf(log[i], 0) : i \in Server}
               \cup {LinksOf(m.entries, m.prevTerm) : m \in DOMAIN appendReqs})

\* An entry's index is its place, in logs and in calls (Append of raft/log.go).
IndexIsPlace ==
    /\ \A i \in Server : \A n \in DOMAIN log[i] : log[i][n].index = n
    /\ \A m \in DOMAIN appendReqs :
          /\ \A n \in DOMAIN m.entries : m.entries[n].index = m.prevIndex + n
          /\ m.prevIndex = 0 => m.prevTerm = 0

\* Why LogMatching holds: an index and a term name one entry and one term
\* before it, wherever they occur; each term has a leader that was elected in
\* it, and while that node leads its log reaches over all entries of the term.
LogInv ==
    /\ IndexIsPlace
    /\ \A a, b \in Links :
          a.entry.index = b.entry.index /\ a.entry.term = b.entry.term => a = b
    /\ \A a \in Links : \E e \in elected : e.term = a.entry.term
    /\ \A i \in Server : state[i] = "Leader" =>
          \A a \in Links :
             a.entry.term = currentTerm[i] => a.entry.index <= Len(log[i])

\* Why AppliedOnceInOrder holds although handleAppendEntries may move a commit
\* index back: what was committed once has been applied.
AppliedInv == AppliedOnceInOrder /\ \A i \in Server : commitIndex[i] <= lastApplied[i]

\* All nodes apply the same command at the same index.
StateMachineSafety ==
    \A i, j \in Server : \A n \in DOMAIN applied[i] \cap DOMAIN applied[j] :
        applied[i][n].cmd = applied[j][n].cmd
=============================================================================
