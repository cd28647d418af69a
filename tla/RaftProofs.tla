----------------------------- MODULE RaftProofs -----------------------------
(***************************************************************************)
(* What the Raft node keeps for every number of servers and every bound:   *)
(* the types, one leader in a term, the timers of each role, logs that     *)
(* match, and entries applied once and in order.                           *)
(***************************************************************************)
EXTENDS Raft, TLAPS

(***************************************************************************)
(* What the proofs use of finite sets.  Lemmas assume these facts, which   *)
(* the end of the module proves for the theorems.                          *)
(***************************************************************************)

(* Votes are counted one by one, and two majorities share a node. *)
Counting ==
    /\ Cardinality(Server) \in Nat
    /\ \A i \in Server : Cardinality({i}) = 1
    /\ \A S \in SUBSET Server : \A i \in Server \ S :
           Cardinality(S \cup {i}) = Cardinality(S) + 1
    /\ \A P, Q \in SUBSET Server :
           /\ Cardinality(P) \in Nat
           /\ Cardinality(P) + Cardinality(Q) > Cardinality(Server) => P \cap Q # {}

(* A set of log indices has a greatest element. *)
HighestExists ==
    \A b \in Nat : \A S \in SUBSET (0 .. b) : S # {} => \E n \in S : \A k \in S : k <= n

-----------------------------------------------------------------------------
(* Elections *)

(* Every step keeps the election invariant. *)
LEMMA NextElectionInv ==
    Counting /\ TypeOK /\ TypeOK' /\ ElectionInv /\ [Next]_vars => ElectionInv'
  (* Votes are bound to currentTerm, votedFor, the role and the vote calls: a  *)
  (* step that leaves ballots, calls, counters and elected alone, moves no     *)
  (* term back, keeps the votes of an unchanged term and starts no candidacy   *)
  (* preserves the election invariant.                                         *)
<1>OtherStepsKeepElectionInv.
      ASSUME TypeOK, TypeOK', ElectionInv,
             UNCHANGED <<ballots, elected, voteReqs, votesReceived, counted>>,
             voteResps' \subseteq voteResps,
             \A i \in Server :
                /\ currentTerm'[i] >= currentTerm[i]
                /\ currentTerm'[i] = currentTerm[i] => votedFor'[i] = votedFor[i]
                /\ state'[i] = "Candidate" =>
                      state[i] = "Candidate" /\ currentTerm'[i] = currentTerm[i]
      PROVE  ElectionInv'
  <2> USE <1>OtherStepsKeepElectionInv
  <2>1. \A i \in Server : currentTerm[i] \in Nat /\ currentTerm'[i] \in Nat
    BY Zenon DEF TypeOK, Term
  <2>2. \A b \in ballots : b.voter \in Server /\ b.term \in Nat
    BY Zenon DEF TypeOK, Term
  <2>3. /\ \A q \in voteReqs : q.from \in Server /\ q.term \in Nat
        /\ \A r \in voteResps : r.to \in Server /\ r.reqTerm \in Nat
    BY Zenon DEF TypeOK, VoteRequest, VoteResponse, Term
  <2>4. BallotsCastOnce'
    <3>1. ASSUME NEW b \in ballots
          PROVE  /\ b.term <= currentTerm'[b.voter]
                 /\ b.term = currentTerm'[b.voter] => votedFor'[b.voter] = b.candidate
      <4>1. /\ b.term <= currentTerm[b.voter]
            /\ b.term = currentTerm[b.voter] => votedFor[b.voter] = b.candidate
        BY Zenon DEF ElectionInv, BallotsCastOnce
      <4> QED BY <2>1, <2>2, <4>1
    <3> QED BY <3>1 DEF ElectionInv, BallotsCastOnce
  <2>5. OneCallPerVote'
    <3>1. \A q \in voteReqs' : q.term <= currentTerm'[q.from]
      BY <2>1, <2>3 DEF ElectionInv, OneCallPerVote
    <3>2. \A r \in voteResps' : r.reqTerm <= currentTerm'[r.to]
      BY <2>1, <2>3 DEF ElectionInv, OneCallPerVote
    <3> QED BY <3>1, <3>2 DEF ElectionInv, OneCallPerVote, Ballot
  <2>6. CounterCountsVoters'
    BY Zenon DEF ElectionInv, CounterCountsVoters, Ballot
  <2>7. ElectedByMajority'
    BY Zenon DEF ElectionInv, ElectedByMajority, Ballot
  <2> QED BY <2>4, <2>5, <2>6, <2>7, Zenon DEF ElectionInv
  (* Terms and votes after becomeFollower, and after the same assignments in   *)
  (* handleAppendEntries.                                                      *)
<1>SteppingDownMovesOn.
      ASSUME TypeOK, NEW k \in Server, NEW t \in Nat,
             currentTerm' = [currentTerm EXCEPT ![k] = TermAfter(k, t)],
             votedFor' = [votedFor EXCEPT ![k] = VoteAfter(k, t)],
             state' = [state EXCEPT ![k] = "Follower"]
      PROVE  \A i \in Server :
                /\ currentTerm'[i] >= currentTerm[i]
                /\ currentTerm'[i] = currentTerm[i] => votedFor'[i] = votedFor[i]
                /\ state'[i] = "Candidate" =>
                      state[i] = "Candidate" /\ currentTerm'[i] = currentTerm[i]
  <2> USE <1>SteppingDownMovesOn
  <2>1. /\ currentTerm \in [Server -> Nat] /\ state \in [Server -> State]
        /\ votedFor \in [Server -> Server \cup {Nil}]
    BY Zenon DEF TypeOK, Term
  <2> TAKE i \in Server
  <2>2. CASE i = k
    <3>1. /\ currentTerm'[i] = TermAfter(k, t) /\ votedFor'[i] = VoteAfter(k, t)
          /\ state'[i] = "Follower"
      BY <2>1, <2>2, Zenon
    <3> QED BY <2>1, <2>2, <3>1 DEF TermAfter, VoteAfter, Larger
  <2>3. CASE i # k
    BY <2>1, <2>3
  <2> QED BY <2>2, <2>3
  (* becomeFollower for a newer term moves no term back and starts no candidacy. *)
<1>BecomeFollowerMovesOn.
      ASSUME TypeOK, NEW k \in Server, NEW t \in Nat, BecomeFollower(k, t)
      PROVE  \A i \in Server :
                /\ currentTerm'[i] >= currentTerm[i]
                /\ currentTerm'[i] = currentTerm[i] => votedFor'[i] = votedFor[i]
                /\ state'[i] = "Candidate" =>
                      state[i] = "Candidate" /\ currentTerm'[i] = currentTerm[i]
  BY <1>BecomeFollowerMovesOn, <1>SteppingDownMovesOn, Zenon DEF BecomeFollower
  (* becomeCandidate: the new term has no calls and no ballots of this node    *)
  (* yet, so the counter starts at the node's own vote.                        *)
<1>ElectionTimeoutKeepsElectionInv.
      ASSUME Counting, TypeOK, TypeOK', ElectionInv,
             NEW i \in Server, HandleElectionTimeout(i)
      PROVE  ElectionInv'
  <2> USE <1>ElectionTimeoutKeepsElectionInv
  <2> DEFINE t == currentTerm[i] + 1
             own == Ballot(i, t, i)
             calls == {[from |-> i, to |-> j, term |-> t,
                        lastIndex |-> LastIndex(log[i]),
                        lastTerm |-> LastTerm(log[i])] : j \in Peers(i)}
  <2>1. /\ currentTerm' = [currentTerm EXCEPT ![i] = t]
        /\ votedFor' = [votedFor EXCEPT ![i] = i]
        /\ state' = [state EXCEPT ![i] = "Candidate"]
        /\ votesReceived' = [votesReceived EXCEPT ![i] = 1]
        /\ counted' = [counted EXCEPT ![i] = {i}]
        /\ ballots' = ballots \cup {own}
        /\ voteReqs' = voteReqs \cup calls
        /\ UNCHANGED <<voteResps, elected>>
    BY Zenon DEF HandleElectionTimeout, BecomeCandidate, BroadcastRequestVote
  <2>2. \A j \in Server : currentTerm[j] \in Nat
    BY Zenon DEF TypeOK, Term
  <2>3. \A b \in ballots : b.voter \in Server /\ b.term \in Nat
    BY Zenon DEF TypeOK, Term
  <2>4. /\ \A q \in voteReqs : q.from \in Server /\ q.term \in Nat
        /\ \A r \in voteResps : r.to \in Server /\ r.reqTerm \in Nat
    BY Zenon DEF TypeOK, VoteRequest, VoteResponse, Term
  <2>5. own.term = t /\ own.voter = i /\ own.candidate = i
    BY Zenon DEF Ballot
  <2>6. \A q \in calls : q.from = i /\ q.term = t /\ q.to # i
    BY DEF Peers
  <2>7. \A q, p \in calls : q.to = p.to => q = p
    OBVIOUS
  <2>8. /\ currentTerm'[i] = t /\ t > currentTerm[i] /\ t \in Nat
        /\ \A j \in Server \ {i} : currentTerm'[j] = currentTerm[j]
    <3>1. currentTerm \in [Server -> Nat]
      BY Zenon DEF TypeOK, Term
    <3> QED BY <2>1, <3>1
  <2>9. /\ votedFor'[i] = i
        /\ \A j \in Server \ {i} : votedFor'[j] = votedFor[j]
    <3>1. votedFor \in [Server -> Server \cup {Nil}]
      BY Zenon DEF TypeOK
    <3> QED BY <2>1, <3>1
  <2> HIDE DEF own, calls, t
  <2>10. BallotsCastOnce'
    <3>1. \A b \in ballots : b.voter = i => b.term < t
      BY <2>2, <2>3, <2>8 DEF ElectionInv, BallotsCastOnce
    <3>2. \A b, c \in ballots' :
             b.term = c.term /\ b.voter = c.voter => b.candidate = c.candidate
      BY <2>1, <2>3, <2>5, <2>8, <3>1 DEF ElectionInv, BallotsCastOnce
    <3>3. \A b \in ballots' :
             /\ b.term <= currentTerm'[b.voter]
             /\ b.term = currentTerm'[b.voter] => votedFor'[b.voter] = b.candidate
      BY <2>1, <2>3, <2>5, <2>8, <2>9, <3>1 DEF ElectionInv, BallotsCastOnce
    <3> QED BY <3>2, <3>3 DEF BallotsCastOnce
  <2>11. /\ \A q \in voteReqs : q.from = i => q.term < t
         /\ \A r \in voteResps : r.to = i => r.reqTerm < t
    BY <2>2, <2>4, <2>8 DEF ElectionInv, OneCallPerVote
  <2>12. OneCallPerVote'
    <3>1. \A q \in voteReqs' : q.term <= currentTerm'[q.from]
      BY <2>1, <2>2, <2>4, <2>6, <2>8, <2>11 DEF ElectionInv, OneCallPerVote
    <3>2. \A r \in voteResps' :
             /\ r.reqTerm <= currentTerm'[r.to]
             /\ r.granted =>
                  r.term = r.reqTerm /\ Ballot(r.from, r.reqTerm, r.to) \in ballots'
      BY <2>1, <2>2, <2>4, <2>8, <2>11 DEF ElectionInv, OneCallPerVote
    <3>3. \A q, p \in voteReqs' :
             q.from = p.from /\ q.to = p.to /\ q.term = p.term => q = p
      BY <2>1, <2>4, <2>6, <2>7, <2>8, <2>11 DEF ElectionInv, OneCallPerVote
    <3>4. \A r, s \in voteResps' :
             r.from = s.from /\ r.to = s.to /\ r.reqTerm = s.reqTerm => r = s
      BY <2>1, Zenon DEF ElectionInv, OneCallPerVote
    <3>5. \A q \in voteReqs', r \in voteResps' :
             ~(q.from = r.to /\ q.to = r.from /\ q.term = r.reqTerm)
      BY <2>1, <2>4, <2>6, <2>8, <2>11 DEF ElectionInv, OneCallPerVote
    <3> QED BY <3>1, <3>2, <3>3, <3>4, <3>5 DEF OneCallPerVote, Ballot
  <2>13. CounterCountsVoters'
    <3> SUFFICES ASSUME NEW k \in Server, state'[k] = "Candidate"
                 PROVE  /\ votesReceived'[k] = Cardinality(counted'[k])
                        /\ \A j \in counted'[k] :
                              Ballot(j, currentTerm'[k], k) \in ballots'
                        /\ \A q \in voteReqs' :
                              q.from = k /\ q.term = currentTerm'[k]
                                 => q.to \notin counted'[k]
                        /\ \A r \in voteResps' :
                              r.to = k /\ r.reqTerm = currentTerm'[k]
                                 => r.from \notin counted'[k]
      BY Zenon DEF CounterCountsVoters, Ballot
    <3>1. CASE k = i
      <4>1. votesReceived'[i] = 1 /\ counted'[i] = {i}
        <5>1. votesReceived \in [Server -> Nat] /\ counted \in [Server -> SUBSET Server]
          BY Zenon DEF TypeOK
        <5> QED BY <2>1, <5>1
      <4>2. Cardinality({i}) = 1
        BY Zenon DEF Counting
      <4>3. Ballot(i, t, i) \in ballots'
        BY <2>1, Zenon DEF own
      <4>4. \A q \in voteReqs' : q.from = i /\ q.term = t => q.to # i
        BY <2>1, <2>4, <2>6, <2>8, <2>11
      <4>5. \A r \in voteResps' : ~(r.to = i /\ r.reqTerm = t)
        BY <2>1, <2>4, <2>8, <2>11
      <4> QED BY <2>8, <3>1, <4>1, <4>2, <4>3, <4>4, <4>5
    <3>2. CASE k # i
      <4>1. /\ state[k] = "Candidate" /\ currentTerm'[k] = currentTerm[k]
            /\ votesReceived'[k] = votesReceived[k] /\ counted'[k] = counted[k]
        BY <2>1, <2>8, <3>2, ZenonT(40) DEF TypeOK
      <4> QED BY <2>1, <2>6, <3>2, <4>1 DEF ElectionInv, CounterCountsVoters
    <3> QED BY <3>1, <3>2, Zenon
  <2>14. ElectedByMajority'
    BY <2>1, Zenon DEF ElectionInv, ElectedByMajority, Ballot
  <2> QED BY <2>10, <2>12, <2>13, <2>14 DEF ElectionInv
  (* handleRequestVote: a call turns into its response, and a vote is granted  *)
  (* only to the candidate the voter already chose in that term, if any.       *)
<1>RequestVoteKeepsElectionInv.
      ASSUME TypeOK, TypeOK', ElectionInv,
             NEW m \in voteReqs, HandleRequestVote(m)
      PROVE  ElectionInv'
  <2> USE <1>RequestVoteKeepsElectionInv
  <2> DEFINE i == m.to
             t == m.term
             grant == GrantsVote(i, m)
             cast == Ballot(i, t, m.from)
             resp == [from |-> i, to |-> m.from, reqTerm |-> t,
                      term |-> TermAfter(i, t), granted |-> grant]
  <2>1. /\ currentTerm' = [currentTerm EXCEPT ![i] = TermAfter(i, t)]
        /\ votedFor' = [votedFor EXCEPT ![i] =
                           IF grant THEN m.from ELSE VoteAfter(i, t)]
        /\ state' = [state EXCEPT ![i] = IF t > currentTerm[i] THEN "Follower" ELSE @]
        /\ voteReqs' = voteReqs \ {m}
        /\ voteResps' = voteResps \cup {resp}
        /\ ballots' = ballots \cup (IF grant THEN {cast} ELSE {})
        /\ UNCHANGED <<votesReceived, counted, elected>>
    BY Zenon DEF HandleRequestVote, voteVars
  <2>2. i \in Server /\ m.from \in Server /\ t \in Nat
    BY Zenon DEF TypeOK, VoteRequest, Term
  <2>3. \A j \in Server : currentTerm[j] \in Nat
    BY Zenon DEF TypeOK, Term
  <2>4. \A b \in ballots :
           b.voter \in Server /\ b.term \in Nat /\ b.candidate \in Server
    BY Zenon DEF TypeOK, Term
  <2>5. /\ \A q \in voteReqs : q.from \in Server /\ q.term \in Nat
        /\ \A r \in voteResps : r.to \in Server /\ r.reqTerm \in Nat
    BY Zenon DEF TypeOK, VoteRequest, VoteResponse, Term
  <2>6. cast.term = t /\ cast.voter = i /\ cast.candidate = m.from
    BY Zenon DEF Ballot
  <2>7. /\ resp.from = i /\ resp.to = m.from /\ resp.reqTerm = t
        /\ resp.granted = grant /\ resp.term = TermAfter(i, t)
    BY Zenon
  <2>8. grant => t >= currentTerm[i] /\ VoteAfter(i, t) \in {Nil, m.from}
    BY Zenon DEF GrantsVote
  <2>9. t <= currentTerm[m.from]
    BY Zenon DEF ElectionInv, OneCallPerVote
  <2> HIDE DEF i, t, grant, cast, resp
  <2>10. /\ currentTerm'[i] >= currentTerm[i] /\ currentTerm'[i] >= t
         /\ t <= currentTerm[i] => currentTerm'[i] = currentTerm[i]
         /\ t > currentTerm[i] => currentTerm'[i] = t
         /\ TermAfter(i, t) = currentTerm'[i] /\ currentTerm'[i] \in Nat
         /\ \A j \in Server \ {i} : currentTerm'[j] = currentTerm[j]
    <3>1. currentTerm'[i] = TermAfter(i, t)
      BY <2>1, <2>2, Zenon DEF TypeOK
    <3>2. currentTerm[i] \in Nat
      BY <2>2, <2>3, Zenon
    <3>3. \A j \in Server \ {i} : currentTerm'[j] = currentTerm[j]
      BY <2>1, Zenon DEF TypeOK
    <3> QED BY <2>2, <3>1, <3>2, <3>3 DEF TermAfter, Larger
  <2>11. /\ grant => votedFor'[i] = m.from
         /\ ~grant /\ t <= currentTerm[i] => votedFor'[i] = votedFor[i]
         /\ \A j \in Server \ {i} : votedFor'[j] = votedFor[j]
    <3>1. votedFor \in [Server -> Server \cup {Nil}]
      BY Zenon DEF TypeOK
    <3>2. t <= currentTerm[i] => VoteAfter(i, t) = votedFor[i]
      BY <2>2, <2>3 DEF VoteAfter
    <3> QED BY <2>1, <2>2, <3>1, <3>2
  <2>12. \A b \in ballots : grant /\ b.voter = i /\ b.term = t => b.candidate = m.from
    <3> SUFFICES ASSUME NEW b \in ballots, grant, b.voter = i, b.term = t
                 PROVE  b.candidate = m.from
      BY Zenon
    <3>1. b.term <= currentTerm[i]
      BY Zenon DEF ElectionInv, BallotsCastOnce
    <3>2. t = currentTerm[i]
      BY <2>2, <2>3, <2>8, <3>1
    <3>3. votedFor[i] = b.candidate
      BY <3>2, Zenon DEF ElectionInv, BallotsCastOnce
    <3>4. votedFor[i] \in {Nil, m.from}
      BY <2>2, <2>3, <2>8, <3>2 DEF VoteAfter
    <3> QED BY <2>4, <3>3, <3>4, RaftAssumption
  <2>13. BallotsCastOnce'
    <3>1. \A b, c \in ballots' :
             b.term = c.term /\ b.voter = c.voter => b.candidate = c.candidate
      BY <2>1, <2>6, <2>12 DEF ElectionInv, BallotsCastOnce
    <3>2. \A b \in ballots : b.term <= currentTerm'[b.voter]
      BY <2>2, <2>3, <2>4, <2>10 DEF ElectionInv, BallotsCastOnce
    <3>3. \A b \in ballots :
             b.term = currentTerm'[b.voter] => votedFor'[b.voter] = b.candidate
      <4> SUFFICES ASSUME NEW b \in ballots, b.term = currentTerm'[b.voter]
                   PROVE  votedFor'[b.voter] = b.candidate
        BY Zenon
      <4>1. CASE b.voter # i
        BY <2>4, <2>10, <2>11, <4>1, Zenon DEF ElectionInv, BallotsCastOnce
      <4>2. CASE b.voter = i
        <5>1. b.term <= currentTerm[i]
          BY <4>2, Zenon DEF ElectionInv, BallotsCastOnce
        <5>2. b.term = currentTerm[i] /\ t <= currentTerm[i]
          BY <2>2, <2>3, <2>4, <2>10, <4>2, <5>1
        <5>3. votedFor[i] = b.candidate
          BY <4>2, <5>2, Zenon DEF ElectionInv, BallotsCastOnce
        <5>4. grant => t = b.term
          BY <2>2, <2>3, <2>8, <5>2
        <5> QED BY <2>11, <2>12, <4>2, <5>2, <5>3, <5>4
      <4> QED BY <4>1, <4>2
    <3>4. grant => t = currentTerm'[i]
      BY <2>2, <2>3, <2>8, <2>10
    <3>5. \A b \in ballots' :
             /\ b.term <= currentTerm'[b.voter]
             /\ b.term = currentTerm'[b.voter] => votedFor'[b.voter] = b.candidate
      BY <2>1, <2>2, <2>6, <2>10, <2>11, <3>2, <3>3, <3>4, Zenon
    <3> QED BY <3>1, <3>5 DEF BallotsCastOnce
  <2>14. /\ \A q \in voteReqs' : ~(q.from = m.from /\ q.to = i /\ q.term = t)
         /\ \A r \in voteResps : ~(r.to = m.from /\ r.from = i /\ r.reqTerm = t)
    <3>1. m.to = i /\ m.term = t
      BY Zenon DEF i, t
    <3> QED BY <2>1, <3>1, Zenon DEF ElectionInv, OneCallPerVote
  <2>15. OneCallPerVote'
    <3>1. \A q \in voteReqs' : q.term <= currentTerm'[q.from]
      BY <2>1, <2>2, <2>3, <2>5, <2>10 DEF ElectionInv, OneCallPerVote
    <3>2. \A r \in voteResps : r.reqTerm <= currentTerm'[r.to]
      BY <2>2, <2>3, <2>5, <2>10 DEF ElectionInv, OneCallPerVote
    <3>3. t <= currentTerm'[m.from]
      BY <2>2, <2>3, <2>9, <2>10, Zenon
    <3>4. \A r \in voteResps : r.granted =>
             r.term = r.reqTerm /\ Ballot(r.from, r.reqTerm, r.to) \in ballots'
      BY <2>1, Zenon DEF ElectionInv, OneCallPerVote
    <3>5. grant => /\ TermAfter(i, t) = t
                   /\ Ballot(i, t, m.from) \in ballots'
      <4>1. grant => TermAfter(i, t) = t
        BY <2>2, <2>3, <2>8, <2>10
      <4> QED BY <2>1, <4>1 DEF cast
    <3>6. \A r \in voteResps' :
             /\ r.reqTerm <= currentTerm'[r.to]
             /\ r.granted =>
                  r.term = r.reqTerm /\ Ballot(r.from, r.reqTerm, r.to) \in ballots'
      <4>1. /\ resp.reqTerm <= currentTerm'[resp.to]
            /\ resp.granted =>
                  /\ resp.term = resp.reqTerm
                  /\ Ballot(resp.from, resp.reqTerm, resp.to) \in ballots'
        BY <2>7, <3>3, <3>5, Zenon
      <4> QED BY <2>1, <3>2, <3>4, <4>1
    <3>7. \A q, p \in voteReqs' :
             q.from = p.from /\ q.to = p.to /\ q.term = p.term => q = p
      BY <2>1, Zenon DEF ElectionInv, OneCallPerVote
    <3>8. \A r, s \in voteResps' :
             r.from = s.from /\ r.to = s.to /\ r.reqTerm = s.reqTerm => r = s
      <4>1. \A r, s \in voteResps :
               r.from = s.from /\ r.to = s.to /\ r.reqTerm = s.reqTerm => r = s
        BY Zenon DEF ElectionInv, OneCallPerVote
      <4>2. \A r \in voteResps : ~(r.from = resp.from /\ r.to = resp.to
                                     /\ r.reqTerm = resp.reqTerm)
        BY <2>7, <2>14, Zenon
      <4> QED BY <2>1, <4>1, <4>2
    <3>9. \A q \in voteReqs', r \in voteResps' :
             ~(q.from = r.to /\ q.to = r.from /\ q.term = r.reqTerm)
      <4>1. \A q \in voteReqs, r \in voteResps :
               ~(q.from = r.to /\ q.to = r.from /\ q.term = r.reqTerm)
        BY Zenon DEF ElectionInv, OneCallPerVote
      <4>2. \A q \in voteReqs' :
               ~(q.from = resp.to /\ q.to = resp.from /\ q.term = resp.reqTerm)
        BY <2>7, <2>14, Zenon
      <4> QED BY <2>1, <4>1, <4>2
    <3> QED BY <3>1, <3>6, <3>7, <3>8, <3>9 DEF OneCallPerVote, Ballot
  <2>16. CounterCountsVoters'
    <3> SUFFICES ASSUME NEW k \in Server, state'[k] = "Candidate"
                 PROVE  /\ votesReceived'[k] = Cardinality(counted'[k])
                        /\ \A j \in counted'[k] :
                              Ballot(j, currentTerm'[k], k) \in ballots'
                        /\ \A q \in voteReqs' :
                              q.from = k /\ q.term = currentTerm'[k]
                                 => q.to \notin counted'[k]
                        /\ \A r \in voteResps' :
                              r.to = k /\ r.reqTerm = currentTerm'[k]
                                 => r.from \notin counted'[k]
      BY Zenon DEF CounterCountsVoters, Ballot
    <3>1. state[k] = "Candidate" /\ currentTerm'[k] = currentTerm[k]
      <4>1. state \in [Server -> State]
        BY Zenon DEF TypeOK
      <4>2. CASE k = i
        <5>1. state'[i] = IF t > currentTerm[i] THEN "Follower" ELSE state[i]
          BY <2>1, <2>2, <4>1, Zenon
        <5>2. ~(t > currentTerm[i]) /\ state[i] = "Candidate"
          BY <4>2, <5>1, Zenon
        <5> QED BY <2>2, <2>3, <2>10, <4>2, <5>2
      <4>3. CASE k # i
        BY <2>1, <2>10, <4>1, <4>3, Zenon
      <4> QED BY <4>2, <4>3
    <3>2. m.from = k /\ t = currentTerm[k] => i \notin counted[k]
      BY <3>1, Zenon DEF ElectionInv, CounterCountsVoters, i, t
    <3>3. /\ votesReceived[k] = Cardinality(counted[k])
          /\ \A j \in counted[k] : Ballot(j, currentTerm[k], k) \in ballots
          /\ \A q \in voteReqs :
                q.from = k /\ q.term = currentTerm[k] => q.to \notin counted[k]
          /\ \A r \in voteResps :
                r.to = k /\ r.reqTerm = currentTerm[k] => r.from \notin counted[k]
      BY <3>1, Zenon DEF ElectionInv, CounterCountsVoters
    <3>4. \A r \in voteResps' :
             r.to = k /\ r.reqTerm = currentTerm[k] => r.from \notin counted[k]
      BY <2>1, <2>7, <3>2, <3>3, Zenon
    <3>5. ballots \subseteq ballots' /\ voteReqs' \subseteq voteReqs
      BY <2>1, Zenon
    <3> QED BY <2>1, <3>1, <3>3, <3>4, <3>5
  <2>17. ElectedByMajority'
    BY <2>1, Zenon DEF ElectionInv, ElectedByMajority, Ballot
  <2> QED BY <2>13, <2>15, <2>16, <2>17 DEF ElectionInv
  (* handleRequestVoteResponse: each granted response adds a voter that was    *)
  (* not counted before, so reaching votesNeeded means a majority voted.       *)
<1>CountVoteKeepsElectionInv.
      ASSUME Counting, TypeOK, TypeOK', ElectionInv, NEW m \in voteResps,
             m.term = currentTerm[m.to], state[m.to] = "Candidate", m.granted,
             CountVote(m), voteResps' = voteResps \ {m},
             UNCHANGED <<voteReqs, ballots>>
      PROVE  ElectionInv'
  <2> USE <1>CountVoteKeepsElectionInv
  <2> DEFINE i == m.to
             t == currentTerm[i]
  <2>1. i \in Server /\ m.from \in Server
    BY Zenon DEF TypeOK, VoteResponse
  <2>2. /\ votesReceived' = [votesReceived EXCEPT ![i] = @ + 1]
        /\ counted' = [counted EXCEPT ![i] = @ \cup {m.from}]
        /\ UNCHANGED <<currentTerm, votedFor>>
        /\ \/ votesReceived[i] + 1 >= VotesNeeded /\ BecomeLeader(i)
           \/ UNCHANGED <<state, elected>>
    BY Zenon DEF CountVote, termVars, roleVars
  <2>3. m.reqTerm = t /\ Ballot(m.from, t, i) \in ballots
    BY Zenon DEF ElectionInv, OneCallPerVote
  <2>4. state[i] = "Candidate"
    BY Zenon
  <2>5. \A r \in voteResps' : ~(r.from = m.from /\ r.to = i /\ r.reqTerm = t)
    BY <2>3, Zenon DEF ElectionInv, OneCallPerVote
  <2>6. \A q \in voteReqs : ~(q.from = i /\ q.to = m.from /\ q.term = t)
    BY <2>3, Zenon DEF ElectionInv, OneCallPerVote
  <2>7. m.from \notin counted[i]
    BY <2>1, <2>3, <2>4, Zenon DEF ElectionInv, CounterCountsVoters
  <2> HIDE DEF i, t
  <2>8. /\ counted'[i] = counted[i] \cup {m.from}
        /\ \A j \in counted'[i] : Ballot(j, t, i) \in ballots
        /\ votesReceived'[i] = votesReceived[i] + 1
        /\ votesReceived[i] + 1 = Cardinality(counted'[i])
    <3>1. counted[i] \in SUBSET Server /\ votesReceived[i] \in Nat
      BY <2>1, ZenonT(40) DEF TypeOK
    <3>2. counted'[i] = counted[i] \cup {m.from} /\ votesReceived'[i] = votesReceived[i] + 1
      <4>1. votesReceived \in [Server -> Nat] /\ counted \in [Server -> SUBSET Server]
        BY Zenon DEF TypeOK
      <4> QED BY <2>1, <2>2, <4>1
    <3>3. m.from \in Server \ counted[i]
      BY <2>1, <2>7, Zenon
    <3>4. Cardinality(counted[i] \cup {m.from}) = Cardinality(counted[i]) + 1
      BY <3>1, <3>3, Zenon DEF Counting
    <3>5. votesReceived[i] = Cardinality(counted[i])
      BY <2>1, <2>4, Zenon DEF ElectionInv, CounterCountsVoters
    <3>6. \A j \in counted[i] : Ballot(j, t, i) \in ballots
      BY <2>1, <2>4, Zenon DEF ElectionInv, CounterCountsVoters, t
    <3> QED BY <2>3, <3>2, <3>4, <3>5, <3>6
  <2>9. BallotsCastOnce'
    BY <2>2, ZenonT(40) DEF ElectionInv, BallotsCastOnce
  <2>10. OneCallPerVote'
    BY <2>2, Zenon DEF ElectionInv, OneCallPerVote, Ballot
  <2>11. CounterCountsVoters'
    <3> SUFFICES ASSUME NEW k \in Server, state'[k] = "Candidate"
                 PROVE  /\ votesReceived'[k] = Cardinality(counted'[k])
                        /\ \A j \in counted'[k] :
                              Ballot(j, currentTerm'[k], k) \in ballots'
                        /\ \A q \in voteReqs' :
                              q.from = k /\ q.term = currentTerm'[k]
                                 => q.to \notin counted'[k]
                        /\ \A r \in voteResps' :
                              r.to = k /\ r.reqTerm = currentTerm'[k]
                                 => r.from \notin counted'[k]
      BY Zenon DEF CounterCountsVoters, Ballot
    <3>1. state[k] = "Candidate"
      <4>1. state \in [Server -> State]
        BY Zenon DEF TypeOK
      <4>2. CASE BecomeLeader(i)
        <5>1. state' = [state EXCEPT ![i] = "Leader"]
          BY <4>2, Zenon DEF BecomeLeader
        <5> QED BY <2>1, <2>4, <4>1, <5>1
      <4>3. CASE UNCHANGED <<state, elected>>
        BY <4>3, Zenon
      <4> QED BY <2>2, <4>2, <4>3
    <3>2. CASE k = i
      <4>1. /\ \A q \in voteReqs : q.from = i /\ q.term = t => q.to \notin counted[i]
            /\ \A r \in voteResps : r.to = i /\ r.reqTerm = t => r.from \notin counted[i]
        BY <2>1, <2>4, Zenon DEF ElectionInv, CounterCountsVoters, t
      <4>2. currentTerm'[k] = t
        BY <2>2, <3>2, Zenon DEF t
      <4> QED BY <2>5, <2>6, <2>8, <3>2, <4>1, <4>2, ZenonT(40)
    <3>3. CASE k # i
      <4>1. votesReceived'[k] = votesReceived[k] /\ counted'[k] = counted[k]
        <5>1. votesReceived \in [Server -> Nat] /\ counted \in [Server -> SUBSET Server]
          BY Zenon DEF TypeOK
        <5> QED BY <2>1, <2>2, <3>3, <5>1, Zenon
      <4> QED BY <2>2, <3>1, <4>1, Zenon DEF ElectionInv, CounterCountsVoters
    <3> QED BY <3>2, <3>3, Zenon
  <2>12. ElectedByMajority'
    <3>1. CASE UNCHANGED elected
      BY <3>1, Zenon DEF ElectionInv, ElectedByMajority, Ballot
    <3>2. CASE votesReceived[i] + 1 >= VotesNeeded /\ BecomeLeader(i)
      <4>1. counted'[i] \in SUBSET Server
        BY <2>1, Zenon DEF TypeOK
      <4>2. Cardinality(Server) \in Nat
        BY Zenon DEF Counting
      <4>3. votesReceived[i] + 1 >= Cardinality(Server) \div 2 + 1
        BY <3>2, Zenon DEF VotesNeeded
      <4>4. votesReceived[i] \in Nat
        BY <2>1, Zenon DEF TypeOK
      <4>5. 2 * (votesReceived[i] + 1) > Cardinality(Server)
        BY <4>2, <4>3, <4>4
      <4>6. 2 * Cardinality(counted'[i]) > Cardinality(Server)
        BY <2>8, <4>5, Zenon
      <4>7. elected' = elected \cup {[term |-> t, leader |-> i]}
        BY <3>2, Zenon DEF BecomeLeader, t
      <4> DEFINE new == [term |-> t, leader |-> i]
      <4>8. \E Q \in SUBSET Server :
               /\ 2 * Cardinality(Q) > Cardinality(Server)
               /\ \A j \in Q : Ballot(j, new.term, new.leader) \in ballots
        BY <2>8, <4>1, <4>6, ZenonT(40)
      <4> HIDE DEF new
      <4>9. \A e \in elected' : \E Q \in SUBSET Server :
               /\ 2 * Cardinality(Q) > Cardinality(Server)
               /\ \A j \in Q : Ballot(j, e.term, e.leader) \in ballots
        BY <4>7, <4>8, Zenon DEF ElectionInv, ElectedByMajority, new
      <4> QED BY <4>9 DEF ElectedByMajority, Ballot
    <3> QED BY <2>2, <3>1, <3>2, ZenonT(40)
  <2> QED BY <2>9, <2>10, <2>11, <2>12 DEF ElectionInv
  (* handleRequestVoteResponse: each granted vote is counted once. *)
<1>RequestVoteResponseKeepsElectionInv.
      ASSUME Counting, TypeOK, TypeOK', ElectionInv,
             NEW m \in voteResps, HandleRequestVoteResponse(m)
      PROVE  ElectionInv'
  <2> USE <1>RequestVoteResponseKeepsElectionInv
  <2>1. voteResps' = voteResps \ {m} /\ UNCHANGED <<voteReqs, ballots>>
    BY Zenon DEF HandleRequestVoteResponse
  <2>2. m.to \in Server /\ m.term \in Nat
    BY Zenon DEF TypeOK, VoteResponse, Term
  <2>3. CASE /\ m.term > currentTerm[m.to]
             /\ BecomeFollower(m.to, m.term)
             /\ UNCHANGED <<leaderVars, voteVars, elected>>
    <3>1. \A i \in Server :
             /\ currentTerm'[i] >= currentTerm[i]
             /\ currentTerm'[i] = currentTerm[i] => votedFor'[i] = votedFor[i]
             /\ state'[i] = "Candidate" =>
                   state[i] = "Candidate" /\ currentTerm'[i] = currentTerm[i]
      BY <2>2, <2>3, <1>BecomeFollowerMovesOn, ZenonT(40)
    <3> QED BY <2>1, <2>3, <3>1, <1>OtherStepsKeepElectionInv DEF voteVars
  <2>4. CASE UNCHANGED <<roleVars, termVars, leaderVars, voteVars, elected>>
    <3>1. UNCHANGED <<state, currentTerm, votedFor, votesReceived, counted, elected>>
      BY <2>4, Zenon DEF roleVars, termVars, voteVars
    <3>2. \A i \in Server : currentTerm'[i] >= currentTerm[i]
      <4>1. \A i \in Server : currentTerm[i] \in Nat
        BY Zenon DEF TypeOK, Term
      <4> QED BY <3>1, <4>1
    <3> QED BY <2>1, <3>1, <3>2, <1>OtherStepsKeepElectionInv
  <2>5. CASE /\ m.term = currentTerm[m.to] /\ state[m.to] = "Candidate"
             /\ m.granted
             /\ CountVote(m)
    BY <2>1, <2>5, <1>CountVoteKeepsElectionInv, Zenon
  <2> QED BY <2>3, <2>4, <2>5 DEF HandleRequestVoteResponse
  (* Replication does not touch votes. *)
<1>AppendStepsKeepElectionInv.
      ASSUME TypeOK, TypeOK', ElectionInv,
             \/ \E m \in DOMAIN appendReqs : HandleAppendEntries(m)
             \/ \E m \in DOMAIN appendResps : HandleAppendEntriesResponse(m)
      PROVE  ElectionInv'
  <2> USE <1>AppendStepsKeepElectionInv
  <2> DEFINE MovesOn == \A i \in Server :
                /\ currentTerm'[i] >= currentTerm[i]
                /\ currentTerm'[i] = currentTerm[i] => votedFor'[i] = votedFor[i]
                /\ state'[i] = "Candidate" =>
                      state[i] = "Candidate" /\ currentTerm'[i] = currentTerm[i]
  <2>1. UNCHANGED <<ballots, elected, voteReqs, voteResps, votesReceived, counted>>
    BY Zenon DEF HandleAppendEntries, HandleAppendEntriesResponse, voteVars, voteNet, history
  <2>2. ASSUME UNCHANGED <<roleVars, termVars>> PROVE MovesOn
    <3>1. \A i \in Server : currentTerm[i] \in Nat
      BY Zenon DEF TypeOK, Term
    <3> QED BY <2>2, <3>1 DEF roleVars, termVars
  <2>3. ASSUME NEW m \in DOMAIN appendReqs, HandleAppendEntries(m) PROVE MovesOn
    <3>1. m.to \in Server /\ m.term \in Nat
      BY ZenonT(40) DEF TypeOK, IsCalls, AppendRequest, Term
    <3>2. CASE RefuseStaleAppend(m)
      BY <2>2, <3>2, Zenon DEF RefuseStaleAppend
    <3>3. CASE FollowSender(m)
      <4>1. /\ currentTerm' = [currentTerm EXCEPT ![m.to] = TermAfter(m.to, m.term)]
            /\ votedFor' = [votedFor EXCEPT ![m.to] = VoteAfter(m.to, m.term)]
            /\ state' = [state EXCEPT ![m.to] = "Follower"]
        BY <3>3, Zenon DEF FollowSender
      <4> QED BY <3>1, <4>1, <1>SteppingDownMovesOn, Zenon
    <3> QED BY <2>3, <3>2, <3>3, Zenon DEF HandleAppendEntries, RefuseGap, AcceptAppend
  <2>4. ASSUME NEW m \in DOMAIN appendResps, HandleAppendEntriesResponse(m)
        PROVE  MovesOn
    <3>1. m.to \in Server /\ m.term \in Nat
      BY ZenonT(40) DEF TypeOK, IsCalls, AppendResponse, Term
    <3>2. CASE BecomeFollower(m.to, m.term)
      BY <3>1, <3>2, <1>BecomeFollowerMovesOn, ZenonT(40)
    <3>3. CASE UNCHANGED <<roleVars, termVars>>
      BY <2>2, <3>3, Zenon
    <3> QED BY <2>4, <3>2, <3>3, Zenon DEF HandleAppendEntriesResponse
  <2>5. MovesOn
    BY <2>3, <2>4, Zenon
  <2> QED BY <2>1, <2>5, <1>OtherStepsKeepElectionInv
<1> SUFFICES ASSUME Counting, TypeOK, TypeOK', ElectionInv, [Next]_vars PROVE ElectionInv'
  BY Zenon
<1>1. TypeOK'
  BY Zenon
<1>2. ASSUME NEW i \in Server, HandleElectionTimeout(i) PROVE ElectionInv'
  BY <1>1, <1>2, <1>ElectionTimeoutKeepsElectionInv, Zenon
<1>3. ASSUME NEW m \in voteReqs, HandleRequestVote(m) PROVE ElectionInv'
  BY <1>1, <1>3, <1>RequestVoteKeepsElectionInv, Zenon
<1>4. ASSUME NEW m \in voteResps, HandleRequestVoteResponse(m) PROVE ElectionInv'
  BY <1>1, <1>4, <1>RequestVoteResponseKeepsElectionInv, Zenon
<1>5. ASSUME \/ \E m \in DOMAIN appendReqs : HandleAppendEntries(m)
             \/ \E m \in DOMAIN appendResps : HandleAppendEntriesResponse(m)
      PROVE  ElectionInv'
  BY <1>1, <1>5, <1>AppendStepsKeepElectionInv, Zenon
<1>6. ASSUME UNCHANGED <<roleVars, termVars, voteVars, voteNet, history>>
      PROVE  ElectionInv'
  <2>1. UNCHANGED <<state, currentTerm, votedFor, votesReceived, counted,
                    voteReqs, voteResps, ballots, elected>>
    BY <1>6, Zenon DEF roleVars, termVars, voteVars, voteNet, history
  <2>2. \A i \in Server : currentTerm'[i] >= currentTerm[i]
    <3>1. \A i \in Server : currentTerm[i] \in Nat
      BY Zenon DEF TypeOK, Term
    <3> QED BY <2>1, <3>1
  <2> QED BY <1>1, <2>1, <2>2, <1>OtherStepsKeepElectionInv
<1>7. ASSUME NEW i \in Server, HandleHeartbeatTimeout(i) PROVE ElectionInv'
  BY <1>6, <1>7, Zenon DEF HandleHeartbeatTimeout
<1>8. ASSUME NEW i \in Server, HandlePropose(i) PROVE ElectionInv'
  BY <1>6, <1>8, Zenon DEF HandlePropose
<1>9. ASSUME NEW i \in Server, NEW cmd \in Command, Propose(i, cmd)
      PROVE  ElectionInv'
  BY <1>6, <1>9, Zenon DEF Propose
<1>10. CASE UNCHANGED vars
  BY <1>6, <1>10, Zenon DEF vars
<1> QED BY <1>2, <1>3, <1>4, <1>5, <1>7, <1>8, <1>9, <1>10 DEF Next

(* Two majorities share a voter, who cast one ballot in the term. *)
LEMMA ElectionInvSuffices == Counting /\ TypeOK /\ ElectionInv => ElectionSafety
<1> SUFFICES ASSUME Counting, TypeOK, ElectionInv, NEW e \in elected, NEW f \in elected,
                    e.term = f.term
             PROVE  e.leader = f.leader
  BY Zenon DEF ElectionSafety
<1>1. PICK P \in SUBSET Server :
         /\ 2 * Cardinality(P) > Cardinality(Server)
         /\ \A j \in P : Ballot(j, e.term, e.leader) \in ballots
  BY Zenon DEF ElectionInv, ElectedByMajority
<1>2. PICK Q \in SUBSET Server :
         /\ 2 * Cardinality(Q) > Cardinality(Server)
         /\ \A j \in Q : Ballot(j, f.term, f.leader) \in ballots
  BY Zenon DEF ElectionInv, ElectedByMajority
<1>3. /\ Cardinality(P) \in Nat /\ Cardinality(Q) \in Nat
      /\ Cardinality(Server) \in Nat
  BY Zenon DEF Counting
<1>4. Cardinality(P) + Cardinality(Q) > Cardinality(Server)
  BY <1>1, <1>2, <1>3
<1>5. PICK j \in P : j \in Q
  BY <1>4, Zenon DEF Counting
<1>6. /\ Ballot(j, e.term, e.leader) \in ballots
      /\ Ballot(j, e.term, f.leader) \in ballots
  BY <1>1, <1>2, <1>5, Zenon
<1>7. Ballot(j, e.term, e.leader).candidate = Ballot(j, e.term, f.leader).candidate
  BY <1>6, Zenon DEF ElectionInv, BallotsCastOnce, Ballot
<1> QED BY <1>7 DEF Ballot

-----------------------------------------------------------------------------
(* Roles and timers *)

(* What a role means, and the timer it arms. *)
RoleInv == LeadershipInv /\ TimersArmed

(* Calls that are started, handled or left alone. *)
LEMMA CallsStarted ==
    ASSUME NEW calls, NEW S, NEW m \in DOMAIN Start(calls, S)
    PROVE  m \in DOMAIN calls \/ m \in S
BY Zenon DEF Start

(* A handled call leaves only calls that were there. *)
LEMMA CallsFinished ==
    ASSUME NEW calls, NEW n, NEW m \in DOMAIN Finish(calls, n)
    PROVE  m \in DOMAIN calls
BY Zenon DEF Finish

(* A node answers others, as it is called by others only. *)
AnswersOthers == \A m \in DOMAIN appendResps : m.from # m.to

(* Every step keeps answers between different nodes. *)
LEMMA NextAnswers == RoleInv /\ AnswersOthers /\ [Next]_vars => AnswersOthers'
<1> SUFFICES ASSUME RoleInv, AnswersOthers, [Next]_vars PROVE AnswersOthers'
  BY Zenon
<1>1. ASSUME appendResps' = appendResps PROVE AnswersOthers'
  BY <1>1, Zenon DEF AnswersOthers
<1>2. ASSUME NEW m \in DOMAIN appendReqs, HandleAppendEntries(m) PROVE AnswersOthers'
  <2> DEFINE reply(term, success, last) ==
        [from |-> m.to, to |-> m.from, term |-> term, success |-> success, lastIndex |-> last]
  <2>1. m.from # m.to
    BY Zenon DEF RoleInv, LeadershipInv
  <2>2. PICK t, s, n : appendResps' = Start(appendResps, {reply(t, s, n)})
    BY <1>2, Zenon DEF HandleAppendEntries, RefuseStaleAppend, RefuseGap, AcceptAppend,
       ReplyToAppend
  <2>3. reply(t, s, n).from = m.to /\ reply(t, s, n).to = m.from
    BY Zenon
  <2> HIDE DEF reply
  <2>4. \A r \in DOMAIN appendResps' : r \in DOMAIN appendResps \/ r = reply(t, s, n)
    BY <2>2, CallsStarted, Zenon
  <2> QED BY <2>1, <2>3, <2>4 DEF AnswersOthers
<1>3. ASSUME NEW m \in DOMAIN appendResps, HandleAppendEntriesResponse(m)
      PROVE  AnswersOthers'
  <2>1. appendResps' = Finish(appendResps, m)
    BY <1>3, Zenon DEF HandleAppendEntriesResponse
  <2>2. \A r \in DOMAIN appendResps' : r \in DOMAIN appendResps
    BY <2>1, CallsFinished, Zenon
  <2> QED BY <2>2 DEF AnswersOthers
<1>4. ASSUME NEW i \in Server,
             \/ HandleElectionTimeout(i) \/ HandleHeartbeatTimeout(i) \/ HandlePropose(i)
             \/ \E cmd \in Command : Propose(i, cmd)
      PROVE  appendResps' = appendResps
  BY <1>4, Zenon DEF HandleElectionTimeout, HandleHeartbeatTimeout, HandlePropose, Propose,
     appendNet
<1>5. ASSUME \/ \E m \in voteReqs : HandleRequestVote(m)
             \/ \E m \in voteResps : HandleRequestVoteResponse(m)
      PROVE  appendResps' = appendResps
  BY <1>5, Zenon DEF HandleRequestVote, HandleRequestVoteResponse, appendNet
<1>6. CASE UNCHANGED vars
  BY <1>1, <1>6, Zenon DEF vars, appendNet
<1> QED BY <1>1, <1>2, <1>3, <1>4, <1>5, <1>6, Zenon DEF Next

(* Every step keeps who leads and which timers are armed. *)
LEMMA NextRoles ==
    TypeOK /\ TypeOK' /\ ElectionSafety /\ AnswersOthers /\ RoleInv /\ [Next]_vars => RoleInv'
  (* A step that changes no role, term or vote and calls other nodes only on   *)
  (* behalf of a leader.                                                       *)
<1>SameRoles.
      ASSUME RoleInv, UNCHANGED <<roleVars, termVars, elected, voteReqs>>,
             \A m \in DOMAIN appendReqs' :
                \/ m \in DOMAIN appendReqs
                \/ /\ m.from # m.to /\ m.from \in Server
                   /\ state[m.from] = "Leader" /\ m.term = currentTerm[m.from]
      PROVE  RoleInv'
  <2> USE <1>SameRoles
  <2>1. UNCHANGED <<state, currentTerm, votedFor, electionTimer, heartbeatTimer,
                    elected, voteReqs>>
    BY Zenon DEF roleVars, termVars
  <2>2. TimersArmed'
    BY <2>1, Zenon DEF RoleInv, TimersArmed
  <2>3. ASSUME NEW m \in DOMAIN appendReqs'
        PROVE  m.from # m.to /\ [term |-> m.term, leader |-> m.from] \in elected
    BY <2>3, Zenon DEF RoleInv, LeadershipInv
  <2> QED BY <2>1, <2>2, <2>3, Zenon DEF RoleInv, LeadershipInv
  (* Node k becomes a follower, in a term that is not older. *)
<1>StepDownRoles.
      ASSUME TypeOK, TypeOK', RoleInv, NEW k \in Server,
             state' = [state EXCEPT ![k] = "Follower"],
             currentTerm'[k] >= currentTerm[k],
             \A i \in Server \ {k} : /\ currentTerm'[i] = currentTerm[i]
                                     /\ votedFor'[i] = votedFor[i]
                                     /\ electionTimer'[i] = electionTimer[i]
                                     /\ heartbeatTimer'[i] = heartbeatTimer[i],
             electionTimer'[k], ~heartbeatTimer'[k],
             elected' = elected, voteReqs' \subseteq voteReqs,
             DOMAIN appendReqs' \subseteq DOMAIN appendReqs
      PROVE  RoleInv'
  <2> USE <1>StepDownRoles
  <2>1. state \in [Server -> State]
    BY Zenon DEF TypeOK
  <2>2. state'[k] = "Follower" /\ \A i \in Server \ {k} : state'[i] = state[i]
    BY <2>1, ZenonT(40)
  <2>3. TimersArmed'
    BY <2>2 DEF RoleInv, TimersArmed
  <2>4. ASSUME NEW i \in Server, state'[i] = "Leader"
        PROVE  [term |-> currentTerm'[i], leader |-> i] \in elected'
    BY <2>2, <2>4, Zenon DEF RoleInv, LeadershipInv
  <2>5. ASSUME NEW e \in elected
        PROVE  /\ e.term <= currentTerm'[e.leader]
               /\ e.term = currentTerm'[e.leader] => state'[e.leader] # "Candidate"
    <3>1. e.leader \in Server /\ e.term \in Nat
      BY ZenonT(40) DEF TypeOK, Term
    <3>2. currentTerm[k] \in Nat /\ currentTerm'[k] \in Nat
      BY Zenon DEF TypeOK, Term
    <3>3. /\ e.term <= currentTerm[e.leader]
          /\ e.term = currentTerm[e.leader] => state[e.leader] # "Candidate"
      BY Zenon DEF RoleInv, LeadershipInv
    <3> QED BY <2>2, <3>1, <3>2, <3>3
  <2>6. \A i \in Server : state'[i] # "Follower" => votedFor'[i] = i
    BY <2>2, Zenon DEF RoleInv, LeadershipInv
  <2>7. /\ \A q \in voteReqs' : q.from # q.to
        /\ \A m \in DOMAIN appendReqs' :
              m.from # m.to /\ [term |-> m.term, leader |-> m.from] \in elected'
    BY Zenon DEF RoleInv, LeadershipInv
  <2> QED BY <2>3, <2>4, <2>5, <2>6, <2>7, ZenonT(40) DEF RoleInv, LeadershipInv
  (* handleElectionTimeout. *)
<1>ElectionTimeoutRoles.
      ASSUME TypeOK, RoleInv, NEW k \in Server, HandleElectionTimeout(k)
      PROVE  RoleInv'
  <2> USE <1>ElectionTimeoutRoles
  <2>1. /\ state \in [Server -> State] /\ currentTerm \in [Server -> Nat]
        /\ votedFor \in [Server -> Server \cup {Nil}]
        /\ electionTimer \in [Server -> BOOLEAN]
    BY Zenon DEF TypeOK, Term
  <2>2. /\ state' = [state EXCEPT ![k] = "Candidate"]
        /\ currentTerm' = [currentTerm EXCEPT ![k] = currentTerm[k] + 1]
        /\ votedFor' = [votedFor EXCEPT ![k] = k]
        /\ electionTimer' = [electionTimer EXCEPT ![k] = TRUE]
        /\ UNCHANGED <<heartbeatTimer, elected, appendReqs>>
        /\ state[k] # "Leader"
    BY Zenon DEF HandleElectionTimeout, BecomeCandidate, appendNet
  <2>3. /\ state'[k] = "Candidate" /\ currentTerm'[k] = currentTerm[k] + 1
        /\ votedFor'[k] = k /\ electionTimer'[k] = TRUE
    BY <2>1, <2>2, Zenon
  <2>4. \A i \in Server \ {k} :
           /\ state'[i] = state[i] /\ currentTerm'[i] = currentTerm[i]
           /\ votedFor'[i] = votedFor[i] /\ electionTimer'[i] = electionTimer[i]
    BY <2>1, <2>2, Zenon
  <2>5. TimersArmed'
    BY <2>2, <2>3, <2>4 DEF RoleInv, TimersArmed
  <2>6. \A i \in Server : state'[i] = "Leader" =>
           [term |-> currentTerm'[i], leader |-> i] \in elected'
    BY <2>2, <2>3, <2>4 DEF RoleInv, LeadershipInv
  <2>7. ASSUME NEW e \in elected
        PROVE  /\ e.term <= currentTerm'[e.leader]
               /\ e.term = currentTerm'[e.leader] => state'[e.leader] # "Candidate"
    <3>1. e.leader \in Server /\ e.term \in Nat
      BY Zenon DEF TypeOK, Term
    <3>2. currentTerm[k] \in Nat
      BY <2>1, Zenon
    <3>3. /\ e.term <= currentTerm[e.leader]
          /\ e.term = currentTerm[e.leader] => state[e.leader] # "Candidate"
      BY Zenon DEF RoleInv, LeadershipInv
    <3> QED BY <2>3, <2>4, <3>1, <3>2, <3>3
  <2>8. \A i \in Server : state'[i] # "Follower" => votedFor'[i] = i
    BY <2>3, <2>4, ZenonT(40) DEF RoleInv, LeadershipInv
  <2>9. \A q \in voteReqs' : q.from # q.to
    <3> DEFINE call(j) == [from |-> k, to |-> j, term |-> currentTerm[k] + 1,
                           lastIndex |-> LastIndex(log[k]), lastTerm |-> LastTerm(log[k])]
    <3>1. voteReqs' = voteReqs \cup {call(j) : j \in Peers(k)}
      BY ZenonT(40) DEF HandleElectionTimeout, BroadcastRequestVote
    <3>2. \A j \in Peers(k) : call(j).from = k /\ call(j).to # k
      BY Zenon DEF Peers
    <3> HIDE DEF call
    <3>3. \A q \in voteReqs : q.from # q.to
      BY Zenon DEF RoleInv, LeadershipInv
    <3> QED BY <3>1, <3>2, <3>3, Zenon
  <2> QED BY <2>2, <2>5, <2>6, <2>7, <2>8, <2>9, Zenon DEF RoleInv, LeadershipInv
  (* handleRequestVote: a leader has voted for itself and keeps its timers     *)
  (* unless the term is newer.                                                 *)
<1>RequestVoteRoles.
      ASSUME TypeOK, TypeOK', RoleInv, NEW m \in voteReqs, HandleRequestVote(m)
      PROVE  RoleInv'
  <2> USE <1>RequestVoteRoles
  <2> DEFINE k == m.to
             newer == m.term > currentTerm[k]
             grant == GrantsVote(k, m)
  <2>1. /\ currentTerm' = [currentTerm EXCEPT ![k] = TermAfter(k, m.term)]
        /\ votedFor' = [votedFor EXCEPT ![k] = IF grant THEN m.from ELSE VoteAfter(k, m.term)]
        /\ state' = [state EXCEPT ![k] = IF newer THEN "Follower" ELSE state[k]]
        /\ electionTimer' = [electionTimer EXCEPT ![k] = electionTimer[k] \/ newer \/ grant]
        /\ heartbeatTimer' = [heartbeatTimer EXCEPT ![k] = heartbeatTimer[k] /\ ~newer]
        /\ voteReqs' = voteReqs \ {m}
        /\ UNCHANGED <<elected, appendReqs>>
    BY Zenon DEF HandleRequestVote, appendNet
  <2>2. /\ k \in Server /\ m.term \in Nat /\ m.from \in Server
        /\ currentTerm \in [Server -> Nat] /\ state \in [Server -> State]
        /\ votedFor \in [Server -> Server \cup {Nil}]
        /\ electionTimer \in [Server -> BOOLEAN] /\ heartbeatTimer \in [Server -> BOOLEAN]
    BY Zenon DEF TypeOK, VoteRequest, Term
  <2>3. /\ currentTerm'[k] = TermAfter(k, m.term)
        /\ votedFor'[k] = IF grant THEN m.from ELSE VoteAfter(k, m.term)
        /\ electionTimer'[k] = (electionTimer[k] \/ newer \/ grant)
        /\ heartbeatTimer'[k] = (heartbeatTimer[k] /\ ~newer)
    <3> HIDE DEF k, newer, grant
    <3> QED BY <2>1, <2>2, Zenon
  <2>4. \A i \in Server \ {k} :
           /\ currentTerm'[i] = currentTerm[i] /\ votedFor'[i] = votedFor[i]
           /\ electionTimer'[i] = electionTimer[i] /\ heartbeatTimer'[i] = heartbeatTimer[i]
    <3> HIDE DEF k, newer, grant
    <3> QED BY <2>1, <2>2, Zenon
  <2>5. CASE newer
    <3>1. state' = [state EXCEPT ![k] = "Follower"]
      BY <2>1, <2>5, ZenonT(40)
    <3>2. currentTerm'[k] >= currentTerm[k]
      <4>1. currentTerm'[k] = TermAfter(k, m.term) /\ currentTerm[k] \in Nat /\ m.term \in Nat
        BY <2>2, <2>3, Zenon
      <4> QED BY <4>1 DEF TermAfter, Larger
    <3>3. electionTimer'[k] /\ ~heartbeatTimer'[k]
      BY <2>3, <2>5, Zenon
    <3>4. voteReqs' \subseteq voteReqs /\ DOMAIN appendReqs' \subseteq DOMAIN appendReqs
      BY <2>1, ZenonT(40)
    <3> HIDE DEF k, newer, grant
    <3> QED BY <2>1, <2>2, <2>4, <3>1, <3>2, <3>3, <3>4, <1>StepDownRoles, Zenon
  <2>6. CASE ~newer
    <3>1. currentTerm' = currentTerm /\ state' = state
      <4>1. currentTerm'[k] = currentTerm[k]
        <5>1. currentTerm'[k] = TermAfter(k, m.term) /\ currentTerm[k] \in Nat /\ m.term \in Nat
          BY <2>2, <2>3, Zenon
        <5> QED BY <2>6, <5>1 DEF TermAfter, Larger
      <4> HIDE DEF k, newer
      <4>2. state' = state
        BY <2>1, <2>2, <2>6, Zenon
      <4>3. currentTerm' = currentTerm
        BY <2>1, <2>2, <2>3, <4>1, ZenonT(40)
      <4> QED BY <4>2, <4>3
    <3>2. m.from # m.to
      BY Zenon DEF RoleInv, LeadershipInv
    <3>3. grant /\ state[k] # "Follower" => FALSE
      <4>1. state[k] # "Follower" => votedFor[k] = k
        BY <2>2, Zenon DEF RoleInv, LeadershipInv
      <4>2. grant => VoteAfter(k, m.term) \in {Nil, m.from}
        BY Zenon DEF GrantsVote
      <4>3. VoteAfter(k, m.term) = votedFor[k]
        BY <2>6, Zenon DEF VoteAfter
      <4> HIDE DEF grant
      <4> QED BY <2>2, <3>2, <4>1, <4>2, <4>3, RaftAssumption
    <3>4. votedFor'[k] = IF grant THEN m.from ELSE votedFor[k]
      BY <2>3, <2>6, Zenon DEF VoteAfter
    <3> HIDE DEF k, newer, grant
    <3>5. TimersArmed'
      BY <2>2, <2>3, <2>4, <2>6, <3>1, <3>3, ZenonT(40) DEF RoleInv, TimersArmed
    <3>6. \A i \in Server : state'[i] # "Follower" => votedFor'[i] = i
      BY <2>2, <2>4, <3>1, <3>3, <3>4, ZenonT(40) DEF RoleInv, LeadershipInv
    <3> QED BY <2>1, <3>1, <3>5, <3>6 DEF RoleInv, LeadershipInv
  <2> QED BY <2>5, <2>6
  (* becomeFollower, called by a response of a newer term. *)
<1>BecomeFollowerRoles.
      ASSUME TypeOK, TypeOK', RoleInv, NEW k \in Server, NEW t \in Nat, t > currentTerm[k],
             BecomeFollower(k, t), UNCHANGED <<elected, voteReqs, appendReqs>>
      PROVE  RoleInv'
  <2> USE <1>BecomeFollowerRoles
  <2>1. /\ currentTerm \in [Server -> Nat] /\ votedFor \in [Server -> Server \cup {Nil}]
        /\ electionTimer \in [Server -> BOOLEAN] /\ heartbeatTimer \in [Server -> BOOLEAN]
    BY Zenon DEF TypeOK, Term
  <2>2. /\ currentTerm' = [currentTerm EXCEPT ![k] = TermAfter(k, t)]
        /\ votedFor' = [votedFor EXCEPT ![k] = VoteAfter(k, t)]
        /\ state' = [state EXCEPT ![k] = "Follower"]
        /\ electionTimer' = [electionTimer EXCEPT ![k] = TRUE]
        /\ heartbeatTimer' = [heartbeatTimer EXCEPT ![k] = FALSE]
    BY Zenon DEF BecomeFollower
  <2>3. currentTerm'[k] = TermAfter(k, t) /\ electionTimer'[k] /\ ~heartbeatTimer'[k]
    BY <2>1, <2>2, Zenon
  <2>4. currentTerm'[k] >= currentTerm[k]
    BY <2>1, <2>3 DEF TermAfter, Larger
  <2>5. \A i \in Server \ {k} :
           /\ currentTerm'[i] = currentTerm[i] /\ votedFor'[i] = votedFor[i]
           /\ electionTimer'[i] = electionTimer[i] /\ heartbeatTimer'[i] = heartbeatTimer[i]
    BY <2>1, <2>2, Zenon
  <2>6. voteReqs' \subseteq voteReqs /\ DOMAIN appendReqs' \subseteq DOMAIN appendReqs
    BY Zenon
  <2> QED BY <2>2, <2>3, <2>4, <2>5, <2>6, <1>StepDownRoles, Zenon
  (* handleRequestVoteResponse: counting votes. *)
<1>CountVoteRoles.
      ASSUME TypeOK, RoleInv, NEW m \in voteResps, state[m.to] = "Candidate",
             CountVote(m), UNCHANGED <<voteReqs, appendReqs>>
      PROVE  RoleInv'
  <2> USE <1>CountVoteRoles
  <2> DEFINE k == m.to
             new == [term |-> currentTerm[k], leader |-> k]
  <2>1. k \in Server
    BY Zenon DEF TypeOK, VoteResponse
  <2>2. UNCHANGED <<currentTerm, votedFor>>
    BY Zenon DEF CountVote, termVars
  <2>3. CASE UNCHANGED <<roleVars, leaderVars, elected>>
    <3>1. UNCHANGED <<roleVars, termVars, elected, voteReqs>>
      BY <2>2, <2>3, Zenon DEF termVars
    <3>2. \A n \in DOMAIN appendReqs' : n \in DOMAIN appendReqs
      BY Zenon
    <3> QED BY <3>1, <3>2, <1>SameRoles
  <2>4. CASE BecomeLeader(k)
    <3>1. /\ state \in [Server -> State]
          /\ electionTimer \in [Server -> BOOLEAN] /\ heartbeatTimer \in [Server -> BOOLEAN]
      BY Zenon DEF TypeOK
    <3>2. /\ state' = [state EXCEPT ![k] = "Leader"]
          /\ electionTimer' = [electionTimer EXCEPT ![k] = FALSE]
          /\ heartbeatTimer' = [heartbeatTimer EXCEPT ![k] = TRUE]
          /\ elected' = elected \cup {new}
      BY <2>4, Zenon DEF BecomeLeader
    <3> HIDE DEF k
    <3>3. /\ state'[k] = "Leader" /\ electionTimer'[k] = FALSE /\ heartbeatTimer'[k] = TRUE
          /\ \A i \in Server \ {k} : /\ state'[i] = state[i]
                                     /\ electionTimer'[i] = electionTimer[i]
                                     /\ heartbeatTimer'[i] = heartbeatTimer[i]
      BY <2>1, <3>1, <3>2, Zenon
    <3>4. TimersArmed'
      BY <2>1, <3>3, Zenon DEF RoleInv, TimersArmed
    <3>5. \A i \in Server : state'[i] = "Leader" =>
             [term |-> currentTerm'[i], leader |-> i] \in elected'
      BY <2>1, <2>2, <3>2, <3>3, Zenon DEF RoleInv, LeadershipInv
    <3>6. ASSUME NEW e \in elected'
          PROVE  /\ e.term <= currentTerm'[e.leader]
                 /\ e.term = currentTerm'[e.leader] => state'[e.leader] # "Candidate"
      <4>1. CASE e = new
        <5>1. e.term = currentTerm[k] /\ e.leader = k
          BY <4>1, Zenon
        <5>2. currentTerm[k] \in Nat
          BY <2>1, Zenon DEF TypeOK, Term
        <5>3. currentTerm[k] <= currentTerm[k]
          BY <5>2
        <5> QED BY <2>2, <3>3, <5>1, <5>3
      <4>2. CASE e \in elected
        <5>1. e.leader \in Server
          BY <4>2, Zenon DEF TypeOK
        <5>2. /\ e.term <= currentTerm[e.leader]
              /\ e.term = currentTerm[e.leader] => state[e.leader] # "Candidate"
          BY <4>2, Zenon DEF RoleInv, LeadershipInv
        <5> QED BY <2>2, <3>3, <5>1, <5>2
      <4> QED BY <3>2, <4>1, <4>2
    <3>7. \A i \in Server : state'[i] # "Follower" => votedFor'[i] = i
      BY <2>1, <2>2, <3>3, ZenonT(40) DEF RoleInv, LeadershipInv, k
    <3>8. /\ \A q \in voteReqs' : q.from # q.to
          /\ \A n \in DOMAIN appendReqs' :
                n.from # n.to /\ [term |-> n.term, leader |-> n.from] \in elected'
      BY <3>2, Zenon DEF RoleInv, LeadershipInv
    <3> QED BY <3>4, <3>5, <3>6, <3>7, <3>8, ZenonT(40) DEF RoleInv, LeadershipInv
  <2> QED BY <2>3, <2>4 DEF CountVote
  (* handleRequestVoteResponse: follow, ignore, count or lead. *)
<1>RequestVoteResponseRoles.
      ASSUME TypeOK, TypeOK', RoleInv, NEW m \in voteResps, HandleRequestVoteResponse(m)
      PROVE  RoleInv'
  <2> USE <1>RequestVoteResponseRoles
  <2>1. UNCHANGED <<voteReqs, appendReqs>>
    BY Zenon DEF HandleRequestVoteResponse, appendNet
  <2>2. m.to \in Server /\ m.term \in Nat
    BY Zenon DEF TypeOK, VoteResponse, Term
  <2>3. CASE /\ m.term > currentTerm[m.to]
             /\ BecomeFollower(m.to, m.term)
             /\ UNCHANGED <<leaderVars, voteVars, elected>>
    BY <2>1, <2>2, <2>3, <1>BecomeFollowerRoles, Zenon
  <2>4. CASE UNCHANGED <<roleVars, termVars, leaderVars, voteVars, elected>>
    <3>1. \A n \in DOMAIN appendReqs' : n \in DOMAIN appendReqs
      BY <2>1, Zenon
    <3> QED BY <2>1, <2>4, <3>1, <1>SameRoles
  <2>5. CASE /\ m.term = currentTerm[m.to] /\ state[m.to] = "Candidate"
             /\ m.granted
             /\ CountVote(m)
    BY <2>1, <2>5, <1>CountVoteRoles, Zenon
  <2> QED BY <2>3, <2>4, <2>5, Zenon DEF HandleRequestVoteResponse
  (* handleAppendEntries: the sender leads its term, so a leader that is       *)
  (* called in this way is behind and its heartbeat stops.                     *)
<1>AppendEntriesRoles.
      ASSUME TypeOK, TypeOK', RoleInv, ElectionSafety,
             NEW m \in DOMAIN appendReqs, HandleAppendEntries(m)
      PROVE  RoleInv'
  <2> USE <1>AppendEntriesRoles
  <2> DEFINE k == m.to
  <2>1. UNCHANGED <<elected, voteReqs>>
    BY Zenon DEF HandleAppendEntries, voteNet, history
  <2>2. k \in Server /\ m.from \in Server /\ m.term \in Nat
    BY ZenonT(40) DEF TypeOK, IsCalls, AppendRequest, Term
  <2>3. appendReqs' = Finish(appendReqs, m)
    BY Zenon DEF HandleAppendEntries, RefuseStaleAppend, RefuseGap, AcceptAppend, ReplyToAppend
  <2>4. \A n \in DOMAIN appendReqs' : n \in DOMAIN appendReqs
    BY <2>3, CallsFinished, Zenon
  <2>5. CASE RefuseStaleAppend(m)
    <3>1. UNCHANGED <<roleVars, termVars>>
      BY <2>5, Zenon DEF RefuseStaleAppend
    <3> QED BY <2>1, <2>4, <3>1, <1>SameRoles
  <2>6. CASE FollowSender(m)
    <3>1. /\ m.term >= currentTerm[k]
          /\ currentTerm' = [currentTerm EXCEPT ![k] = TermAfter(k, m.term)]
          /\ votedFor' = [votedFor EXCEPT ![k] = VoteAfter(k, m.term)]
          /\ state' = [state EXCEPT ![k] = "Follower"]
          /\ electionTimer' = [electionTimer EXCEPT ![k] = TRUE]
          /\ heartbeatTimer' = [heartbeatTimer EXCEPT ![k] =
                                   heartbeatTimer[k] /\ m.term <= currentTerm[k]]
      BY <2>6, ZenonT(40) DEF FollowSender
    <3>2. /\ currentTerm \in [Server -> Nat] /\ votedFor \in [Server -> Server \cup {Nil}]
          /\ electionTimer \in [Server -> BOOLEAN] /\ heartbeatTimer \in [Server -> BOOLEAN]
      BY Zenon DEF TypeOK, Term
    <3>3. state[k] = "Leader" => m.term # currentTerm[k]
      <4> SUFFICES ASSUME state[k] = "Leader", m.term = currentTerm[k] PROVE FALSE
        BY Zenon
      <4> DEFINE e == [term |-> m.term, leader |-> m.from]
                 f == [term |-> currentTerm[k], leader |-> k]
      <4>1. e \in elected /\ m.from # k /\ f \in elected
        BY <2>2, ZenonT(40) DEF RoleInv, LeadershipInv
      <4>2. e.term = f.term /\ e.leader = m.from /\ f.leader = k
        BY Zenon
      <4> HIDE DEF e, f
      <4> QED BY <4>1, <4>2 DEF ElectionSafety
    <3> HIDE DEF k
    <3>4. /\ currentTerm'[k] = TermAfter(k, m.term) /\ electionTimer'[k] = TRUE
          /\ heartbeatTimer'[k] = (heartbeatTimer[k] /\ m.term <= currentTerm[k])
      BY <2>2, <3>1, <3>2, Zenon
    <3>5. \A i \in Server \ {k} :
             /\ currentTerm'[i] = currentTerm[i] /\ votedFor'[i] = votedFor[i]
             /\ electionTimer'[i] = electionTimer[i] /\ heartbeatTimer'[i] = heartbeatTimer[i]
      BY <3>1, <3>2, Zenon
    <3>6. currentTerm'[k] >= currentTerm[k]
      BY <2>2, <3>2, <3>4 DEF TermAfter, Larger
    <3>7. ~heartbeatTimer'[k]
      <4>1. heartbeatTimer[k] => state[k] = "Leader"
        BY <2>2, Zenon DEF RoleInv, TimersArmed
      <4>2. m.term <= currentTerm[k] => m.term = currentTerm[k]
        BY <2>2, <3>1, <3>2
      <4> QED BY <3>3, <3>4, <4>1, <4>2, Zenon
    <3>8. DOMAIN appendReqs' \subseteq DOMAIN appendReqs /\ voteReqs' \subseteq voteReqs
      BY <2>1, <2>4, ZenonT(40)
    <3> QED BY <2>1, <2>2, <3>1, <3>4, <3>5, <3>6, <3>7, <3>8, <1>StepDownRoles, ZenonT(40)
  <2> QED BY <2>5, <2>6, Zenon DEF HandleAppendEntries, RefuseGap, AcceptAppend
  (* broadcastAppendEntries and sendAppendEntriesTo, by a leader. *)
<1>BroadcastRoles.
      ASSUME RoleInv, NEW i \in Server, state[i] = "Leader", NEW l,
             UNCHANGED <<roleVars, termVars, elected, voteReqs>>,
             BroadcastAppendEntries(i, l)
      PROVE  RoleInv'
  <2> USE <1>BroadcastRoles
  <2> DEFINE call(j) == AppendTo(i, j, nextIndex[i][j], l)
  <2>1. appendReqs' = Start(appendReqs, {call(j) : j \in Peers(i)})
    BY ZenonT(40) DEF BroadcastAppendEntries
  <2>2. \A j \in Peers(i) : call(j).from = i /\ call(j).to # i /\ call(j).term = currentTerm[i]
    BY Zenon DEF AppendTo, Peers
  <2> HIDE DEF call
  <2>3. \A m \in DOMAIN appendReqs' :
           m \in DOMAIN appendReqs \/ \E j \in Peers(i) : m = call(j)
    BY <2>1, CallsStarted, SMTT(30)
  <2>4. \A m \in DOMAIN appendReqs' :
           \/ m \in DOMAIN appendReqs
           \/ /\ m.from # m.to /\ m.from \in Server
              /\ state[m.from] = "Leader" /\ m.term = currentTerm[m.from]
    BY <2>2, <2>3, Zenon
  <2> QED BY <2>4, <1>SameRoles
  (* handleAppendEntriesResponse: follow, ignore, advance or call again. *)
<1>AppendEntriesResponseRoles.
      ASSUME TypeOK, TypeOK', RoleInv,
             NEW m \in DOMAIN appendResps, HandleAppendEntriesResponse(m),
             m.from # m.to
      PROVE  RoleInv'
  <2> USE <1>AppendEntriesResponseRoles
  <2>1. UNCHANGED <<elected, voteReqs>>
    BY Zenon DEF HandleAppendEntriesResponse, voteNet, history
  <2>2. m.to \in Server /\ m.from \in Server /\ m.term \in Nat
    BY ZenonT(40) DEF TypeOK, IsCalls, AppendResponse, Term
  <2>3. CASE /\ m.term > currentTerm[m.to] /\ BecomeFollower(m.to, m.term)
             /\ UNCHANGED <<logVars, leaderVars, appendReqs>>
    BY <2>1, <2>2, <2>3, <1>BecomeFollowerRoles, Zenon
  <2>4. ASSUME UNCHANGED <<roleVars, termVars>>, appendReqs' = appendReqs PROVE RoleInv'
    <3>1. \A n \in DOMAIN appendReqs' : n \in DOMAIN appendReqs
      BY <2>4, Zenon
    <3> QED BY <2>1, <2>4, <3>1, <1>SameRoles
  <2>5. CASE AckAppend(m.to, m) /\ UNCHANGED <<roleVars, termVars>>
    <3>1. appendReqs' = appendReqs
      BY <2>5, ZenonT(40) DEF AckAppend
    <3> QED BY <2>4, <2>5, <3>1
  <2>6. CASE state[m.to] = "Leader" /\ BackUp(m.to, m) /\ UNCHANGED <<roleVars, termVars>>
    <3> DEFINE next == Larger(nextIndex[m.to][m.from] - 1, 1)
               call == AppendTo(m.to, m.from, next, log[m.to])
    <3>1. appendReqs' = Start(appendReqs, {call})
      BY <2>6, ZenonT(40) DEF BackUp
    <3>2. call.from = m.to /\ call.to = m.from /\ call.term = currentTerm[m.to]
      BY Zenon DEF AppendTo
    <3> HIDE DEF call
    <3>3. \A n \in DOMAIN appendReqs' : n \in DOMAIN appendReqs \/ n = call
      BY <3>1, CallsStarted, Zenon
    <3>4. \A n \in DOMAIN appendReqs' :
             \/ n \in DOMAIN appendReqs
             \/ /\ n.from # n.to /\ n.from \in Server
                /\ state[n.from] = "Leader" /\ n.term = currentTerm[n.from]
      BY <2>2, <2>6, <3>2, <3>3, Zenon
    <3> QED BY <2>1, <2>6, <3>4, <1>SameRoles
  <2> QED BY <2>3, <2>4, <2>5, <2>6, Zenon DEF HandleAppendEntriesResponse
<1> SUFFICES ASSUME TypeOK, TypeOK', ElectionSafety, AnswersOthers, RoleInv, [Next]_vars
             PROVE  RoleInv'
  BY Zenon
<1>0. TypeOK'
  BY Zenon
<1>1. ASSUME NEW i \in Server, HandleElectionTimeout(i) PROVE RoleInv'
  BY <1>1, <1>ElectionTimeoutRoles, Zenon
<1>2. ASSUME NEW m \in voteReqs, HandleRequestVote(m) PROVE RoleInv'
  BY <1>0, <1>2, <1>RequestVoteRoles, Zenon
<1>3. ASSUME NEW m \in voteResps, HandleRequestVoteResponse(m) PROVE RoleInv'
  BY <1>0, <1>3, <1>RequestVoteResponseRoles, Zenon
<1>4. ASSUME NEW m \in DOMAIN appendReqs, HandleAppendEntries(m) PROVE RoleInv'
  BY <1>0, <1>4, <1>AppendEntriesRoles, Zenon
<1>5. ASSUME NEW m \in DOMAIN appendResps, HandleAppendEntriesResponse(m) PROVE RoleInv'
  BY <1>0, <1>5, <1>AppendEntriesResponseRoles, Zenon DEF AnswersOthers
<1>6. ASSUME UNCHANGED <<roleVars, termVars, elected, voteReqs, appendReqs>> PROVE RoleInv'
  <2>1. \A m \in DOMAIN appendReqs' : m \in DOMAIN appendReqs
    BY <1>6, ZenonT(40)
  <2> QED BY <1>6, <2>1, <1>SameRoles
<1>7. ASSUME NEW i \in Server, HandleHeartbeatTimeout(i) PROVE RoleInv'
  BY <1>7, <1>BroadcastRoles, Zenon DEF HandleHeartbeatTimeout, voteNet, history
<1>8. ASSUME NEW i \in Server, HandlePropose(i) PROVE RoleInv'
  <2>1. UNCHANGED <<roleVars, termVars, elected, voteReqs>>
    BY <1>8, Zenon DEF HandlePropose, voteNet, history
  <2>2. \/ UNCHANGED appendReqs
        \/ state[i] = "Leader" /\ \E l : BroadcastAppendEntries(i, l)
    BY <1>8, Zenon DEF HandlePropose
  <2> QED BY <1>6, <2>1, <2>2, <1>BroadcastRoles
<1>9. ASSUME NEW i \in Server, NEW cmd \in Command, Propose(i, cmd) PROVE RoleInv'
  BY <1>6, <1>9, Zenon DEF Propose, voteNet, appendNet, history
<1>10. CASE UNCHANGED vars
  BY <1>6, <1>10, Zenon DEF vars, voteNet, appendNet, history
<1> QED BY <1>1, <1>2, <1>3, <1>4, <1>5, <1>7, <1>8, <1>9, <1>10, Zenon DEF Next

-----------------------------------------------------------------------------
(* Sequences *)

(* The elements of a sequence. *)
LEMMA SeqElement == ASSUME NEW S, NEW q \in Seq(S), NEW n \in 1 .. Len(q) PROVE q[n] \in S
  OBVIOUS

(* The empty sequence. *)
LEMMA SeqEmpty ==
    ASSUME NEW S
    PROVE  <<>> \in Seq(S) /\ Len(<<>>) = 0 /\ \A q \in Seq(S) : q # <<>> => Len(q) \in Nat \ {0}
  OBVIOUS

(* The length and the domain of a sequence. *)
LEMMA SeqLen ==
    ASSUME NEW S, NEW q \in Seq(S)
    PROVE  Len(q) \in Nat /\ q \in [1 .. Len(q) -> S] /\ DOMAIN q = 1 .. Len(q)
  OBVIOUS

(* Sequences with the same elements are the same. *)
LEMMA SeqSame ==
    ASSUME NEW S, NEW q \in Seq(S), NEW r \in Seq(S), Len(q) = Len(r), \A n \in 1 .. Len(q) : q[n] = r[n]
    PROVE  q = r
  OBVIOUS

(* Concatenation. *)
LEMMA SeqConcat ==
    ASSUME NEW S, NEW q \in Seq(S), NEW r \in Seq(S)
    PROVE  /\ q \o r \in Seq(S) /\ Len(q \o r) = Len(q) + Len(r)
           /\ \A n \in 1 .. Len(q) + Len(r) : (q \o r)[n] = IF n <= Len(q) THEN q[n] ELSE r[n - Len(q)]
  OBVIOUS

(* A part of a sequence. *)
LEMMA SeqPart ==
    ASSUME NEW S, NEW q, NEW a \in Int, NEW b \in Int, \A n \in a .. b : q[n] \in S
    PROVE  /\ SubSeq(q, a, b) \in Seq(S)
           /\ Len(SubSeq(q, a, b)) = IF a <= b THEN b - a + 1 ELSE 0
           /\ \A n \in 1 .. b - a + 1 : SubSeq(q, a, b)[n] = q[a + n - 1]
  OBVIOUS

(* The tail of a sequence. *)
LEMMA SeqTail ==
    ASSUME NEW S, NEW q \in Seq(S), q # <<>>
    PROVE  /\ Head(q) \in S /\ Tail(q) \in Seq(S) /\ Len(Tail(q)) = Len(q) - 1
           /\ \A n \in 1 .. Len(Tail(q)) : Tail(q)[n] = q[n + 1]
  OBVIOUS

(* Appending an element. *)
LEMMA SeqAppend ==
    ASSUME NEW S, NEW q \in Seq(S), NEW e \in S
    PROVE  /\ Append(q, e) \in Seq(S) /\ Append(q, e) # <<>> /\ Len(Append(q, e)) = Len(q) + 1
           /\ \A n \in 1 .. Len(q) : Append(q, e)[n] = q[n]
           /\ Append(q, e)[Len(q) + 1] = e
  OBVIOUS

-----------------------------------------------------------------------------
(* Types of the helpers *)

(* Every step of a node keeps the types. *)
LEMMA NextType == HighestExists /\ TypeOK /\ [Next]_vars => TypeOK'
  (* Starting calls of type S leaves only calls of type S in flight. *)
<1>StartType.
      ASSUME NEW S, NEW calls, IsCalls(calls, S), NEW T \in SUBSET S
      PROVE  IsCalls(Start(calls, T), S)
  BY <1>StartType DEF IsCalls, Start, Copies
  (* So does finishing one. *)
<1>FinishType.
      ASSUME NEW S, NEW calls, IsCalls(calls, S), NEW m \in DOMAIN calls
      PROVE  IsCalls(Finish(calls, m), S)
  BY <1>FinishType DEF IsCalls, Finish
  (* Log.Last returns natural numbers. *)
<1>LastType.
      ASSUME NEW l \in Seq(LogEntry)
      PROVE  LastIndex(l) \in Nat /\ LastTerm(l) \in Nat
  <2> USE <1>LastType
  <2>1. CASE l = <<>>
    BY <2>1, Zenon DEF LastIndex, LastTerm
  <2>2. CASE l # <<>>
    <3>1. Len(l) \in 1 .. Len(l)
      BY <2>2, SeqEmpty
    <3>2. l[Len(l)] \in LogEntry
      BY <3>1, SeqElement, Zenon
    <3> QED BY <2>2, <3>2 DEF LastIndex, LastTerm, LogEntry, Term
  <2> QED BY <2>1, <2>2
  (* A part of a log is a log. *)
<1>PartType.
      ASSUME NEW l \in Seq(LogEntry), NEW a \in Nat \ {0}, NEW b \in Int
      PROVE  SubSeq(l, a, Smaller(b, Len(l))) \in Seq(LogEntry)
  <2> USE <1>PartType
  <2>1. Len(l) \in Nat
    BY SeqLen, Zenon
  <2>2. Smaller(b, Len(l)) \in Int /\ Smaller(b, Len(l)) <= Len(l)
    BY <2>1 DEF Smaller
  <2>3. \A n \in a .. Smaller(b, Len(l)) : l[n] \in LogEntry
    BY <2>1, <2>2, SeqElement, SMTT(30)
  <2> HIDE DEF Smaller
  <2> QED BY <2>2, <2>3, SeqPart
  (* sendAppendEntriesTo sends a well-formed request. *)
<1>AppendToType.
      ASSUME TypeOK, NEW i \in Server, NEW j \in Server,
             NEW next \in Nat \ {0}, NEW l \in Seq(LogEntry)
      PROVE  AppendTo(i, j, next, l) \in AppendRequest
  <2> USE <1>AppendToType
  <2>1. next - 1 \in Nat
    OBVIOUS
  <2>2. Has(l, next - 1) => l[next - 1].term \in Term
    <3>1. Has(l, next - 1) => l[next - 1] \in LogEntry
      BY SeqElement, Zenon DEF Has
    <3> QED BY <3>1 DEF LogEntry
  <2>3. Slice(l, next, next + MaxBatch) \in Seq(LogEntry)
    <3>1. Larger(next, 1) \in Nat \ {0} /\ (next + MaxBatch) - 1 \in Int
      BY RaftAssumption DEF Larger
    <3>2. SubSeq(l, Larger(next, 1), Smaller((next + MaxBatch) - 1, Len(l)))
            \in Seq(LogEntry)
      BY <3>1, <1>PartType, Zenon
    <3> QED BY <3>2 DEF Slice
  <2>4. currentTerm[i] \in Term /\ commitIndex[i] \in Nat
    BY Zenon DEF TypeOK
  <2> QED BY <2>1, <2>2, <2>3, <2>4 DEF AppendTo, AppendRequest, Term
  (* advanceCommitIndex yields a natural number. *)
<1>AdvancedCommitType.
      ASSUME HighestExists, TypeOK, NEW i \in Server, NEW l \in Seq(LogEntry), NEW match
      PROVE  AdvancedCommit(i, l, match) \in Nat
  <2> USE <1>AdvancedCommitType
  <2> DEFINE S == Committable(i, l, match)
  <2>1. commitIndex[i] \in Nat /\ Len(l) \in Nat
    BY SeqLen, Zenon DEF TypeOK
  <2>2. S \in SUBSET (0 .. Len(l))
    BY <2>1 DEF Committable
  <2>3. CASE S = {}
    BY <2>1, <2>3, Zenon DEF AdvancedCommit
  <2>4. CASE S # {}
    <3> HIDE DEF S
    <3>1. \E n \in S : \A k \in S : k <= n
      BY <2>1, <2>2, <2>4, Zenon DEF HighestExists
    <3>2. (CHOOSE n \in S : \A k \in S : k <= n) \in S
      BY <3>1, Zenon
    <3>3. S \subseteq Nat
      BY <2>1, <2>2
    <3>4. (CHOOSE n \in S : \A k \in S : k <= n) \in Nat
      BY <3>2, <3>3, Zenon
    <3> QED BY <2>4, <3>4 DEF AdvancedCommit, S
  <2> QED BY <2>3, <2>4
  (* applyCommitted leaves well-typed indices and a well-typed output. *)
<1>ApplyCommittedType.
      ASSUME TypeOK, NEW i \in Server, NEW l \in Seq(LogEntry), NEW c \in Nat,
             ApplyCommitted(i, l, c)
      PROVE  /\ commitIndex' \in [Server -> Nat]
             /\ lastApplied' \in [Server -> Nat]
             /\ applied' \in [Server -> Seq(LogEntry)]
  <2> USE <1>ApplyCommittedType
  <2>1. lastApplied[i] + 1 \in Nat \ {0} /\ Larger(lastApplied[i], c) \in Nat
    BY DEF TypeOK, Larger
  <2>2. SubSeq(l, lastApplied[i] + 1, Smaller(c, Len(l))) \in Seq(LogEntry)
    BY <2>1, <1>PartType, SMTT(30)
  <2>3. applied[i] \o SubSeq(l, lastApplied[i] + 1, Smaller(c, Len(l)))
           \in Seq(LogEntry)
    BY <2>2, SeqConcat, Zenon DEF TypeOK
  <2>4. /\ commitIndex \in [Server -> Nat] /\ lastApplied \in [Server -> Nat]
        /\ applied \in [Server -> Seq(LogEntry)]
    BY ZenonT(40) DEF TypeOK
  <2> QED BY <2>1, <2>3, <2>4, ZenonT(40) DEF ApplyCommitted
  (* handleElectionTimeout keeps the types. *)
<1>ElectionTimeoutType.
      ASSUME TypeOK, NEW i \in Server, HandleElectionTimeout(i)
      PROVE  TypeOK'
  <2> USE <1>ElectionTimeoutType
  <2>0. currentTerm[i] \in Nat /\ log[i] \in Seq(LogEntry) /\ voteReqs \subseteq VoteRequest
    BY Zenon DEF TypeOK, Term
  <2>1. voteReqs' \subseteq VoteRequest
    <3> DEFINE r(j) == [from |-> i, to |-> j, term |-> currentTerm[i] + 1,
                        lastIndex |-> LastIndex(log[i]), lastTerm |-> LastTerm(log[i])]
    <3>1. LastIndex(log[i]) \in Nat /\ LastTerm(log[i]) \in Nat
      BY <2>0, <1>LastType, Zenon
    <3>2. currentTerm[i] + 1 \in Nat
      BY <2>0
    <3>3. \A j \in Peers(i) : r(j) \in VoteRequest
      BY <3>1, <3>2, Zenon DEF VoteRequest, Peers, Term
    <3>4. voteReqs' = voteReqs \cup {r(j) : j \in Peers(i)}
      BY Zenon DEF HandleElectionTimeout, BroadcastRequestVote
    <3> HIDE DEF r
    <3> QED BY <2>0, <3>3, <3>4
  <2>2. /\ currentTerm' \in [Server -> Term]
        /\ votedFor' \in [Server -> Server \cup {Nil}]
        /\ state' \in [Server -> State]
        /\ votesReceived' \in [Server -> Nat]
        /\ electionTimer' \in [Server -> BOOLEAN]
        /\ counted' \in [Server -> SUBSET Server]
    <3>1. currentTerm[i] + 1 \in Term /\ 1 \in Nat /\ "Candidate" \in State
      BY <2>0 DEF Term, State
    <3> QED BY <3>1, ZenonT(40) DEF HandleElectionTimeout, BecomeCandidate, TypeOK
  <2>3. ballots' \subseteq [term : Term, voter : Server, candidate : Server]
    <3>1. Ballot(i, currentTerm[i] + 1, i) \in [term : Term, voter : Server, candidate : Server]
      BY <2>0 DEF Ballot, Term
    <3> QED BY <3>1, Zenon DEF HandleElectionTimeout, BecomeCandidate, TypeOK
  <2> QED BY <2>1, <2>2, <2>3, Zenon
          DEF HandleElectionTimeout, TypeOK, logVars, leaderVars, appendNet
  (* So does handleRequestVote. *)
<1>RequestVoteType.
      ASSUME TypeOK, NEW m \in voteReqs, HandleRequestVote(m)
      PROVE  TypeOK'
  <2> USE <1>RequestVoteType
  <2>1. m \in VoteRequest
    BY ZenonT(40) DEF TypeOK
  <2>2. m.to \in Server /\ m.from \in Server /\ m.term \in Nat
    BY <2>1, ZenonT(40) DEF VoteRequest, Term
  <2>3. TermAfter(m.to, m.term) \in Nat
    BY <2>2, ZenonT(40) DEF TypeOK, TermAfter, Larger, Term
  <2>4. VoteAfter(m.to, m.term) \in Server \cup {Nil}
    BY <2>2, ZenonT(40) DEF TypeOK, VoteAfter
  <2>5. GrantsVote(m.to, m) \in BOOLEAN
    BY Zenon DEF GrantsVote
  <2>6. /\ currentTerm' \in [Server -> Term]
        /\ votedFor' \in [Server -> Server \cup {Nil}]
        /\ state' \in [Server -> State]
        /\ leaderID' \in [Server -> Server \cup {Nil}]
    BY <2>2, <2>3, <2>4, ZenonT(40) DEF HandleRequestVote, TypeOK, State, Term
  <2>7. /\ electionTimer' \in [Server -> BOOLEAN]
        /\ heartbeatTimer' \in [Server -> BOOLEAN]
    BY <2>2, ZenonT(40) DEF HandleRequestVote, TypeOK
  <2>8. voteReqs' \subseteq VoteRequest /\ voteResps' \subseteq VoteResponse
    <3> DEFINE r == [from |-> m.to, to |-> m.from, reqTerm |-> m.term,
                     term |-> TermAfter(m.to, m.term),
                     granted |-> GrantsVote(m.to, m)]
    <3>1. r \in VoteResponse
      BY <2>2, <2>3, <2>5, ZenonT(40) DEF VoteResponse, Term
    <3>2. voteReqs' = voteReqs \ {m} /\ voteResps' = voteResps \cup {r}
      BY Zenon DEF HandleRequestVote
    <3> HIDE DEF r
    <3> QED BY <3>1, <3>2, ZenonT(40) DEF TypeOK
  <2>9. ballots' \subseteq [term : Term, voter : Server, candidate : Server]
    <3>1. Ballot(m.to, m.term, m.from)
            \in [term : Term, voter : Server, candidate : Server]
      BY <2>2, ZenonT(40) DEF Ballot, Term
    <3>2. ballots' \subseteq ballots \cup {Ballot(m.to, m.term, m.from)}
      BY Zenon DEF HandleRequestVote
    <3> QED BY <3>1, <3>2, ZenonT(40) DEF TypeOK
  <2> QED BY <2>6, <2>7, <2>8, <2>9, Zenon
          DEF HandleRequestVote, TypeOK, logVars, leaderVars, voteVars, appendNet
  (* What becomeFollower leaves is well typed. *)
<1>BecomeFollowerType.
      ASSUME TypeOK, NEW i \in Server, NEW t \in Nat, BecomeFollower(i, t)
      PROVE  /\ currentTerm' \in [Server -> Term]
             /\ votedFor' \in [Server -> Server \cup {Nil}]
             /\ state' \in [Server -> State]
             /\ leaderID' \in [Server -> Server \cup {Nil}]
             /\ electionTimer' \in [Server -> BOOLEAN]
             /\ heartbeatTimer' \in [Server -> BOOLEAN]
  <2> USE <1>BecomeFollowerType
  <2>1. TermAfter(i, t) \in Nat
    BY Zenon DEF TypeOK, TermAfter, Larger, Term
  <2>2. VoteAfter(i, t) \in Server \cup {Nil}
    BY ZenonT(40) DEF TypeOK, VoteAfter
  <2> QED BY <2>1, <2>2, Zenon DEF BecomeFollower, TypeOK, State, Term
  (* So does handleRequestVoteResponse. *)
<1>RequestVoteResponseType.
      ASSUME TypeOK, NEW m \in voteResps, HandleRequestVoteResponse(m)
      PROVE  TypeOK'
  <2> USE <1>RequestVoteResponseType
  <2> USE DEF logVars, appendNet
  <2>1. m \in VoteResponse
    BY Zenon DEF TypeOK
  <2>2. m.to \in Server /\ m.from \in Server /\ m.term \in Nat
    BY <2>1, Zenon DEF VoteResponse, Term
  <2>3. /\ voteResps' \subseteq VoteResponse
        /\ UNCHANGED <<logVars, proposeCh, voteReqs, appendNet, ballots>>
    BY Zenon DEF HandleRequestVoteResponse, TypeOK
  <2>4. CASE BecomeFollower(m.to, m.term) /\ UNCHANGED <<leaderVars, voteVars, elected>>
    BY <2>2, <2>3, <2>4, <1>BecomeFollowerType, Zenon DEF TypeOK, leaderVars, voteVars
  <2>5. CASE UNCHANGED <<roleVars, termVars, leaderVars, voteVars, elected>>
    BY <2>3, <2>5, Zenon DEF TypeOK, roleVars, termVars, leaderVars, voteVars
  <2>6. CASE CountVote(m)
    <3>1. /\ votesReceived' \in [Server -> Nat]
          /\ counted' \in [Server -> SUBSET Server]
          /\ UNCHANGED termVars
      <4>1. votesReceived[m.to] + 1 \in Nat
        <5>1. votesReceived[m.to] \in Nat
          BY <2>2, ZenonT(40) DEF TypeOK
        <5> QED BY <5>1
      <4>2. counted[m.to] \cup {m.from} \in SUBSET Server
        BY <2>2, Zenon DEF TypeOK
      <4> QED BY <2>2, <2>6, <4>1, <4>2, ZenonT(40) DEF CountVote, TypeOK
    <3>2. CASE BecomeLeader(m.to)
      <4>1. LastIndex(log[m.to]) + 1 \in Nat \ {0}
        <5>1. log[m.to] \in Seq(LogEntry)
          BY <2>2, Zenon DEF TypeOK
        <5> QED BY <5>1, <1>LastType, SMTT(30)
      <4>2. /\ nextIndex' \in [Server -> [Server -> Nat \ {0}]]
            /\ matchIndex' \in [Server -> [Server -> Nat]]
            /\ state' \in [Server -> State]
            /\ leaderID' \in [Server -> Server \cup {Nil}]
        BY <2>2, <3>2, <4>1, Zenon DEF BecomeLeader, TypeOK, State
      <4>3. /\ electionTimer' \in [Server -> BOOLEAN]
            /\ heartbeatTimer' \in [Server -> BOOLEAN]
        BY <2>2, <3>2, Zenon DEF BecomeLeader, TypeOK
      <4>4. elected' \subseteq [term : Term, leader : Server]
        <5>1. [term |-> currentTerm[m.to], leader |-> m.to]
                \in [term : Term, leader : Server]
          BY <2>2, Zenon DEF TypeOK
        <5> QED BY <3>2, <5>1, ZenonT(40) DEF BecomeLeader, TypeOK
      <4> QED BY <2>3, <3>1, <4>2, <4>3, <4>4, Zenon DEF TypeOK, termVars
    <3>3. CASE UNCHANGED <<roleVars, leaderVars, elected>>
      BY <2>3, <3>1, <3>3, Zenon DEF TypeOK, roleVars, leaderVars, termVars
    <3> QED BY <2>6, <3>2, <3>3 DEF CountVote
  <2> QED BY <2>4, <2>5, <2>6 DEF HandleRequestVoteResponse
  (* broadcastAppendEntries starts well-formed calls. *)
<1>BroadcastType.
      ASSUME TypeOK, NEW i \in Server, NEW l \in Seq(LogEntry),
             BroadcastAppendEntries(i, l)
      PROVE  IsCalls(appendReqs', AppendRequest)
  <2> USE <1>BroadcastType
  <2> DEFINE T == {AppendTo(i, j, nextIndex[i][j], l) : j \in Peers(i)}
  <2>1. \A j \in Peers(i) : AppendTo(i, j, nextIndex[i][j], l) \in AppendRequest
    <3> TAKE j \in Peers(i)
    <3>1. j \in Server /\ nextIndex[i][j] \in Nat \ {0}
      BY DEF Peers, TypeOK
    <3> QED BY <3>1, <1>AppendToType
  <2>2. T \in SUBSET AppendRequest
    BY <2>1, Zenon
  <2>3. IsCalls(appendReqs, AppendRequest)
    BY Zenon DEF TypeOK
  <2>4. appendReqs' = Start(appendReqs, T)
    BY Zenon DEF BroadcastAppendEntries
  <2> HIDE DEF T
  <2> QED BY <2>2, <2>3, <2>4, <1>StartType
  (* So does handleHeartbeatTimeout. *)
<1>HeartbeatTimeoutType.
      ASSUME TypeOK, NEW i \in Server, HandleHeartbeatTimeout(i)
      PROVE  TypeOK'
  <2> USE <1>HeartbeatTimeoutType
  <2>1. IsCalls(appendReqs', AppendRequest)
    BY <1>BroadcastType, Zenon DEF HandleHeartbeatTimeout, TypeOK
  <2> QED BY <2>1, Zenon DEF HandleHeartbeatTimeout, TypeOK, roleVars, termVars, logVars,
             leaderVars, voteVars, voteNet, history
  (* So does Propose. *)
<1>ProposeType.
      ASSUME TypeOK, NEW i \in Server, NEW cmd \in Command, Propose(i, cmd)
      PROVE  TypeOK'
  <2> USE <1>ProposeType
  <2>1. Append(proposeCh[i], cmd) \in Seq(Command)
    BY SeqAppend, ZenonT(40) DEF TypeOK
  <2> QED BY <2>1, ZenonT(40) DEF Propose, TypeOK, roleVars, termVars, logVars,
             leaderVars, voteVars, voteNet, appendNet, history
  (* So does handlePropose. *)
<1>HandleProposeType.
      ASSUME HighestExists, TypeOK, NEW i \in Server, HandlePropose(i)
      PROVE  TypeOK'
  <2> USE <1>HandleProposeType
  <2>1. /\ proposeCh[i] # <<>>
        /\ proposeCh' = [proposeCh EXCEPT ![i] = Tail(@)]
        /\ UNCHANGED <<roleVars, termVars, leaderVars, voteVars, voteNet,
                       appendResps, history>>
    BY Zenon DEF HandlePropose
  <2>2. Head(proposeCh[i]) \in Command /\ Tail(proposeCh[i]) \in Seq(Command)
    BY <2>1, SeqTail, Zenon DEF TypeOK
  <2>3. proposeCh' \in [Server -> Seq(Command)]
    BY <2>1, <2>2, Zenon DEF TypeOK
  <2>4. CASE UNCHANGED <<logVars, appendReqs>>
    BY <2>1, <2>3, <2>4, Zenon DEF TypeOK, roleVars, termVars, logVars, leaderVars,
       voteVars, voteNet, history
  <2>5. CASE state[i] = "Leader"
    <3> DEFINE entry == [index |-> LastIndex(log[i]) + 1, term |-> currentTerm[i],
                         cmd |-> Head(proposeCh[i])]
               newLog == Append(log[i], entry)
               c == AdvancedCommit(i, newLog, matchIndex[i])
    <3>1. newLog \in Seq(LogEntry)
      <4>1. log[i] \in Seq(LogEntry) /\ currentTerm[i] \in Term
        BY Zenon DEF TypeOK
      <4>2. LastIndex(log[i]) + 1 \in Nat
        BY <4>1, <1>LastType
      <4>3. entry \in LogEntry
        BY <2>2, <4>1, <4>2, Zenon DEF LogEntry
      <4> HIDE DEF entry
      <4> QED BY <4>1, <4>3, SeqAppend
    <3>2. /\ log' = [log EXCEPT ![i] = newLog]
          /\ BroadcastAppendEntries(i, newLog)
          /\ ApplyCommitted(i, newLog, c)
      BY <2>5, Zenon DEF HandlePropose
    <3> HIDE DEF newLog
    <3>3. IsCalls(appendReqs', AppendRequest)
      BY <3>1, <3>2, <1>BroadcastType, Zenon
    <3>4. c \in Nat
      BY <3>1, <1>AdvancedCommitType, Zenon
    <3> HIDE DEF c
    <3>5. /\ commitIndex' \in [Server -> Nat]
          /\ lastApplied' \in [Server -> Nat]
          /\ applied' \in [Server -> Seq(LogEntry)]
      BY <3>1, <3>2, <3>4, <1>ApplyCommittedType, Zenon
    <3>6. log' \in [Server -> Seq(LogEntry)]
      BY <3>1, <3>2, ZenonT(40) DEF TypeOK
    <3> QED BY <2>1, <2>3, <3>3, <3>5, <3>6, Zenon DEF TypeOK, roleVars, termVars,
               leaderVars, voteVars, voteNet, history
  <2> QED BY <2>4, <2>5, ZenonT(40) DEF HandlePropose
  (* So does handleAppendEntriesResponse. *)
<1>AppendEntriesResponseType.
      ASSUME HighestExists, TypeOK, NEW m \in DOMAIN appendResps, HandleAppendEntriesResponse(m)
      PROVE  TypeOK'
  <2> USE <1>AppendEntriesResponseType
  <2>1. m \in AppendResponse
    BY Zenon DEF TypeOK, IsCalls
  <2>2. /\ m.to \in Server /\ m.from \in Server
        /\ m.term \in Nat /\ m.lastIndex \in Nat
    BY <2>1, Zenon DEF AppendResponse, Term
  <2>3. IsCalls(appendResps', AppendResponse)
    <3>1. appendResps' = Finish(appendResps, m) /\ IsCalls(appendResps, AppendResponse)
      BY ZenonT(40) DEF HandleAppendEntriesResponse, TypeOK
    <3> QED BY <3>1, <1>FinishType, Zenon
  <2>4. UNCHANGED <<voteVars, proposeCh, voteNet, history>>
    BY ZenonT(40) DEF HandleAppendEntriesResponse
  <2>5. log[m.to] \in Seq(LogEntry)
    BY <2>2, Zenon DEF TypeOK
  <2>6. /\ matchIndex[m.to] \in [Server -> Nat]
         /\ nextIndex[m.to] \in [Server -> Nat \ {0}]
    BY <2>2, Zenon DEF TypeOK
  <2>7. CASE BecomeFollower(m.to, m.term) /\ UNCHANGED <<logVars, leaderVars, appendReqs>>
    BY <2>2, <2>3, <2>4, <2>7, <1>BecomeFollowerType, Zenon
       DEF TypeOK, logVars, leaderVars, voteVars, voteNet, history
  <2>8. CASE UNCHANGED <<roleVars, termVars, logVars, leaderVars, appendReqs>>
    BY <2>3, <2>4, <2>8, Zenon
       DEF TypeOK, roleVars, termVars, logVars, leaderVars, voteVars, voteNet, history
  <2>9. CASE AckAppend(m.to, m) /\ UNCHANGED <<roleVars, termVars>>
    <3> DEFINE match == IF m.lastIndex > matchIndex[m.to][m.from]
                          THEN [matchIndex[m.to] EXCEPT ![m.from] = m.lastIndex]
                          ELSE matchIndex[m.to]
               next == IF m.lastIndex > matchIndex[m.to][m.from]
                         THEN [nextIndex[m.to] EXCEPT ![m.from] = m.lastIndex + 1]
                         ELSE nextIndex[m.to]
               c == AdvancedCommit(m.to, log[m.to], match)
    <3>1. /\ matchIndex' = [matchIndex EXCEPT ![m.to] = match]
          /\ nextIndex' = [nextIndex EXCEPT ![m.to] = next]
          /\ ApplyCommitted(m.to, log[m.to], c)
          /\ UNCHANGED <<log, appendReqs>>
      BY <2>9, ZenonT(40) DEF AckAppend
    <3>2. match \in [Server -> Nat] /\ next \in [Server -> Nat \ {0}]
      <4>1. m.lastIndex + 1 \in Nat \ {0}
        BY <2>2
      <4> QED BY <2>2, <2>6, <4>1
    <3>3. c \in Nat
      BY <2>2, <2>5, <1>AdvancedCommitType, Zenon
    <3> HIDE DEF match, next, c
    <3>4. /\ commitIndex' \in [Server -> Nat]
          /\ lastApplied' \in [Server -> Nat]
          /\ applied' \in [Server -> Seq(LogEntry)]
      BY <2>2, <2>5, <3>1, <3>3, <1>ApplyCommittedType, ZenonT(40)
    <3>5. /\ matchIndex' \in [Server -> [Server -> Nat]]
          /\ nextIndex' \in [Server -> [Server -> Nat \ {0}]]
      BY <2>2, <3>1, <3>2, Zenon DEF TypeOK
    <3> QED BY <2>3, <2>4, <2>9, <3>1, <3>4, <3>5, ZenonT(40)
            DEF TypeOK, roleVars, termVars, voteVars, voteNet, history
  <2>10. CASE BackUp(m.to, m) /\ UNCHANGED <<roleVars, termVars>>
    <3> DEFINE next == Larger(nextIndex[m.to][m.from] - 1, 1)
               T == {AppendTo(m.to, m.from, next, log[m.to])}
    <3>1. /\ nextIndex' = [nextIndex EXCEPT ![m.to][m.from] = next]
          /\ appendReqs' = Start(appendReqs, T)
          /\ UNCHANGED <<matchIndex, logVars>>
      BY <2>10, Zenon DEF BackUp
    <3>2. nextIndex[m.to][m.from] \in Nat \ {0}
      BY <2>2, <2>6, Zenon
    <3>3. next \in Nat \ {0}
      BY <3>2 DEF Larger
    <3> HIDE DEF next
    <3>4. T \in SUBSET AppendRequest
      BY <2>2, <2>5, <3>3, <1>AppendToType
    <3> HIDE DEF T
    <3>5. IsCalls(appendReqs', AppendRequest)
      <4>1. IsCalls(appendReqs, AppendRequest)
        BY Zenon DEF TypeOK
      <4> QED BY <3>1, <3>4, <4>1, <1>StartType
    <3>6. nextIndex' \in [Server -> [Server -> Nat \ {0}]]
      BY <2>2, <3>1, <3>3, Zenon DEF TypeOK
    <3> QED BY <2>3, <2>4, <2>10, <3>1, <3>5, <3>6, ZenonT(40)
            DEF TypeOK, roleVars, termVars, logVars, voteVars, voteNet, history
  <2> QED BY <2>7, <2>8, <2>9, <2>10 DEF HandleAppendEntriesResponse
  (* So does handleAppendEntries. *)
<1>AppendEntriesType.
      ASSUME TypeOK, NEW m \in DOMAIN appendReqs, HandleAppendEntries(m)
      PROVE  TypeOK'
  <2> USE <1>AppendEntriesType
  <2>1. m \in AppendRequest
    BY Zenon DEF TypeOK, IsCalls
  <2>2. /\ m.to \in Server /\ m.from \in Server
        /\ m.term \in Nat /\ m.prevIndex \in Nat /\ m.commit \in Nat
        /\ m.entries \in Seq(LogEntry)
    BY <2>1, Zenon DEF AppendRequest, Term
  <2>3. UNCHANGED <<leaderVars, voteVars, proposeCh, voteNet, history>>
    BY Zenon DEF HandleAppendEntries
  <2>4. ASSUME NEW term \in Nat, NEW success \in BOOLEAN, NEW last \in Nat,
               ReplyToAppend(m, term, success, last)
        PROVE  /\ IsCalls(appendReqs', AppendRequest)
               /\ IsCalls(appendResps', AppendResponse)
    <3> DEFINE r == [from |-> m.to, to |-> m.from, term |-> term,
                     success |-> success, lastIndex |-> last]
    <3>1. {r} \in SUBSET AppendResponse
      BY <2>2 DEF AppendResponse, Term
    <3>2. /\ appendReqs' = Finish(appendReqs, m)
          /\ appendResps' = Start(appendResps, {r})
      BY <2>4, Zenon DEF ReplyToAppend
    <3> HIDE DEF r
    <3>3. /\ IsCalls(appendReqs, AppendRequest)
          /\ IsCalls(appendResps, AppendResponse)
      BY Zenon DEF TypeOK
    <3> QED BY <3>1, <3>2, <3>3, <1>StartType, <1>FinishType
  <2>5. ASSUME FollowSender(m)
        PROVE  /\ currentTerm' \in [Server -> Term]
               /\ votedFor' \in [Server -> Server \cup {Nil}]
               /\ state' \in [Server -> State]
               /\ leaderID' \in [Server -> Server \cup {Nil}]
               /\ electionTimer' \in [Server -> BOOLEAN]
               /\ heartbeatTimer' \in [Server -> BOOLEAN]
    <3>1. TermAfter(m.to, m.term) \in Term
      <4>1. currentTerm[m.to] \in Nat
        BY <2>2, ZenonT(40) DEF TypeOK, Term
      <4> QED BY <2>2, <4>1, ZenonT(40) DEF TermAfter, Larger, Term
    <3>2. VoteAfter(m.to, m.term) \in Server \cup {Nil}
      BY <2>2, ZenonT(40) DEF TypeOK, VoteAfter
    <3> QED BY <2>2, <2>5, <3>1, <3>2, ZenonT(40) DEF FollowSender, TypeOK, State
  <2>6. CASE RefuseStaleAppend(m)
    <3>1. currentTerm[m.to] \in Nat
      BY <2>2, Zenon DEF TypeOK, Term
    <3>2. /\ ReplyToAppend(m, currentTerm[m.to], FALSE, 0)
          /\ UNCHANGED <<roleVars, termVars, logVars>>
      BY <2>6, Zenon DEF RefuseStaleAppend
    <3>3. IsCalls(appendReqs', AppendRequest) /\ IsCalls(appendResps', AppendResponse)
      BY <2>4, <3>1, <3>2, Zenon
    <3> QED BY <2>3, <3>2, <3>3, ZenonT(40)
            DEF TypeOK, roleVars, termVars, logVars, leaderVars, voteVars, voteNet, history
  <2>7. CASE RefuseGap(m)
    <3>1. FollowSender(m) /\ ReplyToAppend(m, m.term, FALSE, 0) /\ UNCHANGED logVars
      BY <2>7, Zenon DEF RefuseGap
    <3>2. IsCalls(appendReqs', AppendRequest) /\ IsCalls(appendResps', AppendResponse)
      BY <2>2, <2>4, <3>1, Zenon
    <3> QED BY <2>3, <2>5, <3>1, <3>2, Zenon
            DEF TypeOK, logVars, leaderVars, voteVars, voteNet, history
  <2>8. CASE AcceptAppend(m)
    <3> DEFINE newLog == Overwrite(log[m.to], m)
               c == Smaller(m.commit, LastIndex(newLog))
               last == m.prevIndex + Len(m.entries)
    <3>1. /\ FollowSender(m)
          /\ log' = [log EXCEPT ![m.to] = newLog]
          /\ IF m.commit > commitIndex[m.to]
               THEN ApplyCommitted(m.to, newLog, c)
               ELSE UNCHANGED <<commitIndex, lastApplied, applied>>
          /\ ReplyToAppend(m, m.term, TRUE, last)
      BY <2>8, Zenon DEF AcceptAppend
    <3>2. newLog \in Seq(LogEntry)
      <4>1. log[m.to] \in Seq(LogEntry)
        BY <2>2, Zenon DEF TypeOK
      <4>2. (m.prevIndex + 1) - 1 \in Int
        BY <2>2
      <4>3. Truncate(log[m.to], m.prevIndex + 1) \in Seq(LogEntry)
        <5> DEFINE b == (m.prevIndex + 1) - 1
        <5>1. b \in Int /\ 1 \in Nat \ {0}
          BY <4>2
        <5> HIDE DEF b
        <5>2. SubSeq(log[m.to], 1, Smaller(b, Len(log[m.to]))) \in Seq(LogEntry)
          BY <4>1, <5>1, <1>PartType, Zenon
        <5> QED BY <5>2 DEF Truncate, b
      <4>4. Truncate(log[m.to], m.prevIndex + 1) \o m.entries \in Seq(LogEntry)
        BY <2>2, <4>3, SeqConcat, Zenon
      <4> QED BY <4>1, <4>4 DEF Overwrite
    <3>3. LastIndex(newLog) \in Nat
      BY <3>2, <1>LastType, ZenonT(40)
    <3>4. c \in Nat
      BY <2>2, <3>3, ZenonT(40) DEF Smaller
    <3>5. last \in Nat
      <4>1. Len(m.entries) \in Nat
        BY <2>2, SeqLen, Zenon
      <4> QED BY <2>2, <4>1
    <3> HIDE DEF newLog, c, last
    <3>6. IsCalls(appendReqs', AppendRequest) /\ IsCalls(appendResps', AppendResponse)
      BY <2>2, <2>4, <3>1, <3>5, ZenonT(40)
    <3>7. /\ commitIndex' \in [Server -> Nat]
          /\ lastApplied' \in [Server -> Nat]
          /\ applied' \in [Server -> Seq(LogEntry)]
      <4>1. CASE ApplyCommitted(m.to, newLog, c)
        BY <2>2, <3>2, <3>4, <4>1, <1>ApplyCommittedType, ZenonT(40)
      <4>2. CASE UNCHANGED <<commitIndex, lastApplied, applied>>
        BY <4>2, Zenon DEF TypeOK
      <4> QED BY <3>1, <4>1, <4>2, ZenonT(40)
    <3>8. log' \in [Server -> Seq(LogEntry)]
      BY <2>2, <3>1, <3>2, ZenonT(40) DEF TypeOK
    <3> QED BY <2>3, <2>5, <3>1, <3>6, <3>7, <3>8, Zenon
            DEF TypeOK, leaderVars, voteVars, voteNet, history
  <2> QED BY <2>6, <2>7, <2>8 DEF HandleAppendEntries
<1> SUFFICES ASSUME HighestExists, TypeOK, [Next]_vars PROVE TypeOK'
  BY Zenon
<1>1. ASSUME NEW i \in Server, HandleElectionTimeout(i) PROVE TypeOK'
  BY <1>1, <1>ElectionTimeoutType, Zenon
<1>2. ASSUME NEW i \in Server, HandleHeartbeatTimeout(i) PROVE TypeOK'
  BY <1>2, <1>HeartbeatTimeoutType, Zenon
<1>3. ASSUME NEW i \in Server, HandlePropose(i) PROVE TypeOK'
  BY <1>3, <1>HandleProposeType, Zenon
<1>4. ASSUME NEW i \in Server, NEW cmd \in Command, Propose(i, cmd) PROVE TypeOK'
  BY <1>4, <1>ProposeType, Zenon
<1>5. ASSUME NEW m \in voteReqs, HandleRequestVote(m) PROVE TypeOK'
  BY <1>5, <1>RequestVoteType, Zenon
<1>6. ASSUME NEW m \in voteResps, HandleRequestVoteResponse(m) PROVE TypeOK'
  BY <1>6, <1>RequestVoteResponseType, Zenon
<1>7. ASSUME NEW m \in DOMAIN appendReqs, HandleAppendEntries(m) PROVE TypeOK'
  BY <1>7, <1>AppendEntriesType, Zenon
<1>8. ASSUME NEW m \in DOMAIN appendResps, HandleAppendEntriesResponse(m)
      PROVE  TypeOK'
  BY <1>8, <1>AppendEntriesResponseType, Zenon
<1>9. CASE UNCHANGED vars
  BY <1>9, Zenon DEF vars, TypeOK, roleVars, termVars, logVars, leaderVars, voteVars,
     voteNet, appendNet, history
<1> QED BY <1>1, <1>2, <1>3, <1>4, <1>5, <1>6, <1>7, <1>8, <1>9 DEF Next

(* A new node has its types. *)
LEMMA InitType == Init => TypeOK
<1> SUFFICES ASSUME Init PROVE TypeOK
  BY Zenon
<1>1. IsCalls(NoCalls, AppendRequest) /\ IsCalls(NoCalls, AppendResponse)
  BY Zenon DEF IsCalls, NoCalls
<1>2. <<>> \in Seq(LogEntry) /\ <<>> \in Seq(Command)
  BY SeqEmpty, ZenonT(40)
<1> QED BY <1>1, <1>2 DEF Init, TypeOK, State, Term

-----------------------------------------------------------------------------
(* Operations on logs *)

(* The entries of a part of a log. *)
LEMMA PartEntries ==
    ASSUME NEW l \in Seq(LogEntry), NEW a \in Nat \ {0}, NEW b \in Int
    PROVE  LET p == SubSeq(l, a, Smaller(b, Len(l)))
           IN  /\ p \in Seq(LogEntry) /\ Len(p) \in Nat /\ DOMAIN p = 1 .. Len(p)
               /\ Len(p) = IF a <= Smaller(b, Len(l)) THEN Smaller(b, Len(l)) - a + 1 ELSE 0
               /\ \A n \in 1 .. Len(p) : p[n] = l[a + n - 1] /\ a + n - 1 \in 1 .. Len(l)
<1> DEFINE c == Smaller(b, Len(l))
           p == SubSeq(l, a, c)
<1>1. Len(l) \in Nat /\ DOMAIN l = 1 .. Len(l)
  BY SeqLen, Zenon
<1>2. c \in Int /\ c <= Len(l)
  BY <1>1 DEF Smaller
<1> HIDE DEF c
<1>3. \A n \in a .. c : l[n] \in LogEntry
  BY <1>1, <1>2, SeqElement
<1>4. /\ p \in Seq(LogEntry) /\ Len(p) = IF a <= c THEN c - a + 1 ELSE 0
      /\ \A n \in 1 .. c - a + 1 : p[n] = l[a + n - 1]
  <2>1. a \in Int
    OBVIOUS
  <2> QED BY <1>2, <1>3, <2>1, SeqPart
<1>5. Len(p) \in Nat /\ DOMAIN p = 1 .. Len(p)
  BY <1>4, SeqLen, Zenon
<1> HIDE DEF p
<1>6. \A n \in 1 .. Len(p) : p[n] = l[a + n - 1] /\ a + n - 1 \in 1 .. Len(l)
  BY <1>1, <1>2, <1>4, <1>5
<1> QED BY <1>4, <1>5, <1>6, ZenonT(40) DEF p, c

(* Call m repeats links of log l. *)
Repeats(m, l) ==
    /\ LinksOf(m.entries, m.prevTerm) \subseteq LinksOf(l, 0)
    /\ \A n \in DOMAIN m.entries : m.entries[n].index = m.prevIndex + n
    /\ m.prevIndex = 0 => m.prevTerm = 0

(* A link is one of a log or one of a call. *)
LEMMA WhereLinksAre ==
    ASSUME NEW a
    PROVE  a \in Links <=> \/ \E i \in Server : a \in LinksOf(log[i], 0)
                           \/ \E m \in DOMAIN appendReqs : a \in LinksOf(m.entries, m.prevTerm)
BY Zenon DEF Links

(* Log.LastIndex is the length of a log whose indices are places. *)
LEMMA LastIsLength ==
    ASSUME NEW l \in Seq(LogEntry), \A n \in DOMAIN l : l[n].index = n
    PROVE  LastIndex(l) = Len(l)
<1>1. Len(l) \in Nat /\ DOMAIN l = 1 .. Len(l) /\ (l = <<>> <=> Len(l) = 0)
  BY SeqLen, SeqEmpty, Zenon
<1> QED BY <1>1 DEF LastIndex

(* Every step keeps the links of logs and calls unambiguous. *)
LEMMA NextLog ==
    /\ TypeOK /\ TypeOK' /\ ElectionSafety /\ ElectionSafety' /\ LeadershipInv
    /\ LogInv /\ [Next]_vars
    => LogInv'
  (* sendAppendEntriesTo: a call repeats links of the sender's log. *)
<1>AppendToLinks.
      ASSUME NEW i, NEW j, NEW next \in Nat \ {0}, NEW l \in Seq(LogEntry),
             \A n \in DOMAIN l : l[n].index = n
      PROVE  Repeats(AppendTo(i, j, next, l), l)
  <2> USE <1>AppendToLinks
  <2> DEFINE m == AppendTo(i, j, next, l)
             prev == IF Has(l, next - 1) THEN l[next - 1].term ELSE 0
             p == SubSeq(l, next, Smaller((next + MaxBatch) - 1, Len(l)))
  <2>1. m.prevIndex = next - 1 /\ m.prevTerm = prev /\ m.entries = p
    <3>1. Larger(next, 1) = next
      BY DEF Larger
    <3> QED BY <3>1, Zenon DEF AppendTo, Slice
  <2>2. (next + MaxBatch) - 1 \in Int
    BY RaftAssumption
  <2>3. /\ Len(p) \in Nat /\ DOMAIN p = 1 .. Len(p)
        /\ \A n \in 1 .. Len(p) : p[n] = l[next + n - 1] /\ next + n - 1 \in 1 .. Len(l)
    <3> HIDE DEF Smaller
    <3> QED BY <2>2, PartEntries, Zenon
  <2>4. Len(l) \in Nat /\ DOMAIN l = 1 .. Len(l)
    BY SeqLen, Zenon
  <2> HIDE DEF p, m
  <2>5. ASSUME NEW n \in DOMAIN p PROVE Link(p, n, prev) \in LinksOf(l, 0)
    <3> DEFINE k == next + n - 1
    <3>1. k \in DOMAIN l /\ p[n] = l[k] /\ k \in Nat \ {0} /\ n \in Nat \ {0}
      BY <2>3, <2>4
    <3>2. CASE n = 1
      <4>1. k = next
        BY <3>2
      <4>2. prev = IF k = 1 THEN 0 ELSE l[k - 1].term
        BY <2>4, <3>1, <4>1 DEF Has
      <4> HIDE DEF prev, k
      <4>3. Link(p, n, prev) = Link(l, k, 0)
        BY <3>1, <3>2, <4>2, Zenon DEF Link
      <4> QED BY <3>1, <4>3 DEF LinksOf
    <3>3. CASE n # 1
      <4>1. p[n - 1] = l[k - 1] /\ k # 1
        BY <2>3, <3>1, <3>3, SMTT(30)
      <4> HIDE DEF prev, k
      <4>2. Link(p, n, prev) = Link(l, k, 0)
        BY <3>1, <3>3, <4>1, Zenon DEF Link
      <4> QED BY <3>1, <4>2 DEF LinksOf
    <3> QED BY <3>2, <3>3
  <2>6. LinksOf(p, prev) \subseteq LinksOf(l, 0)
    <3> HIDE DEF prev
    <3> QED BY <2>5 DEF LinksOf
  <2>7. \A n \in DOMAIN p : p[n].index = (next - 1) + n
    <3>1. \A n \in 1 .. Len(p) : next + n - 1 = (next - 1) + n
      BY <2>3
    <3> QED BY <2>3, <2>4, <3>1, Zenon
  <2>8. next - 1 = 0 => prev = 0
    BY DEF Has
  <2>9. Repeats(m, l)
    BY <2>1, <2>6, <2>7, <2>8, ZenonT(40) DEF Repeats
  <2> QED BY <2>9 DEF m
  (* handleAppendEntries: the log is cut and extended without new links. *)
<1>OverwriteLinks.
      ASSUME NEW l \in Seq(LogEntry), NEW m \in AppendRequest, PrevMatches(l, m),
             \A n \in DOMAIN l : l[n].index = n,
             \A n \in DOMAIN m.entries : m.entries[n].index = m.prevIndex + n,
             m.prevIndex = 0 => m.prevTerm = 0
      PROVE  /\ LinksOf(Overwrite(l, m), 0) \subseteq
                   LinksOf(l, 0) \cup LinksOf(m.entries, m.prevTerm)
             /\ \A n \in DOMAIN Overwrite(l, m) : Overwrite(l, m)[n].index = n
  <2> USE <1>OverwriteLinks
  <2>1. CASE m.entries = <<>>
    BY <2>1, Zenon DEF Overwrite
  <2>2. CASE m.entries # <<>>
    <3> DEFINE b == m.prevIndex
               es == m.entries
               p == SubSeq(l, 1, Smaller(b, Len(l)))
               new == p \o es
    <3>1. b \in Nat /\ es \in Seq(LogEntry) /\ m.prevTerm \in Nat
      BY Zenon DEF AppendRequest, Term
    <3>2. Overwrite(l, m) = new
      <4>1. (b + 1) - 1 = b
        BY <3>1
      <4> QED BY <2>2, <4>1, Zenon DEF Overwrite, Truncate
    <3>3. Len(l) \in Nat /\ DOMAIN l = 1 .. Len(l) /\ Len(es) \in Nat /\ DOMAIN es = 1 .. Len(es)
      BY <3>1, SeqLen, Zenon
    <3>4. b <= Len(l) /\ (b > 0 => l[b].term = m.prevTerm)
      BY <3>1, <3>3 DEF PrevMatches, Has
    <3>5. /\ p \in Seq(LogEntry) /\ Len(p) = b
          /\ \A n \in 1 .. b : p[n] = l[n]
      <4>1. Smaller(b, Len(l)) = b
        BY <3>1, <3>3, <3>4 DEF Smaller
      <4>2. /\ p \in Seq(LogEntry)
            /\ Len(p) = IF 1 <= Smaller(b, Len(l)) THEN Smaller(b, Len(l)) - 1 + 1 ELSE 0
            /\ \A n \in 1 .. Len(p) : p[n] = l[1 + n - 1] /\ 1 + n - 1 \in 1 .. Len(l)
        <5> HIDE DEF Smaller
        <5>1. 1 \in Nat \ {0} /\ b \in Int
          BY <3>1
        <5> HIDE DEF b
        <5> QED BY <5>1, PartEntries, Zenon
      <4>3. Len(p) = b
        BY <3>1, <4>1, <4>2
      <4>4. \A n \in 1 .. b : 1 + n - 1 = n
        BY <3>1
      <4> HIDE DEF p
      <4> QED BY <4>2, <4>3, <4>4
    <3> HIDE DEF b, es, p
    <3>6. /\ new \in Seq(LogEntry) /\ Len(new) = b + Len(es)
          /\ \A n \in 1 .. b + Len(es) : new[n] = IF n <= b THEN p[n] ELSE es[n - b]
      BY <3>1, <3>5, SeqConcat, ZenonT(40)
    <3>7. DOMAIN new = 1 .. b + Len(es)
      BY <3>6, SeqLen, Zenon
    <3> HIDE DEF new
    <3>8. ASSUME NEW n \in DOMAIN new
          PROVE  /\ new[n].index = n
                 /\ Link(new, n, 0) \in LinksOf(l, 0) \cup LinksOf(es, m.prevTerm)
      <4>1. CASE n <= b
        <5>1. n \in DOMAIN l /\ new[n] = l[n] /\ (n # 1 => new[n - 1] = l[n - 1])
          BY <3>1, <3>3, <3>4, <3>5, <3>6, <3>7, <4>1
        <5>2. Link(new, n, 0) = Link(l, n, 0)
          BY <5>1, Zenon DEF Link
        <5> QED BY <5>1, <5>2 DEF LinksOf
      <4>2. CASE n > b
        <5> DEFINE k == n - b
        <5>1. k \in DOMAIN es /\ new[n] = es[k] /\ k \in Nat \ {0} /\ n = b + k
          BY <3>1, <3>3, <3>6, <3>7, <4>2
        <5>0. new[n].index = n
          BY <5>1, ZenonT(40) DEF b, es
        <5>2. CASE k = 1
          <6>1. (IF n = 1 THEN 0 ELSE new[n - 1].term) = m.prevTerm
            <7>1. CASE b = 0
              BY <5>1, <5>2, <7>1 DEF b
            <7>2. CASE b # 0
              <8>1. n # 1 /\ n - 1 = b /\ b \in 1 .. b + Len(es) /\ b \in 1 .. b
                BY <3>1, <3>3, <5>1, <5>2, <7>2
              <8>2. new[b] = l[b]
                BY <3>1, <3>5, <3>6, <8>1, SMTT(30)
              <8> QED BY <3>1, <3>4, <7>2, <8>1, <8>2
            <7> QED BY <7>1, <7>2
          <6>2. Link(new, n, 0) = Link(es, k, m.prevTerm)
            BY <5>1, <5>2, <6>1, Zenon DEF Link
          <6> HIDE DEF k
          <6>3. Link(es, k, m.prevTerm) \in LinksOf(es, m.prevTerm)
            BY <5>1, Zenon DEF LinksOf
          <6> QED BY <5>0, <6>2, <6>3
        <5>3. CASE k # 1
          <6>1. new[n - 1] = es[k - 1] /\ n # 1
            <7>1. /\ n - 1 \in 1 .. b + Len(es) /\ ~(n - 1 <= b) /\ n # 1
                  /\ (n - 1) - b = k - 1
              BY <3>1, <3>3, <3>7, <5>1, <5>3, SMTT(30)
            <7> HIDE DEF k
            <7> QED BY <3>6, <7>1
          <6> HIDE DEF k
          <6>2. Link(new, n, 0) = Link(es, k, m.prevTerm)
            BY <5>1, <5>3, <6>1, Zenon DEF Link
          <6>3. Link(es, k, m.prevTerm) \in LinksOf(es, m.prevTerm)
            BY <5>1, Zenon DEF LinksOf
          <6> QED BY <5>0, <6>2, <6>3
        <5> QED BY <5>2, <5>3
      <4> QED BY <3>1, <3>7, <4>1, <4>2
    <3> QED BY <3>2, <3>8 DEF LinksOf, es
  <2> QED BY <2>1, <2>2
  (* Append of raft/log.go: the new entry's link is the only new one. *)
<1>AppendLinks.
      ASSUME NEW l \in Seq(LogEntry), NEW e \in LogEntry, e.index = Len(l) + 1,
             \A n \in DOMAIN l : l[n].index = n
      PROVE  /\ \A a \in LinksOf(Append(l, e), 0) : a \in LinksOf(l, 0) \/ a.entry = e
             /\ \A n \in DOMAIN Append(l, e) : Append(l, e)[n].index = n
             /\ \A a, b \in LinksOf(Append(l, e), 0) : a.entry = e /\ b.entry = e => a = b
             /\ Len(Append(l, e)) = Len(l) + 1
  <2> USE <1>AppendLinks
  <2> DEFINE new == Append(l, e)
  <2>1. Len(l) \in Nat /\ DOMAIN l = 1 .. Len(l)
    BY SeqLen, Zenon
  <2>2. /\ new \in Seq(LogEntry) /\ Len(new) = Len(l) + 1
        /\ \A n \in 1 .. Len(l) : new[n] = l[n]
        /\ new[Len(l) + 1] = e
    BY SeqAppend
  <2>3. DOMAIN new = 1 .. Len(l) + 1
    BY <2>2, SeqLen, Zenon
  <2> HIDE DEF new
  <2>4. \A n \in DOMAIN new : new[n].index = n
    BY <2>1, <2>2, <2>3
  <2>5. ASSUME NEW n \in DOMAIN new
        PROVE  Link(new, n, 0) \in LinksOf(l, 0) \/ Link(new, n, 0).entry = e
    <3>1. CASE n = Len(l) + 1
      BY <2>2, <3>1, Zenon DEF Link
    <3>2. CASE n # Len(l) + 1
      <4>1. n \in DOMAIN l /\ new[n] = l[n] /\ (n # 1 => new[n - 1] = l[n - 1])
        BY <2>1, <2>2, <2>3, <3>2
      <4>2. Link(new, n, 0) = Link(l, n, 0)
        BY <4>1, Zenon DEF Link
      <4> QED BY <4>1, <4>2 DEF LinksOf
    <3> QED BY <3>1, <3>2
  <2>6. ASSUME NEW n \in DOMAIN new, Link(new, n, 0).entry = e PROVE n = Len(l) + 1
    <3>1. new[n] = e
      BY <2>6, Zenon DEF Link
    <3> QED BY <2>4, <3>1
  <2> QED BY <2>2, <2>4, <2>5, <2>6 DEF LinksOf, new
  (* The same, after a step. *)
<1>WhereLinksWillBe.
      ASSUME NEW a
      PROVE  a \in Links' <=> \/ \E i \in Server : a \in LinksOf(log'[i], 0)
                              \/ \E m \in DOMAIN appendReqs' : a \in LinksOf(m.entries, m.prevTerm)
  BY <1>WhereLinksWillBe, Zenon DEF Links
  (* Links are made of entries. *)
<1>LinksType.
      ASSUME TypeOK PROVE \A a \in Links : a.entry \in LogEntry
  <2> USE <1>LinksType
  <2>1. ASSUME NEW l \in Seq(LogEntry), NEW prev, NEW a \in LinksOf(l, prev)
        PROVE  a.entry \in LogEntry
    <3>1. PICK n \in DOMAIN l : a = Link(l, n, prev)
      BY Zenon DEF LinksOf
    <3>2. l[n] \in LogEntry
      BY SeqLen, SeqElement, Zenon
    <3> QED BY <3>1, <3>2 DEF Link
  <2>2. \A i \in Server : log[i] \in Seq(LogEntry)
    BY Zenon DEF TypeOK
  <2>3. \A m \in DOMAIN appendReqs : m.entries \in Seq(LogEntry)
    BY ZenonT(40) DEF TypeOK, IsCalls, AppendRequest
  <2> QED BY <2>1, <2>2, <2>3, WhereLinksAre
  (* A step without new links and without new leaders, whose logs get no shorter. *)
<1>NoNewLinks.
      ASSUME TypeOK, TypeOK', LogInv, IndexIsPlace', Links' \subseteq Links,
             elected' = elected,
             \A i \in Server : state'[i] = "Leader" =>
                /\ state[i] = "Leader" /\ currentTerm'[i] = currentTerm[i]
                /\ Len(log'[i]) >= Len(log[i])
      PROVE  LogInv'
  <2> USE <1>NoNewLinks
  <2>1. ASSUME NEW i \in Server, state'[i] = "Leader", NEW a \in Links',
               a.entry.term = currentTerm'[i]
        PROVE  a.entry.index <= Len(log'[i])
    <3>1. a.entry.index <= Len(log[i]) /\ Len(log'[i]) >= Len(log[i])
      BY <2>1, Zenon DEF LogInv
    <3>2. a.entry.index \in Nat
      BY <2>1, <1>LinksType, ZenonT(40) DEF LogEntry
    <3>3. Len(log[i]) \in Nat /\ Len(log'[i]) \in Nat
      BY SeqLen, Zenon DEF TypeOK
    <3> QED BY <3>1, <3>2, <3>3
  <2>2. /\ \A a, b \in Links' :
              a.entry.index = b.entry.index /\ a.entry.term = b.entry.term => a = b
        /\ \A a \in Links' : \E e \in elected' : e.term = a.entry.term
    BY Zenon DEF LogInv
  <2> QED BY <2>1, <2>2, Zenon DEF LogInv
  (* A step that starts calls only from the logs it leaves: links are old ones *)
  (* or ones of a log.                                                         *)
<1>CallsRepeatLogs.
      ASSUME TypeOK', IndexIsPlace,
             \A i \in Server : \A n \in DOMAIN log'[i] : log'[i][n].index = n,
             \A m \in DOMAIN appendReqs' :
                \/ m \in DOMAIN appendReqs
                \/ \E i \in Server, next \in Nat \ {0} : \E j : m = AppendTo(i, j, next, log'[i])
      PROVE  /\ IndexIsPlace'
             /\ \A a \in Links' : a \in Links \/ \E i \in Server : a \in LinksOf(log'[i], 0)
  <2> USE <1>CallsRepeatLogs
  <2>1. ASSUME NEW m \in DOMAIN appendReqs', m \notin DOMAIN appendReqs
        PROVE  /\ \A n \in DOMAIN m.entries : m.entries[n].index = m.prevIndex + n
               /\ m.prevIndex = 0 => m.prevTerm = 0
               /\ \A a \in LinksOf(m.entries, m.prevTerm) :
                     \E i \in Server : a \in LinksOf(log'[i], 0)
    <3>1. PICK i \in Server, next \in Nat \ {0} : \E j : m = AppendTo(i, j, next, log'[i])
      BY <2>1, Zenon
    <3>2. PICK j : m = AppendTo(i, j, next, log'[i])
      BY <3>1, ZenonT(40)
    <3>3. log'[i] \in Seq(LogEntry) /\ \A n \in DOMAIN log'[i] : log'[i][n].index = n
      BY Zenon DEF TypeOK
    <3>4. Repeats(m, log'[i])
      BY <3>2, <3>3, <1>AppendToLinks, Zenon
    <3> QED BY <3>4, ZenonT(40) DEF Repeats
  <2>2. IndexIsPlace'
    BY <2>1, Zenon DEF IndexIsPlace
  <2>3. ASSUME NEW a \in Links', NEW m \in DOMAIN appendReqs', m \in DOMAIN appendReqs,
               a \in LinksOf(m.entries, m.prevTerm)
        PROVE  a \in Links
    BY <2>3, WhereLinksAre, Zenon
  <2> QED BY <2>1, <2>2, <2>3, <1>WhereLinksWillBe, Zenon
  (* A step that leaves all logs alone, elects nobody and calls from logs. *)
<1>SameLogs.
      ASSUME TypeOK, TypeOK', LogInv, log' = log, elected' = elected,
             \A m \in DOMAIN appendReqs' :
                \/ m \in DOMAIN appendReqs
                \/ \E i \in Server, next \in Nat \ {0} : \E j : m = AppendTo(i, j, next, log[i]),
             \A i \in Server : state'[i] = "Leader" =>
                state[i] = "Leader" /\ currentTerm'[i] = currentTerm[i]
      PROVE  LogInv'
  <2> USE <1>SameLogs
  <2>1. \A i \in Server : \A n \in DOMAIN log'[i] : log'[i][n].index = n
    BY Zenon DEF LogInv, IndexIsPlace
  <2>2. \A m \in DOMAIN appendReqs' :
           \/ m \in DOMAIN appendReqs
           \/ \E i \in Server, next \in Nat \ {0} : \E j : m = AppendTo(i, j, next, log'[i])
    BY ZenonT(40)
  <2>3. IndexIsPlace
    BY Zenon DEF LogInv
  <2>4. /\ IndexIsPlace'
        /\ \A a \in Links' : a \in Links \/ \E i \in Server : a \in LinksOf(log'[i], 0)
    BY <2>1, <2>2, <2>3, <1>CallsRepeatLogs, Zenon
  <2>5. Links' \subseteq Links
    <3> SUFFICES ASSUME NEW a \in Links' PROVE a \in Links
      BY Zenon
    <3>1. ASSUME NEW i \in Server, a \in LinksOf(log'[i], 0) PROVE a \in Links
      <4>1. a \in LinksOf(log[i], 0)
        BY <3>1, ZenonT(40)
      <4> QED BY <4>1, WhereLinksAre, Zenon
    <3> QED BY <2>4, <3>1, Zenon
  <2>6. \A i \in Server : Len(log'[i]) >= Len(log[i])
    BY SeqLen DEF TypeOK
  <2> QED BY <2>4, <2>5, <2>6, <1>NoNewLinks, Zenon
  (* Steps without any call to another node and without an election. *)
<1>NoCallsLog.
      ASSUME TypeOK, TypeOK', LogInv, log' = log, elected' = elected,
             DOMAIN appendReqs' \subseteq DOMAIN appendReqs,
             \A i \in Server : state'[i] = "Leader" =>
                state[i] = "Leader" /\ currentTerm'[i] = currentTerm[i]
      PROVE  LogInv'
  BY <1>NoCallsLog, <1>SameLogs, Zenon
  (* broadcastAppendEntries calls from the log it is given. *)
<1>BroadcastCalls.
      ASSUME TypeOK, NEW i \in Server, NEW l, BroadcastAppendEntries(i, l)
      PROVE  \A m \in DOMAIN appendReqs' :
                \/ m \in DOMAIN appendReqs
                \/ \E next \in Nat \ {0} : \E j : m = AppendTo(i, j, next, l)
  <2> USE <1>BroadcastCalls
  <2> DEFINE call(j) == AppendTo(i, j, nextIndex[i][j], l)
  <2>1. appendReqs' = Start(appendReqs, {call(j) : j \in Peers(i)})
    BY Zenon DEF BroadcastAppendEntries
  <2>2. \A j \in Peers(i) : nextIndex[i][j] \in Nat \ {0}
    BY DEF TypeOK, Peers
  <2>3. \A j \in Peers(i) : \E next \in Nat \ {0} : \E k : call(j) = AppendTo(i, k, next, l)
    BY <2>2, Zenon
  <2> HIDE DEF call
  <2>4. \A m \in DOMAIN appendReqs' :
           m \in DOMAIN appendReqs \/ \E j \in Peers(i) : m = call(j)
    BY <2>1, CallsStarted
  <2> SUFFICES ASSUME NEW m \in DOMAIN appendReqs', m \notin DOMAIN appendReqs
               PROVE  \E next \in Nat \ {0} : \E k : m = AppendTo(i, k, next, l)
    BY Zenon
  <2>5. PICK j \in Peers(i) : m = call(j)
    BY <2>4, Zenon
  <2> QED BY <2>3, <2>5, Zenon
  (* A heartbeat calls from a log that it leaves alone. *)
<1>HeartbeatTimeoutLog.
      ASSUME TypeOK, TypeOK', LogInv, NEW i \in Server, HandleHeartbeatTimeout(i)
      PROVE  LogInv'
  <2> USE <1>HeartbeatTimeoutLog
  <2>1. BroadcastAppendEntries(i, log[i])
    BY Zenon DEF HandleHeartbeatTimeout
  <2>2. \A m \in DOMAIN appendReqs' :
           \/ m \in DOMAIN appendReqs
           \/ \E k \in Server, next \in Nat \ {0} : \E j : m = AppendTo(k, j, next, log[k])
    BY <2>1, <1>BroadcastCalls, ZenonT(40)
  <2>3. UNCHANGED <<log, elected, state, currentTerm>>
    BY Zenon DEF HandleHeartbeatTimeout, logVars, history, roleVars, termVars
  <2> QED BY <2>2, <2>3, <1>SameLogs, Zenon
  (* A campaign and a vote change no log and no call. *)
<1>CampaignLog.
      ASSUME TypeOK, TypeOK', LogInv,
             \/ \E i \in Server : HandleElectionTimeout(i)
             \/ \E m \in voteReqs : HandleRequestVote(m)
      PROVE  LogInv'
  <2> USE <1>CampaignLog
  <2>1. UNCHANGED <<log, elected, appendReqs>>
    BY ZenonT(40) DEF HandleElectionTimeout, HandleRequestVote, logVars, appendNet
  <2>2. ASSUME NEW i \in Server, HandleElectionTimeout(i), NEW j \in Server, state'[j] = "Leader"
        PROVE  state[j] = "Leader" /\ currentTerm'[j] = currentTerm[j]
    <3>1. currentTerm \in [Server -> Term] /\ state \in [Server -> State]
      BY Zenon DEF TypeOK
    <3>2. /\ state' = [state EXCEPT ![i] = "Candidate"]
          /\ currentTerm' = [currentTerm EXCEPT ![i] = currentTerm[i] + 1]
      BY <2>2, Zenon DEF HandleElectionTimeout, BecomeCandidate
    <3>3. j # i
      BY <2>2, <3>1, <3>2, Zenon
    <3> QED BY <2>2, <3>1, <3>2, <3>3, ZenonT(40)
  <2>3. ASSUME NEW m \in voteReqs, HandleRequestVote(m), NEW j \in Server, state'[j] = "Leader"
        PROVE  state[j] = "Leader" /\ currentTerm'[j] = currentTerm[j]
    <3> DEFINE k == m.to
               newer == m.term > currentTerm[k]
    <3>1. k \in Server /\ m.term \in Nat /\ currentTerm \in [Server -> Nat] /\ state \in [Server -> State]
      BY Zenon DEF TypeOK, VoteRequest, Term
    <3>2. /\ currentTerm' = [currentTerm EXCEPT ![k] = TermAfter(k, m.term)]
          /\ state' = [state EXCEPT ![k] = IF newer THEN "Follower" ELSE @]
      BY <2>3, Zenon DEF HandleRequestVote
    <3>3. ~newer => TermAfter(k, m.term) = currentTerm[k]
      BY <3>1, Zenon DEF TermAfter, Larger
    <3> HIDE DEF k, newer
    <3>4. CASE j = k
      <4>1. ~newer
        BY <2>3, <3>1, <3>2, <3>4, Zenon
      <4> QED BY <2>3, <3>1, <3>2, <3>3, <3>4, <4>1, ZenonT(40)
    <3>5. CASE j # k
      BY <2>3, <3>1, <3>2, <3>5, Zenon
    <3> QED BY <3>4, <3>5
  <2> QED BY <2>1, <2>2, <2>3, <1>NoCallsLog, Zenon
  (* becomeFollower ends a leadership and changes no log. *)
<1>BecomeFollowerLog.
      ASSUME TypeOK, TypeOK', LogInv, NEW k \in Server, NEW t, BecomeFollower(k, t),
             UNCHANGED <<log, elected, appendReqs>>
      PROVE  LogInv'
  <2> USE <1>BecomeFollowerLog
  <2>1. ASSUME NEW j \in Server, state'[j] = "Leader"
        PROVE  state[j] = "Leader" /\ currentTerm'[j] = currentTerm[j]
    <3>1. j # k
      BY <2>1, ZenonT(40) DEF BecomeFollower, TypeOK
    <3> QED BY <2>1, <3>1, ZenonT(40) DEF BecomeFollower, TypeOK
  <2> QED BY <2>1, <1>NoCallsLog, ZenonT(40)
  (* becomeLeader: no entry of the new leader's term exists yet, for the term  *)
  (* would have had another leader, or this one before.                        *)
<1>BecomeLeaderLog.
      ASSUME TypeOK, TypeOK', LogInv, LeadershipInv, ElectionSafety', NEW k \in Server,
             state[k] = "Candidate", BecomeLeader(k),
             UNCHANGED <<currentTerm, log, appendReqs>>
      PROVE  LogInv'
  <2> USE <1>BecomeLeaderLog
  <2> DEFINE new == [term |-> currentTerm[k], leader |-> k]
  <2>1. elected' = elected \cup {new} /\ new.term = currentTerm[k] /\ new.leader = k
    BY Zenon DEF BecomeLeader
  <2> HIDE DEF new
  <2>2. \A e \in elected : e.term # currentTerm[k]
    <3> SUFFICES ASSUME NEW e \in elected, e.term = currentTerm[k] PROVE FALSE
      BY Zenon
    <3>1. e.leader = k
      BY <2>1, Zenon DEF ElectionSafety
    <3> QED BY <3>1 DEF LeadershipInv
  <2>3. \A a \in Links : a.entry.term # currentTerm[k]
    BY <2>2, Zenon DEF LogInv
  <2>4. IndexIsPlace' /\ Links' = Links
    BY ZenonT(40) DEF LogInv, IndexIsPlace, Links
  <2>5. \A j \in Server : j # k => state'[j] = state[j]
    BY DEF BecomeLeader, TypeOK
  <2>6. ASSUME NEW j \in Server, state'[j] = "Leader", NEW a \in Links,
               a.entry.term = currentTerm'[j]
        PROVE  a.entry.index <= Len(log'[j])
    <3>1. j # k
      BY <2>3, <2>6, Zenon
    <3> QED BY <2>5, <2>6, <3>1, Zenon DEF LogInv
  <2>7. \A a \in Links : \E e \in elected' : e.term = a.entry.term
    BY <2>1, Zenon DEF LogInv
  <2>8. \A a, b \in Links :
           a.entry.index = b.entry.index /\ a.entry.term = b.entry.term => a = b
    BY Zenon DEF LogInv
  <2> QED BY <2>4, <2>6, <2>7, <2>8, ZenonT(40) DEF LogInv
  (* A counted vote, a refused one, or one of a newer term. *)
<1>RequestVoteResponseLog.
      ASSUME TypeOK, TypeOK', LogInv, LeadershipInv, ElectionSafety',
             NEW m \in voteResps, HandleRequestVoteResponse(m)
      PROVE  LogInv'
  <2> USE <1>RequestVoteResponseLog
  <2>1. UNCHANGED <<log, appendReqs>>
    BY Zenon DEF HandleRequestVoteResponse, logVars, appendNet
  <2>2. m.to \in Server
    BY Zenon DEF TypeOK, VoteResponse
  <2>3. CASE BecomeFollower(m.to, m.term) /\ UNCHANGED elected
    BY <2>1, <2>2, <2>3, <1>BecomeFollowerLog, Zenon
  <2>4. CASE UNCHANGED <<roleVars, termVars, elected>>
    <3>1. UNCHANGED <<state, currentTerm, elected>>
      BY <2>4, Zenon DEF roleVars, termVars
    <3> QED BY <2>1, <3>1, <1>NoCallsLog, Zenon
  <2>5. CASE state[m.to] = "Candidate" /\ BecomeLeader(m.to) /\ UNCHANGED termVars
    <3>1. UNCHANGED currentTerm
      BY <2>5, Zenon DEF termVars
    <3> QED BY <2>1, <2>2, <2>5, <3>1, <1>BecomeLeaderLog
  <2> QED BY <2>3, <2>4, <2>5, Zenon DEF HandleRequestVoteResponse, CountVote
  (* handleAppendEntries: whatever is cut or copied, no link is made up. *)
<1>AppendEntriesLog.
      ASSUME TypeOK, TypeOK', LogInv, NEW m \in DOMAIN appendReqs, HandleAppendEntries(m)
      PROVE  LogInv'
  <2> USE <1>AppendEntriesLog
  <2> DEFINE k == m.to
  <2>1. elected' = elected
    BY Zenon DEF HandleAppendEntries, history
  <2>2. m \in AppendRequest /\ k \in Server
    BY ZenonT(40) DEF TypeOK, IsCalls, AppendRequest
  <2>3. DOMAIN appendReqs' \subseteq DOMAIN appendReqs
    <3>1. appendReqs' = Finish(appendReqs, m)
      BY Zenon DEF HandleAppendEntries, RefuseStaleAppend, RefuseGap, AcceptAppend, ReplyToAppend
    <3> QED BY <3>1, CallsFinished
  <2> HIDE DEF k
  <2>4. ASSUME FollowSender(m), NEW j \in Server, state'[j] = "Leader"
        PROVE  j # k /\ state[j] = "Leader" /\ currentTerm'[j] = currentTerm[j]
    <3>1. currentTerm \in [Server -> Term] /\ state \in [Server -> State]
      BY ZenonT(40) DEF TypeOK
    <3>2. /\ state' = [state EXCEPT ![k] = "Follower"]
          /\ currentTerm' = [currentTerm EXCEPT ![k] = TermAfter(k, m.term)]
      BY <2>4, Zenon DEF FollowSender, k
    <3> QED BY <2>2, <2>4, <3>1, <3>2, ZenonT(40)
  <2>5. CASE RefuseStaleAppend(m)
    <3>1. UNCHANGED <<log, state, currentTerm>>
      BY <2>5, Zenon DEF RefuseStaleAppend, roleVars, termVars, logVars
    <3> QED BY <2>1, <2>3, <3>1, <1>NoCallsLog, Zenon
  <2>6. CASE RefuseGap(m)
    <3>1. UNCHANGED log /\ FollowSender(m)
      BY <2>6, Zenon DEF RefuseGap, logVars
    <3> QED BY <2>1, <2>3, <2>4, <3>1, <1>NoCallsLog, Zenon
  <2>7. CASE AcceptAppend(m)
    <3> DEFINE new == Overwrite(log[k], m)
    <3>1. PrevMatches(log[k], m) /\ FollowSender(m) /\ log' = [log EXCEPT ![k] = new]
      BY <2>7, ZenonT(40) DEF AcceptAppend, k
    <3>2. log \in [Server -> Seq(LogEntry)]
      BY Zenon DEF TypeOK
    <3>3. /\ \A n \in DOMAIN log[k] : log[k][n].index = n
          /\ \A n \in DOMAIN m.entries : m.entries[n].index = m.prevIndex + n
          /\ m.prevIndex = 0 => m.prevTerm = 0
      BY <2>2, ZenonT(40) DEF LogInv, IndexIsPlace
    <3>4. /\ LinksOf(new, 0) \subseteq LinksOf(log[k], 0) \cup LinksOf(m.entries, m.prevTerm)
          /\ \A n \in DOMAIN new : new[n].index = n
      BY <2>2, <3>1, <3>2, <3>3, <1>OverwriteLinks, Zenon
    <3> HIDE DEF new
    <3>5. log'[k] = new /\ \A j \in Server : j # k => log'[j] = log[j]
      BY <2>2, <3>1, <3>2, Zenon
    <3>6. IndexIsPlace'
      BY <2>3, <3>4, <3>5, ZenonT(40) DEF LogInv, IndexIsPlace
    <3>7. Links' \subseteq Links
      <4>1. ASSUME NEW j \in Server, NEW a \in LinksOf(log'[j], 0) PROVE a \in Links
        <5>1. CASE j = k
          BY <2>2, <3>4, <3>5, <4>1, <5>1, WhereLinksAre, ZenonT(40)
        <5>2. CASE j # k
          BY <3>5, <4>1, <5>2, WhereLinksAre, Zenon
        <5> QED BY <5>1, <5>2
      <4>2. ASSUME NEW n \in DOMAIN appendReqs', NEW a \in LinksOf(n.entries, n.prevTerm)
            PROVE  a \in Links
        BY <2>3, <4>2, WhereLinksAre, Zenon
      <4> QED BY <4>1, <4>2, <1>WhereLinksWillBe
    <3>8. \A j \in Server : Len(log[j]) \in Nat
      BY <3>2, SeqLen, Zenon
    <3>9. \A j \in Server : state'[j] = "Leader" =>
             /\ state[j] = "Leader" /\ currentTerm'[j] = currentTerm[j]
             /\ Len(log'[j]) >= Len(log[j])
      <4>1. \A j \in Server : Len(log[j]) >= Len(log[j])
        BY <3>8
      <4> QED BY <2>4, <3>1, <3>5, <4>1, Zenon
    <3> QED BY <2>1, <3>6, <3>7, <3>9, <1>NoNewLinks, ZenonT(40)
  <2> QED BY <2>5, <2>6, <2>7, Zenon DEF HandleAppendEntries
  (* An answer to a leader: it may back up and call again from its log. *)
<1>AppendEntriesResponseLog.
      ASSUME TypeOK, TypeOK', LogInv,
             NEW m \in DOMAIN appendResps, HandleAppendEntriesResponse(m)
      PROVE  LogInv'
  <2> USE <1>AppendEntriesResponseLog
  <2>1. elected' = elected
    BY Zenon DEF HandleAppendEntriesResponse, history
  <2>2. m.to \in Server /\ m.from \in Server
    BY ZenonT(40) DEF TypeOK, IsCalls, AppendResponse
  <2>3. CASE BecomeFollower(m.to, m.term) /\ UNCHANGED <<logVars, leaderVars, appendReqs>>
    BY <2>1, <2>2, <2>3, <1>BecomeFollowerLog, Zenon DEF logVars
  <2>4. ASSUME UNCHANGED <<roleVars, termVars, log, appendReqs>> PROVE LogInv'
    <3>1. UNCHANGED <<state, currentTerm>>
      BY <2>4, Zenon DEF roleVars, termVars
    <3> QED BY <2>1, <2>4, <3>1, <1>NoCallsLog, Zenon
  <2>5. CASE AckAppend(m.to, m) /\ UNCHANGED <<roleVars, termVars>>
    BY <2>4, <2>5, Zenon DEF AckAppend
  <2>6. CASE BackUp(m.to, m) /\ UNCHANGED <<roleVars, termVars>>
    <3> DEFINE next == Larger(nextIndex[m.to][m.from] - 1, 1)
               call == AppendTo(m.to, m.from, next, log[m.to])
    <3>1. appendReqs' = Start(appendReqs, {call}) /\ UNCHANGED log
      BY <2>6, Zenon DEF BackUp, logVars
    <3>2. next \in Nat \ {0}
      <4>1. nextIndex \in [Server -> [Server -> Nat \ {0}]]
        BY Zenon DEF TypeOK
      <4>2. nextIndex[m.to][m.from] \in Nat \ {0}
        BY <2>2, <4>1, Zenon
      <4> QED BY <4>2, SMTT(30) DEF Larger
    <3> HIDE DEF next
    <3>3. \E k \in Server, nx \in Nat \ {0} : \E j : call = AppendTo(k, j, nx, log[k])
      BY <2>2, <3>2, Zenon
    <3> HIDE DEF call
    <3>4. \A n \in DOMAIN appendReqs' : n \in DOMAIN appendReqs \/ n = call
      BY <3>1, CallsStarted, Zenon
    <3>5. \A n \in DOMAIN appendReqs' :
             \/ n \in DOMAIN appendReqs
             \/ \E k \in Server, nx \in Nat \ {0} : \E j : n = AppendTo(k, j, nx, log[k])
      BY <3>3, <3>4, Zenon
    <3>6. UNCHANGED <<state, currentTerm>>
      BY <2>6, Zenon DEF roleVars, termVars
    <3> QED BY <2>1, <3>1, <3>5, <3>6, <1>SameLogs, Zenon
  <2> QED BY <2>3, <2>4, <2>5, <2>6, Zenon DEF HandleAppendEntriesResponse, logVars
  (* handlePropose: only the leader of a term makes links of that term, each   *)
  (* one past all it has made.                                                 *)
<1>HandleProposeLog.
      ASSUME TypeOK, TypeOK', LogInv, LeadershipInv, ElectionSafety,
             NEW i \in Server, HandlePropose(i)
      PROVE  LogInv'
  <2> USE <1>HandleProposeLog
  <2>1. UNCHANGED <<elected, state, currentTerm>>
    BY Zenon DEF HandlePropose, roleVars, termVars, history
  <2>2. CASE UNCHANGED <<logVars, appendReqs>>
    <3>1. UNCHANGED <<log, appendReqs>>
      BY <2>2, Zenon DEF logVars
    <3> QED BY <2>1, <3>1, <1>NoCallsLog, Zenon
  <2>3. CASE state[i] = "Leader"
    <3> DEFINE e == [index |-> LastIndex(log[i]) + 1, term |-> currentTerm[i],
                     cmd |-> Head(proposeCh[i])]
               new == Append(log[i], e)
               win == [term |-> currentTerm[i], leader |-> i]
    <3>1. /\ log' = [log EXCEPT ![i] = new] /\ BroadcastAppendEntries(i, new)
          /\ proposeCh[i] # <<>>
      BY <2>3, ZenonT(40) DEF HandlePropose
    <3>2. /\ log \in [Server -> Seq(LogEntry)] /\ proposeCh \in [Server -> Seq(Command)]
          /\ currentTerm \in [Server -> Nat]
      BY ZenonT(40) DEF TypeOK, Term
    <3>3. \A j \in Server : \A n \in DOMAIN log[j] : log[j][n].index = n
      BY Zenon DEF LogInv, IndexIsPlace
    <3>4. LastIndex(log[i]) = Len(log[i]) /\ Len(log[i]) \in Nat
      BY <3>2, <3>3, LastIsLength, SeqLen, Zenon
    <3>5. Head(proposeCh[i]) \in Command
      BY <3>1, <3>2, SeqTail, ZenonT(40)
    <3>6. e \in LogEntry /\ e.index = Len(log[i]) + 1 /\ e.term = currentTerm[i]
      BY <3>2, <3>4, <3>5 DEF LogEntry, Term
    <3>7. win \in elected /\ win.term = currentTerm[i] /\ win.leader = i
      BY <2>3, Zenon DEF LeadershipInv
    <3> HIDE DEF e, win
    <3>8. /\ \A a \in LinksOf(new, 0) : a \in LinksOf(log[i], 0) \/ a.entry = e
          /\ \A n \in DOMAIN new : new[n].index = n
          /\ \A a, b \in LinksOf(new, 0) : a.entry = e /\ b.entry = e => a = b
          /\ Len(new) = Len(log[i]) + 1
      BY <3>2, <3>3, <3>6, <1>AppendLinks, ZenonT(40)
    <3> HIDE DEF new
    <3>9. log'[i] = new /\ \A j \in Server : j # i => log'[j] = log[j]
      BY <3>1, <3>2, Zenon
    <3>10. \A j \in Server : \A n \in DOMAIN log'[j] : log'[j][n].index = n
      BY <3>3, <3>8, <3>9, Zenon
    <3>11. \A m \in DOMAIN appendReqs' :
              \/ m \in DOMAIN appendReqs
              \/ \E k \in Server, next \in Nat \ {0} : \E j : m = AppendTo(k, j, next, log'[k])
      <4>1. \A m \in DOMAIN appendReqs' :
               \/ m \in DOMAIN appendReqs
               \/ \E next \in Nat \ {0} : \E j : m = AppendTo(i, j, next, new)
        BY <3>1, <1>BroadcastCalls, Zenon
      <4> QED BY <3>9, <4>1, Zenon
    <3>12. /\ IndexIsPlace'
           /\ \A a \in Links' : a \in Links \/ \E j \in Server : a \in LinksOf(log'[j], 0)
      BY <3>10, <3>11, <1>CallsRepeatLogs, ZenonT(40) DEF LogInv
    <3>13. \A a \in Links' : a \in Links \/ (a \in LinksOf(new, 0) /\ a.entry = e)
      <4> SUFFICES ASSUME NEW a, NEW j \in Server, a \in LinksOf(log'[j], 0)
                   PROVE  a \in Links \/ (a \in LinksOf(new, 0) /\ a.entry = e)
        BY <3>12, Zenon
      <4>1. CASE j = i
        BY <3>8, <3>9, <4>1, WhereLinksAre, Zenon
      <4>2. CASE j # i
        BY <3>9, <4>2, WhereLinksAre, ZenonT(40)
      <4> QED BY <4>1, <4>2
    <3>14. \A a \in Links : a.entry.term = e.term => a.entry.index # e.index
      <4> SUFFICES ASSUME NEW a \in Links, a.entry.term = e.term PROVE a.entry.index # e.index
        BY Zenon
      <4>1. a.entry.index <= Len(log[i])
        BY <2>3, <3>6, Zenon DEF LogInv
      <4>2. a.entry.index \in Nat
        BY <1>LinksType, Zenon DEF LogEntry
      <4> QED BY <3>4, <3>6, <4>1, <4>2
    <3>15. ASSUME NEW a \in Links', NEW b \in Links',
                  a.entry.index = b.entry.index, a.entry.term = b.entry.term
           PROVE  a = b
      <4>1. CASE a \in Links /\ b \in Links
        BY <3>15, <4>1, Zenon DEF LogInv
      <4>2. CASE a.entry = e /\ a \in LinksOf(new, 0)
        BY <3>8, <3>13, <3>14, <3>15, <4>2, ZenonT(40)
      <4>3. CASE b.entry = e /\ b \in LinksOf(new, 0)
        BY <3>8, <3>13, <3>14, <3>15, <4>3, ZenonT(40)
      <4> QED BY <3>13, <4>1, <4>2, <4>3, Zenon
    <3>16. \A a \in Links' : \E f \in elected' : f.term = a.entry.term
      BY <2>1, <3>6, <3>7, <3>13, ZenonT(40) DEF LogInv
    <3>17. ASSUME NEW j \in Server, state'[j] = "Leader", NEW a \in Links',
                  a.entry.term = currentTerm'[j]
           PROVE  a.entry.index <= Len(log'[j])
      <4>0. state[j] = "Leader" /\ a.entry.term = currentTerm[j]
        BY <2>1, <3>17, ZenonT(40)
      <4>1. CASE a \in Links
        <5>1. a.entry.index <= Len(log[j]) /\ a.entry.index \in Nat
          BY <4>0, <4>1, <1>LinksType, ZenonT(40) DEF LogInv, LogEntry
        <5> QED BY <3>4, <3>8, <3>9, <5>1
      <4>2. CASE a.entry = e
        <5> DEFINE other == [term |-> currentTerm[j], leader |-> j]
        <5>1. other \in elected /\ other.term = currentTerm[j] /\ other.leader = j
          BY <4>0, Zenon DEF LeadershipInv
        <5> HIDE DEF other
        <5>2. j = i
          BY <3>6, <3>7, <4>0, <4>2, <5>1, ZenonT(40) DEF ElectionSafety
        <5> QED BY <3>4, <3>6, <3>8, <3>9, <4>2, <5>2, SMTT(30)
      <4> QED BY <3>13, <4>1, <4>2
    <3> QED BY <3>12, <3>15, <3>16, <3>17, ZenonT(40) DEF LogInv
  <2> QED BY <2>2, <2>3, Zenon DEF HandlePropose
<1> SUFFICES ASSUME TypeOK, TypeOK', ElectionSafety, ElectionSafety', LeadershipInv, LogInv,
                    [Next]_vars
             PROVE  LogInv'
  BY Zenon
<1>0. TypeOK' /\ ElectionSafety'
  BY Zenon
<1>1. ASSUME NEW i \in Server, HandleHeartbeatTimeout(i) PROVE LogInv'
  BY <1>0, <1>1, <1>HeartbeatTimeoutLog, Zenon
<1>2. ASSUME NEW i \in Server, HandlePropose(i) PROVE LogInv'
  BY <1>0, <1>2, <1>HandleProposeLog, Zenon
<1>3. ASSUME UNCHANGED <<log, elected, appendReqs, state, currentTerm>> PROVE LogInv'
  BY <1>0, <1>3, <1>NoCallsLog, Zenon
<1>4. ASSUME NEW i \in Server, NEW cmd \in Command, Propose(i, cmd) PROVE LogInv'
  BY <1>3, <1>4, Zenon DEF Propose, logVars, history, appendNet, roleVars, termVars
<1>5. ASSUME \/ \E i \in Server : HandleElectionTimeout(i)
             \/ \E m \in voteReqs : HandleRequestVote(m)
      PROVE  LogInv'
  BY <1>0, <1>5, <1>CampaignLog, Zenon
<1>6. ASSUME NEW m \in voteResps, HandleRequestVoteResponse(m) PROVE LogInv'
  BY <1>0, <1>6, <1>RequestVoteResponseLog, Zenon
<1>7. ASSUME NEW m \in DOMAIN appendReqs, HandleAppendEntries(m) PROVE LogInv'
  BY <1>0, <1>7, <1>AppendEntriesLog, Zenon
<1>8. ASSUME NEW m \in DOMAIN appendResps, HandleAppendEntriesResponse(m) PROVE LogInv'
  BY <1>0, <1>8, <1>AppendEntriesResponseLog, Zenon
<1>9. CASE UNCHANGED vars
  BY <1>3, <1>9, Zenon DEF vars, logVars, history, appendNet, roleVars, termVars
<1> QED BY <1>1, <1>2, <1>4, <1>5, <1>6, <1>7, <1>8, <1>9, ZenonT(40) DEF Next

(* Empty logs and no calls have no links. *)
LEMMA InitLog == Init => LogInv
<1> SUFFICES ASSUME Init PROVE LogInv
  BY Zenon
<1>1. \A i \in Server : log[i] = <<>> /\ state[i] # "Leader"
  BY Zenon DEF Init
<1>2. DOMAIN appendReqs = {}
  BY Zenon DEF Init, NoCalls
<1>3. DOMAIN <<>> = {}
  OBVIOUS
<1>4. \A a : a \notin Links
  BY <1>1, <1>2, <1>3, WhereLinksAre, ZenonT(40) DEF LinksOf
<1> QED BY <1>1, <1>2, <1>3, <1>4, ZenonT(40) DEF LogInv, IndexIsPlace

(* Links that an index and a term name make logs agree: below an agreement   *)
(* there is no last difference.                                              *)
LEMMA LinksMatch == ASSUME HighestExists, TypeOK, LogInv PROVE LogMatching
<1> SUFFICES ASSUME NEW i \in Server, NEW j \in Server,
                    NEW n \in DOMAIN log[i] \cap DOMAIN log[j],
                    log[i][n].term = log[j][n].term
             PROVE  SubSeq(log[i], 1, n) = SubSeq(log[j], 1, n)
  BY Zenon DEF LogMatching
<1> DEFINE p == log[i]
           q == log[j]
           D == {k \in 1 .. n : p[k] # q[k]}
<1>1. /\ p \in Seq(LogEntry) /\ q \in Seq(LogEntry)
      /\ Len(p) \in Nat /\ Len(q) \in Nat /\ DOMAIN p = 1 .. Len(p) /\ DOMAIN q = 1 .. Len(q)
      /\ n \in Nat \ {0} /\ n <= Len(p) /\ n <= Len(q)
  <2>1. p \in Seq(LogEntry) /\ q \in Seq(LogEntry) /\ n \in DOMAIN p /\ n \in DOMAIN q
    BY Zenon DEF TypeOK
  <2> HIDE DEF p, q
  <2> QED BY <2>1, SeqLen
<1>2. ASSUME NEW k \in 1 .. n, p[k].term = q[k].term
      PROVE  Link(p, k, 0) = Link(q, k, 0)
  <2>1. k \in DOMAIN p /\ k \in DOMAIN q
    BY <1>1
  <2>2. Link(p, k, 0) \in LinksOf(p, 0) /\ Link(q, k, 0) \in LinksOf(q, 0)
    BY <2>1, Zenon DEF LinksOf
  <2>3. Link(p, k, 0) \in Links /\ Link(q, k, 0) \in Links
    BY <2>2, WhereLinksAre, Zenon
  <2>4. Link(p, k, 0).entry = p[k] /\ Link(q, k, 0).entry = q[k]
    BY Zenon DEF Link
  <2>5. p[k].index = k /\ q[k].index = k
    BY <2>1, ZenonT(40) DEF LogInv, IndexIsPlace
  <2> HIDE DEF p, q
  <2>6. p[k].index = q[k].index /\ p[k].term = q[k].term
    BY <1>2, <2>5, Zenon
  <2> DEFINE a == Link(p, k, 0)
             b == Link(q, k, 0)
  <2>7. a \in Links /\ b \in Links /\ a.entry = p[k] /\ b.entry = q[k]
    BY <2>3, <2>4, Zenon
  <2> HIDE DEF a, b
  <2>8. a = b
    BY <2>6, <2>7, Zenon DEF LogInv
  <2> QED BY <2>8 DEF a, b
<1>3. ASSUME NEW k \in 1 .. n, p[k].term = q[k].term
      PROVE  p[k] = q[k] /\ (k # 1 => p[k - 1].term = q[k - 1].term)
  <2> HIDE DEF p, q
  <2>1. Link(p, k, 0) = Link(q, k, 0)
    BY <1>2, <1>3, Zenon
  <2> QED BY <2>1 DEF Link
<1> HIDE DEF p, q
<1>4. D = {}
  <2> SUFFICES ASSUME D # {} PROVE FALSE
    BY Zenon
  <2>1. D \in SUBSET (0 .. n)
    BY <1>1
  <2> HIDE DEF D
  <2>2. PICK k \in D : \A h \in D : h <= k
    BY <1>1, <2>1, ZenonT(40) DEF HighestExists
  <2>3. k \in 1 .. n /\ p[k] # q[k]
    BY <2>2, Zenon DEF D
  <2>4. p[n].term = q[n].term
    BY Zenon DEF p, q
  <2>5. k # n
    BY <1>3, <2>3, <2>4, ZenonT(40)
  <2>6. k + 1 \in 1 .. n /\ k + 1 # 1 /\ (k + 1) - 1 = k /\ ~(k + 1 <= k)
    BY <1>1, <2>3, <2>5
  <2>7. p[k + 1] = q[k + 1]
    <3>1. k + 1 \notin D
      BY <2>2, <2>6, Zenon
    <3> QED BY <2>6, <3>1 DEF D
  <2>8. p[k].term = q[k].term
    <3>1. p[k + 1].term = q[k + 1].term
      BY <2>7, Zenon
    <3>2. p[(k + 1) - 1].term = q[(k + 1) - 1].term
      BY <1>3, <2>6, <3>1, Zenon
    <3> QED BY <2>6, <3>2
  <2> QED BY <1>3, <2>3, <2>8
<1>5. \A k \in 1 .. n : p[k] = q[k]
  BY <1>4, Zenon
<1>6. /\ SubSeq(p, 1, n) \in Seq(LogEntry) /\ Len(SubSeq(p, 1, n)) = n
      /\ SubSeq(q, 1, n) \in Seq(LogEntry) /\ Len(SubSeq(q, 1, n)) = n
      /\ \A k \in 1 .. n : SubSeq(p, 1, n)[k] = p[k] /\ SubSeq(q, 1, n)[k] = q[k]
  <2>1. \A k \in 1 .. n : p[k] \in LogEntry /\ q[k] \in LogEntry
    BY <1>1, SeqElement
  <2>2. 1 \in Int /\ n \in Int /\ 1 <= n /\ n - 1 + 1 = n /\ \A k \in 1 .. n : 1 + k - 1 = k
    BY <1>1
  <2> QED BY <2>1, <2>2, SeqPart
<1>7. SubSeq(p, 1, n) = SubSeq(q, 1, n)
  <2> DEFINE u == SubSeq(p, 1, n)
             v == SubSeq(q, 1, n)
  <2>1. /\ u \in Seq(LogEntry) /\ v \in Seq(LogEntry) /\ Len(u) = Len(v)
        /\ \A k \in 1 .. Len(u) : u[k] = v[k]
    BY <1>5, <1>6, Zenon
  <2> HIDE DEF u, v
  <2>2. u = v
    BY <2>1, SeqSame, Zenon
  <2> QED BY <2>2, Zenon DEF u, v
<1> QED BY <1>7, Zenon DEF p, q

-----------------------------------------------------------------------------
(* What is applied *)

(* Every step applies the next entries or none. *)
LEMMA NextApplied ==
    HighestExists /\ TypeOK /\ TypeOK' /\ LogInv /\ LogInv' /\ AppliedInv /\ [Next]_vars => AppliedInv'
  (* applyCommitted continues where it stopped, up to a commit index that the  *)
  (* log reaches or that was applied before.                                   *)
<1>ApplyCommittedApplied.
      ASSUME TypeOK, AppliedInv, NEW i \in Server, NEW l \in Seq(LogEntry),
             \A n \in DOMAIN l : l[n].index = n,
             NEW c \in Nat, c <= Len(l) \/ c <= lastApplied[i], ApplyCommitted(i, l, c)
      PROVE  AppliedInv'
  <2> USE <1>ApplyCommittedApplied
  <2> DEFINE a == applied[i]
             d == lastApplied[i]
             e == Smaller(c, Len(l))
             s == SubSeq(l, d + 1, e)
             new == a \o s
  <2>1. /\ commitIndex \in [Server -> Nat] /\ lastApplied \in [Server -> Nat]
        /\ applied \in [Server -> Seq(LogEntry)]
    BY ZenonT(40) DEF TypeOK
  <2>2. d \in Nat /\ a \in Seq(LogEntry) /\ Len(l) \in Nat /\ DOMAIN l = 1 .. Len(l)
    BY <2>1, SeqLen, Zenon
  <2>3. Len(a) = d /\ DOMAIN a = 1 .. d /\ \A n \in 1 .. d : a[n].index = n
    <3>1. Len(a) = d /\ \A n \in DOMAIN a : a[n].index = n
      BY Zenon DEF AppliedInv, AppliedOnceInOrder
    <3> HIDE DEF a, d
    <3> QED BY <2>2, <3>1, SeqLen
  <2>4. /\ s \in Seq(LogEntry) /\ Len(s) \in Nat
        /\ Len(s) = IF d + 1 <= e THEN e - (d + 1) + 1 ELSE 0
        /\ \A n \in 1 .. Len(s) :
              s[n] = l[(d + 1) + n - 1] /\ (d + 1) + n - 1 \in 1 .. Len(l)
    <3>1. d + 1 \in Nat \ {0} /\ c \in Int
      BY <2>2
    <3> HIDE DEF d, Smaller
    <3> QED BY <3>1, PartEntries, Zenon
  <2>5. d + Len(s) = Larger(d, c)
    <3> HIDE DEF s, d
    <3> QED BY <2>2, <2>4, SMTT(30) DEF Larger, Smaller, d
  <2>6. \A n \in 1 .. Len(s) : s[n].index = d + n
    <3>1. \A n \in 1 .. Len(s) : (d + 1) + n - 1 = d + n
      BY <2>2, <2>4
    <3> HIDE DEF s, d
    <3> QED BY <2>2, <2>4, <3>1, ZenonT(40)
  <2> HIDE DEF a, d, s
  <2>7. /\ new \in Seq(LogEntry) /\ Len(new) = d + Len(s)
        /\ \A n \in 1 .. d + Len(s) : new[n] = IF n <= d THEN a[n] ELSE s[n - d]
    <3>1. /\ new \in Seq(LogEntry) /\ Len(new) = Len(a) + Len(s)
          /\ \A n \in 1 .. Len(a) + Len(s) : new[n] = IF n <= Len(a) THEN a[n] ELSE s[n - Len(a)]
      <4>1. a \in Seq(LogEntry) /\ s \in Seq(LogEntry)
        BY <2>2, <2>4, Zenon
      <4> QED BY <4>1, SeqConcat
    <3>2. Len(a) = d
      BY <2>3, Zenon
    <3> HIDE DEF new
    <3> QED BY <3>1, <3>2
  <2>8. DOMAIN new = 1 .. d + Len(s)
    BY <2>7, SeqLen, Zenon
  <2> HIDE DEF new, e
  <2>9. \A n \in DOMAIN new : new[n].index = n
    <3> TAKE n \in DOMAIN new
    <3>1. CASE n <= d
      BY <2>2, <2>3, <2>7, <2>8, <3>1
    <3>2. CASE ~(n <= d)
      <4>1. n - d \in 1 .. Len(s) /\ d + (n - d) = n
        BY <2>2, <2>4, <2>8, <3>2
      <4> QED BY <2>6, <2>7, <2>8, <3>2, <4>1
    <3> QED BY <3>1, <3>2
  <2>10. /\ commitIndex'[i] = c /\ lastApplied'[i] = Larger(d, c) /\ applied'[i] = new
         /\ \A j \in Server : j # i =>
               /\ commitIndex'[j] = commitIndex[j] /\ lastApplied'[j] = lastApplied[j]
               /\ applied'[j] = applied[j]
    BY <2>1, Zenon DEF ApplyCommitted, new, a, d, s, e
  <2>11. c <= Larger(d, c)
    BY <2>2 DEF Larger
  <2> QED BY <2>5, <2>7, <2>9, <2>10, <2>11, ZenonT(40) DEF AppliedInv, AppliedOnceInOrder
  (* advanceCommitIndex stays where it is or stops within the log. *)
<1>AdvancedCommitBound.
      ASSUME HighestExists, TypeOK, NEW i \in Server, NEW l \in Seq(LogEntry), NEW match
      PROVE  /\ AdvancedCommit(i, l, match) \in Nat
             /\ \/ AdvancedCommit(i, l, match) <= Len(l)
                \/ AdvancedCommit(i, l, match) = commitIndex[i]
  <2> USE <1>AdvancedCommitBound
  <2> DEFINE S == Committable(i, l, match)
  <2>1. commitIndex[i] \in Nat /\ Len(l) \in Nat
    BY SeqLen, Zenon DEF TypeOK
  <2>2. S \in SUBSET (0 .. Len(l))
    BY <2>1 DEF Committable
  <2>3. CASE S = {}
    BY <2>1, <2>3, Zenon DEF AdvancedCommit
  <2>4. CASE S # {}
    <3> HIDE DEF S
    <3>1. \E n \in S : \A k \in S : k <= n
      BY <2>1, <2>2, <2>4, Zenon DEF HighestExists
    <3>2. (CHOOSE n \in S : \A k \in S : k <= n) \in S
      BY <3>1, Zenon
    <3>3. AdvancedCommit(i, l, match) \in S
      BY <2>4, <3>2, Zenon DEF AdvancedCommit, S
    <3>4. \A n \in S : n \in Nat /\ n <= Len(l)
      BY <2>1, <2>2
    <3> QED BY <3>3, <3>4, Zenon
  <2> QED BY <2>3, <2>4
  (* The commit index of a leader with log l. *)
<1>LeaderApplies.
      ASSUME HighestExists, TypeOK, AppliedInv, NEW i \in Server, NEW l \in Seq(LogEntry),
             \A n \in DOMAIN l : l[n].index = n, NEW match,
             ApplyCommitted(i, l, AdvancedCommit(i, l, match))
      PROVE  AppliedInv'
  <2> USE <1>LeaderApplies
  <2> DEFINE c == AdvancedCommit(i, l, match)
  <2>1. c \in Nat /\ (c <= Len(l) \/ c = commitIndex[i])
    BY <1>AdvancedCommitBound, Zenon
  <2>2. commitIndex[i] <= lastApplied[i]
    BY Zenon DEF AppliedInv
  <2>3. ApplyCommitted(i, l, c)
    BY Zenon
  <2> HIDE DEF c
  <2> QED BY <2>1, <2>2, <2>3, <1>ApplyCommittedApplied
<1> SUFFICES ASSUME HighestExists, TypeOK, TypeOK', LogInv, LogInv', AppliedInv, [Next]_vars
             PROVE  AppliedInv'
  BY Zenon
<1>1. ASSUME UNCHANGED <<commitIndex, lastApplied, applied>> PROVE AppliedInv'
  BY <1>1, ZenonT(40) DEF AppliedInv, AppliedOnceInOrder
<1>2. \A i \in Server : log'[i] \in Seq(LogEntry) /\ log[i] \in Seq(LogEntry)
  BY Zenon DEF TypeOK
<1>3. \A i \in Server : /\ \A n \in DOMAIN log'[i] : log'[i][n].index = n
                        /\ \A n \in DOMAIN log[i] : log[i][n].index = n
  BY Zenon DEF LogInv, IndexIsPlace
<1>4. ASSUME NEW i \in Server, NEW l, log' = [log EXCEPT ![i] = l]
      PROVE  l \in Seq(LogEntry) /\ \A n \in DOMAIN l : l[n].index = n
  <2>1. log'[i] = l
    BY <1>4, ZenonT(40) DEF TypeOK
  <2> QED BY <1>2, <1>3, <2>1, ZenonT(40)
<1>5. ASSUME NEW i \in Server, HandlePropose(i) PROVE AppliedInv'
  <2> DEFINE new == Append(log[i], [index |-> LastIndex(log[i]) + 1, term |-> currentTerm[i],
                                    cmd |-> Head(proposeCh[i])])
  <2>1. CASE UNCHANGED logVars
    BY <1>1, <2>1, ZenonT(40) DEF logVars
  <2>2. CASE /\ log' = [log EXCEPT ![i] = new]
             /\ ApplyCommitted(i, new, AdvancedCommit(i, new, matchIndex[i]))
    <3> HIDE DEF new
    <3>1. new \in Seq(LogEntry) /\ \A n \in DOMAIN new : new[n].index = n
      BY <1>4, <2>2, Zenon
    <3> QED BY <2>2, <3>1, <1>LeaderApplies
  <2> QED BY <1>5, <2>1, <2>2, Zenon DEF HandlePropose
<1>6. ASSUME NEW m \in DOMAIN appendResps, HandleAppendEntriesResponse(m) PROVE AppliedInv'
  <2>1. m.to \in Server
    BY ZenonT(40) DEF TypeOK, IsCalls, AppendResponse
  <2>2. CASE UNCHANGED logVars
    BY <1>1, <2>2, Zenon DEF logVars
  <2>3. CASE AckAppend(m.to, m)
    <3>1. PICK match : ApplyCommitted(m.to, log[m.to], AdvancedCommit(m.to, log[m.to], match))
      BY <2>3, Zenon DEF AckAppend
    <3> QED BY <1>2, <1>3, <2>1, <3>1, <1>LeaderApplies, Zenon
  <2> QED BY <1>6, <2>2, <2>3, ZenonT(40) DEF HandleAppendEntriesResponse, BackUp
<1>7. ASSUME NEW m \in DOMAIN appendReqs, HandleAppendEntries(m) PROVE AppliedInv'
  <2> DEFINE k == m.to
             new == Overwrite(log[k], m)
             c == Smaller(m.commit, LastIndex(new))
  <2>1. k \in Server /\ m.commit \in Nat
    BY ZenonT(40) DEF TypeOK, IsCalls, AppendRequest
  <2>2. CASE UNCHANGED logVars
    BY <1>1, <2>2, Zenon DEF logVars
  <2>3. CASE AcceptAppend(m)
    <3>1. /\ log' = [log EXCEPT ![k] = new]
          /\ \/ ApplyCommitted(k, new, c)
             \/ UNCHANGED <<commitIndex, lastApplied, applied>>
      BY <2>3, Zenon DEF AcceptAppend
    <3> HIDE DEF k, new
    <3>2. new \in Seq(LogEntry) /\ \A n \in DOMAIN new : new[n].index = n
      BY <1>4, <2>1, <3>1, Zenon
    <3>3. LastIndex(new) = Len(new) /\ Len(new) \in Nat
      BY <3>2, LastIsLength, SeqLen, Zenon
    <3>4. c \in Nat /\ c <= Len(new)
      BY <2>1, <3>3 DEF Smaller
    <3> HIDE DEF c
    <3>5. CASE ApplyCommitted(k, new, c)
      BY <2>1, <3>2, <3>4, <3>5, <1>ApplyCommittedApplied, ZenonT(40)
    <3> QED BY <1>1, <3>1, <3>5
  <2> QED BY <1>7, <2>2, <2>3, ZenonT(40) DEF HandleAppendEntries, RefuseStaleAppend, RefuseGap
<1>8. ASSUME NEW i \in Server,
             \/ HandleElectionTimeout(i) \/ HandleHeartbeatTimeout(i)
             \/ \E cmd \in Command : Propose(i, cmd)
      PROVE  AppliedInv'
  BY <1>1, <1>8, Zenon DEF HandleElectionTimeout, HandleHeartbeatTimeout, Propose, logVars
<1>9. ASSUME \/ \E m \in voteReqs : HandleRequestVote(m)
             \/ \E m \in voteResps : HandleRequestVoteResponse(m)
      PROVE  AppliedInv'
  BY <1>1, <1>9, Zenon DEF HandleRequestVote, HandleRequestVoteResponse, logVars
<1>10. CASE UNCHANGED vars
  BY <1>1, <1>10, Zenon DEF vars, logVars
<1> QED BY <1>5, <1>6, <1>7, <1>8, <1>9, <1>10, ZenonT(40) DEF Next

-----------------------------------------------------------------------------
(* The facts about finite sets *)

INSTANCE FiniteSetTheorems

(* Servers are finitely many, so votes can be counted. *)
LEMMA CountingFact == Counting
<1>1. IsFiniteSet(Server)
  BY RaftAssumption, Zenon
<1>2. \A S \in SUBSET Server : IsFiniteSet(S) /\ Cardinality(S) \in Nat
  BY <1>1, FS_Subset, FS_CardinalityType, Zenon
<1>3. \A i \in Server : Cardinality({i}) = 1
  BY FS_Singleton, ZenonT(40)
<1>4. \A S \in SUBSET Server : \A i \in Server \ S :
          Cardinality(S \cup {i}) = Cardinality(S) + 1
  BY <1>2, FS_AddElement, Zenon
<1>5. ASSUME NEW P \in SUBSET Server, NEW Q \in SUBSET Server,
             Cardinality(P) + Cardinality(Q) > Cardinality(Server)
      PROVE  P \cap Q # {}
  BY <1>1, <1>5, FS_MajoritiesIntersect, Zenon
<1> QED
  BY <1>1, <1>2, <1>3, <1>4, <1>5, FS_CardinalityType, Zenon DEF Counting

(* The greatest element of a set of log indices exists. *)
LEMMA HighestFact == HighestExists
<1> SUFFICES ASSUME NEW b \in Nat, NEW S \in SUBSET (0 .. b), S # {}
             PROVE  \E n \in S : \A k \in S : k <= n
  BY ZenonT(40) DEF HighestExists
<1> DEFINE T == {b - n : n \in S}
<1>1. T \subseteq Nat /\ T # {}
  <2>1. \A n \in S : n \in Nat /\ b - n \in Nat
    BY SMT
  <2>2. T \subseteq Nat
    BY <2>1, Zenon
  <2>3. PICK n \in S : TRUE
    BY Zenon
  <2>4. b - n \in T
    BY <2>3, Zenon
  <2> QED BY <2>2, <2>4
<1> DEFINE R == {p \in Nat \X Nat : p[1] < p[2]}
<1>2. IsWellFoundedOn(R, Nat)
  BY NatLessThanWellFounded, Zenon DEF OpToRel
<1> HIDE DEF T
<1>3. PICK x \in T : \A y \in T : ~(<<y, x>> \in R)
  <2> HIDE DEF R
  <2> QED BY <1>1, <1>2, WFMin, Zenon
<1>4. \A y \in T : ~(y < x)
  BY <1>1, <1>3, Zenon
<1> USE DEF T
<1>5. PICK n \in S : x = b - n
  BY <1>3, Zenon
<1>6. \A k \in S : k <= n
  <2> TAKE k \in S
  <2>1. b - k \in T
    BY Zenon
  <2>2. ~(b - k < b - n)
    BY <1>4, <1>5, <2>1, Zenon
  <2> QED BY <2>2
<1> QED BY <1>6

-----------------------------------------------------------------------------
(* Theorems *)

(* Every value a node holds, and every call in flight, has its type: in     *)
(* particular no nextIndex falls to 0 and no log or commit index is          *)
(* negative, which in the code would wrap around in uint64.                  *)
THEOREM TypeCorrect == Spec => []TypeOK
<1>1. Init => TypeOK
  BY InitType, Zenon
<1>2. TypeOK /\ [Next]_vars => TypeOK'
  BY NextType, HighestFact, Zenon
<1> QED BY <1>1, <1>2, PTL DEF Spec

(* The voting argument is an invariant of every cluster. *)
THEOREM VotingSound == Spec => []ElectionInv
<1>1. Init => ElectionInv
  BY Zenon DEF Init, ElectionInv, BallotsCastOnce, OneCallPerVote, CounterCountsVoters,
     ElectedByMajority
<1>2. TypeOK /\ TypeOK' /\ ElectionInv /\ [Next]_vars => ElectionInv'
  BY NextElectionInv, CountingFact, Zenon
<1> QED BY <1>1, <1>2, TypeCorrect, PTL DEF Spec

(* In a cluster of any size, with calls lost, delayed and reordered in any   *)
(* way, becomeLeader is never reached by two nodes in one term.              *)
THEOREM OneLeaderPerTerm == Spec => []ElectionSafety
<1>1. TypeOK /\ ElectionInv => ElectionSafety
  BY ElectionInvSuffices, CountingFact, Zenon
<1> QED BY <1>1, TypeCorrect, VotingSound, PTL

(* A leader was elected in its term, calls come from elected nodes, and each *)
(* node has armed the timer of its role: what a role means holds in every     *)
(* cluster, and no node calls itself.                                        *)
THEOREM RolesSound == Spec => [](RoleInv /\ AnswersOthers)
<1>1. Init => RoleInv /\ AnswersOthers
  BY ZenonT(40) DEF Init, RoleInv, LeadershipInv, TimersArmed, AnswersOthers, NoCalls
<1>2. /\ TypeOK /\ TypeOK' /\ ElectionSafety /\ RoleInv /\ AnswersOthers /\ [Next]_vars
      => RoleInv' /\ AnswersOthers'
  BY NextRoles, NextAnswers, Zenon
<1> QED BY <1>1, <1>2, TypeCorrect, OneLeaderPerTerm, PTL DEF Spec

(* run() of a leader always has a heartbeat to wait for and no election      *)
(* timeout, run() of any other node the reverse, although becomeFollower and *)
(* handleAppendEntries stop the heartbeat only when the term grows.          *)
THEOREM RightTimers == Spec => []TimersArmed
<1>1. RoleInv => TimersArmed
  BY Zenon DEF RoleInv
<1> QED BY <1>1, RolesSound, PTL

(* An index and a term name one entry and one predecessor, in all logs and   *)
(* in all AppendEntries calls in flight.                                     *)
THEOREM LinksSound == Spec => []LogInv
<1>1. Init => LogInv
  BY InitLog, Zenon
<1>2. /\ TypeOK /\ TypeOK' /\ ElectionSafety /\ ElectionSafety' /\ RoleInv
      /\ LogInv /\ [Next]_vars
      => LogInv'
  BY NextLog, Zenon DEF RoleInv
<1> QED BY <1>1, <1>2, TypeCorrect, OneLeaderPerTerm, RolesSound, PTL DEF Spec

(* Logs that agree on the term of an entry agree up to it, whatever calls    *)
(* handleAppendEntries receives late or out of order.                        *)
THEOREM LogsMatch == Spec => []LogMatching
<1>1. TypeOK /\ LogInv => LogMatching
  BY LinksMatch, HighestFact, Zenon
<1> QED BY <1>1, TypeCorrect, LinksSound, PTL

(* applyCommitted sends every index once and in order, although             *)
(* handleAppendEntries may cut a log below the commit index.                 *)
THEOREM AppliesInOrder == Spec => []AppliedOnceInOrder
<1>1. Init => AppliedInv
  <2> SUFFICES ASSUME Init PROVE AppliedInv
    BY Zenon
  <2>1. /\ commitIndex = [i \in Server |-> 0] /\ lastApplied = [i \in Server |-> 0]
        /\ applied = [i \in Server |-> <<>>]
    BY Zenon DEF Init
  <2>2. Len(<<>>) = 0 /\ DOMAIN <<>> = {}
    BY SeqEmpty
  <2> QED BY <2>1, <2>2 DEF AppliedInv, AppliedOnceInOrder
<1>2. TypeOK /\ TypeOK' /\ LogInv /\ LogInv' /\ AppliedInv /\ [Next]_vars => AppliedInv'
  BY NextApplied, HighestFact, Zenon
<1>3. AppliedInv => AppliedOnceInOrder
  BY Zenon DEF AppliedInv
<1> QED BY <1>1, <1>2, <1>3, TypeCorrect, LinksSound, PTL DEF Spec
=============================================================================
