------------------------------- MODULE Server -------------------------------
(****************************************************************************)
(* net/server.go and net/raft_cmd.go: the life of a server and of the       *)
(* requests it hands to Raft.                                               *)
(*                                                                          *)
(*  - the accept loop of ListenAndServe registers connections and spawns a  *)
(*    handleConn goroutine for each;                                        *)
(*  - a handler reads a request, works on it and answers; a write of a      *)
(*    replicated server goes through raftPropose: register under a fresh    *)
(*    ID, Propose, wait for the answer or for 10 seconds;                   *)
(*  - the apply goroutine of raft.Node runs onRaftApply for each committed  *)
(*    entry and hands the result to the handler that waits for its ID;      *)
(*  - the TCP transport of Raft (net/raft_transport.go) keeps a connection  *)
(*    to every peer and serves those the peers make;                        *)
(*  - Close stops the listener, closes the connections, waits for the       *)
(*    handlers and shuts Raft and its transport down.                       *)
(*                                                                          *)
(* Raft itself (module Raft) is what these goroutines see of it: a role     *)
(* that changes, proposals that are committed or lost, and committed        *)
(* entries of other servers, or of an earlier life of this one, whose       *)
(* request IDs count from 1 as well.                                        *)
(****************************************************************************)
EXTENDS Integers, Sequences, FiniteSets

CONSTANTS
  Conn,         \* the connections clients may make
  Limits,       \* the values of maxConns
  MaxReqs,      \* bound: writes handed to raftPropose
  MaxForeign,   \* bound: committed entries of others that are delivered
  Peer,         \* the servers a Raft group may have besides this one
  None

ASSUME ServerAssumption ==
  /\ None \notin Conn /\ Limits \subseteq Nat
  /\ MaxReqs \in Nat /\ MaxForeign \in Nat

VARIABLES
  replicated,   \* InitRaft was called
  maxConns,
  peers,        \* the other members of its group
  nextReqID,    \* raftNextReqID
  pending,      \* raftPending: the IDs registered
  answer,       \* answer[id]: what is in the channel made for id
  proposed,     \* the commands Propose accepted that may still be delivered
  foreign,      \* how many entries of others were delivered
  applier,      \* the apply goroutine: the entry it is at, and where
  handler,      \* handler[c]: c's goroutine
  broken,       \* the connections closed by either side
  accept,       \* the accept loop
  conns,        \* Server.conns
  transport,    \* TCPTransport: its WaitGroup, its accept loop, the peers
                \* whose connection it serves, and its connection to each peer
  closing,      \* how far Close is; "panicked": the process is gone
  cut,          \* history: gracefulTimeout ended the wait of Close
  late          \* history: connections that Close does not close or wait for

config == <<replicated, maxConns, peers>>
requestVars == <<nextReqID, pending, answer>>
raftVars == <<proposed, foreign, applier>>
connVars == <<accept, conns, late>>
serverVars == <<config, transport, cut>>

vars == <<config, requestVars, raftVars, connVars, handler, broken, transport,
          closing, cut>>

ReqID == 1 .. MaxReqs

\* a RaftCommand: its request ID, and the handler that proposed it here
Command == [from : Conn \cup {None}, id : ReqID]

Fresh == [pc |-> "none", id |-> 0, got |-> None]
Reading == [pc |-> "read", id |-> 0, got |-> None]
Gone == [pc |-> "gone", id |-> 0, got |-> None]

Become(c, h) == handler' = [handler EXCEPT ![c] = h]
Goto(c, l) == Become(c, [pc |-> l, id |-> handler[c].id, got |-> None])

\* the goroutines wg counts
Running == {c \in Conn : handler[c].pc \notin {"none", "gone"}}

\* no goroutine has panicked
Alive == closing # "panicked"

\* Close has not reached the sweep of the connections
Open == closing \in {"no", "stopped"}

------------------------------------------------------------------------------
(* ListenAndServe                                                           *)

Accept(c) ==
  /\ accept.at = "accept" /\ closing = "no"
  /\ handler[c] = Fresh /\ c # accept.conn
  /\ accept' = [at |-> "accepted", conn |-> c]
  /\ UNCHANGED <<serverVars, requestVars, raftVars, conns, late, handler,
                 broken, closing>>

\* Accept fails once the listener is closed; closed was stored before that
AcceptFails ==
  /\ accept.at = "accept" /\ closing # "no" /\ Alive
  /\ accept' = [at |-> "returned", conn |-> None]
  /\ UNCHANGED <<serverVars, requestVars, raftVars, conns, late, handler,
                 broken, closing>>

\* under connMu: the limit, and the connection enters the map
Register ==
  LET c == accept.conn
  IN /\ accept.at = "accepted" /\ Alive
     /\ IF Cardinality(conns) >= maxConns
        THEN /\ accept' = [at |-> "accept", conn |-> None]
             /\ Become(c, Gone)
             /\ UNCHANGED <<conns, late>>
        ELSE /\ conns' = conns \cup {c}
             /\ accept' = [at |-> "spawn", conn |-> c]
             /\ late' = IF Open THEN late ELSE late \cup {c}
             /\ UNCHANGED handler
     /\ UNCHANGED <<serverVars, requestVars, raftVars, broken, closing>>

\* wg.Add(1), go handleConn
Spawn ==
  /\ accept.at = "spawn" /\ Alive
  /\ Become(accept.conn, Reading)
  /\ accept' = [at |-> "accept", conn |-> None]
  /\ UNCHANGED <<serverVars, requestVars, raftVars, conns, late, broken,
                 closing>>

------------------------------------------------------------------------------
(* handleConn and raftPropose                                               *)

HandlerStep ==
  Alive /\ UNCHANGED <<serverVars, connVars, foreign, applier, broken, closing>>

\* two handlers may get the same ID
Mut_nextRaftReqID == nextReqID' = Cardinality(pending) + 1

\* under raftReqIDMu
nextRaftReqID == nextReqID' = nextReqID + 1

\* A write is decoded and the node is leader: a new channel is registered under
\* a new ID.  Requests that do not reach Raft (a read, a server without Raft,
\* "not leader") are answered at once and leave the handler reading.
raftPropose(c) ==
  /\ handler[c].pc = "read" /\ c \notin broken
  /\ replicated /\ nextReqID < MaxReqs
  /\ nextRaftReqID
  /\ pending' = pending \cup {nextReqID'}
  /\ answer' = [answer EXCEPT ![nextReqID'] = None]
  /\ Become(c, [pc |-> "propose", id |-> nextReqID', got |-> None])
  /\ HandlerStep /\ UNCHANGED proposed

\* the proposal is queued
ProposeAccepted(c) ==
  /\ handler[c].pc = "propose"
  /\ proposed' = proposed \cup {[from |-> c, id |-> handler[c].id]}
  /\ Goto(c, "wait")
  /\ HandlerStep /\ UNCHANGED requestVars

\* a refused proposal stays registered
Mut_ProposeRefused(c) ==
  /\ handler[c].pc = "propose"
  /\ Become(c, Reading)
  /\ HandlerStep /\ UNCHANGED <<requestVars, proposed>>

\* the node is no longer leader, or proposeCh is full
ProposeRefused(c) ==
  /\ handler[c].pc = "propose"
  /\ pending' = pending \ {handler[c].id}
  /\ Become(c, Reading)
  /\ HandlerStep /\ UNCHANGED <<nextReqID, answer, proposed>>

\* the select takes the answer
Answered(c) ==
  LET id == handler[c].id
  IN /\ handler[c].pc = "wait" /\ answer[id] # None
     /\ answer' = [answer EXCEPT ![id] = None]
     /\ Become(c, [pc |-> "reply", id |-> id, got |-> answer[id]])
     /\ HandlerStep /\ UNCHANGED <<nextReqID, pending, proposed>>

\* no time limit as long as the command is not applied
Mut_ApplyTimeout(c) ==
  /\ handler[c].pc = "wait" /\ handler[c].id \notin pending
  /\ Goto(c, "expire")
  /\ HandlerStep /\ UNCHANGED <<requestVars, proposed>>

\* the select takes the timer, even if the answer arrives meanwhile
ApplyTimeout(c) ==
  /\ handler[c].pc = "wait"
  /\ Goto(c, "expire")
  /\ HandlerStep /\ UNCHANGED <<requestVars, proposed>>

\* "raft apply timeout"
Expire(c) ==
  /\ handler[c].pc = "expire"
  /\ pending' = pending \ {handler[c].id}
  /\ Become(c, Reading)
  /\ HandlerStep /\ UNCHANGED <<nextReqID, answer, proposed>>

\* the response is written, or cannot be
WriteResponse(c) ==
  /\ handler[c].pc = "reply"
  /\ Become(c, Reading)
  /\ HandlerStep /\ UNCHANGED <<requestVars, proposed>>

\* The read fails for another reason than its deadline: the deferred calls of
\* handleConn.  A connection is forgotten with its handler.
Leave(c) ==
  /\ handler[c].pc = "read" /\ c \in broken /\ Alive
  /\ conns' = conns \ {c} /\ broken' = broken \ {c} /\ late' = late \ {c}
  /\ Become(c, Gone)
  /\ UNCHANGED <<serverVars, requestVars, raftVars, accept, closing>>

\* the client goes away; a handler notices when it reads
Disconnect(c) ==
  /\ handler[c].pc = "read" /\ c \notin broken /\ Alive
  /\ broken' = broken \cup {c}
  /\ UNCHANGED <<serverVars, requestVars, raftVars, connVars, handler, closing>>

------------------------------------------------------------------------------
(* The apply goroutine.  A proposal that Raft loses is never delivered.      *)

ApplyStep ==
  Alive /\ UNCHANGED <<serverVars, nextReqID, connVars, handler, broken, closing>>

Idle == [at |-> "idle", entry |-> None]

\* Raft delivers an entry and its command is executed on the cache
onRaftApply ==
  /\ replicated /\ applier = Idle /\ closing \notin {"down", "leaving", "left"}
  /\ \E e \in proposed \cup {[from |-> None, id |-> id] : id \in ReqID} :
       /\ e.from = None => foreign < MaxForeign
       /\ foreign' = IF e.from = None THEN foreign + 1 ELSE foreign
       /\ applier' = [at |-> "notify", entry |-> e]
       /\ proposed' = proposed \ {e}
  /\ ApplyStep /\ UNCHANGED <<pending, answer>>

\* the channel stays in the map
Mut_notifyRaftPending ==
  /\ applier.at = "notify"
  /\ applier' = IF applier.entry.id \in pending
                THEN [at |-> "send", entry |-> applier.entry] ELSE Idle
  /\ ApplyStep /\ UNCHANGED <<pending, answer, proposed, foreign>>

\* under raftPendingMu
notifyRaftPending ==
  /\ applier.at = "notify"
  /\ applier' = IF applier.entry.id \in pending
                THEN [at |-> "send", entry |-> applier.entry] ELSE Idle
  /\ pending' = pending \ {applier.entry.id}
  /\ ApplyStep /\ UNCHANGED <<answer, proposed, foreign>>

\* ch <- res, with room for one
Send ==
  /\ applier.at = "send" /\ answer[applier.entry.id] = None
  /\ answer' = [answer EXCEPT ![applier.entry.id] = applier.entry]
  /\ applier' = Idle
  /\ ApplyStep /\ UNCHANGED <<pending, proposed, foreign>>

------------------------------------------------------------------------------
(* Close, called once                                                       *)

CloseStep == UNCHANGED <<config, requestVars, raftVars, accept, handler>>

\* closed is set and the listener closed: no Accept succeeds from here on
StopListening ==
  /\ closing = "no"
  /\ closing' = "stopped"
  /\ CloseStep /\ UNCHANGED <<conns, late, broken, cut, transport>>

\* the map is emptied before its connections are closed
Mut_CloseConns ==
  /\ closing = "stopped"
  /\ conns' = {}
  /\ closing' = "waiting"
  /\ CloseStep /\ UNCHANGED <<late, broken, cut, transport>>

\* under connMu: every registered connection is closed, the map replaced
CloseConns ==
  /\ closing = "stopped"
  /\ broken' = broken \cup conns
  /\ conns' = {}
  /\ closing' = "waiting"
  /\ CloseStep /\ UNCHANGED <<late, cut, transport>>

\* nothing is waited for when gracefulTimeout is not set
Mut_WaitHandlers ==
  /\ closing = "waiting"
  /\ closing' = "drained"
  /\ CloseStep /\ UNCHANGED <<conns, late, broken, cut, transport>>

\* wg.Wait returned; what the accept loop adds from now on is not waited for
WaitHandlers ==
  /\ closing = "waiting" /\ Running = {}
  /\ closing' = "drained"
  /\ late' = late \cup (IF accept.at = "spawn" THEN {accept.conn} ELSE {})
  /\ CloseStep /\ UNCHANGED <<conns, broken, cut, transport>>

\* the timer, when gracefulTimeout is set
GracefulTimeout ==
  /\ closing = "waiting"
  /\ closing' = "drained" /\ cut' = TRUE
  /\ CloseStep /\ UNCHANGED <<conns, late, broken, transport>>

\* raftNode.Shutdown waits for the apply goroutine, which ends between entries
ShutdownRaft ==
  /\ closing = "drained"
  /\ replicated => applier = Idle
  /\ closing' = IF replicated THEN "down" ELSE "returned"
  /\ CloseStep /\ UNCHANGED <<conns, late, broken, cut, transport>>

\* and then calls transport.Shutdown: the listener and the connections it made
\* are closed, those that are being made are not
CloseTransport ==
  /\ closing = "down"
  /\ closing' = "leaving"
  /\ \E dialling \in SUBSET {p \in peers : transport.out[p] = "none"} :
       transport' = [transport EXCEPT !.out =
         [p \in peers |-> CASE p \in dialling         -> "dial"
                            [] transport.out[p] = "up" -> "closed"
                            [] OTHER                   -> "ended"]]
  /\ CloseStep /\ UNCHANGED <<conns, late, broken, cut>>

\* its wg.Wait returns
JoinTransport ==
  /\ closing = "leaving" /\ transport.wg = 0
  /\ closing' = "left"
  /\ CloseStep /\ UNCHANGED <<conns, late, broken, cut, transport>>

\* Close calls raftTransport.Shutdown, which closes the channel a second time
ShutdownTransport ==
  /\ closing = "left"
  /\ closing' = "panicked"
  /\ CloseStep /\ UNCHANGED <<conns, late, broken, cut, transport>>

------------------------------------------------------------------------------
(* The TCP transport of Raft.  Nobody closes the connections it serves: each *)
(* lasts until its peer goes away, or is silent for 30 seconds.              *)

TransportStep ==
  Alive /\ UNCHANGED <<config, requestVars, raftVars, connVars, handler, broken, cut>>

Listening == closing \notin {"leaving", "left"}

\* wg.Done, which panics below zero; no goroutine of the transport recovers
Done(t) ==
  /\ transport' = [t EXCEPT !.wg = @ - 1]
  /\ closing' = IF t.wg = 0 THEN "panicked" ELSE closing

\* acceptLoop: wg.Add(1), go handleConn
PeerConnects(p) ==
  /\ Listening /\ p \notin transport.in
  /\ transport' = [transport EXCEPT !.in = @ \cup {p}, !.wg = @ + 1]
  /\ TransportStep /\ UNCHANGED closing

\* handleConn returns
PeerLeaves(p) ==
  /\ p \in transport.in
  /\ Done([transport EXCEPT !.in = @ \ {p}])
  /\ TransportStep

\* acceptLoop returns
TransportLoopEnds ==
  /\ closing \in {"leaving", "left"} /\ transport.loop
  /\ Done([transport EXCEPT !.loop = FALSE])
  /\ TransportStep

\* connectToPeer has dialled; it calls handleConn without wg.Add
connectToPeer(p) ==
  /\ \/ Listening /\ transport.out[p] = "none"
     \/ transport.out[p] = "dial"
  /\ transport' = [transport EXCEPT !.out[p] = "up"]
  /\ TransportStep /\ UNCHANGED closing

\* that handleConn returns, and is counted as done
ConnectionEnds(p) ==
  /\ transport.out[p] \in {"up", "closed"}
  /\ Done([transport EXCEPT !.out[p] = IF Listening THEN "none" ELSE "ended"])
  /\ TransportStep

------------------------------------------------------------------------------
Init ==
  /\ replicated \in BOOLEAN /\ maxConns \in Limits
  /\ peers \in IF replicated THEN SUBSET Peer ELSE {{}}
  /\ nextReqID = 0 /\ pending = {} /\ answer = [id \in ReqID |-> None]
  /\ proposed = {} /\ foreign = 0 /\ applier = Idle
  /\ handler = [c \in Conn |-> Fresh] /\ broken = {}
  /\ accept = [at |-> "accept", conn |-> None] /\ conns = {} /\ late = {}
  /\ closing = "no" /\ cut = FALSE
  /\ transport = [wg |-> 1, loop |-> TRUE, in |-> {}, out |-> [p \in peers |-> "none"]]

AcceptLoop == AcceptFails \/ Register \/ Spawn

Handle(c) ==
  \/ ProposeAccepted(c) \/ ProposeRefused(c) \/ Answered(c)
  \/ ApplyTimeout(c) \/ Expire(c) \/ WriteResponse(c) \/ Leave(c)

Notify == notifyRaftPending \/ Send

Close == CloseConns \/ WaitHandlers \/ ShutdownRaft \/ CloseTransport
         \/ JoinTransport \/ ShutdownTransport

Peers(p) == PeerConnects(p) \/ PeerLeaves(p) \/ connectToPeer(p) \/ ConnectionEnds(p)

Next ==
  \/ AcceptLoop \/ onRaftApply \/ Notify \/ StopListening \/ Close \/ GracefulTimeout
  \/ \E c \in Conn : Accept(c) \/ raftPropose(c) \/ Handle(c) \/ Disconnect(c)
  \/ TransportLoopEnds
  \/ \E p \in peers : Peers(p)

Spec == Init /\ [][Next]_vars

(* While the process lives, the accept loops, the apply goroutine and Close  *)
(* keep being scheduled, and so does every handler, whose timer of 10 seconds *)
(* fires.  Nothing is assumed of Raft, of the clients, of the peers, or of   *)
(* gracefulTimeout, which may be 0.                                          *)
Fairness == /\ WF_vars(AcceptLoop) /\ WF_vars(Notify) /\ WF_vars(Close)
            /\ WF_vars(TransportLoopEnds)
            /\ \A c \in Conn : WF_vars(Handle(c))

FairSpec == Spec /\ Fairness

------------------------------------------------------------------------------
(* Properties                                                               *)

\* Every variable has its type.
TypeOK ==
  /\ nextReqID \in 0 .. MaxReqs /\ pending \subseteq 1 .. nextReqID
  /\ answer \in [ReqID -> Command \cup {None}]
  /\ proposed \subseteq [from : Conn, id : 1 .. nextReqID]
  /\ applier.at \in {"idle", "notify", "send"} /\ applier.entry \in Command \cup {None}
  /\ \A c \in Conn : handler[c].id \in 0 .. nextReqID /\ handler[c].got \in Command \cup {None}
  /\ broken \subseteq Conn /\ conns \subseteq Conn /\ late \subseteq Conn
  /\ foreign \in 0 .. MaxForeign
  /\ transport.wg \in -1 .. 1 + Cardinality(peers) /\ transport.in \subseteq peers
  /\ transport.out \in [peers -> {"none", "dial", "up", "closed", "ended"}]

InPropose(c) == handler[c].pc \in {"propose", "wait", "expire"}

\* raftPropose answers a handler with the result of its own command, unless an
\* entry of another server, or of an earlier life of this one, carried the same
\* request ID: never with the result of another handler's command.
AnswerIsOwn ==
  \A c \in Conn :
    handler[c].pc = "reply" => \/ handler[c].got = [from |-> c, id |-> handler[c].id]
                               \/ handler[c].got.from = None /\ foreign > 0

\* No two handlers wait under one ID, and raftPending holds no ID nobody waits
\* for: every way out of raftPropose removes its own.
PendingHasWaiter ==
  /\ \A c, d \in Conn :
       (InPropose(c) /\ InPropose(d) /\ handler[c].id = handler[d].id) => c = d
  /\ \A id \in pending : \E c \in Conn : InPropose(c) /\ handler[c].id = id

\* The apply goroutine, which every committed entry of the server goes through,
\* never blocks on the channel of a handler, gone or not: it sends once.
NotifyNeverBlocks == applier.at = "send" => answer[applier.entry.id] = None

\* After a Close that was not cut short by gracefulTimeout no handler works on
\* the cache, except for connections accepted while it ran.
QuietAfterClose ==
  (closing \in {"drained", "down", "leaving", "left", "returned"} /\ ~cut)
    => Running \subseteq late

\* A write handed to raftPropose comes back to its client, whatever Raft does
\* with it, as long as the process lives.
RequestReturns ==
  \A c \in Conn : InPropose(c) ~> (~InPropose(c) \/ ~Alive)

\* Close ends, unless it waits without limit for a connection that was accepted
\* after it had closed the others and whose client stays, or for one that a peer
\* made to the transport and keeps in use: those nobody closes.
CloseEnds ==
  []<>(\/ closing \in {"no", "returned", "panicked"}
       \/ closing = "waiting" /\ Running \cap late # {}
       \/ closing = "leaving" /\ transport.in # {})

\* What the comment of Close ("gracefully shuts down the server") promises: it
\* returns once its clients and its peers are gone.  A replicated server shuts
\* its transport down twice instead.
CloseReturns ==
  (<>[](Running \cup transport.in = {})) => (closing # "no" ~> closing = "returned")

\* What sync.WaitGroup demands of the transport: no Done without its Add.  A
\* connection that connectToPeer made is not added.
CounterBalanced == transport.wg >= 0
=============================================================================
