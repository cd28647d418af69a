---------------------------- MODULE ServerProofs ----------------------------
(****************************************************************************)
(* The book-keeping of raftPropose and notifyRaftPending is right for any   *)
(* number of connections, requests and foreign entries.                     *)
(*                                                                          *)
(* Why a strengthening is needed: that a handler is answered with its own   *)
(* result depends on where a result may be on its way (proposed, the entry  *)
(* of the apply goroutine, a channel), and on IDs being fresh: whatever     *)
(* carries an ID that was given out belongs to the handler holding it.      *)
(****************************************************************************)
EXTENDS Server, TLAPS

\* c is between nextRaftReqID and its response
Holds(c) == handler[c].pc \in {"propose", "wait", "expire", "reply"}

\* what may be delivered to the handler that holds e.id
Rightful(e) ==
  \/ e.from = None /\ foreign > 0
  \/ /\ e.from \in Conn /\ e.id <= nextReqID
     /\ \A c \in Conn : (Holds(c) /\ handler[c].id = e.id) => c = e.from

Handler == [pc : {"none", "read", "propose", "wait", "expire", "reply", "gone"},
            id : Nat, got : Command \cup {None}]

Types ==
  /\ handler \in [Conn -> Handler]
  /\ nextReqID \in Nat /\ nextReqID <= MaxReqs /\ foreign \in Nat
  /\ pending \subseteq ReqID /\ proposed \subseteq Command
  /\ answer \in [ReqID -> Command \cup {None}]
  /\ applier = Idle \/ applier \in [at : {"notify", "send"}, entry : Command]

\* a connection that is being accepted has no handler yet
Arriving ==
  accept.at \in {"accepted", "spawn"} =>
    accept.conn \in Conn /\ handler[accept.conn] = Fresh

\* the IDs that are held are distinct and were given out
IDs ==
  /\ \A c \in Conn : Holds(c) => handler[c].id \in ReqID /\ handler[c].id <= nextReqID
  /\ \A c, d \in Conn : (Holds(c) /\ Holds(d) /\ handler[c].id = handler[d].id) => c = d
  /\ \A id \in pending : \E c \in Conn : InPropose(c) /\ handler[c].id = id

\* a registered channel is empty and nothing is being sent to it
Channels ==
  /\ \A id \in pending : answer[id] = None
  /\ applier.at = "send" => /\ answer[applier.entry.id] = None
                            /\ applier.entry.id \notin pending
                            /\ applier.entry.id <= nextReqID

\* everything under way, and what arrived
Deliveries ==
  /\ \A e \in proposed : Rightful(e)
  /\ applier # Idle => Rightful(applier.entry)
  /\ \A id \in ReqID : answer[id] # None => Rightful(answer[id]) /\ answer[id].id = id
  /\ AnswerIsOwn

RequestInv == Types /\ Arriving /\ IDs /\ Channels /\ Deliveries

\* A new server has no request.
LEMMA InitInv == Init => RequestInv
BY ServerAssumption
   DEF Init, RequestInv, Types, Arriving, IDs, Channels, Deliveries, AnswerIsOwn,
       Handler, Holds, Fresh, Idle, ReqID, Command

(* A step that changes no handler that holds an ID, and nothing of what is   *)
(* under way, preserves the invariant.                                       *)
LEMMA Aside ==
  ASSUME RequestInv, UNCHANGED <<requestVars, raftVars>>,
         handler' \in [Conn -> Handler], Arriving',
         \A c \in Conn : (Holds(c) \/ Holds(c)') => handler'[c] = handler[c]
  PROVE  RequestInv'
<1>1. Types'
  BY DEF RequestInv, Types, requestVars, raftVars, Idle
<1>2. \A c \in Conn : Holds(c)' <=> Holds(c)
  BY DEF Holds
<1>3. \A c \in Conn : InPropose(c) => Holds(c) /\ InPropose(c)'
  BY DEF InPropose, Holds
<1>4. \A c \in Conn : Holds(c) => handler'[c] = handler[c]
  OBVIOUS
<1>5. IDs'
  BY <1>2, <1>3, <1>4 DEF RequestInv, IDs, requestVars
<1>6. Channels'
  BY DEF RequestInv, Channels, requestVars, raftVars
<1>7. \A e : Rightful(e) => Rightful(e)'
  BY <1>2, <1>4 DEF Rightful, requestVars, raftVars
<1>8. AnswerIsOwn'
  BY <1>2, <1>4 DEF RequestInv, Deliveries, AnswerIsOwn, Holds, raftVars
<1>9. Deliveries'
  BY <1>7, <1>8 DEF RequestInv, Deliveries, requestVars, raftVars, Idle
<1> QED
  BY <1>1, <1>5, <1>6, <1>9 DEF RequestInv

(* The same for the steps that leave the handlers alone as well.             *)
LEMMA Elsewhere ==
  ASSUME RequestInv, UNCHANGED <<requestVars, raftVars, handler>>, Arriving'
  PROVE  RequestInv'
<1>1. handler' \in [Conn -> Handler]
  BY DEF RequestInv, Types
<1> QED
  BY <1>1, Aside

\* The accept loop starts handlers that have no request.
LEMMA AcceptInv ==
  ASSUME RequestInv, AcceptLoop \/ \E c \in Conn : Accept(c)
  PROVE  RequestInv'
<1>1. ASSUME NEW c \in Conn, Accept(c) PROVE RequestInv'
  BY <1>1, Elsewhere DEF Accept, Arriving
<1>2. CASE AcceptFails
  BY <1>2, Elsewhere DEF AcceptFails, Arriving
<1>3. CASE Register
  <2>1. CASE UNCHANGED handler
    <3>1. Arriving'
      BY <1>3, <2>1 DEF Register, Arriving, RequestInv
    <3> QED
      BY <1>3, <2>1, <3>1, Elsewhere DEF Register
  <2>2. CASE accept' = [at |-> "accept", conn |-> None] /\ Become(accept.conn, Gone)
    <3>1. accept.conn \in Conn /\ handler[accept.conn] = Fresh
      BY <1>3 DEF Register, Arriving, RequestInv
    <3>2. handler' \in [Conn -> Handler]
      BY <2>2, Zenon DEF Become, Gone, Handler, RequestInv, Types
    <3>3. \A c \in Conn : (Holds(c) \/ Holds(c)') => handler'[c] = handler[c]
      BY <2>2, <3>1 DEF Become, Gone, Fresh, Holds, RequestInv, Types
    <3>4. Arriving'
      BY <2>2 DEF Arriving
    <3> QED
      BY <1>3, <3>2, <3>3, <3>4, Aside DEF Register
  <2> QED
    BY <1>3, <2>1, <2>2 DEF Register
<1>4. CASE Spawn
  <2>1. accept.conn \in Conn /\ handler[accept.conn] = Fresh
    BY <1>4 DEF Spawn, Arriving, RequestInv
  <2>2. handler' \in [Conn -> Handler]
    BY <1>4, Zenon DEF Spawn, Become, Reading, Handler, RequestInv, Types
  <2>3. \A c \in Conn : (Holds(c) \/ Holds(c)') => handler'[c] = handler[c]
    BY <1>4, <2>1 DEF Spawn, Become, Reading, Fresh, Holds, RequestInv, Types
  <2>4. Arriving'
    BY <1>4 DEF Spawn, Arriving
  <2> QED
    BY <1>4, <2>2, <2>3, <2>4, Aside DEF Spawn
<1> QED
  BY <1>1, <1>2, <1>3, <1>4 DEF AcceptLoop

(* A handler that moves is not one that is being accepted.                   *)
LEMMA ArrivingKept ==
  ASSUME RequestInv, NEW c \in Conn, NEW h, handler[c].pc # "none",
         Become(c, h), UNCHANGED accept
  PROVE  Arriving'
BY DEF RequestInv, Arriving, Types, Become, Fresh

(* What a holder has to itself stays its own while holders only leave.       *)
LEMMA RightfulKept ==
  ASSUME nextReqID \in Nat, nextReqID' = nextReqID, foreign' = foreign,
         \A c \in Conn : Holds(c)' => Holds(c) /\ handler'[c].id = handler[c].id
  PROVE  \A e : Rightful(e) => Rightful(e)'
BY DEF Rightful

\* A handler enters raftPropose under an ID nobody has.
LEMMA raftProposeInv ==
  ASSUME RequestInv, NEW c \in Conn, raftPropose(c)
  PROVE  RequestInv'
<1> DEFINE new == nextReqID + 1
<1>1. /\ nextReqID' = new /\ new \in Nat /\ new \in ReqID /\ nextReqID < new
      /\ nextReqID \in Nat /\ new <= MaxReqs
  BY ServerAssumption DEF raftPropose, nextRaftReqID, RequestInv, Types, ReqID
<1> HIDE DEF new
<1>2. /\ pending' = pending \cup {new}
      /\ answer' = [answer EXCEPT ![new] = None]
      /\ handler' = [handler EXCEPT ![c] = [pc |-> "propose", id |-> new, got |-> None]]
      /\ UNCHANGED <<proposed, foreign, applier, accept>>
      /\ handler[c].pc = "read"
  BY <1>1 DEF raftPropose, Become, Reading, HandlerStep, connVars
<1>3. Types'
  BY <1>1, <1>2 DEF RequestInv, Types, Handler, Idle
<1>4. Arriving'
  BY <1>2 DEF RequestInv, Arriving, Types, Fresh
<1>5. ~Holds(c) /\ Holds(c)' /\ handler'[c].id = new
  BY <1>2 DEF Holds, RequestInv, Types
<1>6. \A d \in Conn : d # c => handler'[d] = handler[d]
  BY <1>2 DEF RequestInv, Types
<1>7. \A d \in Conn : d # c => (Holds(d)' <=> Holds(d)) /\ (InPropose(d)' <=> InPropose(d))
  BY <1>6 DEF Holds, InPropose
<1>8. \A d \in Conn : Holds(d) => handler[d].id \in ReqID /\ handler[d].id <= nextReqID
  BY DEF RequestInv, IDs
<1>9. \A d \in Conn : Holds(d) => handler[d].id # new
  BY <1>1, <1>8 DEF ReqID
<1>10. IDs'
  <2>1. \A d \in Conn : Holds(d)' => handler'[d].id \in ReqID /\ handler'[d].id <= nextReqID'
    BY <1>1, <1>5, <1>6, <1>7, <1>8 DEF ReqID
  <2>2. \A d, e \in Conn : (Holds(d)' /\ Holds(e)' /\ handler'[d].id = handler'[e].id) => d = e
    BY <1>5, <1>6, <1>7, <1>9 DEF RequestInv, IDs
  <2>3. InPropose(c)'
    BY <1>2 DEF InPropose, RequestInv, Types
  <2>4. \A id \in pending' : \E d \in Conn : InPropose(d)' /\ handler'[d].id = id
    <3>1. ~InPropose(c)
      BY <1>2 DEF InPropose
    <3> QED
      BY <1>2, <1>5, <1>6, <1>7, <2>3, <3>1 DEF RequestInv, IDs
  <2> QED
    BY <2>1, <2>2, <2>4 DEF IDs
<1>11. Channels'
  BY <1>1, <1>2 DEF RequestInv, Channels, Types, ReqID, Command, Idle
<1>12. \A e : e \in Command /\ Rightful(e) => Rightful(e)'
  BY <1>1, <1>2, <1>5, <1>6, <1>7 DEF Rightful, Command, ReqID
<1>13. AnswerIsOwn'
  BY <1>2 DEF AnswerIsOwn, RequestInv, Deliveries, Types
<1>14. Deliveries'
  BY <1>2, <1>12, <1>13 DEF Deliveries, RequestInv, Types, Idle
<1> QED
  BY <1>3, <1>4, <1>10, <1>11, <1>14 DEF RequestInv

(* A step of a handler that holds an ID, with what it does to the queue and   *)
(* to the channels.                                                           *)
LEMMA HandleInv ==
  ASSUME RequestInv, NEW c \in Conn, Handle(c)
  PROVE  RequestInv'
<1> DEFINE id == handler[c].id
<1>1. handler \in [Conn -> Handler] /\ nextReqID \in Nat
  BY DEF RequestInv, Types
<1>2. CASE Leave(c)
  <2>1. handler' \in [Conn -> Handler]
    BY <1>1, <1>2 DEF Leave, Become, Gone, Handler
  <2>2. \A d \in Conn : (Holds(d) \/ Holds(d)') => handler'[d] = handler[d]
    BY <1>1, <1>2 DEF Leave, Become, Gone, Holds
  <2>3. Arriving'
    BY <1>2, ArrivingKept DEF Leave
  <2> QED
    BY <1>2, <2>1, <2>2, <2>3, Aside DEF Leave
<1>3. CASE ProposeAccepted(c)
  <2>1. /\ handler' = [handler EXCEPT ![c] = [pc |-> "wait", id |-> id, got |-> None]]
        /\ proposed' = proposed \cup {[from |-> c, id |-> id]}
        /\ handler[c].pc = "propose"
        /\ UNCHANGED <<nextReqID, pending, answer, foreign, applier, accept>>
    BY <1>3 DEF ProposeAccepted, Goto, Become, HandlerStep, connVars, requestVars
  <2>2. \A d \in Conn : /\ Holds(d)' <=> Holds(d)
                        /\ InPropose(d)' <=> InPropose(d)
                        /\ handler'[d].id = handler[d].id
    BY <1>1, <2>1 DEF Holds, InPropose, Handler
  <2>3. Holds(c) /\ id \in ReqID /\ id <= nextReqID
    BY <2>1 DEF Holds, RequestInv, IDs
  <2>4. Types'
    BY <2>1, <2>3 DEF RequestInv, Types, Handler, Idle, Command
  <2>5. Arriving'
    BY <2>1 DEF RequestInv, Arriving, Types, Fresh
  <2>6. IDs'
    BY <2>1, <2>2 DEF RequestInv, IDs
  <2>7. Channels'
    BY <2>1 DEF RequestInv, Channels
  <2>8. \A e : Rightful(e) => Rightful(e)'
    BY <1>1, <2>1, <2>2, RightfulKept
  <2>9. Rightful([from |-> c, id |-> id])
    BY <2>3 DEF Rightful, RequestInv, IDs
  <2>10. AnswerIsOwn'
    BY <1>1, <2>1 DEF AnswerIsOwn, RequestInv, Deliveries, Handler
  <2>11. Deliveries'
    BY <2>1, <2>8, <2>9, <2>10 DEF Deliveries, RequestInv, Idle
  <2> QED
    BY <2>4, <2>5, <2>6, <2>7, <2>11 DEF RequestInv
<1>4. CASE ApplyTimeout(c)
  <2>1. /\ handler' = [handler EXCEPT ![c] = [pc |-> "expire", id |-> id, got |-> None]]
        /\ handler[c].pc = "wait"
        /\ UNCHANGED <<nextReqID, pending, answer, proposed, foreign, applier, accept>>
    BY <1>4 DEF ApplyTimeout, Goto, Become, HandlerStep, connVars, requestVars
  <2>2. \A d \in Conn : /\ Holds(d)' <=> Holds(d)
                        /\ InPropose(d)' <=> InPropose(d)
                        /\ handler'[d].id = handler[d].id
    BY <1>1, <2>1 DEF Holds, InPropose, Handler
  <2>4. Types'
    BY <2>1 DEF RequestInv, Types, Handler, Idle
  <2>5. Arriving'
    BY <2>1 DEF RequestInv, Arriving, Types, Fresh
  <2>6. IDs'
    BY <2>1, <2>2 DEF RequestInv, IDs
  <2>7. Channels'
    BY <2>1 DEF RequestInv, Channels
  <2>8. \A e : Rightful(e) => Rightful(e)'
    BY <1>1, <2>1, <2>2, RightfulKept
  <2>10. AnswerIsOwn'
    BY <1>1, <2>1 DEF AnswerIsOwn, RequestInv, Deliveries, Handler
  <2>11. Deliveries'
    BY <2>1, <2>8, <2>10 DEF Deliveries, RequestInv, Idle
  <2> QED
    BY <2>4, <2>5, <2>6, <2>7, <2>11 DEF RequestInv
<1>5. CASE Answered(c)
  <2>1. /\ handler' = [handler EXCEPT ![c] = [pc |-> "reply", id |-> id, got |-> answer[id]]]
        /\ answer' = [answer EXCEPT ![id] = None]
        /\ handler[c].pc = "wait" /\ answer[id] # None
        /\ UNCHANGED <<nextReqID, pending, proposed, foreign, applier, accept>>
    BY <1>5 DEF Answered, Become, HandlerStep, connVars
  <2>2. Holds(c) /\ id \in ReqID /\ answer[id] \in Command
    BY <2>1 DEF Holds, RequestInv, IDs, Types
  <2>3. id \notin pending
    BY <2>1 DEF RequestInv, Channels
  <2>4. Types'
    BY <1>1, <2>1, <2>2 DEF RequestInv, Types, Handler, Idle
  <2>5. Arriving'
    BY <2>1 DEF RequestInv, Arriving, Types, Fresh
  <2>6. \A d \in Conn : /\ Holds(d)' <=> Holds(d)
                        /\ handler'[d].id = handler[d].id
                        /\ d # c => (InPropose(d)' <=> InPropose(d))
    BY <1>1, <2>1 DEF Holds, InPropose, Handler
  <2>7. IDs'
    BY <2>1, <2>3, <2>6 DEF RequestInv, IDs
  <2>8. Channels'
    BY <2>1 DEF RequestInv, Channels, Types
  <2>9. \A e : Rightful(e) => Rightful(e)'
    BY <1>1, <2>1, <2>6, RightfulKept
  <2>10. AnswerIsOwn'
    <3>1. Rightful(answer[id]) /\ answer[id].id = id
      BY <2>1, <2>2 DEF RequestInv, Deliveries
    <3>2. answer[id].from = c \/ (answer[id].from = None /\ foreign > 0)
      BY <2>2, <3>1 DEF Rightful
    <3>3. answer[id] = [from |-> answer[id].from, id |-> answer[id].id]
      BY <2>2 DEF Command
    <3>4. handler'[c].got = answer[id] /\ handler'[c].id = id
      BY <1>1, <2>1 DEF Handler
    <3>5. \A d \in Conn : d # c => handler'[d] = handler[d]
      BY <1>1, <2>1
    <3>6. /\ \/ handler'[c].got = [from |-> c, id |-> handler'[c].id]
             \/ handler'[c].got.from = None /\ foreign' > 0
          /\ foreign' = foreign
      BY <2>1, <3>1, <3>2, <3>3, <3>4
    <3> QED
      BY <3>5, <3>6 DEF AnswerIsOwn, RequestInv, Deliveries
  <2>11. Deliveries'
    BY <2>1, <2>2, <2>9, <2>10 DEF Deliveries, RequestInv, Types, Idle
  <2> QED
    BY <2>4, <2>5, <2>7, <2>8, <2>11 DEF RequestInv
<1>6. CASE ProposeRefused(c) \/ Expire(c) \/ WriteResponse(c)
  <2>1. /\ handler' = [handler EXCEPT ![c] = Reading]
        /\ handler[c].pc # "none"
        /\ \/ pending' = pending \ {id}
           \/ pending' = pending /\ handler[c].pc = "reply"
        /\ UNCHANGED <<nextReqID, answer, proposed, foreign, applier, accept>>
    BY <1>6 DEF ProposeRefused, Expire, WriteResponse, Become, HandlerStep, connVars, requestVars
  <2>2. \A d \in Conn : d # c => handler'[d] = handler[d]
    BY <1>1, <2>1
  <2>3. ~Holds(c)' /\ ~(handler'[c].pc = "reply")
    BY <1>1, <2>1 DEF Holds, Reading
  <2>4. Types'
    BY <2>1 DEF RequestInv, Types, Handler, Reading, Idle
  <2>5. Arriving'
    BY <2>1, <2>2 DEF RequestInv, Arriving, Fresh
  <2>6. \A d \in Conn : d # c => (Holds(d)' <=> Holds(d)) /\ (InPropose(d)' <=> InPropose(d))
    BY <2>2 DEF Holds, InPropose
  <2>7. IDs'
    <3>1. \A i \in pending' : i \in pending /\ ~(InPropose(c) /\ handler[c].id = i)
      BY <2>1 DEF InPropose
    <3> QED
      BY <2>1, <2>2, <2>3, <2>6, <3>1 DEF RequestInv, IDs
  <2>8. Channels'
    BY <2>1 DEF RequestInv, Channels
  <2>9. \A e : Rightful(e) => Rightful(e)'
    BY <1>1, <2>1, <2>2, <2>3, <2>6, RightfulKept
  <2>10. AnswerIsOwn'
    BY <2>1, <2>2, <2>3 DEF AnswerIsOwn, RequestInv, Deliveries
  <2>11. Deliveries'
    BY <2>1, <2>9, <2>10 DEF Deliveries, RequestInv, Idle
  <2> QED
    BY <2>4, <2>5, <2>7, <2>8, <2>11 DEF RequestInv
<1> QED
  BY <1>2, <1>3, <1>4, <1>5, <1>6 DEF Handle

(* The apply goroutine moves results; it touches no handler.                  *)
LEMMA RightfulFurther ==
  ASSUME foreign \in Nat, foreign' \in Nat, foreign' >= foreign,
         UNCHANGED <<nextReqID, handler>>
  PROVE  \A e : Rightful(e) => Rightful(e)'
BY DEF Rightful, Holds

\* The apply goroutine sends at most once for an ID.
LEMMA ApplyInv ==
  ASSUME RequestInv, onRaftApply \/ Notify
  PROVE  RequestInv'
<1>0. /\ UNCHANGED <<nextReqID, handler, accept>>
      /\ foreign \in Nat /\ foreign' \in Nat /\ foreign' >= foreign
  BY DEF onRaftApply, Notify, notifyRaftPending, Send, ApplyStep, connVars, RequestInv, Types
<1>1. Arriving'
  BY <1>0 DEF RequestInv, Arriving
<1>2. \A e : Rightful(e) => Rightful(e)'
  BY <1>0, RightfulFurther
<1>3. AnswerIsOwn'
  BY <1>0 DEF RequestInv, Deliveries, AnswerIsOwn
<1>4. \A c \in Conn : (Holds(c)' <=> Holds(c)) /\ (InPropose(c)' <=> InPropose(c))
  BY <1>0 DEF Holds, InPropose
<1>5. pending' \subseteq pending
  BY DEF onRaftApply, Notify, notifyRaftPending, Send
<1>6. IDs'
  BY <1>0, <1>4, <1>5 DEF RequestInv, IDs
<1>7. CASE onRaftApply
  <2>1. PICK e \in proposed \cup {[from |-> None, id |-> id] : id \in ReqID} :
          /\ foreign' = IF e.from = None THEN foreign + 1 ELSE foreign
          /\ applier' = [at |-> "notify", entry |-> e]
          /\ proposed' = proposed \ {e}
    BY <1>7 DEF onRaftApply
  <2>2. UNCHANGED <<pending, answer>>
    BY <1>7 DEF onRaftApply
  <2>3. e \in Command
    BY DEF RequestInv, Types, Command
  <2>4. Rightful(e)'
    <3>1. CASE e \in proposed
      BY <3>1, <1>2 DEF RequestInv, Deliveries
    <3>2. CASE e.from = None
      BY <1>0, <2>1, <3>2 DEF Rightful
    <3> QED
      BY <3>1, <3>2
  <2>5. Types'
    BY <1>0, <2>1, <2>2, <2>3 DEF RequestInv, Types
  <2>6. Channels'
    BY <1>0, <2>1, <2>2 DEF RequestInv, Channels
  <2>7. Deliveries'
    BY <1>2, <1>3, <2>1, <2>2, <2>4 DEF RequestInv, Deliveries
  <2> QED
    BY <1>1, <1>6, <2>5, <2>6, <2>7 DEF RequestInv
<1>8. CASE notifyRaftPending
  <2>1. /\ applier' = IF applier.entry.id \in pending
                      THEN [at |-> "send", entry |-> applier.entry] ELSE Idle
        /\ pending' = pending \ {applier.entry.id}
        /\ applier.at = "notify"
        /\ UNCHANGED <<answer, proposed, foreign>>
    BY <1>8 DEF notifyRaftPending
  <2>2. applier.entry \in Command /\ applier # Idle
    BY <2>1 DEF RequestInv, Types, Idle
  <2>3. Types'
    BY <1>0, <2>1, <2>2 DEF RequestInv, Types
  <2>4. \A id \in pending : id <= nextReqID
    BY DEF RequestInv, IDs, Holds, InPropose
  <2>5. Channels'
    <3>1. CASE applier.entry.id \in pending
      BY <1>0, <2>1, <2>4, <3>1 DEF RequestInv, Channels
    <3>2. CASE applier.entry.id \notin pending
      BY <1>0, <2>1, <3>2 DEF RequestInv, Channels, Idle
    <3> QED
      BY <3>1, <3>2
  <2>6. Rightful(applier.entry)
    BY <2>2 DEF RequestInv, Deliveries
  <2>8. (applier # Idle => Rightful(applier.entry))'
    <3>1. CASE applier' = Idle
      BY <3>1 DEF Idle
    <3>2. CASE applier' = [at |-> "send", entry |-> applier.entry]
      BY <1>0, <2>1, <2>6, <3>2 DEF Rightful, Holds
    <3> QED
      BY <2>1, <3>1, <3>2
  <2>9. Deliveries'
    BY <1>2, <1>3, <2>1, <2>8 DEF RequestInv, Deliveries
  <2> QED
    BY <1>1, <1>6, <2>3, <2>5, <2>9 DEF RequestInv
<1>9. CASE Send
  <2>1. /\ applier.at = "send"
        /\ answer' = [answer EXCEPT ![applier.entry.id] = applier.entry]
        /\ applier' = Idle
        /\ UNCHANGED <<pending, proposed, foreign>>
    BY <1>9 DEF Send
  <2>2. applier.entry \in Command /\ applier.entry.id \in ReqID /\ applier # Idle
    BY <2>1 DEF RequestInv, Types, Idle, Command
  <2>3. Types'
    BY <1>0, <2>1, <2>2 DEF RequestInv, Types, Idle
  <2>4. Channels'
    BY <1>0, <2>1, <2>2 DEF RequestInv, Channels, Types, Idle
  <2>5. Rightful(applier.entry)
    BY <2>2 DEF RequestInv, Deliveries
  <2>6. \A id \in ReqID : answer'[id] # None => Rightful(answer'[id]) /\ answer'[id].id = id
    BY <2>1, <2>2, <2>5 DEF RequestInv, Deliveries, Types
  <2>7. (\A id \in ReqID : answer[id] # None => Rightful(answer[id]) /\ answer[id].id = id)'
    BY <1>0, <2>1, <2>6 DEF Rightful, Holds
  <2>8. (applier # Idle => Rightful(applier.entry))'
    BY <2>1 DEF Idle
  <2>9. Deliveries'
    BY <1>2, <1>3, <2>1, <2>7, <2>8 DEF RequestInv, Deliveries
  <2> QED
    BY <1>1, <1>6, <2>3, <2>4, <2>9 DEF RequestInv
<1> QED
  BY <1>7, <1>8, <1>9 DEF Notify

\* The transport leaves requests, handlers and connections alone, and ends
\* nothing but the process.
LEMMA TransportOnly ==
  ASSUME TransportLoopEnds \/ \E p \in peers : Peers(p)
  PROVE  /\ UNCHANGED <<requestVars, raftVars, connVars, handler, cut>>
         /\ closing' = closing \/ closing' = "panicked"
BY Zenon DEF TransportLoopEnds, Peers, PeerConnects, PeerLeaves, connectToPeer, ConnectionEnds,
             Done, TransportStep

\* Every step preserves RequestInv.
LEMMA NextInv == RequestInv /\ [Next]_vars => RequestInv'
<1> SUFFICES ASSUME RequestInv, [Next]_vars PROVE RequestInv'
  OBVIOUS
<1>1. CASE AcceptLoop \/ \E c \in Conn : Accept(c)
  BY <1>1, AcceptInv
<1>2. CASE onRaftApply \/ Notify
  BY <1>2, ApplyInv
<1>3. ASSUME NEW c \in Conn, raftPropose(c) PROVE RequestInv'
  BY <1>3, raftProposeInv
<1>4. ASSUME NEW c \in Conn, Handle(c) PROVE RequestInv'
  BY <1>4, HandleInv
<1>5. ASSUME NEW c \in Conn, Disconnect(c) PROVE RequestInv'
  <2>1. Arriving'
    BY <1>5 DEF Disconnect, connVars, RequestInv, Arriving
  <2> QED
    BY <1>5, <2>1, Elsewhere DEF Disconnect
<1>6. CASE StopListening \/ Close \/ GracefulTimeout
  <2>1. UNCHANGED <<requestVars, raftVars, accept, handler>>
    BY <1>6 DEF StopListening, Close, GracefulTimeout, CloseConns, WaitHandlers,
                ShutdownRaft, CloseTransport, JoinTransport, ShutdownTransport, CloseStep
  <2>2. Arriving'
    BY <2>1 DEF RequestInv, Arriving
  <2> QED
    BY <2>1, <2>2, Elsewhere
<1>7. CASE UNCHANGED vars
  <2>1. Arriving'
    BY <1>7 DEF vars, connVars, RequestInv, Arriving
  <2> QED
    BY <1>7, <2>1, Elsewhere DEF vars
<1>8. CASE TransportLoopEnds \/ \E p \in peers : Peers(p)
  <2>1. UNCHANGED <<requestVars, raftVars, connVars, handler>>
    BY <1>8, TransportOnly, Zenon
  <2>2. Arriving'
    BY <2>1 DEF RequestInv, Arriving, connVars
  <2> QED
    BY <2>1, <2>2, Elsewhere
<1> QED
  BY <1>1, <1>2, <1>3, <1>4, <1>5, <1>6, <1>7, <1>8 DEF Next

\* RequestInv is an invariant.
LEMMA Inductive == Spec => []RequestInv
BY InitInv, NextInv, PTL DEF Spec

(* raftPropose never answers a handler with the result of another handler's   *)
(* command, however many handlers and requests there are.                     *)
THEOREM AnswersOwn == Spec => []AnswerIsOwn
<1>1. RequestInv => AnswerIsOwn
  BY DEF RequestInv, Deliveries
<1> QED
  BY <1>1, Inductive, PTL

(* raftPending leaks nothing: each of its IDs has exactly one handler that     *)
(* will take it out or be answered.                                           *)
THEOREM NothingLeaks == Spec => []PendingHasWaiter
<1>1. RequestInv => PendingHasWaiter
  BY DEF RequestInv, IDs, PendingHasWaiter, InPropose, Holds
<1> QED
  BY <1>1, Inductive, PTL

(* The send of notifyRaftPending finds its channel empty, so that a handler    *)
(* that gave up cannot stop the apply goroutine.                              *)
THEOREM ApplierNeverStuck == Spec => []NotifyNeverBlocks
<1>1. RequestInv => NotifyNeverBlocks
  BY DEF RequestInv, Channels, NotifyNeverBlocks
<1> QED
  BY <1>1, Inductive, PTL

------------------------------------------------------------------------------
(* Close                                                                    *)

(* Once Close has waited, the accept loop can still start one handler, that  *)
(* of a connection it holds: it must already count as late.                  *)
QuietInv ==
  (closing \in {"drained", "down", "leaving", "left", "returned"} /\ ~cut) =>
    /\ Running \subseteq late
    /\ accept.at = "spawn" => accept.conn \in late

\* The goroutines that run after a step that changes one handler.
LEMMA RunningAfter ==
  ASSUME handler \in [Conn -> Handler], NEW c \in Conn, NEW h, Become(c, h)
  PROVE  /\ Running' \subseteq Running \cup {c}
         /\ h.pc \in {"none", "gone"} => Running' \subseteq Running \ {c}
BY DEF Running, Become

\* Every step keeps what Close has waited for quiet.
LEMMA QuietStep == RequestInv /\ QuietInv /\ [Next]_vars => QuietInv'
<1> SUFFICES ASSUME RequestInv, QuietInv, [Next]_vars PROVE QuietInv'
  OBVIOUS
<1>1. handler \in [Conn -> Handler] /\ Arriving
  BY DEF RequestInv, Types
<1>2. CASE UNCHANGED <<handler, late, accept, closing, cut>>
  BY <1>2 DEF QuietInv, Running
<1>3. ASSUME NEW c \in Conn, Accept(c) PROVE QuietInv'
  BY <1>3 DEF Accept, QuietInv
<1>4. CASE AcceptFails
  BY <1>4 DEF AcceptFails, QuietInv, Running, serverVars
<1>5. CASE Register
  <2>1. UNCHANGED <<closing, cut>> /\ accept.conn \in Conn
    BY <1>1, <1>5 DEF Register, Arriving, serverVars
  <2>2. CASE UNCHANGED handler
    BY <1>5, <2>1, <2>2 DEF Register, QuietInv, Running, Open
  <2>3. CASE Become(accept.conn, Gone) /\ UNCHANGED late /\ accept'.at = "accept"
    <3>1. Running' \subseteq Running
      BY <1>1, <2>1, <2>3, RunningAfter DEF Gone
    <3> QED
      BY <2>1, <2>3, <3>1 DEF QuietInv
  <2> QED
    BY <1>5, <2>2, <2>3 DEF Register
<1>6. CASE Spawn
  <2>1. UNCHANGED <<closing, cut, late>> /\ accept.conn \in Conn
    BY <1>1, <1>6 DEF Spawn, Arriving, serverVars
  <2>2. Running' \subseteq Running \cup {accept.conn}
    BY <1>1, <1>6, <2>1, RunningAfter DEF Spawn
  <2> QED
    BY <1>6, <2>1, <2>2 DEF Spawn, QuietInv
<1>7. ASSUME NEW c \in Conn, Leave(c) PROVE QuietInv'
  <2>1. Running' \subseteq Running \ {c}
    BY <1>1, <1>7, RunningAfter DEF Leave, Gone
  <2>2. accept.at = "spawn" => accept.conn # c
    BY <1>1, <1>7 DEF Leave, Arriving, Fresh
  <2>3. UNCHANGED <<closing, cut, accept>> /\ late' = late \ {c}
    BY <1>7 DEF Leave, serverVars
  <2> QED
    BY <2>1, <2>2, <2>3 DEF QuietInv
<1>8. ASSUME NEW c \in Conn, raftPropose(c) \/ Handle(c), ~Leave(c) PROVE QuietInv'
  <2>1. UNCHANGED <<closing, cut, accept, late>>
    BY <1>8, Zenon DEF raftPropose, Handle, ProposeAccepted, ProposeRefused, Answered,
                ApplyTimeout, Expire, WriteResponse, HandlerStep, serverVars, connVars
  <2>2. c \in Running /\ \E h : Become(c, h)
    BY <1>8, Zenon DEF raftPropose, Handle, ProposeAccepted, ProposeRefused, Answered,
                ApplyTimeout, Expire, WriteResponse, Goto, Running
  <2>3. Running' \subseteq Running
    BY <1>1, <2>2, RunningAfter
  <2> QED
    BY <2>1, <2>3 DEF QuietInv
<1>9. CASE WaitHandlers
  BY <1>9 DEF WaitHandlers, CloseStep, QuietInv, Running
<1>10. CASE GracefulTimeout
  BY <1>10 DEF GracefulTimeout, QuietInv
<1>11. CASE StopListening \/ CloseConns
  BY <1>11 DEF StopListening, CloseConns, QuietInv
<1>12. CASE ShutdownRaft \/ CloseTransport \/ JoinTransport \/ ShutdownTransport
  <2>1. /\ UNCHANGED <<handler, accept, late, cut>>
        /\ closing \in {"drained", "down", "leaving", "left"}
    BY <1>12, Zenon DEF ShutdownRaft, CloseTransport, JoinTransport, ShutdownTransport, CloseStep
  <2> QED
    BY <2>1, Zenon DEF QuietInv, Running
<1>13. CASE onRaftApply \/ Notify
  BY <1>2, <1>13 DEF onRaftApply, Notify, notifyRaftPending, Send, ApplyStep, serverVars, connVars
<1>14. ASSUME NEW c \in Conn, Disconnect(c) PROVE QuietInv'
  BY <1>2, <1>14 DEF Disconnect, serverVars, connVars
<1>15. CASE UNCHANGED vars
  BY <1>2, <1>15 DEF vars, connVars
<1>16. CASE TransportLoopEnds \/ \E p \in peers : Peers(p)
  <2>1. /\ UNCHANGED <<handler, accept, late, cut>>
        /\ closing' = closing \/ closing' = "panicked"
    BY <1>16, TransportOnly, Zenon DEF connVars
  <2> QED
    BY <2>1, Zenon DEF QuietInv, Running
<1> QED
  BY <1>3, <1>4, <1>5, <1>6, <1>7, <1>8, <1>9, <1>10, <1>11, <1>12, <1>13, <1>14, <1>15, <1>16,
     Zenon DEF Next, AcceptLoop, Close, Handle

(* Close, unless gracefulTimeout cuts it short, leaves no handler at work but  *)
(* those of connections accepted while it ran, for any number of connections.  *)
THEOREM ClosesQuietly == Spec => []QuietAfterClose
<1>1. Init => QuietInv
  BY DEF Init, QuietInv
<1>2. QuietInv => QuietAfterClose
  BY DEF QuietInv, QuietAfterClose
<1> QED
  BY <1>1, <1>2, Inductive, QuietStep, PTL DEF Spec

=============================================================================
