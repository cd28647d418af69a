-------------------------------- MODULE Rpc --------------------------------
(***************************************************************************)
(* The multiplexed connections of the TCP client: the goroutines that call *)
(* do (doSet, doHash and doList are the same on maps and pools of their    *)
(* own) or use a Pipeline, the readLoop of every connection, and Close.    *)
(* The server answers the requests of a connection in their order, so that *)
(* the answers still to be read are the frames written.                    *)
(*                                                                         *)
(* A request is named by its connection and stream id.  What a goroutine   *)
(* encodes is kept in the pooled buffer it encoded it into, and is read    *)
(* there when the frame is written, so that a buffer with two owners is    *)
(* seen on the wire.  The same goes for the pooled response channels.      *)
(***************************************************************************)
EXTENDS Integers, Sequences, FiniteSets, Functions

CONSTANTS
    Caller,       \* goroutines of the client's process
    Conn,         \* connections
    Chan,         \* bound: the response channels that are ever made
    Buf,          \* bound: the buffers that are ever made
    MaxStream,    \* bound: the stream ids of one connection
    MaxBatch,     \* bound: the requests of one pipeline
    Kinds,        \* whether each goroutine calls "do" or uses a pipeline, "pipe"
    Faults        \* which of "drop", "close" and "timeout" happen

ASSUME RpcAssumption ==
    /\ Conn # {}
    /\ Chan \subseteq Nat /\ Buf \subseteq Nat
    /\ MaxStream \in Nat /\ MaxBatch \in Nat \ {0}
    /\ Kinds \in [Caller -> SUBSET {"do", "pipe"}]
    /\ Faults \subseteq {"drop", "close", "timeout"}

VARIABLES
    call,          \* what each goroutine is doing
    chPool,        \* respChPool
    inCh,          \* what is in each channel, of capacity 1
    bufPool,       \* how often each buffer is in bufPool
    mem,           \* the request last encoded into each buffer
    pending,       \* pendingMap of each connection, from stream id to channel
    nextStreamID,
    closed,        \* clientConn.closed
    tcp,           \* "up", "torn" (a frame was cut by the write deadline), "down"
                   \* (lost or closed by the peer), or "closed" by Close
    wire,          \* the frames written whose answers have not been read
    proc,          \* the readLoop of each connection and the goroutine in Close
    gaveUp,        \* requests whose goroutine returned without their answer
    piped          \* a pipeline's buffers have been returned to the pool twice

net == <<closed, tcp, wire>>
pools == <<chPool, inCh, bufPool, mem>>
ghosts == <<gaveUp, piped>>
vars == <<call, pools, pending, nextStreamID, net, proc, ghosts>>

Failed == <<>>      \* the answer that closeAllPending makes up
Worker == {"reader", "closer"}

Idle == [pc |-> "idle", kind |-> "do", cc |-> CHOOSE cc \in Conn : TRUE,
         ids |-> <<>>, chs |-> <<>>, bufs |-> <<>>, res |-> <<>>]

Become(c, r) == call' = [call EXCEPT ![c] = r]

Request(r, i) == <<r.cc, r.ids[i]>>

-----------------------------------------------------------------------------
(* sync.Pool.  Get takes something from the pool when there is something in *)
(* it, and makes a new one otherwise: one that was made although the pool is *)
(* not empty would be shared with nobody.                                    *)

Held(f) == UNION {Range(call[c][f]) : c \in Caller}

LeastOf(S) == IF S = {} THEN {} ELSE {CHOOSE x \in S : \A y \in S : x <= y}

GetChan == IF chPool # {} THEN chPool ELSE LeastOf(Chan \ Held("chs"))

GetBuf ==
    LET pooled == {b \in Buf : bufPool[b] > 0}
    IN  IF pooled # {} THEN pooled ELSE LeastOf(Buf \ Held("bufs"))

Mut_Taken(b) == [bufPool EXCEPT ![b] = 1]

\* bufPool without one b, which is not in it when it is new.
Taken(b) == [bufPool EXCEPT ![b] = IF @ > 0 THEN @ - 1 ELSE 0]

\* putBuf of every buffer of a sequence.
PutBufs(p, bufs) == [b \in Buf |-> p[b] + Cardinality({i \in DOMAIN bufs : bufs[i] = b})]

-----------------------------------------------------------------------------
(* do and Pipeline. *)

\* Stream ids are left for the goroutines about to take one, and for one more.
RoomFor(cc) ==
    nextStreamID[cc] + Cardinality({c \in Caller : call[c].pc = "checked" /\ call[c].cc = cc}) < MaxStream

\* do and Add begin with the test of closed.
Check(c, cc, kind) ==
    /\ ~closed[cc]
    /\ RoomFor(cc)
    /\ \/ call[c].pc = "idle" /\ Become(c, [Idle EXCEPT !.pc = "checked", !.kind = kind, !.cc = cc])
       \/ /\ call[c].pc = "added" /\ kind = "pipe" /\ call[c].cc = cc
          /\ Len(call[c].ids) < MaxBatch
          /\ Become(c, [call[c] EXCEPT !.pc = "checked"])
    /\ UNCHANGED <<pools, pending, nextStreamID, net, proc, ghosts>>

\* pendingMap.Store.
Stored(p, id, ch) == [i \in DOMAIN p \cup {id} |-> IF i = id THEN ch ELSE p[i]]

\* A stream id, a channel stored under it, and the request in a buffer.
Register(c) ==
    LET r  == call[c]
        id == nextStreamID[r.cc] + 1
    IN  /\ r.pc = "checked"
        /\ nextStreamID' = [nextStreamID EXCEPT ![r.cc] = id]
        /\ \E ch \in GetChan, b \in GetBuf :
               /\ chPool' = chPool \ {ch}
               /\ pending' = [pending EXCEPT ![r.cc] = Stored(@, id, ch)]
               /\ bufPool' = Taken(b)
               /\ mem' = [mem EXCEPT ![b] = <<r.cc, id>>]
               /\ Become(c, [r EXCEPT !.pc = "added", !.ids = Append(@, id),
                                      !.chs = Append(@, ch), !.bufs = Append(@, b)])
        /\ UNCHANGED <<inCh, net, proc, ghosts>>

\* Reset of a pipeline that is not written, whether or not it has failed.
Reset(c) ==
    /\ call[c].pc = "added" /\ call[c].kind = "pipe"
    /\ Become(c, [call[c] EXCEPT !.pc = "failed"])
    /\ UNCHANGED <<pools, pending, nextStreamID, net, proc, ghosts>>

\* What a buffer holds is of no interest when no goroutine has it.
Forget(m) == [b \in Buf |-> IF b \in Held("bufs")' THEN m[b] ELSE <<>>]

\* The frames, with what their buffers hold now.
FramesOf(r) == [i \in DOMAIN r.ids |-> [id |-> r.ids[i], body |-> mem[r.bufs[i]]]]

\* The frames go out under one hold of writeMu; FlushWrite tests closed again
\* before it.  Writing to a connection that the peer has left may still succeed.
Write(c) ==
    LET r == call[c]
    IN  /\ r.pc = "added"
        /\ r.kind = "pipe" => ~closed[r.cc]
        /\ tcp[r.cc] # "closed"
        /\ Become(c, [r EXCEPT !.pc = "waiting"])
        /\ wire' = IF tcp[r.cc] = "up" THEN [wire EXCEPT ![r.cc] = @ \o FramesOf(r)] ELSE wire
        /\ bufPool' = PutBufs(bufPool, r.bufs)
        /\ UNCHANGED <<chPool, inCh, mem, pending, nextStreamID, closed, tcp, proc, ghosts>>

\* An error marks the connection bad; a pipeline leaves its buffers to cleanup.
FailWrite(c) ==
    LET r == call[c]
    IN  /\ r.pc = "added"
        /\ closed' = [closed EXCEPT ![r.cc] = TRUE]
        /\ Become(c, [r EXCEPT !.pc = "failed"])
        /\ bufPool' = IF r.kind = "do" THEN PutBufs(bufPool, r.bufs) ELSE bufPool
        /\ UNCHANGED <<chPool, inCh, mem, pending, nextStreamID, proc, ghosts>>

WriteFails(c) ==
    LET r == call[c]
    IN  /\ tcp[r.cc] # "up" \/ (r.kind = "pipe" /\ closed[r.cc])
        /\ FailWrite(c)
        /\ UNCHANGED <<tcp, wire>>

\* The write deadline passes with some of the frames written and one cut in
\* two, which the server may yet answer when later bytes complete it.  What is
\* written after it is lost on the server.
WriteTimeout(c) ==
    LET r == call[c]
    IN  /\ "timeout" \in Faults
        /\ tcp[r.cc] = "up"
        /\ r.kind = "pipe" => ~closed[r.cc]
        /\ FailWrite(c)
        /\ tcp' = [tcp EXCEPT ![r.cc] = "torn"]
        /\ \E n \in 0 .. Len(r.ids) :
               wire' = [wire EXCEPT ![r.cc] = @ \o SubSeq(FramesOf(r), 1, n)]

\* The answers are read in the order of the requests.
Receive(c) ==
    LET r == call[c]
        i == Len(r.res) + 1
    IN  /\ r.pc = "waiting"
        /\ inCh[r.chs[i]] # <<>>
        /\ inCh' = [inCh EXCEPT ![r.chs[i]] = <<>>]
        /\ Become(c, [r EXCEPT !.res = Append(@, Head(inCh[r.chs[i]])),
                               !.pc = IF i = Len(r.ids) THEN "done" ELSE "waiting"])
        /\ UNCHANGED <<chPool, bufPool, mem, pending, nextStreamID, net, proc, ghosts>>

Mut_ReadTimeout(c) ==
    /\ "timeout" \in Faults
    /\ call[c].pc = "waiting" /\ call[c].kind = "pipe"
    /\ Become(c, [call[c] EXCEPT !.pc = "done"])
    /\ UNCHANGED <<pools, pending, nextStreamID, net, proc, ghosts>>

ReadTimeout(c) ==
    /\ "timeout" \in Faults
    /\ call[c].pc = "waiting"
    /\ Become(c, [call[c] EXCEPT !.pc = "done"])
    /\ UNCHANGED <<pools, pending, nextStreamID, net, proc, ghosts>>

Mut_Deregister(p, ids) == p

\* pendingMap.Delete, for every stream of a call.
Deregister(p, ids) == Restrict(p, DOMAIN p \ Range(ids))

\* The deferred function of do, and cleanup of a pipeline: the entries are
\* deleted, the channels drained and put back.  cleanup also puts back the
\* buffers of the frames, which FlushWrite has put back if it wrote them.
Return(c) ==
    LET r     == call[c]
        twice == r.kind = "pipe" /\ r.pc = "done"
    IN  /\ r.pc \in {"done", "failed"}
        /\ pending' = [pending EXCEPT ![r.cc] = Deregister(@, r.ids)]
        /\ inCh' = [ch \in Chan |-> IF ch \in Range(r.chs) THEN <<>> ELSE inCh[ch]]
        /\ chPool' = chPool \cup Range(r.chs)
        /\ bufPool' = IF r.kind = "pipe" THEN PutBufs(bufPool, r.bufs) ELSE bufPool
        /\ piped' = (piped \/ twice)
        /\ gaveUp' = gaveUp \cup ({Request(r, i) : i \in DOMAIN r.ids} \ Range(r.res))
        /\ Become(c, Idle)
        /\ mem' = Forget(mem)
        /\ UNCHANGED <<nextStreamID, net, proc>>

-----------------------------------------------------------------------------
(* readLoop: a frame is matched with its channel in one step and sent to it, *)
(* unless the channel is full, in another.                                   *)

NoChan == -1

Worked(cc, w, r) == proc' = [proc EXCEPT ![cc][w] = r]

Offer(ch, x) == inCh' = IF inCh[ch] = <<>> THEN [inCh EXCEPT ![ch] = <<x>>] ELSE inCh

Load(cc) ==
    LET p == proc[cc]["reader"]
        f == Head(wire[cc])
    IN  /\ p.at = "loop"
        /\ wire[cc] # <<>>
        /\ wire' = [wire EXCEPT ![cc] = Tail(@)]
        /\ Worked(cc, "reader",
                  IF f.id \in DOMAIN pending[cc]
                  THEN [p EXCEPT !.at = "send", !.ch = pending[cc][f.id], !.msg = f.body]
                  ELSE p)
        /\ UNCHANGED <<call, pools, pending, nextStreamID, closed, tcp, ghosts>>

Send(cc) ==
    LET p == proc[cc]["reader"]
    IN  /\ p.at = "send"
        /\ Offer(p.ch, p.msg)
        /\ Worked(cc, "reader", [p EXCEPT !.at = "loop", !.ch = NoChan, !.msg = Failed])
        /\ UNCHANGED <<call, chPool, bufPool, mem, pending, nextStreamID, net, ghosts>>

-----------------------------------------------------------------------------
(* closeAllPending, by readLoop after an error and by Close.  Range visits   *)
(* the streams that are there when it starts, and perhaps later ones.        *)

Sweeping(cc, p) == [p EXCEPT !.at = "sweep", !.todo = DOMAIN pending[cc]]

ReadFails(cc) ==
    /\ proc[cc]["reader"].at = "loop"
    /\ tcp[cc] \in {"down", "closed"} /\ wire[cc] = <<>>
    /\ Worked(cc, "reader", Sweeping(cc, proc[cc]["reader"]))
    /\ UNCHANGED <<call, pools, pending, nextStreamID, net, ghosts>>

Close(cc) ==
    /\ "close" \in Faults
    /\ proc[cc]["closer"].at = "off"
    /\ closed' = [closed EXCEPT ![cc] = TRUE]
    /\ tcp' = [tcp EXCEPT ![cc] = "closed"]
    /\ wire' = [wire EXCEPT ![cc] = <<>>]
    /\ Worked(cc, "closer", Sweeping(cc, proc[cc]["closer"]))
    /\ UNCHANGED <<call, pools, pending, nextStreamID, ghosts>>

SweepLoad(cc, w) ==
    LET p == proc[cc][w]
    IN  /\ p.at = "sweep"
        /\ \/ \E id \in DOMAIN pending[cc] :
                  Worked(cc, w, [p EXCEPT !.at = "fail", !.ch = pending[cc][id], !.id = id])
           \/ p.todo \cap DOMAIN pending[cc] = {} /\ Worked(cc, w, [p EXCEPT !.at = "end", !.todo = {}])
        /\ UNCHANGED <<call, pools, pending, nextStreamID, net, ghosts>>

SweepSend(cc, w) ==
    LET p == proc[cc][w]
    IN  /\ p.at = "fail"
        /\ Offer(p.ch, Failed)
        /\ pending' = [pending EXCEPT ![cc] = Deregister(@, <<p.id>>)]
        /\ Worked(cc, w, [p EXCEPT !.at = "sweep", !.ch = NoChan, !.id = 0])
        /\ UNCHANGED <<call, chPool, bufPool, mem, nextStreamID, net, ghosts>>

\* The connection is lost, or the server closes it.  Answers that have arrived
\* can still be read; the others never come.
Drop(cc) ==
    /\ "drop" \in Faults
    /\ tcp[cc] \in {"up", "torn"}
    /\ tcp' = [tcp EXCEPT ![cc] = "down"]
    /\ \E n \in 0 .. Len(wire[cc]) : wire' = [wire EXCEPT ![cc] = SubSeq(@, 1, n)]
    /\ UNCHANGED <<call, pools, pending, nextStreamID, closed, proc, ghosts>>

-----------------------------------------------------------------------------

Init ==
    /\ call = [c \in Caller |-> Idle]
    /\ chPool = {}
    /\ inCh = [ch \in Chan |-> <<>>]
    /\ bufPool = [b \in Buf |-> 0]
    /\ mem = [b \in Buf |-> <<>>]
    /\ pending = [cc \in Conn |-> <<>>]
    /\ nextStreamID = [cc \in Conn |-> 0]
    /\ closed = [cc \in Conn |-> FALSE]
    /\ tcp = [cc \in Conn |-> "up"]
    /\ wire = [cc \in Conn |-> <<>>]
    /\ proc = [cc \in Conn |-> [w \in Worker |->
                 [at |-> IF w = "reader" THEN "loop" ELSE "off",
                  ch |-> NoChan, msg |-> Failed, id |-> 0, todo |-> {}]]]
    /\ gaveUp = {}
    /\ piped = FALSE

\* The steps of a goroutine that is inside a method.
Proceed(c) ==
    \/ Register(c) \/ Write(c) \/ WriteFails(c) \/ WriteTimeout(c)
    \/ Receive(c) \/ ReadTimeout(c) \/ Return(c)

Next ==
    \/ \E c \in Caller :
           \/ \E cc \in Conn, kind \in Kinds[c] : Check(c, cc, kind)
           \/ Reset(c) \/ Proceed(c)
    \/ \E cc \in Conn :
           \/ Load(cc) \/ Send(cc) \/ ReadFails(cc) \/ Close(cc)
           \/ \E w \in Worker : SweepLoad(cc, w) \/ SweepSend(cc, w)
           \/ Drop(cc)

Spec == Init /\ [][Next]_vars

\* Every goroutine inside a method goes on.  Nothing is asked of the network,
\* of the server or of readLoop.
FairSpec == Spec /\ \A c \in Caller : WF_vars(Proceed(c))

-----------------------------------------------------------------------------
(* Properties. *)

\* Every variable has its type.
TypeOK ==
    /\ \A c \in Caller :
           /\ call[c].pc \in {"idle", "checked", "added", "waiting", "done", "failed"}
           /\ Len(call[c].ids) = Len(call[c].chs) /\ Len(call[c].ids) = Len(call[c].bufs)
           /\ Len(call[c].res) <= Len(call[c].ids)
    /\ chPool \subseteq Chan
    /\ \A ch \in Chan : Len(inCh[ch]) <= 1
    /\ \A cc \in Conn : Range(pending[cc]) \subseteq Chan
    /\ nextStreamID \in [Conn -> 0 .. MaxStream]
    /\ tcp \in [Conn -> {"up", "torn", "down", "closed"}]

\* A channel of respChPool is never that of a stream in a pendingMap, and two
\* goroutines never wait on the same channel: the deferred function of do and
\* cleanup delete the stream before they put the channel back, on every path.
ChannelsOwned ==
    /\ \A cc \in Conn : \A id \in DOMAIN pending[cc] :
           \E c \in Caller : /\ call[c].cc = cc
                             /\ \E i \in DOMAIN call[c].ids :
                                    call[c].ids[i] = id /\ call[c].chs[i] = pending[cc][id]
    /\ \A c \in Caller :
           /\ Range(call[c].chs) \cap chPool = {}
           /\ \A d \in Caller \ {c} : Range(call[c].chs) \cap Range(call[d].chs) = {}

\* An answer is that of the caller's own request, or was made up because the
\* connection failed, or belongs to a request whose caller gave up, sent by a
\* readLoop that had matched it with the channel before.  Nothing is said once a
\* pipeline has put its buffers back twice: two calls may then share one.
StrayOnlyAfterGivingUp ==
    \A c \in Caller : \A i \in DOMAIN call[c].res :
        call[c].res[i] \in {Request(call[c], i), Failed} \cup gaveUp \/ piped

\* Every call of do, Add, FlushWrite and ReadResponses returns, whatever
\* becomes of the connection, the server and readLoop: the timer covers the
\* stream that is stored after closeAllPending has gone by.
CallReturns ==
    \A c \in Caller :
        /\ call[c].pc \in {"checked", "waiting", "done", "failed"}
               ~> call[c].pc \in {"idle", "added"}
        /\ call[c].pc = "added" /\ call[c].kind = "do" ~> call[c].pc = "idle"
=============================================================================
