----------------------------- MODULE RpcProofs -----------------------------
(***************************************************************************)
(* Who has the channels, the stream ids and the buffers of the TCP client, *)
(* and where its answers are and whose, for every number of goroutines,    *)
(* connections, channels, buffers and streams.                             *)
(*                                                                         *)
(* That a channel has one owner needs little more than itself: an entry of *)
(* a pendingMap goes with the call that stored it, and a call has as many  *)
(* channels as streams (Types, Shape and OwnInv).  A stream id is new when *)
(* it is taken (IdsInv).  A buffer has one owner from getBuf until putBuf  *)
(* (BufsInv) as long as no pipeline has put its buffers back twice.        *)
(*                                                                         *)
(* A frame carries the request of the stream in its header, because the    *)
(* buffer it is written from has one owner until then.  Its answer is on   *)
(* the wire, with the reader, in a channel or with a caller, and in only   *)
(* one of these places (SentInv), so that a caller that returns while the  *)
(* reader has its answer in hand has not received it, and has given up.    *)
(* What is in a channel, or on its way there, therefore belongs to the     *)
(* owner of the channel or to a caller that gave up (DeliveryInv).         *)
(***************************************************************************)
EXTENDS Rpc, TLAPS

Message == {Failed} \cup (Conn \X Nat)

Frame == [id : Nat, body : Message]

CallRecord ==
    [pc : {"idle", "checked", "added", "waiting", "done", "failed"}, kind : {"do", "pipe"},
     cc : Conn, ids : Seq(Nat), chs : Seq(Chan), bufs : Seq(Buf), res : Seq(Message)]

Work == [at : {"loop", "send", "sweep", "fail", "end", "off"}, ch : Chan \cup {NoChan},
         msg : Message, id : Nat, todo : SUBSET Nat]

\* How Cardinality counts the places of a buffer, and what LeastOf chooses:
\* CountedFact, at the end of the module.
Places(s, b) == {i \in DOMAIN s : s[i] = b}
Counted ==
    /\ Cardinality({}) = 0 /\ \A i : Cardinality({i}) = 1
    /\ \A s \in Seq(Buf), b \in Buf : Cardinality(Places(s, b)) \in Nat
    /\ \A S \in SUBSET Nat : LeastOf(S) \subseteq S

\* The pendingMaps are functions to channels.
MapTypes ==
    /\ pending = [cc \in Conn |-> pending[cc]]
    /\ \A cc \in Conn : /\ DOMAIN pending[cc] \subseteq Nat
                        /\ \A id \in DOMAIN pending[cc] : pending[cc][id] \in Chan

\* A worker that is about to send has a channel.
WorkTypes ==
    /\ proc \in [Conn -> [Worker -> Work]]
    /\ \A cc \in Conn : \A w \in Worker :
           proc[cc][w].at \in {"send", "fail"} => proc[cc][w].ch \in Chan

Types ==
    /\ call \in [Caller -> CallRecord]
    /\ chPool \subseteq Chan
    /\ inCh \in [Chan -> Seq(Message)]
    /\ bufPool \in [Buf -> Nat]
    /\ mem \in [Buf -> Message]
    /\ MapTypes /\ WorkTypes
    /\ nextStreamID \in [Conn -> Nat]
    /\ wire \in [Conn -> Seq(Frame)]
    /\ piped \in BOOLEAN
    /\ Counted

\* A call has a channel and a buffer for each of its streams, and waits for the
\* first answer it does not have.
Shape ==
    \A c \in Caller :
        /\ Len(call[c].chs) = Len(call[c].ids) /\ Len(call[c].bufs) = Len(call[c].ids)
        /\ Len(call[c].res) <= Len(call[c].ids)
        /\ call[c].pc = "idle" => call[c] = Idle
        /\ call[c].pc \in {"checked", "added"} => call[c].res = <<>>
        /\ call[c].pc = "added" => call[c].ids # <<>>
        /\ call[c].pc = "waiting" => Len(call[c].res) < Len(call[c].ids)

\* No channel is held twice.
OwnInv ==
    /\ ChannelsOwned
    /\ \A c \in Caller : IsInjective(call[c].chs)

-----------------------------------------------------------------------------
(* What is proved of buffers and of stream ids. *)

\* The buffers of c are out of bufPool: they have not been put back.
Encoding(c) == call[c].pc \in {"checked", "added"} \/ (call[c].pc = "failed" /\ call[c].kind = "pipe")

\* They are its own, and hold its requests as long as it may write them.
OwnBufs(c) ==
    /\ IsInjective(call[c].bufs)
    /\ \A b \in Range(call[c].bufs) : bufPool[b] = 0
    /\ \A d \in Caller \ {c} : Encoding(d) => Range(call[c].bufs) \cap Range(call[d].bufs) = {}
    /\ call[c].pc # "failed" =>
           \A i \in DOMAIN call[c].ids : mem[call[c].bufs[i]] = Request(call[c], i)

BufsInv ==
    /\ \A b \in Buf : bufPool[b] <= 1
    /\ \A c \in Caller : Encoding(c) => OwnBufs(c)

Requests(c) == {Request(call[c], i) : i \in DOMAIN call[c].ids}

\* Stream ids are new and nobody else's.
IdsInv ==
    \A c \in Caller :
        /\ IsInjective(call[c].ids)
        /\ \A i \in DOMAIN call[c].ids : call[c].ids[i] <= nextStreamID[call[c].cc]
        /\ \A d \in Caller \ {c} : Requests(c) \cap Requests(d) = {}

-----------------------------------------------------------------------------
(* Sequences and pools. *)

\* Appending to a sequence.
LEMMA SeqAppend ==
    ASSUME NEW S, NEW q \in Seq(S), NEW e \in S
    PROVE  /\ Append(q, e) \in Seq(S) /\ Len(Append(q, e)) = Len(q) + 1
           /\ \A n \in 1 .. Len(q) : Append(q, e)[n] = q[n]
           /\ Append(q, e)[Len(q) + 1] = e
  OBVIOUS

\* One sequence after another.
LEMMA SeqConcat ==
    ASSUME NEW S, NEW q \in Seq(S), NEW r \in Seq(S)
    PROVE  /\ q \o r \in Seq(S) /\ Len(q \o r) = Len(q) + Len(r)
           /\ \A n \in 1 .. Len(q) + Len(r) : (q \o r)[n] = IF n <= Len(q) THEN q[n] ELSE r[n - Len(q)]
  OBVIOUS

\* The beginning of a sequence.
LEMMA SeqPrefix ==
    ASSUME NEW S, NEW q \in Seq(S), NEW n \in 0 .. Len(q)
    PROVE  /\ SubSeq(q, 1, n) \in Seq(S) /\ Len(SubSeq(q, 1, n)) = n
           /\ \A k \in 1 .. n : SubSeq(q, 1, n)[k] = q[k]
           /\ n = Len(q) => SubSeq(q, 1, n) = q
  OBVIOUS

\* The rest of a sequence.
LEMMA SeqTail ==
    ASSUME NEW S, NEW q \in Seq(S), q # <<>>
    PROVE  /\ Tail(q) \in Seq(S) /\ Len(Tail(q)) = Len(q) - 1
           /\ \A n \in 1 .. Len(q) - 1 : Tail(q)[n] = q[n + 1]
  OBVIOUS

\* An appended element, seen from the elements and from the range.
LEMMA Appended ==
    ASSUME NEW S, NEW s \in Seq(S), NEW x \in S
    PROVE  /\ Append(s, x) \in Seq(S) /\ Len(Append(s, x)) = Len(s) + 1
           /\ DOMAIN Append(s, x) = DOMAIN s \cup {Len(s) + 1} /\ Len(s) + 1 \notin DOMAIN s
           /\ \A i \in DOMAIN s : Append(s, x)[i] = s[i]
           /\ Append(s, x)[Len(s) + 1] = x
           /\ Range(Append(s, x)) = Range(s) \cup {x}
<1>1. /\ Append(s, x) \in Seq(S) /\ Len(Append(s, x)) = Len(s) + 1
      /\ \A i \in 1 .. Len(s) : Append(s, x)[i] = s[i]
      /\ Append(s, x)[Len(s) + 1] = x
  BY SeqAppend, Zenon
<1>2. Len(s) \in Nat /\ DOMAIN s = 1 .. Len(s)
  OBVIOUS
<1>3. DOMAIN Append(s, x) = DOMAIN s \cup {Len(s) + 1} /\ Len(s) + 1 \notin DOMAIN s
  BY <1>1, <1>2
<1>4. Range(Append(s, x)) = Range(s) \cup {x}
  BY <1>1, <1>2, <1>3, ZenonT(40) DEF Range
<1> QED
  BY <1>1, <1>2, <1>3, <1>4, Zenon

\* A sequence stays injective when something new is appended.
LEMMA AppendedInjective ==
    ASSUME NEW S, NEW s \in Seq(S), NEW x \in S, IsInjective(s), x \notin Range(s)
    PROVE  IsInjective(Append(s, x))
<1>1. /\ DOMAIN Append(s, x) = DOMAIN s \cup {Len(s) + 1}
      /\ \A i \in DOMAIN s : Append(s, x)[i] = s[i]
      /\ Append(s, x)[Len(s) + 1] = x
  BY Appended
<1>2. \A i \in DOMAIN s : s[i] # x
  BY Zenon DEF Range
<1>3. ASSUME NEW i \in DOMAIN s \cup {Len(s) + 1}, NEW j \in DOMAIN s \cup {Len(s) + 1},
             Append(s, x)[i] = Append(s, x)[j]
      PROVE  i = j
  <2>1. \A k, l \in DOMAIN s : s[k] = s[l] => k = l
    BY Zenon DEF IsInjective
  <2> QED
    BY <1>1, <1>2, <1>3, <2>1, Zenon
<1> QED
  BY <1>1, <1>3, Zenon DEF IsInjective

\* A channel from the pool, or a new one, has no owner.
LEMMA NewChan ==
    ASSUME Counted, ChannelsOwned, chPool \subseteq Chan, NEW ch \in GetChan
    PROVE  ch \in Chan /\ \A c \in Caller : ch \notin Range(call[c].chs)
<1>1. CASE chPool # {}
  BY <1>1, Zenon DEF GetChan, ChannelsOwned
<1>2. CASE chPool = {}
  <2>1. ch \in Chan \ Held("chs")
    <3>1. Chan \ Held("chs") \in SUBSET Nat
      BY RpcAssumption, Zenon
    <3> QED
      BY <1>2, <3>1, Zenon DEF GetChan, Counted
  <2> QED
    BY <2>1, Zenon DEF Held
<1> QED
  BY <1>1, <1>2, Zenon

\* A buffer from the pool, or a new one.
LEMMA NewBuf ==
    ASSUME Counted, NEW b \in GetBuf
    PROVE  /\ b \in Buf
           /\ \/ bufPool[b] > 0
              \/ ~(bufPool[b] > 0) /\ \A c \in Caller : b \notin Range(call[c].bufs)
<1> DEFINE pooled == {x \in Buf : bufPool[x] > 0}
<1>1. CASE pooled # {}
  BY <1>1, Zenon DEF GetBuf
<1>2. CASE pooled = {}
  <2>1. b \in Buf \ Held("bufs")
    <3>1. Buf \ Held("bufs") \in SUBSET Nat
      BY RpcAssumption, Zenon
    <3> QED
      BY <1>2, <3>1, Zenon DEF GetBuf, Counted
  <2> QED
    BY <1>2, <2>1, Zenon DEF Held
<1> QED
  BY <1>1, <1>2, Zenon

\* Buffers put back are one more in the pool, the others as many as before.
LEMMA PutBack ==
    ASSUME Counted, NEW p \in [Buf -> Nat], NEW s \in Seq(Buf)
    PROVE  /\ PutBufs(p, s) \in [Buf -> Nat]
           /\ IsInjective(s) =>
                \A b \in Buf : PutBufs(p, s)[b] = IF b \in Range(s) THEN p[b] + 1 ELSE p[b]
<1> DEFINE At(b) == Places(s, b)
<1>1. \A b \in Buf : Cardinality(At(b)) \in Nat
  BY Zenon DEF Counted
<1>2. \A b \in Buf : b \notin Range(s) => At(b) = {}
  BY Zenon DEF Range, Places
<1>3. \A b \in Buf : b \in Range(s) /\ IsInjective(s) => \E i : At(b) = {i}
  BY Zenon DEF Range, IsInjective, Places
<1>4. PutBufs(p, s) = [b \in Buf |-> p[b] + Cardinality(At(b))]
  BY Zenon DEF PutBufs, Places
<1>5. Cardinality({}) = 0 /\ \A i : Cardinality({i}) = 1
  BY Zenon DEF Counted
<1> HIDE DEF At
<1>6. \A b \in Buf : b \notin Range(s) => Cardinality(At(b)) = 0
  BY <1>2, <1>5, Zenon
<1>7. IsInjective(s) => \A b \in Buf : b \in Range(s) => Cardinality(At(b)) = 1
  BY <1>3, <1>5, Zenon
<1> QED
  BY <1>1, <1>4, <1>6, <1>7

-----------------------------------------------------------------------------
(* Types and shapes. *)

\* The client begins without a call, a stream or a frame.
LEMMA InitTypes == Counted /\ Init => Types /\ Shape
<1> SUFFICES ASSUME Counted, Init PROVE Types /\ Shape
  BY Zenon
<1>1. Idle \in CallRecord
  BY RpcAssumption DEF Idle, CallRecord
<1>2. Types
  <2>1. /\ call \in [Caller -> CallRecord] /\ chPool \subseteq Chan
        /\ bufPool \in [Buf -> Nat] /\ nextStreamID \in [Conn -> Nat] /\ piped \in BOOLEAN
    BY <1>1, Zenon DEF Init
  <2>2. <<>> \in Message
    BY Zenon DEF Message, Failed
  <2>3. mem \in [Buf -> Message] /\ inCh \in [Chan -> Seq(Message)] /\ wire \in [Conn -> Seq(Frame)]
    BY <2>2 DEF Init
  <2>4. /\ pending = [cc \in Conn |-> pending[cc]]
        /\ \A cc \in Conn : DOMAIN pending[cc] = {}
    BY DEF Init
  <2>5. \A w \in Worker : [at |-> IF w = "reader" THEN "loop" ELSE "off",
                           ch |-> NoChan, msg |-> Failed, id |-> 0, todo |-> {}] \in Work
    BY <2>2, Zenon DEF Work, Failed
  <2>6. proc \in [Conn -> [Worker -> Work]]
    BY <2>5, Zenon DEF Init
  <2>7. \A cc \in Conn : \A w \in Worker : proc[cc][w].at \notin {"send", "fail"}
    BY Zenon DEF Init
  <2> QED
    BY <2>1, <2>3, <2>4, <2>6, <2>7, Zenon DEF Types, MapTypes, WorkTypes
<1>3. Shape
  BY DEF Init, Shape, Idle
<1> QED
  BY <1>2, <1>3, Zenon

\* A goroutine that moves leaves the calls of the others alone.
LEMMA Became ==
    ASSUME call \in [Caller -> CallRecord], NEW c \in Caller, NEW r, Become(c, r)
    PROVE  call'[c] = r /\ \A d \in Caller : d # c => call'[d] = call[d]
BY Zenon DEF Become

\* The types of a call that changed.
LEMMA BecameTypes ==
    ASSUME call \in [Caller -> CallRecord], NEW c \in Caller, NEW r \in CallRecord, Become(c, r)
    PROVE  call' \in [Caller -> CallRecord]
BY Zenon DEF Become

\* A worker that moves leaves the others alone.
LEMMA HasWorked ==
    ASSUME proc \in [Conn -> [Worker -> Work]], NEW cc \in Conn, NEW w \in Worker, NEW p \in Work,
           Worked(cc, w, p)
    PROVE  /\ proc' \in [Conn -> [Worker -> Work]]
           /\ proc'[cc][w] = p
           /\ \A d \in Conn, v \in Worker : (d # cc \/ v # w) => proc'[d][v] = proc[d][v]
BY Zenon DEF Worked

\* The frames of a call are frames.
LEMMA FrameTypes ==
    ASSUME Types, Shape, NEW c \in Caller
    PROVE  /\ FramesOf(call[c]) \in Seq(Frame)
           /\ Len(FramesOf(call[c])) = Len(call[c].ids)
           /\ \A i \in DOMAIN call[c].ids :
                  FramesOf(call[c])[i] = [id |-> call[c].ids[i], body |-> mem[call[c].bufs[i]]]
<1> DEFINE r == call[c]
<1>1. r.ids \in Seq(Nat) /\ r.bufs \in Seq(Buf) /\ Len(r.bufs) = Len(r.ids)
  BY Zenon DEF Types, Shape, CallRecord
<1>2. \A i \in 1 .. Len(r.ids) : r.ids[i] \in Nat /\ mem[r.bufs[i]] \in Message
  <2>1. \A i \in 1 .. Len(r.ids) : r.ids[i] \in Nat /\ r.bufs[i] \in Buf
    BY <1>1, SMTT(30)
  <2> QED
    BY <2>1, Zenon DEF Types
<1>3. FramesOf(r) = [i \in 1 .. Len(r.ids) |-> [id |-> r.ids[i], body |-> mem[r.bufs[i]]]]
  BY <1>1 DEF FramesOf
<1>4. Len(r.ids) \in Nat /\ DOMAIN r.ids = 1 .. Len(r.ids)
  BY <1>1
<1>5. \A i \in 1 .. Len(r.ids) : [id |-> r.ids[i], body |-> mem[r.bufs[i]]] \in Frame
  BY <1>2, Zenon DEF Frame
<1> HIDE DEF r
<1>6. FramesOf(r) \in Seq(Frame) /\ Len(FramesOf(r)) = Len(r.ids)
  BY <1>3, <1>4, <1>5
<1>7. \A i \in DOMAIN r.ids : FramesOf(r)[i] = [id |-> r.ids[i], body |-> mem[r.bufs[i]]]
  BY <1>3, <1>4, Zenon
<1> QED
  BY <1>6, <1>7, Zenon DEF r

\* Types and shapes after a step of a goroutine.
LEMMA CallTypes ==
    ASSUME Types, Shape, NEW c \in Caller, NEW r \in CallRecord, Become(c, r),
           chPool' \subseteq Chan, inCh' \in [Chan -> Seq(Message)],
           bufPool' \in [Buf -> Nat], mem' \in [Buf -> Message],
           MapTypes', nextStreamID' \in [Conn -> Nat], wire' \in [Conn -> Seq(Frame)],
           UNCHANGED proc, piped' \in BOOLEAN,
           Len(r.chs) = Len(r.ids), Len(r.bufs) = Len(r.ids), Len(r.res) <= Len(r.ids),
           r.pc = "idle" => r = Idle,
           r.pc \in {"checked", "added"} => r.res = <<>>,
           r.pc = "added" => r.ids # <<>>,
           r.pc = "waiting" => Len(r.res) < Len(r.ids)
    PROVE  Types' /\ Shape'
<1>1. call' \in [Caller -> CallRecord]
  BY BecameTypes, Zenon DEF Types
<1>2. Types'
  BY <1>1, Zenon DEF Types, WorkTypes
<1>3. call'[c] = r /\ \A d \in Caller : d # c => call'[d] = call[d]
  BY Became, Zenon DEF Types
<1>4. Idle' = Idle
  BY Zenon DEF Idle
<1>5. ASSUME NEW d \in Caller
      PROVE  /\ Len(call'[d].chs) = Len(call'[d].ids) /\ Len(call'[d].bufs) = Len(call'[d].ids)
             /\ Len(call'[d].res) <= Len(call'[d].ids)
             /\ call'[d].pc = "idle" => call'[d] = Idle
             /\ call'[d].pc \in {"checked", "added"} => call'[d].res = <<>>
             /\ call'[d].pc = "added" => call'[d].ids # <<>>
             /\ call'[d].pc = "waiting" => Len(call'[d].res) < Len(call'[d].ids)
  BY <1>3, ZenonT(40) DEF Shape
<1>6. Shape'
  BY <1>4, <1>5, Zenon DEF Shape
<1> QED
  BY <1>2, <1>6, Zenon

\* Every step of a goroutine keeps types and shapes.
LEMMA CallerTypes ==
    ASSUME Types, Shape, ChannelsOwned, NEW c \in Caller,
           \/ \E cc \in Conn, kind \in Kinds[c] : Check(c, cc, kind)
           \/ Reset(c) \/ Proceed(c)
    PROVE  Types' /\ Shape'
<1> DEFINE r == call[c]
<1>1. /\ call \in [Caller -> CallRecord] /\ r \in CallRecord
      /\ chPool \subseteq Chan /\ inCh \in [Chan -> Seq(Message)]
      /\ bufPool \in [Buf -> Nat] /\ mem \in [Buf -> Message] /\ MapTypes
      /\ nextStreamID \in [Conn -> Nat] /\ wire \in [Conn -> Seq(Frame)] /\ piped \in BOOLEAN
  BY Zenon DEF Types
<1>2. /\ r.cc \in Conn /\ r.kind \in {"do", "pipe"}
      /\ r.ids \in Seq(Nat) /\ r.chs \in Seq(Chan) /\ r.bufs \in Seq(Buf) /\ r.res \in Seq(Message)
  BY <1>1, Zenon DEF CallRecord
<1>3. /\ Len(r.chs) = Len(r.ids) /\ Len(r.bufs) = Len(r.ids) /\ Len(r.res) <= Len(r.ids)
      /\ r.pc \in {"checked", "added"} => r.res = <<>>
      /\ r.pc = "added" => r.ids # <<>>
      /\ r.pc = "waiting" => Len(r.res) < Len(r.ids)
  BY Zenon DEF Shape
<1>4. UNCHANGED <<pending, nextStreamID>> => MapTypes' /\ nextStreamID' \in [Conn -> Nat]
  BY <1>1, Zenon DEF MapTypes
<1>5. Idle \in CallRecord
  BY RpcAssumption DEF Idle, CallRecord
<1>6. ASSUME NEW cc \in Conn, NEW kind \in Kinds[c], Check(c, cc, kind)
      PROVE  Types' /\ Shape'
  <2>1. UNCHANGED <<pools, pending, nextStreamID, net, proc, ghosts>>
    BY <1>6, Zenon DEF Check
  <2>2. kind \in {"do", "pipe"}
    BY RpcAssumption, Zenon
  <2>3. CASE Become(c, [Idle EXCEPT !.pc = "checked", !.kind = kind, !.cc = cc])
    <3> DEFINE q == [Idle EXCEPT !.pc = "checked", !.kind = kind, !.cc = cc]
    <3>1. q \in CallRecord
      BY <1>5, <2>2, Zenon DEF CallRecord
    <3>2. q.pc = "checked" /\ q.ids = <<>> /\ q.chs = <<>> /\ q.bufs = <<>> /\ q.res = <<>>
      BY Zenon DEF Idle
    <3> HIDE DEF q
    <3>3. Become(c, q)
      BY <2>3, Zenon DEF q
    <3>4. Len(q.chs) = Len(q.ids) /\ Len(q.bufs) = Len(q.ids) /\ Len(q.res) <= Len(q.ids)
      BY <3>2
    <3> QED
      BY <1>1, <1>4, <2>1, <3>1, <3>2, <3>3, <3>4, CallTypes, Zenon DEF pools, net, ghosts
  <2>4. CASE r.pc = "added" /\ Become(c, [r EXCEPT !.pc = "checked"])
    <3> DEFINE q == [r EXCEPT !.pc = "checked"]
    <3>1. q \in CallRecord
      BY <1>1, Zenon DEF CallRecord
    <3>2. q.pc = "checked" /\ q.ids = r.ids /\ q.chs = r.chs /\ q.bufs = r.bufs /\ q.res = r.res
      BY <1>1, Zenon DEF CallRecord
    <3> HIDE DEF q
    <3>3. Become(c, q)
      BY <2>4, Zenon DEF q
    <3> QED
      BY <1>1, <1>3, <1>4, <2>1, <2>4, <3>1, <3>2, <3>3, CallTypes, Zenon DEF pools, net, ghosts
  <2> QED
    BY <1>6, <2>3, <2>4, Zenon DEF Check
<1>7. CASE Reset(c) \/ ReadTimeout(c)
  <2>1. UNCHANGED <<pools, pending, nextStreamID, net, proc, ghosts>>
    BY <1>7, Zenon DEF Reset, ReadTimeout
  <2>2. PICK l \in {"failed", "done"} : Become(c, [r EXCEPT !.pc = l])
    BY <1>7, Zenon DEF Reset, ReadTimeout
  <2> DEFINE p == [r EXCEPT !.pc = l]
  <2>3. p \in CallRecord
    BY <1>1, Zenon DEF CallRecord
  <2>4. p.pc = l /\ p.ids = r.ids /\ p.chs = r.chs /\ p.bufs = r.bufs /\ p.res = r.res
    BY <1>1, Zenon DEF CallRecord
  <2> HIDE DEF p
  <2>5. Become(c, p)
    BY <2>2, Zenon DEF p
  <2> QED
    BY <1>1, <1>3, <1>4, <2>1, <2>3, <2>4, <2>5, CallTypes, Zenon DEF pools, net, ghosts
<1>8. CASE Register(c)
  <2> DEFINE id == nextStreamID[r.cc] + 1
  <2>1. PICK ch \in GetChan, b \in GetBuf :
               /\ chPool' = chPool \ {ch}
               /\ pending' = [pending EXCEPT ![r.cc] = Stored(@, id, ch)]
               /\ bufPool' = Taken(b)
               /\ mem' = [mem EXCEPT ![b] = <<r.cc, id>>]
               /\ Become(c, [r EXCEPT !.pc = "added", !.ids = Append(@, id),
                                      !.chs = Append(@, ch), !.bufs = Append(@, b)])
    BY <1>8, Zenon DEF Register
  <2>2. /\ nextStreamID' = [nextStreamID EXCEPT ![r.cc] = id]
        /\ UNCHANGED <<inCh, net, proc, ghosts>> /\ r.pc = "checked"
    BY <1>8, Zenon DEF Register
  <2>3. ch \in Chan /\ b \in Buf
    BY <1>1, NewChan, NewBuf, Zenon DEF Types
  <2>4. id \in Nat /\ <<r.cc, id>> \in Message
    BY <1>1, <1>2, SMTT(30) DEF Message
  <2>5. nextStreamID' \in [Conn -> Nat]
    BY <1>1, <1>2, <2>2, <2>4, Zenon
  <2> HIDE DEF id
  <2>6. MapTypes'
    <3>1. pending' = [cc \in Conn |-> IF cc = r.cc THEN Stored(pending[cc], id, ch) ELSE pending[cc]]
      BY <1>1, <2>1, Zenon DEF MapTypes
    <3>2. /\ DOMAIN Stored(pending[r.cc], id, ch) \subseteq Nat
          /\ \A i \in DOMAIN Stored(pending[r.cc], id, ch) : Stored(pending[r.cc], id, ch)[i] \in Chan
      BY <1>1, <1>2, <2>3, <2>4, ZenonT(40) DEF MapTypes, Stored
    <3> QED
      BY <1>1, <3>1, <3>2, Zenon DEF MapTypes
  <2>7. bufPool' \in [Buf -> Nat] /\ mem' \in [Buf -> Message] /\ chPool' \subseteq Chan
    BY <1>1, <2>1, <2>3, <2>4 DEF Taken
  <2> DEFINE q == [r EXCEPT !.pc = "added", !.ids = Append(@, id),
                            !.chs = Append(@, ch), !.bufs = Append(@, b)]
  <2>8. /\ Append(r.ids, id) \in Seq(Nat) /\ Append(r.chs, ch) \in Seq(Chan)
        /\ Append(r.bufs, b) \in Seq(Buf)
        /\ Len(Append(r.ids, id)) = Len(r.ids) + 1 /\ Len(Append(r.chs, ch)) = Len(r.chs) + 1
        /\ Len(Append(r.bufs, b)) = Len(r.bufs) + 1
    BY <1>2, <2>3, <2>4, SeqAppend
  <2>9. /\ q.pc = "added" /\ q.ids = Append(r.ids, id) /\ q.chs = Append(r.chs, ch)
        /\ q.bufs = Append(r.bufs, b) /\ q.res = r.res
    BY <1>1, Zenon DEF CallRecord
  <2>10. q \in CallRecord
    BY <1>1, <2>8, Zenon DEF CallRecord
  <2> HIDE DEF q
  <2>11. Become(c, q)
    BY <2>1, Zenon DEF q
  <2>12. /\ Len(q.chs) = Len(q.ids) /\ Len(q.bufs) = Len(q.ids) /\ q.res = <<>> /\ q.ids # <<>>
         /\ Len(q.res) <= Len(q.ids)
    <3>1. Len(r.ids) \in Nat /\ Len(<<>>) = 0 /\ r.res = <<>>
      BY <1>2, <1>3, <2>2
    <3>2. Len(q.ids) = Len(r.ids) + 1 /\ Len(q.chs) = Len(r.ids) + 1 /\ Len(q.bufs) = Len(r.ids) + 1
      BY <1>3, <2>8, <2>9, Zenon
    <3>3. q.ids # <<>> /\ 0 <= Len(q.ids)
      BY <3>1, <3>2
    <3> QED
      BY <2>9, <3>1, <3>2, <3>3, Zenon
  <2> QED
    BY <1>1, <2>2, <2>5, <2>6, <2>7, <2>9, <2>10, <2>11, <2>12, CallTypes, Zenon DEF net, ghosts
<1>9. ASSUME NEW q, q \in CallRecord, q.pc \in {"waiting", "done", "failed"},
             q.ids = r.ids, q.chs = r.chs, q.bufs = r.bufs, Become(c, q),
             Len(q.res) <= Len(q.ids), q.pc = "waiting" => Len(q.res) < Len(q.ids),
             chPool' = chPool, inCh' \in [Chan -> Seq(Message)], bufPool' \in [Buf -> Nat],
             wire' \in [Conn -> Seq(Frame)],
             UNCHANGED <<mem, pending, nextStreamID, proc, piped>>
      PROVE  Types' /\ Shape'
  BY <1>1, <1>3, <1>4, <1>9, CallTypes, Zenon
<1>10. \A l \in {"waiting", "failed"} :
         LET q == [r EXCEPT !.pc = l]
         IN q \in CallRecord /\ q.pc = l /\ q.ids = r.ids /\ q.chs = r.chs /\ q.bufs = r.bufs
            /\ q.res = r.res
  BY <1>1, Zenon DEF CallRecord
<1>11. FramesOf(r) \in Seq(Frame)
  BY FrameTypes, Zenon
<1>12. PutBufs(bufPool, r.bufs) \in [Buf -> Nat]
  BY <1>1, <1>2, PutBack, Zenon DEF Types
<1>13. CASE Write(c)
  <2>1. /\ r.pc = "added" /\ Become(c, [r EXCEPT !.pc = "waiting"])
        /\ wire' = IF tcp[r.cc] = "up" THEN [wire EXCEPT ![r.cc] = @ \o FramesOf(r)] ELSE wire
        /\ bufPool' = PutBufs(bufPool, r.bufs)
        /\ UNCHANGED <<chPool, inCh, mem, pending, nextStreamID, proc, piped>>
    BY <1>13, Zenon DEF Write, ghosts
  <2>2. Len(r.res) < Len(r.ids)
    <3>1. r.res = <<>> /\ r.ids # <<>>
      BY <1>3, <2>1, Zenon
    <3> QED
      BY <1>2, <3>1, SMTT(30)
  <2>3. wire[r.cc] \o FramesOf(r) \in Seq(Frame)
    BY <1>1, <1>2, <1>11, SeqConcat, Zenon
  <2>4. wire' \in [Conn -> Seq(Frame)]
    BY <1>1, <2>1, <2>3, Zenon
  <2> QED
    BY <1>1, <1>3, <1>9, <1>10, <1>12, <2>1, <2>2, <2>4, Zenon
<1>14. CASE WriteFails(c) \/ WriteTimeout(c)
  <2>1. /\ r.pc = "added" /\ Become(c, [r EXCEPT !.pc = "failed"])
        /\ bufPool' = IF r.kind = "do" THEN PutBufs(bufPool, r.bufs) ELSE bufPool
        /\ UNCHANGED <<chPool, inCh, mem, pending, nextStreamID, proc, piped>>
    BY <1>14, Zenon DEF WriteFails, WriteTimeout, FailWrite, ghosts
  <2>2. bufPool' \in [Buf -> Nat]
    BY <1>1, <1>12, <2>1, Zenon
  <2>3. wire' = wire \/ \E n \in 0 .. Len(r.ids) :
                             wire' = [wire EXCEPT ![r.cc] = @ \o SubSeq(FramesOf(r), 1, n)]
    BY <1>14, Zenon DEF WriteFails, WriteTimeout
  <2>4. wire' \in [Conn -> Seq(Frame)]
    <3>1. ASSUME NEW n \in 0 .. Len(r.ids)
          PROVE  wire[r.cc] \o SubSeq(FramesOf(r), 1, n) \in Seq(Frame)
      <4>1. SubSeq(FramesOf(r), 1, n) \in Seq(Frame)
        BY <1>11, FrameTypes, SeqPrefix, Zenon
      <4> QED
        BY <1>1, <1>2, <4>1, SeqConcat, Zenon
    <3> QED
      BY <1>1, <2>3, <3>1, Zenon
  <2> QED
    BY <1>1, <1>3, <1>9, <1>10, <2>1, <2>2, <2>4, Zenon
<1>15. CASE Receive(c)
  <2> DEFINE i == Len(r.res) + 1
             x == Head(inCh[r.chs[i]])
             q == [r EXCEPT !.res = Append(@, x), !.pc = IF i = Len(r.ids) THEN "done" ELSE "waiting"]
  <2>1. /\ r.pc = "waiting" /\ inCh[r.chs[i]] # <<>> /\ Become(c, q)
        /\ inCh' = [inCh EXCEPT ![r.chs[i]] = <<>>]
        /\ UNCHANGED <<chPool, bufPool, mem, pending, nextStreamID, proc, wire, piped>>
    BY <1>15, ZenonT(40) DEF Receive, net, ghosts
  <2>2. Len(r.res) < Len(r.ids) /\ Len(r.res) \in Nat /\ Len(r.ids) \in Nat
    BY <1>2, <1>3, <2>1
  <2>3. r.chs[i] \in Chan
    BY <1>2, <1>3, <2>2, SMTT(30)
  <2>4. x \in Message
    BY <1>1, <2>1, <2>3
  <2> HIDE DEF x
  <2>5. Append(r.res, x) \in Seq(Message) /\ Len(Append(r.res, x)) = i
    BY <1>2, <2>4, SeqAppend
  <2>6. q \in CallRecord
    BY <1>1, <2>5, Zenon DEF CallRecord
  <2>7. /\ q.pc = (IF i = Len(r.ids) THEN "done" ELSE "waiting") /\ q.res = Append(r.res, x)
        /\ q.ids = r.ids /\ q.chs = r.chs /\ q.bufs = r.bufs
    BY <1>1, Zenon DEF CallRecord
  <2>8. i <= Len(r.ids) /\ (i # Len(r.ids) => i < Len(r.ids))
    BY <2>2
  <2>9. inCh' \in [Chan -> Seq(Message)]
    <3>1. <<>> \in Seq(Message)
      OBVIOUS
    <3>2. inCh' = [inCh EXCEPT ![r.chs[i]] = <<>>]
      BY <2>1, Zenon
    <3> QED
      BY <1>1, <3>1, <3>2, Zenon
  <2> HIDE DEF q, i
  <2>10. Len(q.res) <= Len(q.ids) /\ (q.pc = "waiting" => Len(q.res) < Len(q.ids))
    BY <2>5, <2>7, <2>8, Zenon
  <2>11. q.pc \in {"waiting", "done", "failed"} /\ wire' \in [Conn -> Seq(Frame)]
         /\ bufPool' \in [Buf -> Nat]
    BY <1>1, <2>1, <2>7, Zenon
  <2> QED
    BY <1>9, <2>1, <2>6, <2>7, <2>9, <2>10, <2>11, Zenon
<1>16. CASE Return(c)
  <2>1. /\ pending' = [pending EXCEPT ![r.cc] = Deregister(@, r.ids)]
        /\ inCh' = [ch \in Chan |-> IF ch \in Range(r.chs) THEN <<>> ELSE inCh[ch]]
        /\ chPool' = chPool \cup Range(r.chs)
        /\ bufPool' = IF r.kind = "pipe" THEN PutBufs(bufPool, r.bufs) ELSE bufPool
        /\ piped' \in BOOLEAN
        /\ Become(c, Idle)
        /\ mem' = Forget(mem)
        /\ UNCHANGED <<nextStreamID, wire, proc>>
    BY <1>16, Zenon DEF Return, net
  <2>2. MapTypes'
    <3>1. pending' = [cc \in Conn |-> IF cc = r.cc THEN Deregister(pending[cc], r.ids) ELSE pending[cc]]
      BY <1>1, <2>1, Zenon DEF MapTypes
    <3>2. /\ DOMAIN Deregister(pending[r.cc], r.ids) \subseteq Nat
          /\ \A i \in DOMAIN Deregister(pending[r.cc], r.ids) : Deregister(pending[r.cc], r.ids)[i] \in Chan
      BY <1>1, <1>2, Zenon DEF MapTypes, Deregister, Restrict
    <3> QED
      BY <1>1, <3>1, <3>2, Zenon DEF MapTypes
  <2>3. inCh' \in [Chan -> Seq(Message)]
    BY <1>1, <2>1
  <2>4. chPool' \subseteq Chan
    BY <1>1, <1>2, <2>1 DEF Range
  <2>5. bufPool' \in [Buf -> Nat]
    BY <1>1, <1>12, <2>1, Zenon
  <2>6. mem' \in [Buf -> Message]
    BY <1>1, <2>1, Zenon DEF Forget, Message, Failed
  <2>7. /\ Len(Idle.chs) = Len(Idle.ids) /\ Len(Idle.bufs) = Len(Idle.ids)
        /\ Len(Idle.res) <= Len(Idle.ids) /\ Idle.pc = "idle"
    BY DEF Idle
  <2>8. nextStreamID' \in [Conn -> Nat] /\ wire' \in [Conn -> Seq(Frame)]
    BY <1>1, <2>1, Zenon
  <2> QED
    BY <1>1, <1>5, <2>1, <2>2, <2>3, <2>4, <2>5, <2>6, <2>7, <2>8, CallTypes, Zenon
<1> QED
  BY <1>6, <1>7, <1>8, <1>13, <1>14, <1>15, <1>16, ZenonT(40) DEF Proceed

\* What an offer does to the channels.
LEMMA Offered ==
    ASSUME inCh \in [Chan -> Seq(Message)], NEW ch \in Chan, NEW x \in Message, Offer(ch, x)
    PROVE  /\ inCh' \in [Chan -> Seq(Message)]
           /\ \A k \in Chan : \/ inCh'[k] = inCh[k]
                              \/ k = ch /\ inCh'[k] # <<>> /\ Head(inCh'[k]) = x
<1>1. <<x>> \in Seq(Message) /\ <<x>> # <<>> /\ Head(<<x>>) = x
  OBVIOUS
<1>2. CASE inCh' = inCh
  BY <1>2, Zenon
<1>3. CASE inCh' = [inCh EXCEPT ![ch] = <<x>>]
  BY <1>1, <1>3, Zenon
<1> QED
  BY <1>2, <1>3, Zenon DEF Offer

\* What a deletion leaves of the pendingMaps.
LEMMA Deregistered ==
    ASSUME MapTypes, NEW cc \in Conn, NEW ids,
           pending' = [pending EXCEPT ![cc] = Deregister(@, ids)]
    PROVE  /\ MapTypes'
           /\ DOMAIN pending'[cc] = DOMAIN pending[cc] \ Range(ids)
           /\ \A d \in Conn : d # cc => pending'[d] = pending[d]
           /\ \A d \in Conn : /\ DOMAIN pending'[d] \subseteq DOMAIN pending[d]
                              /\ \A id \in DOMAIN pending'[d] : pending'[d][id] = pending[d][id]
<1> DEFINE p == Deregister(pending[cc], ids)
<1>1. pending' = [d \in Conn |-> IF d = cc THEN p ELSE pending[d]]
  BY Zenon DEF MapTypes
<1>2. DOMAIN p = DOMAIN pending[cc] \ Range(ids) /\ \A i \in DOMAIN p : p[i] = pending[cc][i]
  BY Zenon DEF Deregister, Restrict
<1> HIDE DEF p
<1>3. pending'[cc] = p /\ \A d \in Conn : d # cc => pending'[d] = pending[d]
  BY <1>1, Zenon
<1>4. \A d \in Conn : /\ DOMAIN pending'[d] \subseteq DOMAIN pending[d]
                      /\ \A id \in DOMAIN pending'[d] : pending'[d][id] = pending[d][id]
  BY <1>2, <1>3, Zenon
<1>5. pending' = [d \in Conn |-> pending'[d]]
  BY <1>1, <1>3, Zenon
<1>6. MapTypes'
  BY <1>4, <1>5, Zenon DEF MapTypes
<1> QED
  BY <1>2, <1>3, <1>4, <1>6, Zenon

\* Every step of a reader, of Close or of the network keeps types and shapes.
LEMMA WorkerTypes ==
    ASSUME Types, Shape, NEW cc \in Conn,
           \/ Load(cc) \/ Send(cc) \/ ReadFails(cc) \/ Close(cc)
           \/ \E w \in Worker : SweepLoad(cc, w) \/ SweepSend(cc, w)
           \/ Drop(cc)
    PROVE  Types' /\ Shape'
<1>1. /\ call \in [Caller -> CallRecord] /\ chPool \subseteq Chan
      /\ inCh \in [Chan -> Seq(Message)]
      /\ bufPool \in [Buf -> Nat] /\ mem \in [Buf -> Message] /\ MapTypes /\ WorkTypes
      /\ nextStreamID \in [Conn -> Nat] /\ wire \in [Conn -> Seq(Frame)] /\ piped \in BOOLEAN
      /\ proc \in [Conn -> [Worker -> Work]]
  BY Zenon DEF Types, WorkTypes
<1>2. UNCHANGED <<call, chPool, bufPool, mem, nextStreamID, piped>>
  BY Zenon DEF Load, Send, ReadFails, Close, SweepLoad, SweepSend, Drop, ghosts, pools
<1>3. Shape'
  BY <1>2, Zenon DEF Shape, Idle
<1>4. UNCHANGED pending => MapTypes'
  BY <1>1, Zenon DEF MapTypes
<1>5. "reader" \in Worker /\ "closer" \in Worker
  BY Zenon DEF Worker
<1>6. ASSUME NEW w \in Worker, NEW p \in Work, Worked(cc, w, p),
             p.at \in {"send", "fail"} => p.ch \in Chan
      PROVE  WorkTypes'
  <2>1. /\ proc' \in [Conn -> [Worker -> Work]] /\ proc'[cc][w] = p
        /\ \A d \in Conn, v \in Worker : (d # cc \/ v # w) => proc'[d][v] = proc[d][v]
    BY <1>1, <1>6, HasWorked
  <2>2. ASSUME NEW d \in Conn, NEW v \in Worker, proc'[d][v].at \in {"send", "fail"}
        PROVE  proc'[d][v].ch \in Chan
    <3>1. CASE d = cc /\ v = w
      BY <1>6, <2>1, <2>2, <3>1, Zenon
    <3>2. CASE d # cc \/ v # w
      BY <1>1, <2>1, <2>2, <3>2, ZenonT(40) DEF WorkTypes
    <3> QED
      BY <3>1, <3>2, Zenon
  <2> QED
    BY <2>1, <2>2, Zenon DEF WorkTypes
<1>7. ASSUME MapTypes', WorkTypes', inCh' \in [Chan -> Seq(Message)], wire' \in [Conn -> Seq(Frame)]
      PROVE  Types' /\ Shape'
  BY <1>1, <1>2, <1>3, <1>7, Zenon DEF Types
<1>8. wire[cc] \in Seq(Frame) /\ \A w \in Worker : proc[cc][w] \in Work
  BY <1>1, Zenon
<1>9. \A w \in Worker : Sweeping(cc, proc[cc][w]) \in Work /\ Sweeping(cc, proc[cc][w]).at = "sweep"
  <2>1. DOMAIN pending[cc] \in SUBSET Nat
    BY <1>1, Zenon DEF MapTypes
  <2> QED
    BY <1>8, <2>1, Zenon DEF Sweeping, Work
<1>10. CASE Load(cc)
  <2> DEFINE p == proc[cc]["reader"]
             f == Head(wire[cc])
             q == [p EXCEPT !.at = "send", !.ch = pending[cc][f.id], !.msg = f.body]
  <2>1. /\ p.at = "loop" /\ wire[cc] # <<>> /\ wire' = [wire EXCEPT ![cc] = Tail(@)]
        /\ Worked(cc, "reader", IF f.id \in DOMAIN pending[cc] THEN q ELSE p)
        /\ UNCHANGED <<pending, inCh>>
    BY <1>10, Zenon DEF Load, pools
  <2>2. f \in Frame /\ Tail(wire[cc]) \in Seq(Frame) /\ p \in Work
    BY <1>5, <1>8, <2>1
  <2>3. wire' \in [Conn -> Seq(Frame)]
    BY <1>1, <2>1, <2>2, Zenon
  <2>4. f.id \in DOMAIN pending[cc] => q \in Work /\ q.ch \in Chan
    <3>1. f.id \in DOMAIN pending[cc] => pending[cc][f.id] \in Chan /\ f.body \in Message
      BY <1>1, <2>2, Zenon DEF MapTypes, Frame
    <3> QED
      BY <2>2, <3>1, Zenon DEF Work
  <2> HIDE DEF q
  <2>5. WorkTypes'
    <3>1. CASE f.id \in DOMAIN pending[cc]
      BY <1>5, <1>6, <2>1, <2>4, <3>1, Zenon
    <3>2. CASE f.id \notin DOMAIN pending[cc]
      BY <1>5, <1>6, <2>1, <2>2, <3>2, Zenon
    <3> QED
      BY <3>1, <3>2, Zenon
  <2> QED
    BY <1>1, <1>4, <1>7, <2>1, <2>3, <2>5, ZenonT(40)
<1>11. CASE Send(cc)
  <2> DEFINE p == proc[cc]["reader"]
             q == [p EXCEPT !.at = "loop", !.ch = NoChan, !.msg = Failed]
  <2>1. /\ p.at = "send" /\ Offer(p.ch, p.msg) /\ Worked(cc, "reader", q)
        /\ UNCHANGED <<pending, wire>>
    BY <1>11, Zenon DEF Send, net
  <2>2. p \in Work /\ p.ch \in Chan /\ p.msg \in Message
    BY <1>1, <1>5, <1>8, <2>1, Zenon DEF WorkTypes, Work
  <2>3. q \in Work /\ q.at = "loop"
    BY <2>2, Zenon DEF Work, Message
  <2>4. WorkTypes'
    BY <1>5, <1>6, <2>1, <2>3, Zenon
  <2>5. inCh' \in [Chan -> Seq(Message)]
    BY <1>1, <2>1, <2>2, Offered, Zenon
  <2> QED
    BY <1>1, <1>4, <1>7, <2>1, <2>4, <2>5, Zenon
<1>12. CASE ReadFails(cc)
  <2>1. Worked(cc, "reader", Sweeping(cc, proc[cc]["reader"])) /\ UNCHANGED <<pending, wire, inCh>>
    BY <1>12, Zenon DEF ReadFails, net, pools
  <2>2. WorkTypes'
    BY <1>5, <1>6, <1>9, <2>1, Zenon
  <2> QED
    BY <1>1, <1>4, <1>7, <2>1, <2>2, ZenonT(40)
<1>13. CASE Close(cc)
  <2>1. Worked(cc, "closer", Sweeping(cc, proc[cc]["closer"])) /\ UNCHANGED <<pending, inCh>>
        /\ wire' = [wire EXCEPT ![cc] = <<>>]
    BY <1>13, Zenon DEF Close, pools
  <2>2. WorkTypes'
    BY <1>5, <1>6, <1>9, <2>1, Zenon
  <2>3. <<>> \in Seq(Frame)
    OBVIOUS
  <2>4. wire' \in [Conn -> Seq(Frame)]
    BY <1>1, <2>1, <2>3, Zenon
  <2> QED
    BY <1>1, <1>4, <1>7, <2>1, <2>2, <2>4, Zenon
<1>14. ASSUME NEW w \in Worker, SweepLoad(cc, w) PROVE Types' /\ Shape'
  <2> DEFINE p == proc[cc][w]
  <2>1. UNCHANGED <<pending, wire, inCh>>
    BY <1>14, Zenon DEF SweepLoad, net, pools
  <2>2. PICK q : /\ Worked(cc, w, q)
                 /\ \/ \E id \in DOMAIN pending[cc] : q = [p EXCEPT !.at = "fail", !.ch = pending[cc][id], !.id = id]
                    \/ q = [p EXCEPT !.at = "end", !.todo = {}]
    BY <1>14, Zenon DEF SweepLoad
  <2>3. p \in Work
    BY <1>8, ZenonT(40)
  <2>4. q \in Work /\ (q.at \in {"send", "fail"} => q.ch \in Chan)
    <3>1. ASSUME NEW id \in DOMAIN pending[cc], q = [p EXCEPT !.at = "fail", !.ch = pending[cc][id], !.id = id]
          PROVE  q \in Work /\ q.ch \in Chan
      <4>1. id \in Nat /\ pending[cc][id] \in Chan
        BY <1>1, Zenon DEF MapTypes
      <4> QED
        BY <2>3, <3>1, <4>1, Zenon DEF Work
    <3>2. CASE q = [p EXCEPT !.at = "end", !.todo = {}]
      BY <2>3, <3>2, Zenon DEF Work
    <3> QED
      BY <2>2, <3>1, <3>2, Zenon
  <2>5. WorkTypes'
    BY <1>6, <2>2, <2>4, Zenon
  <2> QED
    BY <1>1, <1>4, <1>7, <2>1, <2>5, ZenonT(40)
<1>15. ASSUME NEW w \in Worker, SweepSend(cc, w) PROVE Types' /\ Shape'
  <2> DEFINE p == proc[cc][w]
             q == [p EXCEPT !.at = "sweep", !.ch = NoChan, !.id = 0]
  <2>1. /\ p.at = "fail" /\ Offer(p.ch, Failed) /\ Worked(cc, w, q) /\ UNCHANGED wire
        /\ pending' = [pending EXCEPT ![cc] = Deregister(@, <<p.id>>)]
    BY <1>15, Zenon DEF SweepSend, net
  <2>2. p \in Work /\ p.ch \in Chan /\ Failed \in Message
    BY <1>1, <1>8, <2>1, Zenon DEF WorkTypes, Message
  <2>3. q \in Work /\ q.at = "sweep"
    BY <2>2, Zenon DEF Work
  <2>4. WorkTypes'
    BY <1>6, <2>1, <2>3, Zenon
  <2>5. inCh' \in [Chan -> Seq(Message)]
    BY <1>1, <2>1, <2>2, Offered, Zenon
  <2>6. MapTypes'
    BY <1>1, <2>1, Deregistered, Zenon
  <2> QED
    BY <1>1, <1>7, <2>1, <2>4, <2>5, <2>6, ZenonT(40)
<1>16. CASE Drop(cc)
  <2>1. UNCHANGED <<pending, proc, inCh>>
    BY <1>16, Zenon DEF Drop, pools
  <2>2. PICK n \in 0 .. Len(wire[cc]) : wire' = [wire EXCEPT ![cc] = SubSeq(@, 1, n)]
    BY <1>16, Zenon DEF Drop
  <2>3. SubSeq(wire[cc], 1, n) \in Seq(Frame)
    BY <1>8, SeqPrefix, Zenon
  <2>4. wire' \in [Conn -> Seq(Frame)]
    BY <1>1, <2>2, <2>3, Zenon
  <2>5. WorkTypes'
    BY <1>1, <2>1, Zenon DEF WorkTypes
  <2> QED
    BY <1>1, <1>4, <1>7, <2>1, <2>4, <2>5, Zenon
<1> QED
  BY <1>10, <1>11, <1>12, <1>13, <1>14, <1>15, <1>16, Zenon

-----------------------------------------------------------------------------
(* Every channel has one owner. *)

\* A step in which d keeps its streams; it chooses its connection before it has
\* any.
SameStreams(d) ==
    /\ call'[d].ids = call[d].ids /\ call'[d].chs = call[d].chs /\ call'[d].bufs = call[d].bufs
    /\ call'[d].cc = call[d].cc \/ call[d].ids = <<>>

\* The steps of a goroutine other than those that register and delete streams.
InBetween(c) ==
    \/ \E cc \in Conn, kind \in Kinds[c] : Check(c, cc, kind)
    \/ Reset(c) \/ Write(c) \/ WriteFails(c) \/ WriteTimeout(c) \/ Receive(c) \/ ReadTimeout(c)

\* They leave all streams as they are.
LEMMA BetweenStreams ==
    ASSUME Types, Shape, NEW c \in Caller, InBetween(c)
    PROVE  /\ \A d \in Caller : SameStreams(d)
           /\ UNCHANGED <<chPool, pending, nextStreamID, ghosts>>
<1>1. UNCHANGED <<chPool, pending, nextStreamID, ghosts>>
  BY Zenon DEF InBetween, Check, Reset, Write, WriteFails, WriteTimeout, FailWrite, Receive,
               ReadTimeout, pools, ghosts
<1>2. call \in [Caller -> CallRecord] /\ call[c] \in CallRecord
  BY Zenon DEF Types
<1>3. ASSUME NEW r, Become(c, r), r.ids = call[c].ids, r.chs = call[c].chs, r.bufs = call[c].bufs,
             r.cc = call[c].cc \/ call[c].ids = <<>>
      PROVE  \A d \in Caller : SameStreams(d)
  <2>1. call'[c] = r /\ \A d \in Caller : d # c => call'[d] = call[d]
    BY <1>2, <1>3, Became, Zenon
  <2> QED
    BY <1>3, <2>1, Zenon DEF SameStreams
<1>5. ASSUME NEW l, Become(c, [call[c] EXCEPT !.pc = l])
      PROVE  \A d \in Caller : SameStreams(d)
  <2> DEFINE r == [call[c] EXCEPT !.pc = l]
  <2>1. r.ids = call[c].ids /\ r.chs = call[c].chs /\ r.bufs = call[c].bufs /\ r.cc = call[c].cc
    BY <1>2, Zenon DEF CallRecord
  <2>2. Become(c, r)
    BY <1>5, Zenon
  <2> HIDE DEF r
  <2> QED
    BY <1>3, <2>1, <2>2, Zenon
<1>6. CASE Reset(c) \/ Write(c) \/ WriteFails(c) \/ WriteTimeout(c) \/ ReadTimeout(c)
  <2>1. \/ Become(c, [call[c] EXCEPT !.pc = "failed"])
        \/ Become(c, [call[c] EXCEPT !.pc = "waiting"])
        \/ Become(c, [call[c] EXCEPT !.pc = "done"])
    BY <1>6, Zenon DEF Reset, Write, WriteFails, WriteTimeout, FailWrite, ReadTimeout
  <2> QED
    BY <1>1, <1>5, <2>1, Zenon
<1>7. CASE Receive(c)
  <2>1. PICK x, l : Become(c, [call[c] EXCEPT !.res = x, !.pc = l])
    BY <1>7, Zenon DEF Receive
  <2> DEFINE r == [call[c] EXCEPT !.res = x, !.pc = l]
  <2>2. r.ids = call[c].ids /\ r.chs = call[c].chs /\ r.bufs = call[c].bufs /\ r.cc = call[c].cc
    BY <1>2, Zenon DEF CallRecord
  <2> HIDE DEF r
  <2>3. Become(c, r)
    BY <2>1, Zenon DEF r
  <2> QED
    BY <1>1, <1>3, <2>2, <2>3, Zenon
<1>8. ASSUME NEW cc \in Conn, NEW kind \in Kinds[c], Check(c, cc, kind)
      PROVE  \A d \in Caller : SameStreams(d)
  <2>1. CASE call[c].pc = "idle" /\ Become(c, [Idle EXCEPT !.pc = "checked", !.kind = kind, !.cc = cc])
    <3> DEFINE r == [Idle EXCEPT !.pc = "checked", !.kind = kind, !.cc = cc]
    <3>1. call[c] = Idle
      BY <2>1, Zenon DEF Shape
    <3>2. r.ids = call[c].ids /\ r.chs = call[c].chs /\ r.bufs = call[c].bufs /\ call[c].ids = <<>>
      BY <3>1 DEF Idle
    <3> HIDE DEF r
    <3>3. Become(c, r)
      BY <2>1, Zenon DEF r
    <3> QED
      BY <1>3, <3>2, <3>3, Zenon
  <2> QED
    BY <1>5, <1>8, <2>1, Zenon DEF Check
<1> QED
  BY <1>1, <1>6, <1>7, <1>8, Zenon DEF InBetween

\* Streams that stay, or of which some are deleted by closeAllPending, keep
\* their owner.
LEMMA OwnersKept ==
    ASSUME OwnInv, \A d \in Caller : SameStreams(d), UNCHANGED chPool,
           \A cc \in Conn : /\ DOMAIN pending'[cc] \subseteq DOMAIN pending[cc]
                            /\ \A id \in DOMAIN pending'[cc] : pending'[cc][id] = pending[cc][id]
    PROVE  OwnInv'
<1>1. \A d \in Caller : call'[d].chs = call[d].chs
  BY Zenon DEF SameStreams
<1>2. ASSUME NEW cc \in Conn, NEW id \in DOMAIN pending'[cc]
      PROVE  \E c \in Caller : /\ call'[c].cc = cc
                               /\ \E i \in DOMAIN call'[c].ids :
                                      call'[c].ids[i] = id /\ call'[c].chs[i] = pending'[cc][id]
  <2>1. id \in DOMAIN pending[cc] /\ pending'[cc][id] = pending[cc][id]
    BY Zenon
  <2>2. PICK c \in Caller : /\ call[c].cc = cc
                            /\ \E i \in DOMAIN call[c].ids :
                                   call[c].ids[i] = id /\ call[c].chs[i] = pending[cc][id]
    BY <2>1, ZenonT(40) DEF OwnInv, ChannelsOwned
  <2>3. call[c].ids # <<>>
    BY <2>2
  <2>4. call'[c].cc = cc /\ call'[c].ids = call[c].ids /\ call'[c].chs = call[c].chs
    <3>1. SameStreams(c)
      BY Zenon
    <3> QED
      BY <2>2, <2>3, <3>1, Zenon DEF SameStreams
  <2>5. PICK i \in DOMAIN call[c].ids : call[c].ids[i] = id /\ call[c].chs[i] = pending[cc][id]
    BY <2>2, Zenon
  <2>6. /\ i \in DOMAIN call'[c].ids /\ call'[c].ids[i] = id
        /\ call'[c].chs[i] = pending'[cc][id]
    BY <2>1, <2>4, <2>5, Zenon
  <2> QED
    BY <2>4, <2>6, Zenon
<1>3. ChannelsOwned'
  BY <1>1, <1>2, Zenon DEF OwnInv, ChannelsOwned
<1>4. \A c \in Caller : IsInjective(call'[c].chs)
  BY <1>1, Zenon DEF OwnInv
<1> QED
  BY <1>3, <1>4, Zenon DEF OwnInv

\* What Register does, with the channel and the buffer it took.
Registered(c, ch, b) ==
    LET r == call[c]
        q == call'[c]
        id == nextStreamID[r.cc] + 1
    IN  /\ r.pc = "checked" /\ q.pc = "added"
        /\ q.cc = r.cc /\ q.kind = r.kind /\ q.res = r.res
        /\ q.ids = Append(r.ids, id) /\ q.chs = Append(r.chs, ch) /\ q.bufs = Append(r.bufs, b)
        /\ \A d \in Caller : d # c => call'[d] = call[d]
        /\ nextStreamID' = [nextStreamID EXCEPT ![r.cc] = id]
        /\ chPool' = chPool \ {ch}
        /\ pending'[r.cc] = Stored(pending[r.cc], id, ch)
        /\ \A cc \in Conn : cc # r.cc => pending'[cc] = pending[cc]
        /\ bufPool' = Taken(b) /\ mem' = [mem EXCEPT ![b] = <<r.cc, id>>]
        /\ UNCHANGED <<inCh, wire, proc, gaveUp, piped>>

\* It takes a channel that nobody has.
LEMMA Registers ==
    ASSUME Types, OwnInv, NEW c \in Caller, Register(c)
    PROVE  \E ch \in Chan, b \in GetBuf :
               Registered(c, ch, b) /\ \A d \in Caller : ch \notin Range(call[d].chs)
<1> DEFINE r == call[c]
           id == nextStreamID[r.cc] + 1
<1>1. call \in [Caller -> CallRecord] /\ r \in CallRecord /\ MapTypes /\ chPool \subseteq Chan
  BY Zenon DEF Types
<1>2. PICK ch \in GetChan, b \in GetBuf :
               /\ chPool' = chPool \ {ch}
               /\ pending' = [pending EXCEPT ![r.cc] = Stored(@, id, ch)]
               /\ bufPool' = Taken(b)
               /\ mem' = [mem EXCEPT ![b] = <<r.cc, id>>]
               /\ Become(c, [r EXCEPT !.pc = "added", !.ids = Append(@, id),
                                      !.chs = Append(@, ch), !.bufs = Append(@, b)])
  BY Zenon DEF Register
<1>3. /\ nextStreamID' = [nextStreamID EXCEPT ![r.cc] = id]
      /\ UNCHANGED <<inCh, wire, proc, gaveUp, piped>> /\ r.pc = "checked"
  BY Zenon DEF Register, net, ghosts
<1>4. ch \in Chan /\ \A d \in Caller : ch \notin Range(call[d].chs)
  BY <1>1, NewChan, Zenon DEF OwnInv, Types
<1> HIDE DEF id
<1> DEFINE q == [r EXCEPT !.pc = "added", !.ids = Append(@, id),
                          !.chs = Append(@, ch), !.bufs = Append(@, b)]
<1>5. /\ q.pc = "added" /\ q.cc = r.cc /\ q.kind = r.kind /\ q.res = r.res
      /\ q.ids = Append(r.ids, id) /\ q.chs = Append(r.chs, ch) /\ q.bufs = Append(r.bufs, b)
  BY <1>1, Zenon DEF CallRecord
<1> HIDE DEF q
<1>6. Become(c, q)
  BY <1>2, Zenon DEF q
<1>7. call'[c] = q /\ \A d \in Caller : d # c => call'[d] = call[d]
  BY <1>1, <1>6, Became, Zenon
<1>8. r.cc \in Conn
  BY <1>1, Zenon DEF CallRecord
<1>9. /\ pending'[r.cc] = Stored(pending[r.cc], id, ch)
      /\ \A cc \in Conn : cc # r.cc => pending'[cc] = pending[cc]
  BY <1>1, <1>2, <1>8, Zenon DEF MapTypes
<1>10. Registered(c, ch, b)
  BY <1>2, <1>3, <1>5, <1>7, <1>9, Zenon DEF Registered, id
<1> QED
  BY <1>4, <1>10, Zenon

\* A new stream has the goroutine that registers it as its owner.
LEMMA OwnersAfterRegister ==
    ASSUME Types, Shape, OwnInv, NEW c \in Caller, Register(c)
    PROVE  OwnInv'
<1> DEFINE r == call[c]
           q == call'[c]
           id == nextStreamID[r.cc] + 1
           n == Len(r.ids) + 1
<1>1. PICK ch \in Chan, b \in GetBuf :
          Registered(c, ch, b) /\ \A d \in Caller : ch \notin Range(call[d].chs)
  BY Registers, Zenon
<1>2. /\ q.cc = r.cc /\ q.ids = Append(r.ids, id) /\ q.chs = Append(r.chs, ch)
      /\ \A d \in Caller : d # c => call'[d] = call[d]
      /\ chPool' = chPool \ {ch}
      /\ pending'[r.cc] = Stored(pending[r.cc], id, ch)
      /\ \A cc \in Conn : cc # r.cc => pending'[cc] = pending[cc]
  BY <1>1, Zenon DEF Registered
<1>3. /\ r.cc \in Conn /\ r.ids \in Seq(Nat) /\ r.chs \in Seq(Chan) /\ Len(r.chs) = Len(r.ids)
      /\ id \in Nat
  BY SMTT(30) DEF Types, Shape, CallRecord
<1> HIDE DEF id
<1>4. /\ DOMAIN q.ids = DOMAIN r.ids \cup {n} /\ q.ids[n] = id
      /\ \A i \in DOMAIN r.ids : q.ids[i] = r.ids[i]
  <2> DEFINE s == r.ids
  <2>1. s \in Seq(Nat)
    BY <1>3, Zenon
  <2> HIDE DEF s
  <2>2. /\ DOMAIN Append(s, id) = DOMAIN s \cup {Len(s) + 1}
        /\ \A i \in DOMAIN s : Append(s, id)[i] = s[i]
        /\ Append(s, id)[Len(s) + 1] = id
    BY <1>3, <2>1, Appended
  <2> QED
    BY <1>2, <2>2, Zenon DEF s
<1>5. /\ Range(q.chs) = Range(r.chs) \cup {ch} /\ q.chs[n] = ch
      /\ \A i \in DOMAIN r.ids : q.chs[i] = r.chs[i]
  <2> DEFINE s == r.chs
  <2>1. DOMAIN r.ids = DOMAIN s /\ s \in Seq(Chan) /\ n = Len(s) + 1 /\ q.chs = Append(s, ch)
    BY <1>2, <1>3
  <2> HIDE DEF s
  <2>2. /\ \A i \in DOMAIN s : Append(s, ch)[i] = s[i]
        /\ Append(s, ch)[Len(s) + 1] = ch
        /\ Range(Append(s, ch)) = Range(s) \cup {ch}
    BY <2>1, Appended, <1>1
  <2> QED
    BY <2>1, <2>2, ZenonT(40) DEF s
<1>6. ASSUME NEW cc \in Conn, NEW x \in DOMAIN pending'[cc]
      PROVE  \E d \in Caller : /\ call'[d].cc = cc
                               /\ \E i \in DOMAIN call'[d].ids :
                                      call'[d].ids[i] = x /\ call'[d].chs[i] = pending'[cc][x]
  <2>1. CASE cc = r.cc /\ x = id
    <3>1. pending'[cc][x] = ch
      BY <1>2, <2>1, <1>6, ZenonT(40) DEF Stored
    <3>2. n \in DOMAIN q.ids /\ q.ids[n] = x /\ q.chs[n] = pending'[cc][x] /\ q.cc = cc
      BY <1>2, <1>4, <1>5, <2>1, <3>1, Zenon
    <3> HIDE DEF n
    <3> QED
      BY <3>2, Zenon
  <2>2. CASE ~(cc = r.cc /\ x = id)
    <3>1. x \in DOMAIN pending[cc] /\ pending'[cc][x] = pending[cc][x]
      <4>1. CASE cc = r.cc
        BY <1>2, <1>6, <2>2, <4>1, Zenon DEF Stored
      <4>2. CASE cc # r.cc
        BY <1>2, <1>6, <4>2, Zenon
      <4> QED
        BY <4>1, <4>2, Zenon
    <3>0. PICK d \in Caller : call[d].cc = cc /\ \E i \in DOMAIN call[d].ids :
              call[d].ids[i] = x /\ call[d].chs[i] = pending[cc][x]
      BY <3>1, ZenonT(40) DEF OwnInv, ChannelsOwned
    <3>2. PICK i \in DOMAIN call[d].ids :
              call[d].cc = cc /\ call[d].ids[i] = x /\ call[d].chs[i] = pending[cc][x]
      BY <3>0, Zenon
    <3>3. /\ i \in DOMAIN call'[d].ids /\ call'[d].cc = cc
          /\ call'[d].ids[i] = x /\ call'[d].chs[i] = pending'[cc][x]
      <4>1. CASE d = c
        BY <1>2, <1>4, <1>5, <3>1, <3>2, <4>1, Zenon
      <4>2. CASE d # c
        BY <1>2, <3>1, <3>2, <4>2, Zenon
      <4> QED
        BY <4>1, <4>2, Zenon
    <3> QED
      BY <3>3, Zenon
  <2> QED
    BY <2>1, <2>2, Zenon
<1>7. ASSUME NEW d \in Caller
      PROVE  Range(call'[d].chs) \subseteq Range(call[d].chs) \cup (IF d = c THEN {ch} ELSE {})
  BY <1>2, <1>5, ZenonT(40)
<1>8. \A d \in Caller : Range(call'[d].chs) \cap chPool' = {}
  BY <1>1, <1>2, <1>7, ZenonT(40) DEF OwnInv, ChannelsOwned
<1>9. \A d \in Caller : \A e \in Caller \ {d} : Range(call'[d].chs) \cap Range(call'[e].chs) = {}
  BY <1>1, <1>7 DEF OwnInv, ChannelsOwned
<1>10. ChannelsOwned'
  BY <1>6, <1>8, <1>9, Zenon DEF ChannelsOwned
<1>11. IsInjective(q.chs)
  BY <1>1, <1>2, <1>3, AppendedInjective, ZenonT(40) DEF OwnInv
<1> QED
  BY <1>2, <1>10, <1>11, Zenon DEF OwnInv

\* What Return does.
Returned(c) ==
    LET r == call[c]
    IN  /\ r.pc \in {"done", "failed"} /\ call'[c] = Idle
        /\ \A d \in Caller : d # c => call'[d] = call[d]
        /\ DOMAIN pending'[r.cc] = DOMAIN pending[r.cc] \ Range(r.ids)
        /\ \A cc \in Conn : cc # r.cc => pending'[cc] = pending[cc]
        /\ \A cc \in Conn : /\ DOMAIN pending'[cc] \subseteq DOMAIN pending[cc]
                            /\ \A id \in DOMAIN pending'[cc] : pending'[cc][id] = pending[cc][id]
        /\ chPool' = chPool \cup Range(r.chs)
        /\ inCh' = [ch \in Chan |-> IF ch \in Range(r.chs) THEN <<>> ELSE inCh[ch]]
        /\ bufPool' = IF r.kind = "pipe" THEN PutBufs(bufPool, r.bufs) ELSE bufPool
        /\ mem' = Forget(mem)
        /\ piped' = (piped \/ (r.kind = "pipe" /\ r.pc = "done"))
        /\ gaveUp' = gaveUp \cup ({Request(r, i) : i \in DOMAIN r.ids} \ Range(r.res))
        /\ UNCHANGED <<nextStreamID, wire, proc>>

\* Its definition, with the calls and the maps one by one.
LEMMA Returns ==
    ASSUME Types, NEW c \in Caller, Return(c)
    PROVE  Returned(c)
<1> DEFINE r == call[c]
<1>1. call \in [Caller -> CallRecord] /\ MapTypes /\ r.cc \in Conn
  BY Zenon DEF Types, CallRecord
<1>2. /\ r.pc \in {"done", "failed"} /\ Become(c, Idle)
      /\ pending' = [pending EXCEPT ![r.cc] = Deregister(@, r.ids)]
      /\ inCh' = [ch \in Chan |-> IF ch \in Range(r.chs) THEN <<>> ELSE inCh[ch]]
      /\ chPool' = chPool \cup Range(r.chs)
      /\ bufPool' = IF r.kind = "pipe" THEN PutBufs(bufPool, r.bufs) ELSE bufPool
      /\ piped' = (piped \/ (r.kind = "pipe" /\ r.pc = "done"))
      /\ gaveUp' = gaveUp \cup ({Request(r, i) : i \in DOMAIN r.ids} \ Range(r.res))
      /\ mem' = Forget(mem)
      /\ UNCHANGED <<nextStreamID, wire, proc>>
  BY Zenon DEF Return, net
<1>3. call'[c] = Idle /\ \A d \in Caller : d # c => call'[d] = call[d]
  BY <1>1, <1>2, Became, Zenon
<1>4. /\ DOMAIN pending'[r.cc] = DOMAIN pending[r.cc] \ Range(r.ids)
      /\ \A cc \in Conn : cc # r.cc => pending'[cc] = pending[cc]
      /\ \A cc \in Conn : /\ DOMAIN pending'[cc] \subseteq DOMAIN pending[cc]
                          /\ \A id \in DOMAIN pending'[cc] : pending'[cc][id] = pending[cc][id]
  BY <1>1, <1>2, Deregistered, Zenon
<1> QED
  BY <1>2, <1>3, <1>4, Zenon DEF Returned

\* A goroutine deletes its streams before its channels are anybody's.
LEMMA OwnersAfterReturn ==
    ASSUME Types, OwnInv, NEW c \in Caller, Return(c)
    PROVE  OwnInv'
<1> DEFINE r == call[c]
<1>1. Returned(c)
  BY Returns, ZenonT(40)
<1>2. /\ call'[c].chs = <<>> /\ \A d \in Caller : d # c => call'[d] = call[d]
      /\ DOMAIN pending'[r.cc] = DOMAIN pending[r.cc] \ Range(r.ids)
      /\ \A cc \in Conn : /\ DOMAIN pending'[cc] \subseteq DOMAIN pending[cc]
                          /\ \A id \in DOMAIN pending'[cc] : pending'[cc][id] = pending[cc][id]
      /\ chPool' = chPool \cup Range(r.chs)
  BY <1>1 DEF Returned, Idle
<1>3. ASSUME NEW cc \in Conn, NEW x \in DOMAIN pending'[cc]
      PROVE  \E d \in Caller : /\ call'[d].cc = cc
                               /\ \E i \in DOMAIN call'[d].ids :
                                      call'[d].ids[i] = x /\ call'[d].chs[i] = pending'[cc][x]
  <2>1. x \in DOMAIN pending[cc] /\ pending'[cc][x] = pending[cc][x]
    BY <1>2, <1>3, Zenon
  <2>2. PICK d \in Caller : call[d].cc = cc /\ \E i \in DOMAIN call[d].ids :
            call[d].ids[i] = x /\ call[d].chs[i] = pending[cc][x]
    BY <2>1, ZenonT(40) DEF OwnInv, ChannelsOwned
  <2>3. d # c
    <3>1. x \in Range(call[d].ids)
      BY <2>2, Zenon DEF Range
    <3> QED
      BY <1>2, <1>3, <2>2, <3>1, Zenon
  <2>4. call'[d] = call[d]
    BY <1>2, <2>3, Zenon
  <2>5. PICK i \in DOMAIN call[d].ids : call[d].ids[i] = x /\ call[d].chs[i] = pending[cc][x]
    BY <2>2, Zenon
  <2>6. /\ i \in DOMAIN call'[d].ids /\ call'[d].cc = cc
        /\ call'[d].ids[i] = x /\ call'[d].chs[i] = pending'[cc][x]
    BY <2>1, <2>2, <2>4, <2>5, Zenon
  <2> QED
    BY <2>6, Zenon
<1>4. Range(<<>>) = {} /\ IsInjective(<<>>)
  BY DEF Range, IsInjective
<1>5. \A d \in Caller : Range(call'[d].chs) \cap chPool' = {}
  BY <1>2, <1>4, Zenon DEF OwnInv, ChannelsOwned
<1>6. \A d \in Caller : \A e \in Caller \ {d} : Range(call'[d].chs) \cap Range(call'[e].chs) = {}
  BY <1>2, <1>4 DEF OwnInv, ChannelsOwned
<1>7. ChannelsOwned'
  BY <1>3, <1>5, <1>6, ZenonT(40) DEF ChannelsOwned
<1> QED
  BY <1>2, <1>4, <1>7, Zenon DEF OwnInv

\* Steps of readers, of Close and of the network change no call.
LEMMA WorkerStreams ==
    ASSUME Types, NEW cc \in Conn,
           \/ Load(cc) \/ Send(cc) \/ ReadFails(cc) \/ Close(cc)
           \/ \E w \in Worker : SweepLoad(cc, w) \/ SweepSend(cc, w)
           \/ Drop(cc)
    PROVE  /\ \A d \in Caller : SameStreams(d)
           /\ UNCHANGED <<call, chPool, bufPool, mem, nextStreamID, ghosts>>
           /\ \A k \in Conn : /\ DOMAIN pending'[k] \subseteq DOMAIN pending[k]
                              /\ \A id \in DOMAIN pending'[k] : pending'[k][id] = pending[k][id]
<1>1. UNCHANGED <<call, chPool, bufPool, mem, nextStreamID, ghosts>>
  BY Zenon DEF Load, Send, ReadFails, Close, SweepLoad, SweepSend, Drop, pools
<1>2. \A d \in Caller : SameStreams(d)
  BY <1>1, Zenon DEF SameStreams
<1>3. UNCHANGED pending \/ \E ids : pending' = [pending EXCEPT ![cc] = Deregister(@, ids)]
  BY Zenon DEF Load, Send, ReadFails, Close, SweepLoad, SweepSend, Drop
<1>4. MapTypes
  BY Zenon DEF Types
<1>5. \A k \in Conn : /\ DOMAIN pending'[k] \subseteq DOMAIN pending[k]
                      /\ \A id \in DOMAIN pending'[k] : pending'[k][id] = pending[k][id]
  <2>1. ASSUME NEW ids, pending' = [pending EXCEPT ![cc] = Deregister(@, ids)]
        PROVE  \A k \in Conn : /\ DOMAIN pending'[k] \subseteq DOMAIN pending[k]
                               /\ \A id \in DOMAIN pending'[k] : pending'[k][id] = pending[k][id]
    BY <1>4, <2>1, Deregistered, Zenon
  <2> QED
    BY <1>3, <2>1, Zenon
<1> QED
  BY <1>1, <1>2, <1>5, Zenon

\* The part of the invariant that does not depend on piped.
BaseInv == Types /\ Shape /\ OwnInv

\* It holds of a new client.
LEMMA InitBase == Counted /\ Init => BaseInv
<1> SUFFICES ASSUME Counted, Init PROVE BaseInv
  BY Zenon
<1>1. Types /\ Shape
  BY InitTypes, Zenon
<1>2. /\ \A c \in Caller : call[c].chs = <<>>
      /\ \A cc \in Conn : DOMAIN pending[cc] = {}
  BY DEF Init, Idle
<1>3. Range(<<>>) = {} /\ IsInjective(<<>>)
  BY DEF Range, IsInjective
<1>4. OwnInv
  BY <1>2, <1>3, Zenon DEF OwnInv, ChannelsOwned
<1> QED
  BY <1>1, <1>4, Zenon DEF BaseInv

\* The kinds of steps that the proofs tell apart.
LEMMA Steps ==
    ASSUME [Next]_vars
    PROVE  \/ \E c \in Caller : InBetween(c) \/ Register(c) \/ Return(c)
           \/ \E cc \in Conn : \/ Load(cc) \/ Send(cc) \/ ReadFails(cc) \/ Close(cc)
                               \/ \E w \in Worker : SweepLoad(cc, w) \/ SweepSend(cc, w)
                               \/ Drop(cc)
           \/ UNCHANGED vars
BY Zenon DEF Next, Proceed, InBetween

\* And every step preserves it.
LEMMA BaseStep == BaseInv /\ [Next]_vars => BaseInv'
<1> SUFFICES ASSUME BaseInv, [Next]_vars PROVE BaseInv'
  BY Zenon
<1>1. Types /\ Shape /\ OwnInv /\ ChannelsOwned
  BY Zenon DEF BaseInv, OwnInv
<1>2. ASSUME NEW c \in Caller, InBetween(c) \/ Register(c) \/ Return(c) PROVE BaseInv'
  <2>1. Types' /\ Shape'
    BY <1>1, <1>2, CallerTypes, Zenon DEF InBetween, Proceed
  <2>2. CASE InBetween(c)
    <3>1. (\A d \in Caller : SameStreams(d)) /\ UNCHANGED <<chPool, pending>>
      BY <1>1, <2>2, BetweenStreams, Zenon
    <3>2. OwnInv'
      BY <1>1, <3>1, OwnersKept, Zenon
    <3> QED
      BY <2>1, <3>2, Zenon DEF BaseInv
  <2>3. CASE Register(c)
    BY <1>1, <2>1, <2>3, OwnersAfterRegister, Zenon DEF BaseInv
  <2>4. CASE Return(c)
    BY <1>1, <2>1, <2>4, OwnersAfterReturn, Zenon DEF BaseInv
  <2> QED
    BY <1>2, <2>2, <2>3, <2>4, Zenon
<1>3. ASSUME NEW cc \in Conn,
             \/ Load(cc) \/ Send(cc) \/ ReadFails(cc) \/ Close(cc)
             \/ \E w \in Worker : SweepLoad(cc, w) \/ SweepSend(cc, w)
             \/ Drop(cc)
      PROVE  BaseInv'
  <2>1. Types' /\ Shape'
    BY <1>1, <1>3, WorkerTypes, Zenon
  <2>2. OwnInv'
    BY <1>1, <1>3, WorkerStreams, OwnersKept, Zenon
  <2> QED
    BY <2>1, <2>2, Zenon DEF BaseInv
<1>4. CASE UNCHANGED vars
  <2>1. Types' /\ Shape'
    <3>1. UNCHANGED <<call, chPool, inCh, bufPool, mem, pending, nextStreamID, wire, proc, piped>>
      BY <1>4, Zenon DEF vars, pools, net, ghosts
    <3>2. MapTypes' /\ WorkTypes'
      BY <1>1, <3>1, Zenon DEF Types, MapTypes, WorkTypes
    <3>3. Types'
      BY <1>1, <3>1, <3>2, ZenonT(40) DEF Types
    <3>4. Shape'
      BY <1>1, <3>1, Zenon DEF Shape, Idle
    <3> QED
      BY <3>3, <3>4, Zenon
  <2>2. OwnInv'
    <3>1. UNCHANGED <<call, chPool, pending>>
      BY <1>4, Zenon DEF vars, pools
    <3>2. \A d \in Caller : SameStreams(d)
      BY <3>1, Zenon DEF SameStreams
    <3> QED
      BY <1>1, <3>1, <3>2, OwnersKept, Zenon
  <2> QED
    BY <2>1, <2>2, Zenon DEF BaseInv
<1> QED
  BY <1>2, <1>3, <1>4, Steps, Zenon

-----------------------------------------------------------------------------
(* Stream ids. *)

\* A goroutine that keeps its streams keeps its requests.
LEMMA SameRequests ==
    ASSUME NEW d \in Caller, SameStreams(d)
    PROVE  Requests(d)' = Requests(d)
<1>1. CASE call'[d].cc = call[d].cc
  BY <1>1, Zenon DEF SameStreams, Requests, Request
<1>2. CASE call[d].ids = <<>>
  BY <1>2 DEF SameStreams, Requests
<1> QED
  BY <1>1, <1>2, Zenon DEF SameStreams

\* Types of what a call holds.
LEMMA Held3 ==
    ASSUME Types, Shape, NEW c \in Caller
    PROVE  /\ call[c].cc \in Conn /\ nextStreamID[call[c].cc] \in Nat
           /\ call[c].ids \in Seq(Nat) /\ call[c].chs \in Seq(Chan) /\ call[c].bufs \in Seq(Buf)
           /\ call[c].res \in Seq(Message)
           /\ DOMAIN call[c].chs = DOMAIN call[c].ids /\ DOMAIN call[c].bufs = DOMAIN call[c].ids
           /\ Len(call[c].chs) = Len(call[c].ids) /\ Len(call[c].bufs) = Len(call[c].ids)
           /\ \A i \in DOMAIN call[c].ids : call[c].ids[i] \in Nat
<1>1. /\ call[c].cc \in Conn /\ nextStreamID[call[c].cc] \in Nat
      /\ call[c].ids \in Seq(Nat) /\ call[c].chs \in Seq(Chan) /\ call[c].bufs \in Seq(Buf)
      /\ call[c].res \in Seq(Message)
  BY Zenon DEF Types, CallRecord
<1>2. Len(call[c].chs) = Len(call[c].ids) /\ Len(call[c].bufs) = Len(call[c].ids)
  BY Zenon DEF Shape
<1>3. DOMAIN call[c].chs = DOMAIN call[c].ids /\ DOMAIN call[c].bufs = DOMAIN call[c].ids
  BY <1>1, <1>2
<1>4. \A i \in DOMAIN call[c].ids : call[c].ids[i] \in Nat
  BY <1>1, SMTT(30)
<1> QED
  BY <1>1, <1>2, <1>3, <1>4, Zenon

\* A registered stream, place by place.
StreamAdded(c, ch, b) ==
    LET r == call[c]
        q == call'[c]
        n == Len(r.ids) + 1
        id == nextStreamID[r.cc] + 1
    IN  /\ id \in Nat /\ n \notin DOMAIN r.ids
        /\ DOMAIN q.ids = DOMAIN r.ids \cup {n}
        /\ q.ids[n] = id /\ q.chs[n] = ch /\ q.bufs[n] = b
        /\ \A i \in DOMAIN r.ids :
               q.ids[i] = r.ids[i] /\ q.chs[i] = r.chs[i] /\ q.bufs[i] = r.bufs[i]
        /\ Requests(c)' = Requests(c) \cup {<<r.cc, id>>}

\* It is at the end of its call.
LEMMA RegisteredStream ==
    ASSUME Types, Shape, NEW c \in Caller, NEW ch \in Chan, NEW b \in Buf, Registered(c, ch, b)
    PROVE  StreamAdded(c, ch, b)
<1> DEFINE r == call[c]
           q == call'[c]
           s == r.ids
           t == r.chs
           u == r.bufs
           n == Len(s) + 1
           id == nextStreamID[r.cc] + 1
<1>1. /\ s \in Seq(Nat) /\ t \in Seq(Chan) /\ u \in Seq(Buf) /\ Len(t) = Len(s) /\ Len(u) = Len(s)
      /\ DOMAIN t = DOMAIN s /\ DOMAIN u = DOMAIN s /\ nextStreamID[r.cc] \in Nat
  BY Held3, Zenon
<1>2. id \in Nat
  BY <1>1, SMTT(30)
<1>3. q.ids = Append(s, id) /\ q.chs = Append(t, ch) /\ q.bufs = Append(u, b) /\ q.cc = r.cc
  BY ZenonT(40) DEF Registered
<1> HIDE DEF s, t, u, id
<1>4. /\ DOMAIN Append(s, id) = DOMAIN s \cup {n} /\ n \notin DOMAIN s
      /\ \A i \in DOMAIN s : Append(s, id)[i] = s[i]
      /\ Append(s, id)[n] = id
  BY <1>1, <1>2, Appended
<1>5. Append(t, ch)[n] = ch /\ \A i \in DOMAIN s : Append(t, ch)[i] = t[i]
  BY <1>1, Appended
<1>6. Append(u, b)[n] = b /\ \A i \in DOMAIN s : Append(u, b)[i] = u[i]
  BY <1>1, Appended
<1> HIDE DEF n
<1>7. Requests(c)' = {<<q.cc, q.ids[i]>> : i \in DOMAIN q.ids}
  BY Zenon DEF Requests, Request
<1>8. Requests(c) = {<<r.cc, s[i]>> : i \in DOMAIN s}
  BY Zenon DEF Requests, Request, s
<1>9. Requests(c)' = Requests(c) \cup {<<r.cc, id>>}
  <2>1. /\ DOMAIN q.ids = DOMAIN s \cup {n} /\ q.ids[n] = id /\ q.cc = r.cc
        /\ \A i \in DOMAIN s : q.ids[i] = s[i]
    BY <1>3, <1>4, Zenon
  <2>2. Requests(c)' = {<<r.cc, q.ids[i]>> : i \in DOMAIN s \cup {n}}
    BY <1>7, <2>1, Zenon
  <2> QED
    BY <1>8, <2>1, <2>2, ZenonT(40)
<1> QED
  BY <1>2, <1>3, <1>4, <1>5, <1>6, <1>9, ZenonT(40) DEF StreamAdded, s, t, u, n, id

\* No request has the next stream id yet.
LEMMA NextIsNew ==
    ASSUME Types, Shape, IdsInv, NEW cc \in Conn
    PROVE  \A d \in Caller : <<cc, nextStreamID[cc] + 1>> \notin Requests(d)
<1> SUFFICES ASSUME NEW d \in Caller, NEW i \in DOMAIN call[d].ids,
                    <<cc, nextStreamID[cc] + 1>> = <<call[d].cc, call[d].ids[i]>>
             PROVE  FALSE
  BY Zenon DEF Requests, Request
<1>1. nextStreamID[cc] \in Nat
  BY Zenon DEF Types
<1>2. call[d].ids[i] <= nextStreamID[call[d].cc]
  BY Zenon DEF IdsInv
<1> QED
  BY <1>1, <1>2

\* Stream ids stay distinct.
LEMMA IdsStep == BaseInv /\ IdsInv /\ [Next]_vars => IdsInv'
<1> SUFFICES ASSUME BaseInv, IdsInv, [Next]_vars PROVE IdsInv'
  BY Zenon
<1>1. Types /\ Shape /\ OwnInv
  BY Zenon DEF BaseInv
<1>2. ASSUME \A d \in Caller : SameStreams(d), UNCHANGED nextStreamID PROVE IdsInv'
  <2>1. \A d \in Caller : Requests(d)' = Requests(d)
    BY <1>2, SameRequests, Zenon
  <2>2. ASSUME NEW d \in Caller
        PROVE  /\ IsInjective(call'[d].ids)
               /\ \A i \in DOMAIN call'[d].ids : call'[d].ids[i] <= nextStreamID'[call'[d].cc]
    <3>1. call'[d].ids = call[d].ids /\ (call'[d].cc = call[d].cc \/ call[d].ids = <<>>)
      BY <1>2, Zenon DEF SameStreams
    <3>2. IsInjective(call[d].ids) /\ \A i \in DOMAIN call[d].ids : call[d].ids[i] <= nextStreamID[call[d].cc]
      BY Zenon DEF IdsInv
    <3> QED
      BY <1>2, <3>1, <3>2
  <2> QED
    BY <2>1, <2>2, Zenon DEF IdsInv
<1>3. ASSUME NEW c \in Caller, Register(c) PROVE IdsInv'
  <2> DEFINE r == call[c]
             id == nextStreamID[r.cc] + 1
  <2>1. PICK ch \in Chan, b \in GetBuf : Registered(c, ch, b)
    BY <1>1, <1>3, Registers, Zenon
  <2>2. b \in Buf
    BY NewBuf, ZenonT(40) DEF BaseInv, Types
  <2>3. /\ id \in Nat /\ DOMAIN call'[c].ids = DOMAIN r.ids \cup {Len(r.ids) + 1}
        /\ call'[c].ids[Len(r.ids) + 1] = id
        /\ \A i \in DOMAIN r.ids : call'[c].ids[i] = r.ids[i]
        /\ Requests(c)' = Requests(c) \cup {<<r.cc, id>>}
    BY <1>1, <2>1, <2>2, RegisteredStream, Zenon DEF StreamAdded
  <2>4. /\ \A d \in Caller : d # c => call'[d] = call[d]
        /\ nextStreamID' = [nextStreamID EXCEPT ![r.cc] = id]
        /\ call'[c].cc = r.cc /\ call'[c].ids = Append(r.ids, id)
    BY <2>1, ZenonT(40) DEF Registered
  <2>5. nextStreamID \in [Conn -> Nat] /\ r.cc \in Conn /\ r.ids \in Seq(Nat)
    BY <1>1, Held3, ZenonT(40) DEF Types
  <2>6. \A cc \in Conn : \A x \in Nat : x <= nextStreamID[cc] => x <= nextStreamID'[cc]
    BY <2>4, <2>5, SMTT(30)
  <2>7. id <= nextStreamID'[r.cc]
    BY <2>3, <2>4, <2>5
  <2>8. \A d \in Caller : <<r.cc, id>> \notin Requests(d)
    BY <1>1, <2>5, NextIsNew, Zenon
  <2>9. \A d \in Caller : d # c => Requests(d)' = Requests(d)
    BY <2>4, Zenon DEF Requests, Request
  <2>10. id \notin Range(r.ids)
    BY <2>8, ZenonT(40) DEF Requests, Request, Range
  <2> HIDE DEF id
  <2>11. IsInjective(call'[c].ids)
    <3>1. IsInjective(r.ids)
      BY Zenon DEF IdsInv
    <3> QED
      BY <2>3, <2>4, <2>5, <2>10, <3>1, AppendedInjective, Zenon
  <2>12. ASSUME NEW d \in Caller, NEW i \in DOMAIN call'[d].ids
         PROVE  call'[d].ids[i] <= nextStreamID'[call'[d].cc]
    <3>1. \A e \in Caller : \A j \in DOMAIN call[e].ids :
              call[e].ids[j] \in Nat /\ call[e].cc \in Conn /\ call[e].ids[j] <= nextStreamID[call[e].cc]
      BY <1>1, Held3, Zenon DEF IdsInv
    <3>2. CASE d = c
      BY <2>3, <2>4, <2>5, <2>6, <2>7, <2>12, <3>1, <3>2, ZenonT(40)
    <3>3. CASE d # c
      BY <2>4, <2>6, <2>12, <3>1, <3>3, ZenonT(40)
    <3> QED
      BY <3>2, <3>3, Zenon
  <2>13. ASSUME NEW d \in Caller, NEW e \in Caller \ {d} PROVE Requests(d)' \cap Requests(e)' = {}
    <3>1. Requests(d) \cap Requests(e) = {}
      BY Zenon DEF IdsInv
    <3> QED
      BY <2>3, <2>8, <2>9, <3>1
  <2>14. \A d \in Caller : IsInjective(call'[d].ids)
    BY <2>4, <2>11, Zenon DEF IdsInv
  <2> QED
    BY <2>12, <2>13, <2>14, Zenon DEF IdsInv
<1>4. ASSUME NEW c \in Caller, Return(c) PROVE IdsInv'
  <2>1. /\ call'[c].ids = <<>> /\ \A d \in Caller : d # c => call'[d] = call[d]
        /\ nextStreamID' = nextStreamID
    <3>1. Returned(c)
      BY <1>1, <1>4, Returns, Zenon
    <3>2. call'[c] = Idle /\ (\A d \in Caller : d # c => call'[d] = call[d]) /\ nextStreamID' = nextStreamID
      BY <3>1, Zenon DEF Returned
    <3>3. Idle.ids = <<>>
      BY Zenon DEF Idle
    <3> QED
      BY <3>2, <3>3, Zenon
  <2>2. Requests(c)' = {} /\ \A d \in Caller : d # c => Requests(d)' = Requests(d)
    <3>1. DOMAIN call'[c].ids = {}
      BY <2>1
    <3>2. Requests(c)' = {}
      BY <3>1, Zenon DEF Requests
    <3>3. \A d \in Caller : d # c => Requests(d)' = Requests(d)
      BY <2>1, Zenon DEF Requests, Request
    <3> QED
      BY <3>2, <3>3, Zenon
  <2>3. IsInjective(<<>>)
    BY DEF IsInjective
  <2>4. ASSUME NEW d \in Caller
        PROVE  /\ IsInjective(call'[d].ids)
               /\ \A i \in DOMAIN call'[d].ids : call'[d].ids[i] <= nextStreamID'[call'[d].cc]
    <3>1. CASE d = c
      BY <2>1, <2>3, <3>1
    <3>2. CASE d # c
      BY <2>1, <3>2, Zenon DEF IdsInv
    <3> QED
      BY <3>1, <3>2, Zenon
  <2>5. ASSUME NEW d \in Caller, NEW e \in Caller \ {d} PROVE Requests(d)' \cap Requests(e)' = {}
    <3>1. Requests(d) \cap Requests(e) = {}
      BY Zenon DEF IdsInv
    <3> QED
      BY <2>2, <3>1, Zenon
  <2> QED
    BY <2>4, <2>5, Zenon DEF IdsInv
<1>5. ASSUME NEW c \in Caller, InBetween(c) PROVE IdsInv'
  BY <1>1, <1>2, <1>5, BetweenStreams, Zenon
<1>6. CASE \E cc \in Conn : \/ Load(cc) \/ Send(cc) \/ ReadFails(cc) \/ Close(cc)
                            \/ \E w \in Worker : SweepLoad(cc, w) \/ SweepSend(cc, w)
                            \/ Drop(cc)
  BY <1>1, <1>2, <1>6, WorkerStreams, Zenon
<1>7. CASE UNCHANGED vars
  BY <1>2, <1>7, Zenon DEF vars, SameStreams
<1> QED
  BY <1>3, <1>4, <1>5, <1>6, <1>7, Steps, Zenon

-----------------------------------------------------------------------------
(* Every buffer that is being encoded has one owner. *)

\* Steps in which nobody takes or puts back a buffer.
LEMMA BufsKept ==
    ASSUME BufsInv, UNCHANGED <<bufPool, mem>>, \A d \in Caller : SameStreams(d),
           \A d \in Caller : /\ Encoding(d)' => Encoding(d) \/ (call[d].ids = <<>> /\ call[d].bufs = <<>>)
                             /\ (Encoding(d)' /\ call'[d].pc # "failed") =>
                                    call[d].pc # "failed" \/ call[d].ids = <<>>
    PROVE  BufsInv'
<1> SUFFICES ASSUME NEW c \in Caller, Encoding(c)' PROVE OwnBufs(c)'
  BY Zenon DEF BufsInv
<1>1. /\ call'[c].ids = call[c].ids /\ call'[c].bufs = call[c].bufs
      /\ call'[c].cc = call[c].cc \/ call[c].ids = <<>>
  BY Zenon DEF SameStreams
<1>2. Range(<<>>) = {} /\ IsInjective(<<>>)
  BY DEF Range, IsInjective
<1>3. call[c].bufs # <<>> => Encoding(c) /\ OwnBufs(c)
  BY ZenonT(40) DEF BufsInv
<1>4. IsInjective(call'[c].bufs) /\ \A b \in Range(call'[c].bufs) : bufPool'[b] = 0
  BY <1>1, <1>2, <1>3, ZenonT(40) DEF OwnBufs
<1>5. ASSUME NEW d \in Caller \ {c}, Encoding(d)' PROVE Range(call'[c].bufs) \cap Range(call'[d].bufs) = {}
  <2>1. call'[d].bufs = call[d].bufs /\ (Encoding(d) \/ call[d].bufs = <<>>)
    BY <1>5, ZenonT(40) DEF SameStreams
  <2> QED
    BY <1>1, <1>2, <1>3, <2>1, Zenon DEF OwnBufs
<1>6. ASSUME call'[c].pc # "failed", NEW i \in DOMAIN call'[c].ids
      PROVE  mem'[call'[c].bufs[i]] = Request(call'[c], i)
  <2>1. call[c].ids # <<>> /\ i \in DOMAIN call[c].ids
    BY <1>1, <1>6
  <2>2. call[c].pc # "failed"
    BY <1>6, <2>1, Zenon
  <2>3. call'[c].cc = call[c].cc
    BY <1>1, <2>1, Zenon
  <2>4. Encoding(c)
    BY <2>1, Zenon
  <2>5. mem[call[c].bufs[i]] = Request(call[c], i)
    BY <2>1, <2>2, <2>4, Zenon DEF BufsInv, OwnBufs
  <2> QED
    BY <1>1, <2>3, <2>5, ZenonT(40) DEF Request
<1> QED
  BY <1>4, <1>5, <1>6, Zenon DEF OwnBufs

\* Steps in which c is done with its buffers, and puts them back if they are out.
LEMMA BufsLeft ==
    ASSUME BaseInv, BufsInv, NEW c \in Caller, ~Encoding(c)',
           \A d \in Caller : d # c => call'[d] = call[d],
           bufPool' = bufPool \/ (Encoding(c) /\ bufPool' = PutBufs(bufPool, call[c].bufs)),
           \A d \in Caller : d # c => \A b \in Range(call[d].bufs) : mem'[b] = mem[b]
    PROVE  BufsInv'
<1> DEFINE r == call[c]
<1>1. bufPool \in [Buf -> Nat] /\ r.bufs \in Seq(Buf)
  BY Held3, Zenon DEF BaseInv, Types
<1>2. \A b \in Buf : bufPool[b] <= 1
  BY Zenon DEF BufsInv
<1>3. \A b \in Buf : bufPool'[b] = bufPool[b] \/ (Encoding(c) /\ b \in Range(r.bufs) /\ bufPool'[b] = bufPool[b] + 1)
  <2>1. CASE bufPool' = bufPool
    BY <2>1, Zenon
  <2>2. CASE Encoding(c) /\ bufPool' = PutBufs(bufPool, r.bufs)
    <3>1. IsInjective(r.bufs)
      BY <2>2, ZenonT(40) DEF BufsInv, OwnBufs
    <3>2. \A b \in Buf : PutBufs(bufPool, r.bufs)[b] = IF b \in Range(r.bufs) THEN bufPool[b] + 1 ELSE bufPool[b]
      <4>1. Counted
        BY Zenon DEF BaseInv, Types
      <4> QED
        BY <1>1, <3>1, <4>1, PutBack, Zenon
    <3> QED
      BY <2>2, <3>2, Zenon
  <2> QED
    BY <2>1, <2>2, Zenon
<1>4. Encoding(c) => \A b \in Range(r.bufs) : bufPool[b] = 0
  BY Zenon DEF BufsInv, OwnBufs
<1>5. \A b \in Buf : bufPool'[b] <= 1
  BY <1>1, <1>2, <1>3, <1>4
<1>6. ASSUME NEW d \in Caller, Encoding(d)' PROVE OwnBufs(d)'
  <2>1. d # c /\ call'[d] = call[d]
    BY <1>6, Zenon
  <2>2. Encoding(d) /\ OwnBufs(d)
    BY <1>6, <2>1, ZenonT(40) DEF Encoding, BufsInv
  <2>3. call[d].bufs \in Seq(Buf) /\ DOMAIN call[d].bufs = DOMAIN call[d].ids
    BY Held3, Zenon DEF BaseInv
  <2>4. Range(call[d].bufs) \subseteq Buf /\ \A i \in DOMAIN call[d].ids : call[d].bufs[i] \in Range(call[d].bufs)
    BY <2>3, SMTT(30) DEF Range
  <2>5. Encoding(c) => Range(r.bufs) \cap Range(call[d].bufs) = {}
    BY <2>1, <2>2, Zenon DEF OwnBufs
  <2>6. \A b \in Range(call[d].bufs) : bufPool'[b] = 0
    <3>1. \A b \in Range(call[d].bufs) : bufPool[b] = 0
      BY <2>2, Zenon DEF OwnBufs
    <3> QED
      BY <1>3, <2>4, <2>5, <3>1, Zenon
  <2>7. \A e \in Caller \ {d} : Encoding(e)' => Range(call'[d].bufs) \cap Range(call'[e].bufs) = {}
    <3> SUFFICES ASSUME NEW e \in Caller \ {d}, Encoding(e)' PROVE Range(call'[d].bufs) \cap Range(call'[e].bufs) = {}
      BY Zenon
    <3>1. e # c /\ call'[e] = call[e]
      BY Zenon
    <3>2. Encoding(e)
      BY <3>1, ZenonT(40) DEF Encoding
    <3> QED
      BY <2>1, <2>2, <3>1, <3>2, Zenon DEF OwnBufs
  <2>8. ASSUME call'[d].pc # "failed", NEW i \in DOMAIN call'[d].ids
        PROVE  mem'[call'[d].bufs[i]] = Request(call'[d], i)
    <3>1. mem[call[d].bufs[i]] = Request(call[d], i)
      BY <2>1, <2>2, <2>8, Zenon DEF OwnBufs
    <3>2. mem'[call[d].bufs[i]] = mem[call[d].bufs[i]]
      BY <2>1, <2>4, <2>8, ZenonT(40)
    <3> QED
      BY <2>1, <3>1, <3>2, Zenon
  <2>9. IsInjective(call'[d].bufs)
    BY <2>1, <2>2, Zenon DEF OwnBufs
  <2> QED
    BY <2>1, <2>6, <2>7, <2>8, <2>9, ZenonT(40) DEF OwnBufs
<1> QED
  BY <1>5, <1>6, ZenonT(40) DEF BufsInv

\* Register takes a buffer that nobody is encoding into.
LEMMA BufsTaken ==
    ASSUME BaseInv, BufsInv, NEW c \in Caller, NEW ch \in Chan, NEW b \in GetBuf, Registered(c, ch, b)
    PROVE  BufsInv'
<1> DEFINE r == call[c]
           q == call'[c]
           n == Len(r.ids) + 1
           x == <<r.cc, nextStreamID[r.cc] + 1>>
<1>1. /\ bufPool \in [Buf -> Nat] /\ mem \in [Buf -> Message] /\ Types /\ Shape
      /\ \A y \in Buf : bufPool[y] <= 1
  BY Zenon DEF BaseInv, Types, BufsInv
<1>2. b \in Buf /\ (bufPool[b] > 0 \/ \A d \in Caller : b \notin Range(call[d].bufs))
  BY NewBuf, Zenon DEF BaseInv, Types
<1>3. /\ r.pc = "checked" /\ q.pc = "added" /\ q.cc = r.cc
      /\ \A d \in Caller : d # c => call'[d] = call[d]
      /\ bufPool' = Taken(b) /\ mem' = [mem EXCEPT ![b] = x]
      /\ q.bufs = Append(r.bufs, b)
  BY Zenon DEF Registered
<1>4. Encoding(c) /\ \A d \in Caller : Encoding(d)' <=> Encoding(d)
  BY <1>3, Zenon DEF Encoding
<1>5. \A d \in Caller : Encoding(d) => OwnBufs(d)
  BY Zenon DEF BufsInv
<1>6. \A d \in Caller : Encoding(d) => b \notin Range(call[d].bufs)
  <2> SUFFICES ASSUME NEW d \in Caller, Encoding(d), b \in Range(call[d].bufs) PROVE FALSE
    BY Zenon
  <2>1. bufPool[b] = 0
    BY <1>5, ZenonT(40) DEF OwnBufs
  <2> QED
    BY <1>2, <2>1
<1>7. bufPool'[b] = 0 /\ \A y \in Buf : y # b => bufPool'[y] = bufPool[y]
  BY <1>1, <1>2, <1>3, SMTT(30) DEF Taken
<1>8. mem'[b] = x /\ \A y \in Buf : y # b => mem'[y] = mem[y]
  BY <1>1, <1>2, <1>3, Zenon
<1>9. \A y \in Buf : bufPool'[y] <= 1
  BY <1>1, <1>7
<1>10. /\ DOMAIN q.ids = DOMAIN r.ids \cup {n} /\ q.bufs[n] = b /\ <<q.cc, q.ids[n]>> = x
       /\ \A i \in DOMAIN r.ids : q.ids[i] = r.ids[i] /\ q.bufs[i] = r.bufs[i]
  <2>1. /\ DOMAIN q.ids = DOMAIN r.ids \cup {n} /\ q.bufs[n] = b
        /\ q.ids[n] = nextStreamID[r.cc] + 1
        /\ \A i \in DOMAIN r.ids : q.ids[i] = r.ids[i] /\ q.bufs[i] = r.bufs[i]
    <3>1. StreamAdded(c, ch, b)
      BY <1>1, <1>2, RegisteredStream, ZenonT(40)
    <3> QED
      BY <3>1, Zenon DEF StreamAdded
  <2> QED
    BY <1>3, <2>1, Zenon
<1>11. r.bufs \in Seq(Buf) /\ \A d \in Caller : DOMAIN call[d].bufs = DOMAIN call[d].ids /\ call[d].bufs \in Seq(Buf)
  BY <1>1, Held3, ZenonT(40)
<1>12. Range(q.bufs) = Range(r.bufs) \cup {b}
  BY <1>2, <1>3, <1>11, Appended, SMTT(30)
<1>13. \A d \in Caller : \A y \in Range(call[d].bufs) : y \in Buf
  BY <1>11 DEF Range
<1> HIDE DEF n, x
<1>14. OwnBufs(c)'
  <2>1. IsInjective(q.bufs)
    <3> DEFINE s == r.bufs
    <3>1. IsInjective(s) /\ b \notin Range(s) /\ s \in Seq(Buf) /\ q.bufs = Append(s, b)
      BY <1>3, <1>4, <1>5, <1>6, <1>11, ZenonT(40) DEF OwnBufs
    <3> HIDE DEF s
    <3> QED
      BY <1>2, <3>1, AppendedInjective, Zenon
  <2>2. \A y \in Range(q.bufs) : bufPool'[y] = 0
    <3>1. \A y \in Range(r.bufs) : bufPool[y] = 0 /\ y \in Buf
      BY <1>4, <1>5, <1>13, ZenonT(40) DEF OwnBufs
    <3> QED
      BY <1>7, <1>12, <3>1
  <2>3. ASSUME NEW d \in Caller \ {c}, Encoding(d)' PROVE Range(q.bufs) \cap Range(call'[d].bufs) = {}
    <3>1. Encoding(d) /\ call'[d] = call[d]
      BY <1>3, <1>4, <2>3, Zenon
    <3>2. Range(r.bufs) \cap Range(call[d].bufs) = {}
      BY <1>4, <1>5, <3>1, ZenonT(40) DEF OwnBufs
    <3> QED
      BY <1>6, <1>12, <3>1, <3>2, ZenonT(40)
  <2>4. ASSUME NEW i \in DOMAIN q.ids PROVE mem'[q.bufs[i]] = Request(q, i)
    <3>1. CASE i = n
      BY <1>8, <1>10, <3>1, Zenon DEF Request
    <3>2. CASE i \in DOMAIN r.ids
      <4>1. mem[r.bufs[i]] = Request(r, i)
        BY <1>3, <1>4, <1>5, <3>2, Zenon DEF OwnBufs
      <4>2. r.bufs[i] \in Range(r.bufs)
        BY <1>11, <3>2, Zenon DEF Range
      <4>3. mem'[r.bufs[i]] = mem[r.bufs[i]]
        BY <1>4, <1>6, <1>8, <1>13, <4>2, ZenonT(40)
      <4> QED
        BY <1>3, <1>10, <3>2, <4>1, <4>3, ZenonT(40) DEF Request
    <3> QED
      BY <1>10, <2>4, <3>1, <3>2, ZenonT(40)
  <2> QED
    BY <2>1, <2>2, <2>3, <2>4, ZenonT(40) DEF OwnBufs
<1>15. ASSUME NEW d \in Caller, d # c, Encoding(d)' PROVE OwnBufs(d)'
  <2>1. Encoding(d) /\ OwnBufs(d) /\ call'[d] = call[d]
    BY <1>3, <1>4, <1>5, <1>15, Zenon
  <2>2. \A y \in Range(call[d].bufs) : y \in Buf /\ y # b
    BY <1>6, <1>13, <2>1, Zenon
  <2>3. \A y \in Range(call[d].bufs) : bufPool'[y] = 0
    BY <1>7, <2>1, <2>2, ZenonT(40) DEF OwnBufs
  <2>4. ASSUME NEW e \in Caller \ {d}, Encoding(e)' PROVE Range(call[d].bufs) \cap Range(call'[e].bufs) = {}
    <3>1. Range(call[d].bufs) \cap Range(call[e].bufs) = {}
      BY <1>4, <2>1, <2>4, ZenonT(40) DEF OwnBufs
    <3>2. CASE e = c
      BY <1>12, <2>2, <3>1, <3>2, ZenonT(40)
    <3>3. CASE e # c
      BY <1>3, <3>1, <3>3, Zenon
    <3> QED
      BY <3>2, <3>3, Zenon
  <2>5. ASSUME call[d].pc # "failed", NEW i \in DOMAIN call[d].ids PROVE mem'[call[d].bufs[i]] = Request(call[d], i)
    <3>1. mem[call[d].bufs[i]] = Request(call[d], i)
      BY <2>1, <2>5, Zenon DEF OwnBufs
    <3>2. call[d].bufs[i] \in Range(call[d].bufs)
      BY <1>11, <2>5, Zenon DEF Range
    <3> QED
      BY <1>8, <2>2, <3>1, <3>2, Zenon
  <2> QED
    BY <2>1, <2>3, <2>4, <2>5, ZenonT(40) DEF OwnBufs
<1> QED
  BY <1>9, <1>14, <1>15, Zenon DEF BufsInv

\* Where a goroutine goes between Register and Return, and what becomes of the
\* buffers and of what it has received.
LEMMA BetweenMoves ==
    ASSUME Types, Shape, NEW c \in Caller, InBetween(c)
    PROVE  /\ \A d \in Caller : d # c => call'[d] = call[d]
           /\ mem' = mem
           /\ \/ /\ call[c].pc \in {"idle", "added"} /\ call'[c].pc = "checked"
                 /\ call[c].pc = "idle" => call[c].ids = <<>> /\ call[c].bufs = <<>>
                 /\ bufPool' = bufPool
              \/ /\ call[c].pc = "added" /\ call'[c].pc = "failed"
                 /\ call[c].kind = "pipe" /\ bufPool' = bufPool
              \/ /\ call[c].pc = "added" /\ ~Encoding(c)'
                 /\ bufPool' = PutBufs(bufPool, call[c].bufs)
              \/ /\ call[c].pc = "waiting" /\ call'[c].pc \in {"waiting", "done"} /\ bufPool' = bufPool
<1> DEFINE r == call[c]
<1>1. call \in [Caller -> CallRecord] /\ r \in CallRecord /\ r.kind \in {"do", "pipe"}
  BY Zenon DEF Types, CallRecord
<1>2. mem' = mem
  BY Zenon DEF InBetween, Check, Reset, Write, WriteFails, WriteTimeout, FailWrite, Receive,
               ReadTimeout, pools
<1>3. ASSUME NEW l, Become(c, [r EXCEPT !.pc = l])
      PROVE  call'[c].pc = l /\ call'[c].kind = r.kind /\ \A d \in Caller : d # c => call'[d] = call[d]
  <2> DEFINE q == [r EXCEPT !.pc = l]
  <2>1. q.pc = l /\ q.kind = r.kind
    BY <1>1, Zenon DEF CallRecord
  <2>2. Become(c, q)
    BY <1>3, Zenon
  <2> HIDE DEF q
  <2>3. call'[c] = q /\ \A d \in Caller : d # c => call'[d] = call[d]
    BY <1>1, <2>2, Became, Zenon
  <2> QED
    BY <2>1, <2>3, Zenon
<1>4. ASSUME NEW cc \in Conn, NEW kind \in Kinds[c], Check(c, cc, kind)
      PROVE  /\ \A d \in Caller : d # c => call'[d] = call[d]
             /\ r.pc \in {"idle", "added"} /\ call'[c].pc = "checked"
             /\ r.pc = "idle" => r.ids = <<>> /\ r.bufs = <<>>
             /\ bufPool' = bufPool
  <2>1. bufPool' = bufPool
    BY <1>4, Zenon DEF Check, pools
  <2>2. r.pc = "idle" => r.ids = <<>> /\ r.bufs = <<>>
    <3>1. r.pc = "idle" => r = Idle
      BY ZenonT(40) DEF Shape
    <3>2. Idle.ids = <<>> /\ Idle.bufs = <<>>
      BY Zenon DEF Idle
    <3> QED
      BY <3>1, <3>2, Zenon
  <2>3. CASE r.pc = "idle" /\ Become(c, [Idle EXCEPT !.pc = "checked", !.kind = kind, !.cc = cc])
    <3> DEFINE q == [Idle EXCEPT !.pc = "checked", !.kind = kind, !.cc = cc]
    <3>1. q.pc = "checked"
      BY Zenon DEF Idle
    <3>2. Become(c, q)
      BY <2>3, Zenon
    <3> HIDE DEF q
    <3>3. call'[c] = q /\ \A d \in Caller : d # c => call'[d] = call[d]
      BY <1>1, <3>2, Became, Zenon
    <3> QED
      BY <2>1, <2>2, <2>3, <3>1, <3>3, Zenon
  <2>4. CASE r.pc = "added" /\ Become(c, [r EXCEPT !.pc = "checked"])
    BY <1>3, <2>1, <2>2, <2>4, Zenon
  <2> QED
    BY <1>4, <2>3, <2>4, Zenon DEF Check
<1>5. CASE Reset(c)
  <2>1. r.pc = "added" /\ r.kind = "pipe" /\ Become(c, [r EXCEPT !.pc = "failed"]) /\ bufPool' = bufPool
    BY <1>5, Zenon DEF Reset, pools
  <2> QED
    BY <1>2, <1>3, <2>1, Zenon
<1>6. CASE Write(c)
  <2>1. /\ r.pc = "added" /\ Become(c, [r EXCEPT !.pc = "waiting"])
        /\ bufPool' = PutBufs(bufPool, r.bufs)
    BY <1>6, Zenon DEF Write
  <2>2. call'[c].pc = "waiting" /\ \A d \in Caller : d # c => call'[d] = call[d]
    BY <1>3, <2>1, Zenon
  <2>3. ~Encoding(c)'
    BY <2>2, ZenonT(40) DEF Encoding
  <2> QED
    BY <1>2, <2>1, <2>2, <2>3, Zenon
<1>7. CASE WriteFails(c) \/ WriteTimeout(c)
  <2>1. /\ r.pc = "added" /\ Become(c, [r EXCEPT !.pc = "failed"])
        /\ bufPool' = IF r.kind = "do" THEN PutBufs(bufPool, r.bufs) ELSE bufPool
    BY <1>7, Zenon DEF WriteFails, WriteTimeout, FailWrite
  <2>2. call'[c].pc = "failed" /\ call'[c].kind = r.kind /\ \A d \in Caller : d # c => call'[d] = call[d]
    BY <1>3, <2>1, Zenon
  <2>3. CASE r.kind = "do"
    <3>1. ~Encoding(c)'
      BY <2>2, <2>3, Zenon DEF Encoding
    <3> QED
      BY <1>2, <2>1, <2>2, <2>3, <3>1, ZenonT(40)
  <2>4. CASE r.kind = "pipe"
    BY <1>2, <2>1, <2>2, <2>4, Zenon
  <2> QED
    BY <1>1, <2>3, <2>4, Zenon
<1>8. CASE Receive(c)
  <2> DEFINE i == Len(r.res) + 1
             l == IF i = Len(r.ids) THEN "done" ELSE "waiting"
             x == Append(r.res, Head(inCh[r.chs[i]]))
  <2>1. l \in {"done", "waiting"} /\ Become(c, [r EXCEPT !.res = x, !.pc = l])
    BY <1>8, Zenon DEF Receive
  <2> HIDE DEF l, x
  <2> DEFINE q == [r EXCEPT !.res = x, !.pc = l]
  <2>2. q.pc = l
    BY <1>1, Zenon DEF CallRecord
  <2>3. Become(c, q)
    BY <2>1, Zenon
  <2> HIDE DEF q
  <2>4. call'[c] = q /\ \A d \in Caller : d # c => call'[d] = call[d]
    BY <1>1, <2>3, Became, Zenon
  <2>5. r.pc = "waiting" /\ bufPool' = bufPool
    BY <1>8, Zenon DEF Receive
  <2> QED
    BY <1>2, <2>1, <2>2, <2>4, <2>5, ZenonT(40)
<1>9. CASE ReadTimeout(c)
  <2>1. r.pc = "waiting" /\ Become(c, [r EXCEPT !.pc = "done"]) /\ bufPool' = bufPool
    BY <1>9, Zenon DEF ReadTimeout, pools
  <2> QED
    BY <1>2, <1>3, <2>1, Zenon
<1> QED
  BY <1>2, <1>4, <1>5, <1>6, <1>7, <1>8, <1>9, ZenonT(40) DEF InBetween

\* The owners of the buffers, after any step that does not put them back twice.
LEMMA BufsStep ==
    ASSUME BaseInv, BufsInv, [Next]_vars, ~piped'
    PROVE  BufsInv'
<1>1. Types /\ Shape /\ OwnInv
  BY Zenon DEF BaseInv
<1>2. ASSUME NEW c \in Caller, InBetween(c) PROVE BufsInv'
  <2>1. \A d \in Caller : SameStreams(d)
    BY <1>1, <1>2, BetweenStreams, ZenonT(40)
  <2>2. mem' = mem /\ \A d \in Caller : d # c => call'[d] = call[d]
    BY <1>1, <1>2, BetweenMoves, Zenon
  <2>3. \A d \in Caller : d # c => (Encoding(d)' <=> Encoding(d))
    BY <2>2, ZenonT(40) DEF Encoding
  <2>4. CASE /\ call[c].pc \in {"idle", "added"} /\ call'[c].pc = "checked"
             /\ call[c].pc = "idle" => call[c].ids = <<>> /\ call[c].bufs = <<>>
             /\ bufPool' = bufPool
    <3>1. call[c].pc = "added" => Encoding(c)
      BY ZenonT(40) DEF Encoding
    <3> QED
      BY <2>1, <2>2, <2>3, <2>4, <3>1, BufsKept, Zenon
  <2>5. CASE /\ call[c].pc = "added" /\ call'[c].pc = "failed"
             /\ call[c].kind = "pipe" /\ bufPool' = bufPool
    <3>1. Encoding(c)
      BY <2>5, ZenonT(40) DEF Encoding
    <3> QED
      BY <2>1, <2>2, <2>3, <2>5, <3>1, BufsKept, ZenonT(40)
  <2>6. CASE /\ call[c].pc = "added" /\ ~Encoding(c)'
             /\ bufPool' = PutBufs(bufPool, call[c].bufs)
    <3>1. Encoding(c)
      BY <2>6, ZenonT(40) DEF Encoding
    <3> QED
      BY <2>2, <2>6, <3>1, BufsLeft, ZenonT(40)
  <2>7. CASE call[c].pc = "waiting" /\ call'[c].pc \in {"waiting", "done"} /\ bufPool' = bufPool
    <3>1. ~Encoding(c)'
      BY <2>7, Zenon DEF Encoding
    <3> QED
      BY <2>2, <2>7, <3>1, BufsLeft, ZenonT(40)
  <2> QED
    BY <1>1, <1>2, <2>4, <2>5, <2>6, <2>7, BetweenMoves, ZenonT(40)
<1>3. ASSUME NEW c \in Caller, Register(c) PROVE BufsInv'
  <2>1. PICK ch \in Chan, b \in GetBuf : Registered(c, ch, b)
    BY <1>1, <1>3, Registers, Zenon
  <2> QED
    BY <2>1, BufsTaken, Zenon
<1>4. ASSUME NEW c \in Caller, Return(c) PROVE BufsInv'
  <2> DEFINE r == call[c]
  <2>1. Returned(c)
    BY <1>1, <1>4, Returns, Zenon
  <2>2. /\ r.pc \in {"done", "failed"} /\ call'[c] = Idle
        /\ \A d \in Caller : d # c => call'[d] = call[d]
        /\ bufPool' = IF r.kind = "pipe" THEN PutBufs(bufPool, r.bufs) ELSE bufPool
        /\ mem' = Forget(mem)
        /\ ~(r.kind = "pipe" /\ r.pc = "done")
    BY <2>1, ZenonT(40) DEF Returned
  <2>3. ~Encoding(c)'
    BY <2>2 DEF Encoding, Idle
  <2>4. bufPool' = bufPool \/ (Encoding(c) /\ bufPool' = PutBufs(bufPool, r.bufs))
    BY <2>2, Zenon DEF Encoding
  <2>5. ASSUME NEW d \in Caller, d # c, NEW b \in Range(call[d].bufs) PROVE mem'[b] = mem[b]
    <3>1. b \in Held("bufs")'
      BY <2>2, <2>5, ZenonT(40) DEF Held
    <3>2. b \in Buf
      BY <1>1, Held3 DEF Range
    <3> QED
      BY <2>2, <3>1, <3>2, Zenon DEF Forget
  <2> QED
    BY <2>2, <2>3, <2>4, <2>5, BufsLeft, Zenon
<1>5. ASSUME UNCHANGED <<call, bufPool, mem>> PROVE BufsInv'
  <2>1. \A d \in Caller : SameStreams(d) /\ (Encoding(d)' <=> Encoding(d)) /\ call'[d].pc = call[d].pc
    BY <1>5, Zenon DEF SameStreams, Encoding
  <2> QED
    BY <1>5, <2>1, BufsKept, Zenon
<1>6. CASE \E cc \in Conn : \/ Load(cc) \/ Send(cc) \/ ReadFails(cc) \/ Close(cc)
                            \/ \E w \in Worker : SweepLoad(cc, w) \/ SweepSend(cc, w)
                            \/ Drop(cc)
  BY <1>1, <1>5, <1>6, WorkerStreams, ZenonT(40)
<1>7. CASE UNCHANGED vars
  BY <1>5, <1>7, Zenon DEF vars, pools
<1> QED
  BY <1>2, <1>3, <1>4, <1>6, <1>7, Steps, ZenonT(40)

-----------------------------------------------------------------------------
(* Where an answer can be. *)

OnWire(x) == \E k \in DOMAIN wire[x[1]] : wire[x[1]][k].id = x[2]

InHand(x) == proc[x[1]]["reader"].at = "send" /\ proc[x[1]]["reader"].msg = x

Arrived(x) ==
    \/ \E ch \in Chan : inCh[ch] # <<>> /\ Head(inCh[ch]) = x
    \/ \E c \in Caller : x \in Range(call[c].res)

\* The frames of a connection are distinct and carry the requests they name.
WireInv(cc) ==
    /\ \A j, k \in DOMAIN wire[cc] : wire[cc][j].id = wire[cc][k].id => j = k
    /\ \A k \in DOMAIN wire[cc] : wire[cc][k].body = <<cc, wire[cc][k].id>>

\* The reader of a connection has a request of that connection in hand.
HandInv(cc) ==
    proc[cc]["reader"].at = "send" => \E id \in Nat : proc[cc]["reader"].msg = <<cc, id>>

\* Each answer is in one place, and in none before its frame is written.
OnePlace ==
    \A x \in Conn \X Nat :
        /\ OnWire(x) => ~InHand(x) /\ ~Arrived(x)
        /\ InHand(x) => ~Arrived(x)
        /\ (OnWire(x) \/ InHand(x) \/ Arrived(x)) =>
               /\ x[2] <= nextStreamID[x[1]]
               /\ \A c \in Caller : call[c].pc \in {"checked", "added"} => x \notin Requests(c)

SentInv == (\A cc \in Conn : WireInv(cc) /\ HandInv(cc)) /\ OnePlace

\* What may be in ch, or on its way there.
Rightful(x, ch) ==
    \/ x = Failed \/ x \in gaveUp
    \/ \E c \in Caller : \E i \in DOMAIN call[c].ids : call[c].chs[i] = ch /\ x = Request(call[c], i)

DeliveryInv ==
    /\ \A ch \in Chan : inCh[ch] # <<>> => Rightful(Head(inCh[ch]), ch)
    /\ \A cc \in Conn : proc[cc]["reader"].at = "send" =>
           Rightful(proc[cc]["reader"].msg, proc[cc]["reader"].ch)
    /\ \A c \in Caller : \A i \in DOMAIN call[c].res :
           call[c].res[i] \in {Request(call[c], i), Failed} \cup gaveUp

AnswerInv == ~piped => BufsInv /\ SentInv /\ DeliveryInv

-----------------------------------------------------------------------------
(* An answer is in one place. *)

\* Answers go from the wire to the reader, to a channel, to a caller, and may be
\* lost on the way; nobody gets a request that has been sent.
LEMMA Flow ==
    ASSUME OnePlace,
           \A x \in Conn \X Nat :
               /\ OnWire(x)' => OnWire(x)
               /\ InHand(x)' => InHand(x) \/ (OnWire(x) /\ ~OnWire(x)')
               /\ Arrived(x)' => Arrived(x) \/ (InHand(x) /\ ~InHand(x)')
               /\ (OnWire(x) \/ InHand(x) \/ Arrived(x)) =>
                      /\ x[2] <= nextStreamID'[x[1]]
                      /\ \A c \in Caller : call'[c].pc \in {"checked", "added"} => x \notin Requests(c)'
    PROVE  OnePlace'
<1> SUFFICES ASSUME NEW x \in Conn \X Nat
             PROVE  /\ OnWire(x)' => ~InHand(x)' /\ ~Arrived(x)'
                    /\ InHand(x)' => ~Arrived(x)'
                    /\ (OnWire(x)' \/ InHand(x)' \/ Arrived(x)') =>
                           /\ x[2] <= nextStreamID'[x[1]]
                           /\ \A c \in Caller : call'[c].pc \in {"checked", "added"} => x \notin Requests(c)'
  BY Zenon DEF OnePlace
<1>1. /\ OnWire(x) => ~InHand(x) /\ ~Arrived(x)
      /\ InHand(x) => ~Arrived(x)
  BY Zenon DEF OnePlace
<1>2. /\ OnWire(x)' => OnWire(x)
      /\ InHand(x)' => InHand(x) \/ (OnWire(x) /\ ~OnWire(x)')
      /\ Arrived(x)' => Arrived(x) \/ (InHand(x) /\ ~InHand(x)')
  BY Zenon
<1>3. (OnWire(x)' \/ InHand(x)' \/ Arrived(x)') => (OnWire(x) \/ InHand(x) \/ Arrived(x))
  BY <1>2, Zenon
<1> QED
  BY <1>1, <1>2, <1>3, Zenon

\* A goroutine that is not receiving keeps what it has, and the workers what
\* they have.
LEMMA BetweenResults ==
    ASSUME Types, Shape, NEW c \in Caller, InBetween(c), ~Receive(c)
    PROVE  (\A d \in Caller : call'[d].res = call[d].res) /\ UNCHANGED <<inCh, proc>>
<1> DEFINE r == call[c]
<1>1. call \in [Caller -> CallRecord] /\ r \in CallRecord
  BY Zenon DEF Types
<1>2. UNCHANGED <<inCh, proc>>
  BY Zenon DEF InBetween, Check, Reset, Write, WriteFails, WriteTimeout, FailWrite, ReadTimeout, pools
<1>3. ASSUME NEW q, Become(c, q), q.res = r.res PROVE \A d \in Caller : call'[d].res = call[d].res
  <2>1. call'[c] = q /\ \A d \in Caller : d # c => call'[d] = call[d]
    BY <1>1, <1>3, Became, Zenon
  <2> QED
    BY <1>3, <2>1, Zenon
<1>4. ASSUME NEW l, Become(c, [r EXCEPT !.pc = l]) PROVE \A d \in Caller : call'[d].res = call[d].res
  <2> DEFINE q == [r EXCEPT !.pc = l]
  <2>1. q.res = r.res
    BY <1>1, Zenon DEF CallRecord
  <2>2. Become(c, q)
    BY <1>4, Zenon
  <2> HIDE DEF q
  <2> QED
    BY <1>3, <2>1, <2>2, Zenon
<1>5. CASE Reset(c) \/ Write(c) \/ WriteFails(c) \/ WriteTimeout(c) \/ ReadTimeout(c)
  <2>1. \/ Become(c, [r EXCEPT !.pc = "failed"])
        \/ Become(c, [r EXCEPT !.pc = "waiting"])
        \/ Become(c, [r EXCEPT !.pc = "done"])
    BY <1>5, Zenon DEF Reset, Write, WriteFails, WriteTimeout, FailWrite, ReadTimeout
  <2> QED
    BY <1>2, <1>4, <2>1, Zenon
<1>6. ASSUME NEW cc \in Conn, NEW kind \in Kinds[c], Check(c, cc, kind)
      PROVE  \A d \in Caller : call'[d].res = call[d].res
  <2>1. CASE r.pc = "idle" /\ Become(c, [Idle EXCEPT !.pc = "checked", !.kind = kind, !.cc = cc])
    <3> DEFINE q == [Idle EXCEPT !.pc = "checked", !.kind = kind, !.cc = cc]
    <3>1. r = Idle
      BY <2>1, Zenon DEF Shape
    <3>2. q.res = Idle.res
      BY Zenon DEF Idle
    <3>3. Become(c, q)
      BY <2>1, Zenon
    <3> HIDE DEF q
    <3> QED
      BY <1>3, <3>1, <3>2, <3>3, Zenon
  <2>2. CASE Become(c, [r EXCEPT !.pc = "checked"])
    BY <1>4, <2>2, Zenon
  <2> QED
    BY <1>6, <2>1, <2>2, Zenon DEF Check
<1> QED
  BY <1>2, <1>5, <1>6, Zenon DEF InBetween

\* The first n frames of c's call have been written after what was there.
Appends(c, n) ==
    LET cc == call[c].cc
        m  == Len(wire[cc])
    IN  /\ DOMAIN wire'[cc] = 1 .. m + n
        /\ \A k \in 1 .. m : wire'[cc][k] = wire[cc][k]
        /\ \A i \in 1 .. n : wire'[cc][m + i].id = call[c].ids[i]
                             /\ wire'[cc][m + i].body = mem[call[c].bufs[i]]
        /\ \A d \in Conn : d # cc => wire'[d] = wire[d]

\* The frames on the wire after a write that succeeds, fails or is cut short.
LEMMA Writes ==
    ASSUME Types, Shape, NEW c \in Caller, Write(c) \/ WriteFails(c) \/ WriteTimeout(c)
    PROVE  /\ call[c].pc = "added"
           /\ UNCHANGED wire \/ \E n \in 0 .. Len(call[c].ids) : Appends(c, n)
<1> DEFINE r == call[c]
           f == FramesOf(r)
           w == wire[r.cc]
<1>1. wire \in [Conn -> Seq(Frame)] /\ r.cc \in Conn /\ r.ids \in Seq(Nat)
  BY Held3, Zenon DEF Types
<1>2. /\ f \in Seq(Frame) /\ Len(f) = Len(r.ids)
      /\ \A i \in DOMAIN r.ids : f[i] = [id |-> r.ids[i], body |-> mem[r.bufs[i]]]
  BY FrameTypes, Zenon
<1>3. w \in Seq(Frame) /\ Len(r.ids) \in Nat /\ DOMAIN r.ids = 1 .. Len(r.ids)
  BY <1>1
<1> HIDE DEF f, w
<1>4. ASSUME NEW n \in 0 .. Len(r.ids), wire' = [wire EXCEPT ![r.cc] = @ \o SubSeq(f, 1, n)]
      PROVE  Appends(c, n)
  <2> DEFINE g == SubSeq(f, 1, n)
             v == w \o g
  <2>1. g \in Seq(Frame) /\ Len(g) = n /\ \A i \in 1 .. n : g[i] = f[i]
    BY <1>2, <1>3, SeqPrefix
  <2> HIDE DEF g
  <2>2. /\ v \in Seq(Frame) /\ Len(v) = Len(w) + n
        /\ \A k \in 1 .. Len(v) : v[k] = IF k <= Len(w) THEN w[k] ELSE g[k - Len(w)]
    <3>1. /\ v \in Seq(Frame) /\ Len(v) = Len(w) + Len(g)
          /\ \A k \in 1 .. Len(w) + Len(g) : v[k] = IF k <= Len(w) THEN w[k] ELSE g[k - Len(w)]
      BY <1>3, <2>1, SeqConcat, ZenonT(40)
    <3> HIDE DEF v
    <3> QED
      BY <2>1, <3>1, Zenon
  <2>3. wire'[r.cc] = v /\ \A d \in Conn : d # r.cc => wire'[d] = wire[d]
    BY <1>1, <1>4, Zenon DEF g, w
  <2> HIDE DEF v
  <2>4. DOMAIN v = 1 .. Len(w) + n /\ Len(w) \in Nat /\ n \in Nat
    BY <1>3, <2>2
  <2>5. \A k \in 1 .. Len(w) : v[k] = w[k]
    BY <2>2, <2>4
  <2>6. ASSUME NEW i \in 1 .. n PROVE v[Len(w) + i] = f[i] /\ i \in DOMAIN r.ids
    <3>1. /\ Len(w) + i \in 1 .. Len(v) /\ ~(Len(w) + i <= Len(w)) /\ (Len(w) + i) - Len(w) = i
          /\ i \in DOMAIN r.ids
      BY <1>3, <2>2, <2>4
    <3>2. v[Len(w) + i] = g[(Len(w) + i) - Len(w)]
      BY <2>2, <3>1, Zenon
    <3> QED
      BY <2>1, <3>1, <3>2, Zenon
  <2>7. \A i \in 1 .. n : v[Len(w) + i].id = r.ids[i] /\ v[Len(w) + i].body = mem[r.bufs[i]]
    <3> SUFFICES ASSUME NEW i \in 1 .. n
                 PROVE  v[Len(w) + i].id = r.ids[i] /\ v[Len(w) + i].body = mem[r.bufs[i]]
      BY Zenon
    <3>1. v[Len(w) + i] = [id |-> r.ids[i], body |-> mem[r.bufs[i]]]
      BY <1>2, <2>6, ZenonT(40)
    <3> QED
      BY <3>1
  <2> QED
    BY <2>3, <2>4, <2>5, <2>7, Zenon DEF Appends, w
<1>5. CASE Write(c)
  <2>1. r.pc = "added" /\ wire' = IF tcp[r.cc] = "up" THEN [wire EXCEPT ![r.cc] = @ \o f] ELSE wire
    BY <1>5, Zenon DEF Write, f
  <2>2. SubSeq(f, 1, Len(r.ids)) = f /\ Len(r.ids) \in 0 .. Len(r.ids)
    BY <1>2, <1>3, SeqPrefix
  <2> QED
    BY <1>4, <2>1, <2>2, Zenon
<1>6. CASE WriteFails(c)
  BY <1>6, Zenon DEF WriteFails, FailWrite
<1>7. CASE WriteTimeout(c)
  <2>1. r.pc = "added" /\ \E n \in 0 .. Len(r.ids) : wire' = [wire EXCEPT ![r.cc] = @ \o SubSeq(f, 1, n)]
    BY <1>7, Zenon DEF WriteTimeout, FailWrite, f
  <2> QED
    BY <1>4, <2>1, Zenon
<1> QED
  BY <1>5, <1>6, <1>7, Zenon

\* Frames that are written are new.
LEMMA SentAfterWrite ==
    ASSUME BaseInv, IdsInv, BufsInv, SentInv, NEW c \in Caller, call[c].pc = "added",
           NEW n \in 0 .. Len(call[c].ids), Appends(c, n),
           call'[c].pc \notin {"checked", "added"}, \A d \in Caller : d # c => call'[d] = call[d],
           \A d \in Caller : call'[d].res = call[d].res, UNCHANGED <<inCh, proc, nextStreamID>>
    PROVE  SentInv'
<1>0. PICK cc \in Conn : cc = call[c].cc
  BY Held3, Zenon DEF BaseInv
<1> DEFINE r == call[c]
           m == Len(wire[cc])
<1>1. /\ cc = r.cc /\ r.ids \in Seq(Nat) /\ DOMAIN r.bufs = DOMAIN r.ids
      /\ \A i \in DOMAIN r.ids : r.ids[i] \in Nat
  BY <1>0, Held3, Zenon DEF BaseInv
<1>2. wire[cc] \in Seq(Frame) /\ m \in Nat /\ DOMAIN wire[cc] = 1 .. m /\ n \in Nat
      /\ \A i \in 1 .. n : i \in DOMAIN r.ids
  BY <1>1 DEF BaseInv, Types
<1>3. /\ DOMAIN wire'[cc] = 1 .. m + n
      /\ \A k \in 1 .. m : wire'[cc][k] = wire[cc][k]
      /\ \A i \in 1 .. n : wire'[cc][m + i].id = r.ids[i] /\ wire'[cc][m + i].body = mem[r.bufs[i]]
      /\ \A d \in Conn : d # cc => wire'[d] = wire[d]
  BY <1>0, ZenonT(40) DEF Appends
<1>4. \A i \in DOMAIN r.ids : mem[r.bufs[i]] = <<cc, r.ids[i]>>
  <2>1. Encoding(c)
    BY Zenon DEF Encoding
  <2>2. OwnBufs(c)
    BY <2>1, Zenon DEF BufsInv
  <2> QED
    BY <1>0, <2>2, Zenon DEF OwnBufs, Request
<1>5. \A i \in DOMAIN r.ids : <<cc, r.ids[i]>> \in Requests(c) /\ <<cc, r.ids[i]>> \in Conn \X Nat
  BY <1>1, Zenon DEF Requests, Request
<1>6. \A x \in Conn \X Nat : x \in Requests(c) => ~OnWire(x) /\ ~InHand(x) /\ ~Arrived(x)
  BY Zenon DEF SentInv, OnePlace
<1> HIDE DEF r, m
<1>7. \A k \in 1 .. m + n : k \in 1 .. m \/ \E i \in 1 .. n : k = m + i
  <2> SUFFICES ASSUME NEW k \in 1 .. m + n, k \notin 1 .. m PROVE \E i \in 1 .. n : k = m + i
    BY Zenon
  <2>1. k - m \in 1 .. n /\ k = m + (k - m)
    BY <1>2
  <2> QED
    BY <2>1, Zenon
<1>8. \A k \in 1 .. m : \A i \in DOMAIN r.ids : wire[cc][k].id # r.ids[i]
  <2> SUFFICES ASSUME NEW k \in 1 .. m, NEW i \in DOMAIN r.ids, wire[cc][k].id = r.ids[i] PROVE FALSE
    BY Zenon
  <2> DEFINE x == <<cc, r.ids[i]>>
  <2>1. x[1] = cc /\ x[2] = r.ids[i] /\ x \in Conn \X Nat /\ x \in Requests(c)
    BY <1>5, Zenon
  <2>2. OnWire(x)
    <3> HIDE DEF x
    <3> QED
      BY <1>2, <2>1, Zenon DEF OnWire
  <2> QED
    BY <1>6, <2>1, <2>2, Zenon
<1>9. WireInv(cc)
  BY Zenon DEF SentInv
<1>10. WireInv(cc)'
  <2>1. ASSUME NEW j \in 1 .. m + n, NEW k \in 1 .. m + n, wire'[cc][j].id = wire'[cc][k].id PROVE j = k
    <3>1. CASE j \in 1 .. m /\ k \in 1 .. m
      <4>1. wire'[cc][j] = wire[cc][j] /\ wire'[cc][k] = wire[cc][k] /\ j \in DOMAIN wire[cc] /\ k \in DOMAIN wire[cc]
        BY <1>2, <1>3, <3>1, Zenon
      <4>2. wire[cc][j].id = wire[cc][k].id
        BY <2>1, <4>1, Zenon
      <4> QED
        BY <1>9, <4>1, <4>2, Zenon DEF WireInv
    <3>2. ASSUME NEW i \in 1 .. n, k = m + i, j \in 1 .. m PROVE FALSE
      <4>1. wire'[cc][j] = wire[cc][j] /\ wire'[cc][k].id = r.ids[i] /\ i \in DOMAIN r.ids
        BY <1>2, <1>3, <3>2, Zenon
      <4> QED
        BY <1>8, <2>1, <3>2, <4>1, ZenonT(40)
    <3>3. ASSUME NEW i \in 1 .. n, j = m + i, k \in 1 .. m PROVE FALSE
      <4>1. wire'[cc][k] = wire[cc][k] /\ wire'[cc][j].id = r.ids[i] /\ i \in DOMAIN r.ids
        BY <1>2, <1>3, <3>3, Zenon
      <4> QED
        BY <1>8, <2>1, <3>3, <4>1, ZenonT(40)
    <3>4. ASSUME NEW i \in 1 .. n, NEW h \in 1 .. n, j = m + i, k = m + h PROVE j = k
      <4>1. IsInjective(r.ids)
        BY Zenon DEF IdsInv, r
      <4>2. r.ids[i] = r.ids[h]
        BY <1>3, <2>1, <3>4, Zenon
      <4> QED
        BY <1>2, <3>4, <4>1, <4>2, Zenon DEF IsInjective
    <3> QED
      BY <1>7, <3>1, <3>2, <3>3, <3>4, Zenon
  <2>2. ASSUME NEW k \in 1 .. m + n PROVE wire'[cc][k].body = <<cc, wire'[cc][k].id>>
    <3>1. CASE k \in 1 .. m
      BY <1>2, <1>3, <1>9, <3>1, Zenon DEF WireInv
    <3>2. ASSUME NEW i \in 1 .. n, k = m + i PROVE wire'[cc][k].body = <<cc, wire'[cc][k].id>>
      <4>1. wire'[cc][k].id = r.ids[i] /\ wire'[cc][k].body = mem[r.bufs[i]] /\ i \in DOMAIN r.ids
        BY <1>2, <1>3, <3>2, ZenonT(40)
      <4> QED
        BY <1>4, <4>1, Zenon
    <3> QED
      BY <1>7, <3>1, <3>2, Zenon
  <2> QED
    BY <1>3, <2>1, <2>2, Zenon DEF WireInv
<1>11. \A d \in Conn : WireInv(d)' /\ HandInv(d)'
  <2> SUFFICES ASSUME NEW d \in Conn PROVE WireInv(d)' /\ HandInv(d)'
    BY Zenon
  <2>1. HandInv(d)'
    BY Zenon DEF SentInv, HandInv
  <2>2. d # cc => WireInv(d)'
    <3>1. WireInv(d)
      BY Zenon DEF SentInv
    <3>2. d # cc => wire'[d] = wire[d]
      BY <1>3, Zenon
    <3> QED
      BY <3>1, <3>2, Zenon DEF WireInv
  <2> QED
    BY <1>10, <2>1, <2>2, Zenon
<1>12. ASSUME NEW x \in Conn \X Nat, OnWire(x)' PROVE OnWire(x) \/ x \in Requests(c)
  <2>1. PICK k \in DOMAIN wire'[x[1]] : wire'[x[1]][k].id = x[2]
    BY <1>12, Zenon DEF OnWire
  <2>2. CASE x[1] # cc
    BY <1>3, <2>1, <2>2, Zenon DEF OnWire
  <2>3. CASE x[1] = cc /\ k \in 1 .. m
    BY <1>2, <1>3, <2>1, <2>3, Zenon DEF OnWire
  <2>4. ASSUME x[1] = cc, NEW i \in 1 .. n, k = m + i PROVE x \in Requests(c)
    <3>1. x[2] = r.ids[i] /\ i \in DOMAIN r.ids
      BY <1>2, <1>3, <2>1, <2>4, Zenon
    <3>2. x = <<cc, r.ids[i]>>
      BY <2>4, <3>1
    <3>3. \E j \in DOMAIN r.ids : x = <<cc, r.ids[j]>>
      BY <3>1, <3>2, Zenon
    <3> QED
      BY <1>5, <3>3, Zenon
  <2> QED
    <3>1. x[1] = cc => k \in 1 .. m + n
      BY <1>3, <2>1, Zenon
    <3>2. x[1] = cc => k \in 1 .. m \/ \E i \in 1 .. n : k = m + i
      BY <1>7, <3>1, Zenon
    <3> QED
      BY <2>2, <2>3, <2>4, <3>2, Zenon
<1>13. \A x \in Conn \X Nat : (InHand(x)' <=> InHand(x)) /\ (Arrived(x)' <=> Arrived(x))
  BY Zenon DEF InHand, Arrived
<1>14. \A d \in Caller : call'[d].pc \in {"checked", "added"} =>
           /\ call[d].pc \in {"checked", "added"} /\ Requests(d)' = Requests(d)
           /\ Requests(c) \cap Requests(d) = {}
  <2> SUFFICES ASSUME NEW d \in Caller, call'[d].pc \in {"checked", "added"}
               PROVE  /\ call[d].pc \in {"checked", "added"} /\ Requests(d)' = Requests(d)
                      /\ Requests(c) \cap Requests(d) = {}
    BY Zenon
  <2>1. d # c /\ call'[d] = call[d]
    BY Zenon
  <2> QED
    BY <2>1, ZenonT(40) DEF Requests, Request, IdsInv
<1>15. \A x \in Requests(c) : x[2] <= nextStreamID[x[1]]
  <2> SUFFICES ASSUME NEW i \in DOMAIN r.ids PROVE r.ids[i] <= nextStreamID[cc]
    BY <1>0 DEF Requests, Request, r
  <2> QED
    BY <1>0, Zenon DEF IdsInv, r
<1>16. OnePlace'
  <2> SUFFICES ASSUME NEW x \in Conn \X Nat
               PROVE  /\ OnWire(x)' => ~InHand(x)' /\ ~Arrived(x)'
                      /\ InHand(x)' => ~Arrived(x)'
                      /\ (OnWire(x)' \/ InHand(x)' \/ Arrived(x)') =>
                             /\ x[2] <= nextStreamID'[x[1]]
                             /\ \A d \in Caller : call'[d].pc \in {"checked", "added"} => x \notin Requests(d)'
    BY Zenon DEF OnePlace
  <2>1. CASE x \in Requests(c)
    BY <1>6, <1>13, <1>14, <1>15, <2>1
  <2>2. CASE x \notin Requests(c)
    <3>1. (OnWire(x)' => OnWire(x)) /\ (InHand(x)' <=> InHand(x)) /\ (Arrived(x)' <=> Arrived(x))
      BY <1>12, <1>13, <2>2, Zenon
    <3>2. /\ OnWire(x) => ~InHand(x) /\ ~Arrived(x)
          /\ InHand(x) => ~Arrived(x)
          /\ (OnWire(x) \/ InHand(x) \/ Arrived(x)) =>
                 /\ x[2] <= nextStreamID[x[1]]
                 /\ \A d \in Caller : call[d].pc \in {"checked", "added"} => x \notin Requests(d)
      BY Zenon DEF SentInv, OnePlace
    <3> QED
      BY <1>14, <3>1, <3>2, ZenonT(40)
  <2> QED
    BY <2>1, <2>2, Zenon
<1> QED
  BY <1>11, <1>16, Zenon DEF SentInv

\* Load takes the first frame off the wire, to the channel of its stream if there
\* is one.
Loads(cc) ==
    /\ proc[cc]["reader"].at = "loop"
    /\ 1 \in DOMAIN wire[cc]
    /\ \A k \in DOMAIN wire'[cc] : /\ k \in Nat /\ k + 1 \in DOMAIN wire[cc] /\ k + 1 # 1
                                   /\ wire'[cc][k] = wire[cc][k + 1]
    /\ proc'[cc]["reader"].at = "send" =>
           /\ wire[cc][1].id \in DOMAIN pending[cc]
           /\ proc'[cc]["reader"].ch = pending[cc][wire[cc][1].id]
           /\ proc'[cc]["reader"].msg = wire[cc][1].body
    /\ \A d \in Conn : d # cc => wire'[d] = wire[d] /\ proc'[d]["reader"] = proc[d]["reader"]
    /\ UNCHANGED inCh

\* Send offers the answer to the channel.
Sends(cc) ==
    /\ proc[cc]["reader"].at = "send" /\ proc'[cc]["reader"].at = "loop"
    /\ \A d \in Conn : d # cc => proc'[d]["reader"] = proc[d]["reader"]
    /\ \A k \in Chan : \/ inCh'[k] = inCh[k]
                       \/ /\ k = proc[cc]["reader"].ch
                          /\ inCh'[k] # <<>> /\ Head(inCh'[k]) = proc[cc]["reader"].msg
    /\ UNCHANGED wire

\* The rest loses frames and tells callers that the connection has failed.
Fails ==
    /\ \A d \in Conn : /\ proc'[d]["reader"].at = "send" => proc'[d]["reader"] = proc[d]["reader"]
                       /\ \A k \in DOMAIN wire'[d] : k \in DOMAIN wire[d] /\ wire'[d][k] = wire[d][k]
    /\ \A k \in Chan : inCh'[k] = inCh[k] \/ (inCh'[k] # <<>> /\ Head(inCh'[k]) = Failed)

\* readLoop takes the first frame off the wire and looks its stream id up in the
\* pendingMap: an answer somebody waits for is in its hand, any other is dropped.
LEMMA LoadMoves ==
    ASSUME Types, NEW cc \in Conn, Load(cc)
    PROVE  Loads(cc)
<1> DEFINE p == proc[cc]["reader"]
           w == wire[cc]
           f == Head(w)
           q == IF f.id \in DOMAIN pending[cc]
                THEN [p EXCEPT !.at = "send", !.ch = pending[cc][f.id], !.msg = f.body]
                ELSE p
<1>1. /\ p.at = "loop" /\ w # <<>> /\ wire' = [wire EXCEPT ![cc] = Tail(@)]
      /\ Worked(cc, "reader", q) /\ UNCHANGED inCh
  BY Zenon DEF Load, pools
<1>2. w \in Seq(Frame) /\ wire \in [Conn -> Seq(Frame)] /\ proc \in [Conn -> [Worker -> Work]]
      /\ "reader" \in Worker /\ p \in Work
  BY Zenon DEF Types, WorkTypes, Worker
<1>3. f \in Frame /\ 1 \in DOMAIN w /\ f = w[1]
  BY <1>1, <1>2
<1>4. wire'[cc] = Tail(w) /\ \A d \in Conn : d # cc => wire'[d] = wire[d]
  BY <1>1, <1>2, Zenon
<1>5. \A k \in DOMAIN Tail(w) : k \in Nat /\ k + 1 \in DOMAIN w /\ k + 1 # 1 /\ Tail(w)[k] = w[k + 1]
  <2> HIDE DEF w
  <2>1. Len(w) \in Nat /\ Len(w) # 0 /\ DOMAIN w = 1 .. Len(w)
    BY <1>1, <1>2
  <2>2. Tail(w) \in Seq(Frame) /\ Len(Tail(w)) = Len(w) - 1 /\ \A k \in 1 .. Len(w) - 1 : Tail(w)[k] = w[k + 1]
    BY <1>1, <1>2, SeqTail, Zenon
  <2> QED
    BY <2>1, <2>2
<1>6. q \in Work
  <2>1. f.id \in DOMAIN pending[cc] => pending[cc][f.id] \in Chan
    BY Zenon DEF Types, MapTypes
  <2>2. f.body \in Message
    BY <1>3, Zenon DEF Frame
  <2> HIDE DEF f, p
  <2> QED
    BY <1>2, <2>1, <2>2, ZenonT(40) DEF Work
<1>7. q.at = "send" => f.id \in DOMAIN pending[cc] /\ q.ch = pending[cc][f.id] /\ q.msg = f.body
  <2> HIDE DEF f, p
  <2> QED
    BY <1>1, <1>2, Zenon DEF Work
<1> HIDE DEF q, p
<1>8. proc'[cc]["reader"] = q /\ \A d \in Conn : d # cc => proc'[d]["reader"] = proc[d]["reader"]
  <2>1. /\ proc'[cc]["reader"] = q
        /\ \A d \in Conn, v \in Worker : (d # cc \/ v # "reader") => proc'[d][v] = proc[d][v]
    BY <1>1, <1>2, <1>6, HasWorked, Zenon
  <2> QED
    BY <1>2, <2>1, Zenon
<1> HIDE DEF f
<1> QED
  BY <1>1, <1>3, <1>4, <1>5, <1>7, <1>8, ZenonT(40) DEF Loads, p

\* readLoop sends the answer in its hand to the channel it loaded, unless that is full.
LEMMA SendMoves ==
    ASSUME Types, NEW cc \in Conn, Send(cc)
    PROVE  Sends(cc)
<1> DEFINE p == proc[cc]["reader"]
           q == [p EXCEPT !.at = "loop", !.ch = NoChan, !.msg = Failed]
<1>1. p.at = "send" /\ Offer(p.ch, p.msg) /\ Worked(cc, "reader", q) /\ UNCHANGED wire
  BY Zenon DEF Send, net
<1>2. /\ proc \in [Conn -> [Worker -> Work]] /\ "reader" \in Worker /\ p \in Work
      /\ inCh \in [Chan -> Seq(Message)]
  BY Zenon DEF Types, WorkTypes, Worker
<1>3. p.ch \in Chan /\ p.msg \in Message
  BY <1>1, <1>2, Zenon DEF Types, WorkTypes, Work
<1>4. q \in Work /\ q.at = "loop"
  <2> HIDE DEF p
  <2> QED
    BY <1>2, Zenon DEF Work, Message
<1> HIDE DEF q, p
<1>5. /\ proc'[cc]["reader"] = q
      /\ \A d \in Conn : d # cc => proc'[d]["reader"] = proc[d]["reader"]
  <2>1. /\ proc'[cc]["reader"] = q
        /\ \A d \in Conn, v \in Worker : (d # cc \/ v # "reader") => proc'[d][v] = proc[d][v]
    BY <1>1, <1>2, <1>4, HasWorked, Zenon
  <2> QED
    BY <1>2, <2>1, Zenon
<1>6. \A k \in Chan : \/ inCh'[k] = inCh[k]
                      \/ k = p.ch /\ inCh'[k] # <<>> /\ Head(inCh'[k]) = p.msg
  BY <1>1, <1>2, <1>3, Offered, Zenon
<1> QED
  BY <1>1, <1>4, <1>5, <1>6, ZenonT(40) DEF Sends, p

\* Failing a connection, and the sweep after it, put nothing but the error in a channel
\* and no answer anywhere else.
LEMMA FailMoves ==
    ASSUME Types, NEW cc \in Conn,
           \/ ReadFails(cc) \/ Close(cc) \/ Drop(cc)
           \/ \E w \in Worker : SweepLoad(cc, w) \/ SweepSend(cc, w)
    PROVE  Fails
<1>1. /\ wire \in [Conn -> Seq(Frame)] /\ inCh \in [Chan -> Seq(Message)]
      /\ proc \in [Conn -> [Worker -> Work]] /\ "reader" \in Worker /\ "closer" \in Worker
  BY Zenon DEF Types, WorkTypes, Worker
<1>2. DOMAIN pending[cc] \in SUBSET Nat /\ \A id \in DOMAIN pending[cc] : pending[cc][id] \in Chan
  BY Zenon DEF Types, MapTypes
<1>3. ASSUME NEW w \in Worker, NEW q \in Work, Worked(cc, w, q), q.at # "send"
      PROVE  \A d \in Conn : proc'[d]["reader"].at = "send" => proc'[d]["reader"] = proc[d]["reader"]
  <2>1. /\ proc'[cc][w] = q
        /\ \A d \in Conn, v \in Worker : (d # cc \/ v # w) => proc'[d][v] = proc[d][v]
    BY <1>1, <1>3, HasWorked, Zenon
  <2> QED
    BY <1>1, <1>3, <2>1, ZenonT(40)
<1>4. \A w \in Worker : Sweeping(cc, proc[cc][w]) \in Work /\ Sweeping(cc, proc[cc][w]).at = "sweep"
  <2> SUFFICES ASSUME NEW p \in Work PROVE Sweeping(cc, p) \in Work /\ Sweeping(cc, p).at = "sweep"
    BY <1>1, Zenon
  <2> QED
    BY <1>2, Zenon DEF Sweeping, Work
<1>5. CASE ReadFails(cc)
  <2>1. Worked(cc, "reader", Sweeping(cc, proc[cc]["reader"])) /\ UNCHANGED <<inCh, wire>>
    BY <1>5, Zenon DEF ReadFails, pools, net
  <2>2. Sweeping(cc, proc[cc]["reader"]).at # "send"
    BY <1>1, <1>4, Zenon
  <2> QED
    BY <1>1, <1>3, <1>4, <2>1, <2>2, Zenon DEF Fails
<1>6. CASE Close(cc)
  <2>1. /\ Worked(cc, "closer", Sweeping(cc, proc[cc]["closer"])) /\ UNCHANGED inCh
        /\ wire' = [wire EXCEPT ![cc] = <<>>]
    BY <1>6, Zenon DEF Close, pools
  <2>2. Sweeping(cc, proc[cc]["closer"]).at # "send"
    BY <1>1, <1>4, Zenon
  <2>3. \A d \in Conn : \A k \in DOMAIN wire'[d] : k \in DOMAIN wire[d] /\ wire'[d][k] = wire[d][k]
    BY <1>1, <2>1
  <2> QED
    BY <1>1, <1>3, <1>4, <2>1, <2>2, <2>3, ZenonT(40) DEF Fails
<1>7. CASE Drop(cc)
  <2>1. PICK n \in 0 .. Len(wire[cc]) : wire' = [wire EXCEPT ![cc] = SubSeq(@, 1, n)]
    BY <1>7, Zenon DEF Drop
  <2>2. UNCHANGED <<inCh, proc>>
    BY <1>7, Zenon DEF Drop, pools
  <2> DEFINE w == wire[cc]
             s == SubSeq(w, 1, n)
  <2>3. w \in Seq(Frame) /\ Len(w) \in Nat /\ DOMAIN w = 1 .. Len(w)
    BY <1>1
  <2>4. wire'[cc] = s /\ \A d \in Conn : d # cc => wire'[d] = wire[d]
    BY <1>1, <2>1, ZenonT(40)
  <2> HIDE DEF w
  <2>5. DOMAIN s = 1 .. n /\ \A k \in 1 .. n : s[k] = w[k] /\ k \in DOMAIN w
    <3>1. s \in Seq(Frame) /\ Len(s) = n /\ \A k \in 1 .. n : s[k] = w[k]
      BY <2>3, SeqPrefix, Zenon DEF w
    <3> HIDE DEF s
    <3> QED
      BY <2>3, <3>1 DEF w
  <2> HIDE DEF s
  <2>6. \A d \in Conn : \A k \in DOMAIN wire'[d] : k \in DOMAIN wire[d] /\ wire'[d][k] = wire[d][k]
    BY <2>4, <2>5, Zenon DEF w
  <2> QED
    BY <2>2, <2>6, Zenon DEF Fails
<1>8. ASSUME NEW w \in Worker, SweepLoad(cc, w) PROVE Fails
  <2> DEFINE p == proc[cc][w]
  <2>1. p \in Work
    BY <1>1, Zenon
  <2>2. UNCHANGED <<inCh, wire>>
    BY <1>8, Zenon DEF SweepLoad, pools, net
  <2>3. \/ \E id \in DOMAIN pending[cc] :
              Worked(cc, w, [p EXCEPT !.at = "fail", !.ch = pending[cc][id], !.id = id])
        \/ Worked(cc, w, [p EXCEPT !.at = "end", !.todo = {}])
    BY <1>8, ZenonT(40) DEF SweepLoad
  <2> HIDE DEF p
  <2>4. /\ [p EXCEPT !.at = "end", !.todo = {}] \in Work /\ [p EXCEPT !.at = "end", !.todo = {}].at # "send"
        /\ \A id \in DOMAIN pending[cc] :
               /\ [p EXCEPT !.at = "fail", !.ch = pending[cc][id], !.id = id] \in Work
               /\ [p EXCEPT !.at = "fail", !.ch = pending[cc][id], !.id = id].at # "send"
    BY <1>2, <2>1, Zenon DEF Work
  <2>5. \E q \in Work : Worked(cc, w, q) /\ q.at # "send"
    BY <2>3, <2>4, Zenon
  <2> QED
    BY <1>3, <2>2, <2>5, Zenon DEF Fails
<1>9. ASSUME NEW w \in Worker, SweepSend(cc, w) PROVE Fails
  <2> DEFINE p == proc[cc][w]
             q == [p EXCEPT !.at = "sweep", !.ch = NoChan, !.id = 0]
  <2>1. p \in Work
    BY <1>1, Zenon
  <2>2. p.at = "fail" /\ Offer(p.ch, Failed) /\ Worked(cc, w, q) /\ UNCHANGED wire
    BY <1>9, Zenon DEF SweepSend, net
  <2>3. p.ch \in Chan /\ Failed \in Message
    BY <1>9, <2>2, Zenon DEF Types, WorkTypes, Message
  <2> HIDE DEF p
  <2>4. q \in Work /\ q.at # "send"
    BY <2>1, Zenon DEF Work
  <2> HIDE DEF q
  <2>5. \A k \in Chan : \/ inCh'[k] = inCh[k]
                        \/ k = p.ch /\ inCh'[k] # <<>> /\ Head(inCh'[k]) = Failed
    BY <1>1, <2>2, <2>3, Offered, ZenonT(40)
  <2> QED
    BY <1>3, <2>2, <2>4, <2>5, ZenonT(40) DEF Fails
<1> QED
  BY <1>5, <1>6, <1>7, <1>8, <1>9, ZenonT(40)

\* A step of a reader, of Close or of the network moves answers on.
LEMMA SentAfterWorker ==
    ASSUME wire \in [Conn -> Seq(Frame)], SentInv, NEW cc \in Conn, Loads(cc) \/ Sends(cc) \/ Fails,
           UNCHANGED <<call, nextStreamID>>
    PROVE  SentInv'
<1>0. \A d \in Conn : WireInv(d) /\ HandInv(d)
  BY Zenon DEF SentInv
<1>1. OnePlace /\ \A x \in Conn \X Nat : x # Failed /\ x[1] \in Conn /\ x = <<x[1], x[2]>>
  BY DEF SentInv, Failed
<1>2. \A x \in Conn \X Nat :
          (OnWire(x) \/ InHand(x) \/ Arrived(x)) =>
              /\ x[2] <= nextStreamID'[x[1]]
              /\ \A c \in Caller : call'[c].pc \in {"checked", "added"} => x \notin Requests(c)'
  <2>1. nextStreamID' = nextStreamID /\ call' = call /\ \A c \in Caller : Requests(c)' = Requests(c)
    BY Zenon DEF Requests, Request
  <2> SUFFICES ASSUME NEW x \in Conn \X Nat, OnWire(x) \/ InHand(x) \/ Arrived(x)
               PROVE  /\ x[2] <= nextStreamID[x[1]]
                      /\ \A c \in Caller : call[c].pc \in {"checked", "added"} => x \notin Requests(c)
    BY <2>1, Zenon
  <2> QED
    BY <1>1, Zenon DEF OnePlace
<1>3. ASSUME UNCHANGED inCh, NEW x PROVE Arrived(x)' => Arrived(x)
  BY <1>3, Zenon DEF Arrived
<1>4. CASE Loads(cc)
  <2>1. /\ 1 \in DOMAIN wire[cc] /\ proc[cc]["reader"].at = "loop"
        /\ \A k \in DOMAIN wire'[cc] : k \in Nat /\ k + 1 \in DOMAIN wire[cc] /\ k + 1 # 1 /\ wire'[cc][k] = wire[cc][k + 1]
        /\ \A d \in Conn : d # cc => wire'[d] = wire[d] /\ proc'[d]["reader"] = proc[d]["reader"]
        /\ proc'[cc]["reader"].at = "send" => proc'[cc]["reader"].msg = wire[cc][1].body
        /\ UNCHANGED inCh
    BY <1>4, Zenon DEF Loads
  <2>2. WireInv(cc)'
    <3>0. /\ \A j, k \in DOMAIN wire[cc] : wire[cc][j].id = wire[cc][k].id => j = k
          /\ \A k \in DOMAIN wire[cc] : wire[cc][k].body = <<cc, wire[cc][k].id>>
      BY <1>0, Zenon DEF WireInv
    <3>1. ASSUME NEW j \in DOMAIN wire'[cc], NEW k \in DOMAIN wire'[cc], wire'[cc][j].id = wire'[cc][k].id
          PROVE  j = k
      <4>1. /\ j \in Nat /\ j + 1 \in DOMAIN wire[cc] /\ wire'[cc][j] = wire[cc][j + 1]
            /\ k \in Nat /\ k + 1 \in DOMAIN wire[cc] /\ wire'[cc][k] = wire[cc][k + 1]
        BY <2>1, Zenon
      <4>2. wire[cc][j + 1].id = wire[cc][k + 1].id
        BY <3>1, <4>1, Zenon
      <4>3. j + 1 = k + 1
        BY <3>0, <4>1, <4>2, Zenon
      <4> QED
        BY <4>1, <4>3
    <3>2. ASSUME NEW k \in DOMAIN wire'[cc] PROVE wire'[cc][k].body = <<cc, wire'[cc][k].id>>
      <4>1. k + 1 \in DOMAIN wire[cc] /\ wire'[cc][k] = wire[cc][k + 1]
        BY <2>1, Zenon
      <4> QED
        BY <3>0, <4>1, Zenon
    <3> QED
      BY <3>1, <3>2, Zenon DEF WireInv
  <2>3. ASSUME NEW d \in Conn PROVE WireInv(d)'
    <3>1. CASE d = cc
      BY <2>2, <3>1, Zenon
    <3>2. CASE d # cc
      <4>1. wire'[d] = wire[d]
        BY <2>1, <3>2, Zenon
      <4>2. WireInv(d)
        BY <1>0, Zenon
      <4> QED
        BY <4>1, <4>2, Zenon DEF WireInv
    <3> QED
      BY <3>1, <3>2, Zenon
  <2>4. wire[cc][1].body = <<cc, wire[cc][1].id>>
    BY <1>0, <2>1, Zenon DEF WireInv
  <2>5. HandInv(cc)'
    <3>1. wire[cc][1].id \in Nat
      <4>1. wire[cc] \in Seq(Frame) /\ 1 \in DOMAIN wire[cc]
        BY <2>1, Zenon
      <4>2. wire[cc][1] \in Frame
        BY <4>1
      <4> QED
        BY <4>2, Zenon DEF Frame
    <3> QED
      BY <2>1, <2>4, <3>1, Zenon DEF HandInv
  <2>6. ASSUME NEW d \in Conn PROVE HandInv(d)'
    <3>1. CASE d = cc
      BY <2>5, <3>1, Zenon
    <3>2. CASE d # cc
      BY <1>0, <2>1, <3>2, ZenonT(40) DEF HandInv
    <3> QED
      BY <3>1, <3>2, Zenon
  <2>7. ASSUME NEW x \in Conn \X Nat, OnWire(x)' PROVE OnWire(x)
    <3>1. CASE x[1] # cc
      BY <1>1, <2>1, <2>7, <3>1, Zenon DEF OnWire
    <3>2. CASE x[1] = cc
      <4>1. PICK k \in DOMAIN wire'[cc] : wire'[cc][k].id = x[2]
        BY <2>7, <3>2, Zenon DEF OnWire
      <4> QED
        BY <2>1, <3>2, <4>1, ZenonT(40) DEF OnWire
    <3> QED
      BY <3>1, <3>2, Zenon
  <2>8. ASSUME NEW x \in Conn \X Nat, InHand(x)' PROVE InHand(x) \/ (OnWire(x) /\ ~OnWire(x)')
    <3>1. CASE x[1] # cc
      BY <1>1, <2>1, <2>8, <3>1, ZenonT(40) DEF InHand
    <3>2. CASE x[1] = cc
      <4>1. x[2] = wire[cc][1].id
        BY <1>1, <2>1, <2>4, <2>8, <3>2 DEF InHand
      <4>2. OnWire(x)
        BY <2>1, <3>2, <4>1, Zenon DEF OnWire
      <4>3. ~OnWire(x)'
        <5> SUFFICES ASSUME NEW k \in DOMAIN wire'[cc], wire'[cc][k].id = x[2] PROVE FALSE
          BY <3>2, Zenon DEF OnWire
        <5>1. k + 1 \in DOMAIN wire[cc] /\ k + 1 # 1 /\ wire'[cc][k] = wire[cc][k + 1]
          BY <2>1, Zenon
        <5>2. wire[cc][k + 1].id = wire[cc][1].id
          BY <4>1, <5>1, ZenonT(40)
        <5> QED
          BY <1>0, <2>1, <5>1, <5>2, ZenonT(40) DEF WireInv
      <4> QED
        BY <4>2, <4>3, Zenon
    <3> QED
      BY <3>1, <3>2, Zenon
  <2>9. OnePlace'
    BY <1>1, <1>2, <1>3, <2>1, <2>7, <2>8, Flow, Zenon
  <2> QED
    BY <2>3, <2>6, <2>9, Zenon DEF SentInv
<1>5. CASE Sends(cc)
  <2>1. /\ proc[cc]["reader"].at = "send" /\ proc'[cc]["reader"].at = "loop"
        /\ \A d \in Conn : d # cc => proc'[d]["reader"] = proc[d]["reader"]
        /\ \A k \in Chan : \/ inCh'[k] = inCh[k]
                           \/ inCh'[k] # <<>> /\ Head(inCh'[k]) = proc[cc]["reader"].msg
        /\ UNCHANGED wire
    BY <1>5, Zenon DEF Sends
  <2>2. \A d \in Conn : WireInv(d)'
    BY <1>0, <2>1, ZenonT(40) DEF WireInv
  <2>3. \A d \in Conn : HandInv(d)'
    BY <1>0, <2>1, Zenon DEF HandInv
  <2>4. \A x \in Conn \X Nat : OnWire(x)' => OnWire(x)
    BY <2>1, Zenon DEF OnWire
  <2>5. \A x \in Conn \X Nat : InHand(x)' => InHand(x)
    <3>1. proc'[cc]["reader"].at # "send"
      BY <2>1, Zenon
    <3> QED
      BY <1>1, <2>1, <3>1, Zenon DEF InHand
  <2>6. ASSUME NEW x \in Conn \X Nat, Arrived(x)' PROVE Arrived(x) \/ (InHand(x) /\ ~InHand(x)')
    <3>1. Arrived(x) \/ x = proc[cc]["reader"].msg
      BY <2>1, <2>6, ZenonT(40) DEF Arrived
    <3>2. ASSUME x = proc[cc]["reader"].msg PROVE InHand(x) /\ ~InHand(x)'
      <4>1. x[1] = cc
        BY <1>0, <2>1, <3>2 DEF HandInv
      <4> QED
        BY <2>1, <3>2, <4>1, Zenon DEF InHand
    <3> QED
      BY <3>1, <3>2, Zenon
  <2>7. OnePlace'
    BY <1>1, <1>2, <2>4, <2>5, <2>6, Flow, Zenon
  <2> QED
    BY <2>2, <2>3, <2>7, Zenon DEF SentInv
<1>6. CASE Fails
  <2>1. /\ \A d \in Conn : /\ proc'[d]["reader"].at = "send" => proc'[d]["reader"] = proc[d]["reader"]
                           /\ \A k \in DOMAIN wire'[d] : k \in DOMAIN wire[d] /\ wire'[d][k] = wire[d][k]
        /\ \A k \in Chan : inCh'[k] = inCh[k] \/ (inCh'[k] # <<>> /\ Head(inCh'[k]) = Failed)
    BY <1>6, Zenon DEF Fails
  <2>2. ASSUME NEW d \in Conn PROVE WireInv(d)' /\ HandInv(d)'
    <3>1. HandInv(d)'
      BY <1>0, <2>1, ZenonT(40) DEF HandInv
    <3>2. \A k \in DOMAIN wire'[d] : k \in DOMAIN wire[d] /\ wire'[d][k] = wire[d][k]
      BY <2>1, ZenonT(40)
    <3>3. WireInv(d)
      BY <1>0, Zenon
    <3>4. WireInv(d)'
      BY <3>2, <3>3, Zenon DEF WireInv
    <3> QED
      BY <3>1, <3>4, Zenon
  <2>3. \A x \in Conn \X Nat : OnWire(x)' => OnWire(x)
    BY <1>1, <2>1, ZenonT(40) DEF OnWire
  <2>4. \A x \in Conn \X Nat : InHand(x)' => InHand(x)
    BY <1>1, <2>1, Zenon DEF InHand
  <2>5. \A x \in Conn \X Nat : Arrived(x)' => Arrived(x)
    BY <1>1, <2>1, ZenonT(40) DEF Arrived
  <2>6. OnePlace'
    BY <1>1, <1>2, <2>3, <2>4, <2>5, Flow, Zenon
  <2> QED
    BY <2>2, <2>6, Zenon DEF SentInv
<1> QED
  BY <1>4, <1>5, <1>6, Zenon

\* What Receive does.
Received(c) ==
    LET r  == call[c]
        q  == call'[c]
        i  == Len(r.res) + 1
        ch == r.chs[i]
    IN  /\ r.pc = "waiting" /\ q.pc \in {"waiting", "done"}
        /\ i \in DOMAIN r.ids /\ ch \in Chan /\ inCh[ch] # <<>> /\ inCh'[ch] = <<>>
        /\ \A k \in Chan : k # ch => inCh'[k] = inCh[k]
        /\ DOMAIN q.res = DOMAIN r.res \cup {i}
        /\ \A j \in DOMAIN r.res : q.res[j] = r.res[j]
        /\ q.res[i] = Head(inCh[ch])
        /\ Range(q.res) = Range(r.res) \cup {Head(inCh[ch])}
        /\ UNCHANGED <<wire, proc>>

\* Receiving takes the answer out of the channel of the first stream without one.
LEMMA Receives ==
    ASSUME Types, Shape, NEW c \in Caller, Receive(c)
    PROVE  Received(c)
<1> DEFINE r  == call[c]
           i  == Len(r.res) + 1
           ch == r.chs[i]
           x  == Head(inCh[ch])
           l  == IF i = Len(r.ids) THEN "done" ELSE "waiting"
           q  == [r EXCEPT !.res = Append(@, x), !.pc = l]
<1>1. /\ r.pc = "waiting" /\ inCh[ch] # <<>> /\ inCh' = [inCh EXCEPT ![ch] = <<>>]
      /\ Become(c, q) /\ UNCHANGED <<wire, proc>>
  BY Zenon DEF Receive, net
<1>2. /\ call \in [Caller -> CallRecord] /\ inCh \in [Chan -> Seq(Message)]
      /\ r.res \in Seq(Message) /\ r.chs \in Seq(Chan) /\ r.ids \in Seq(Nat) /\ Len(r.chs) = Len(r.ids)
      /\ r \in CallRecord
  BY Held3, Zenon DEF Types
<1>3. Len(r.res) < Len(r.ids)
  BY <1>1, Zenon DEF Shape
<1> HIDE DEF r
<1>4. i \in DOMAIN r.ids /\ i \in DOMAIN r.chs
  BY <1>2, <1>3, SMTT(30)
<1>5. ch \in Chan
  BY <1>2, <1>4
<1> HIDE DEF ch
<1>6. inCh[ch] \in Seq(Message)
  BY <1>2, <1>5, Zenon
<1>7. x \in Message
  BY <1>1, <1>6
<1>8. inCh'[ch] = <<>> /\ \A k \in Chan : k # ch => inCh'[k] = inCh[k]
  BY <1>1, <1>2, <1>5, Zenon
<1> HIDE DEF x, l
<1>9. q.res = Append(r.res, x) /\ q.pc = l
  BY <1>2, Zenon DEF CallRecord
<1> HIDE DEF q
<1>10. call'[c] = q
  BY <1>1, <1>2, Became, Zenon
<1> DEFINE s == r.res
<1>11. s \in Seq(Message)
  BY <1>2, Zenon
<1> HIDE DEF s
<1>12. /\ DOMAIN Append(s, x) = DOMAIN s \cup {Len(s) + 1}
       /\ \A j \in DOMAIN s : Append(s, x)[j] = s[j]
       /\ Append(s, x)[Len(s) + 1] = x
       /\ Range(Append(s, x)) = Range(s) \cup {x}
  BY <1>7, <1>11, Appended
<1>13. l \in {"waiting", "done"}
  BY Zenon DEF l
<1> QED
  BY <1>1, <1>4, <1>5, <1>8, <1>9, <1>10, <1>12, <1>13, ZenonT(40) DEF Received, s, x, ch, r

\* What c receives had arrived.
LEMMA ReceivedArrived ==
    ASSUME NEW c \in Caller, Received(c), \A d \in Caller : d # c => call'[d] = call[d], NEW x, Arrived(x)'
    PROVE  Arrived(x)
<1> DEFINE ch == call[c].chs[Len(call[c].res) + 1]
<1>1. /\ ch \in Chan /\ inCh[ch] # <<>> /\ inCh'[ch] = <<>>
      /\ \A k \in Chan : k # ch => inCh'[k] = inCh[k]
      /\ Range(call'[c].res) = Range(call[c].res) \cup {Head(inCh[ch])}
  BY Zenon DEF Received
<1> HIDE DEF ch
<1>2. ASSUME NEW k \in Chan, inCh'[k] # <<>>, Head(inCh'[k]) = x PROVE Arrived(x)
  <2>1. inCh'[k] = inCh[k]
    BY <1>1, <1>2, Zenon
  <2> QED
    BY <1>2, <2>1, Zenon DEF Arrived
<1>3. ASSUME NEW d \in Caller, x \in Range(call'[d].res) PROVE Arrived(x)
  <2>1. CASE d # c
    BY <1>3, <2>1, Zenon DEF Arrived
  <2>2. CASE d = c
    <3>1. x \in Range(call[c].res) \/ x = Head(inCh[ch])
      BY <1>1, <1>3, <2>2, Zenon
    <3> QED
      BY <1>1, <3>1, Zenon DEF Arrived
  <2> QED
    BY <2>1, <2>2, Zenon
<1> QED
  BY <1>2, <1>3, Zenon DEF Arrived

\* Steps of callers that leave the wire and the readers alone.
LEMMA SentKept ==
    ASSUME SentInv, UNCHANGED <<wire, proc>>, \A x \in Conn \X Nat : Arrived(x)' => Arrived(x),
           \A x \in Conn \X Nat :
               (OnWire(x) \/ InHand(x) \/ Arrived(x)) =>
                   /\ x[2] <= nextStreamID'[x[1]]
                   /\ \A c \in Caller : call'[c].pc \in {"checked", "added"} => x \notin Requests(c)'
    PROVE  SentInv'
<1>1. \A x \in Conn \X Nat : (OnWire(x)' => OnWire(x)) /\ (InHand(x)' => InHand(x))
  BY Zenon DEF OnWire, InHand
<1>2. OnePlace
  BY Zenon DEF SentInv
<1>3. OnePlace'
  BY <1>1, <1>2, Flow, Zenon
<1>4. \A cc \in Conn : WireInv(cc)' /\ HandInv(cc)'
  <2> SUFFICES ASSUME NEW cc \in Conn PROVE WireInv(cc)' /\ HandInv(cc)'
    BY Zenon
  <2>1. WireInv(cc) /\ HandInv(cc)
    BY Zenon DEF SentInv
  <2>2. WireInv(cc)'
    BY <2>1, Zenon DEF WireInv
  <2>3. HandInv(cc)'
    BY <2>1, Zenon DEF HandInv
  <2> QED
    BY <2>2, <2>3, Zenon
<1> QED
  BY <1>3, <1>4, Zenon DEF SentInv

\* Where each answer is, after a step of a goroutine between Register and Return.
LEMMA SentAfterBetween ==
    ASSUME BaseInv, IdsInv, BufsInv, SentInv, NEW c \in Caller, InBetween(c)
    PROVE  SentInv'
<1>1. Types /\ Shape
  BY Zenon DEF BaseInv
<1>2. (\A d \in Caller : SameStreams(d)) /\ UNCHANGED nextStreamID
  BY <1>1, BetweenStreams, Zenon
<1>3. \A d \in Caller : Requests(d)' = Requests(d)
  BY <1>2, SameRequests, Zenon
<1>4. /\ \A d \in Caller : d # c => call'[d] = call[d]
      /\ call'[c].pc \in {"checked", "added"} =>
             call[c].pc \in {"checked", "added"} \/ call[c].ids = <<>>
  <2>1. /\ \A d \in Caller : d # c => call'[d] = call[d]
        /\ \/ call[c].pc \in {"idle", "added"} /\ (call[c].pc = "idle" => call[c].ids = <<>>)
           \/ call'[c].pc \in {"failed", "waiting", "done"}
           \/ ~Encoding(c)'
    BY <1>1, BetweenMoves, Zenon
  <2>2. ~Encoding(c)' => call'[c].pc \notin {"checked", "added"}
    BY Zenon DEF Encoding
  <2> QED
    BY <2>1, <2>2, Zenon
<1>5. call[c].ids = <<>> => Requests(c) = {}
  BY DEF Requests
<1>6. \A x \in Conn \X Nat :
          (OnWire(x) \/ InHand(x) \/ Arrived(x)) =>
              /\ x[2] <= nextStreamID'[x[1]]
              /\ \A d \in Caller : call'[d].pc \in {"checked", "added"} => x \notin Requests(d)'
  <2> SUFFICES ASSUME NEW x \in Conn \X Nat, OnWire(x) \/ InHand(x) \/ Arrived(x)
               PROVE  /\ x[2] <= nextStreamID[x[1]]
                      /\ \A d \in Caller : call'[d].pc \in {"checked", "added"} => x \notin Requests(d)
    BY <1>2, <1>3, Zenon
  <2>1. /\ x[2] <= nextStreamID[x[1]]
        /\ \A d \in Caller : call[d].pc \in {"checked", "added"} => x \notin Requests(d)
    BY Zenon DEF SentInv, OnePlace
  <2> QED
    BY <1>4, <1>5, <2>1, Zenon
<1>7. CASE Receive(c)
  <2>1. Received(c)
    BY <1>1, <1>7, Receives, Zenon
  <2>2. UNCHANGED <<wire, proc>>
    BY <2>1, Zenon DEF Received
  <2> QED
    BY <1>4, <1>6, <2>1, <2>2, ReceivedArrived, SentKept, ZenonT(40)
<1>8. CASE ~Receive(c)
  <2>1. (\A d \in Caller : call'[d].res = call[d].res) /\ UNCHANGED <<inCh, proc>>
    BY <1>1, <1>8, BetweenResults, Zenon
  <2>2. \A x \in Conn \X Nat : Arrived(x)' => Arrived(x)
    BY <2>1, Zenon DEF Arrived
  <2>3. CASE UNCHANGED wire
    BY <1>6, <2>1, <2>2, <2>3, SentKept, ZenonT(40)
  <2>4. CASE Write(c) \/ WriteFails(c) \/ WriteTimeout(c)
    <3>1. call[c].pc = "added" /\ (UNCHANGED wire \/ \E n \in 0 .. Len(call[c].ids) : Appends(c, n))
      BY <1>1, <2>4, Writes, Zenon
    <3>2. call'[c].pc \notin {"checked", "added"}
      <4>1. call \in [Caller -> CallRecord] /\ call[c] \in CallRecord
        BY <1>1, Zenon DEF Types
      <4>2. Become(c, [call[c] EXCEPT !.pc = "waiting"]) \/ Become(c, [call[c] EXCEPT !.pc = "failed"])
        BY <2>4, Zenon DEF Write, WriteFails, WriteTimeout, FailWrite
      <4> QED
        BY <4>1, <4>2, Zenon DEF Become, CallRecord
    <3>3. ASSUME NEW n \in 0 .. Len(call[c].ids), Appends(c, n) PROVE SentInv'
      BY <1>2, <1>4, <2>1, <3>1, <3>2, <3>3, SentAfterWrite, ZenonT(40)
    <3> QED
      BY <2>3, <3>1, <3>3, ZenonT(40)
  <2>5. CASE Reset(c) \/ ReadTimeout(c) \/ \E cc \in Conn, kind \in Kinds[c] : Check(c, cc, kind)
    <3>1. UNCHANGED wire
      BY <2>5, ZenonT(40) DEF Reset, ReadTimeout, Check, net
    <3> QED
      BY <2>3, <3>1, Zenon
  <2> QED
    BY <1>8, <2>4, <2>5, ZenonT(40) DEF InBetween
<1> QED
  BY <1>7, <1>8, Zenon

\* The id taken by a new stream is on no wire, in no hand and in no channel.
LEMMA SentAfterRegister ==
    ASSUME BaseInv, IdsInv, SentInv, NEW c \in Caller, Register(c)
    PROVE  SentInv'
<1>1. Types /\ Shape /\ OwnInv
  BY Zenon DEF BaseInv
<1>2. PICK ch \in Chan, b \in GetBuf : Registered(c, ch, b)
  BY <1>1, Registers, Zenon
<1>3. b \in Buf
  BY <1>1, NewBuf, Zenon DEF BaseInv, Types
<1>4. StreamAdded(c, ch, b)
  BY <1>1, <1>2, <1>3, RegisteredStream, Zenon
<1>5. PICK cc \in Conn : cc = call[c].cc
  BY <1>1, Held3, Zenon
<1> DEFINE id == nextStreamID[cc] + 1
<1>6. /\ call[c].pc = "checked" /\ Requests(c)' = Requests(c) \cup {<<cc, id>>}
      /\ call'[c].res = call[c].res
      /\ \A d \in Caller : d # c => call'[d] = call[d]
      /\ nextStreamID' = [nextStreamID EXCEPT ![cc] = id]
      /\ UNCHANGED <<inCh, wire, proc>>
  BY <1>2, <1>4, <1>5, Zenon DEF Registered, StreamAdded
<1>7. \A d \in Caller : d # c => Requests(d)' = Requests(d)
  BY <1>6, ZenonT(40) DEF Requests, Request
<1>8. nextStreamID \in [Conn -> Nat]
  BY <1>1, Zenon DEF Types
<1>9. \A x \in Conn \X Nat : Arrived(x)' => Arrived(x)
  BY <1>6, Zenon DEF Arrived
<1>10. ASSUME NEW x \in Conn \X Nat, OnWire(x) \/ InHand(x) \/ Arrived(x)
       PROVE  /\ x[2] <= nextStreamID'[x[1]]
              /\ \A d \in Caller : call'[d].pc \in {"checked", "added"} => x \notin Requests(d)'
  <2>1. /\ x[2] <= nextStreamID[x[1]]
        /\ \A d \in Caller : call[d].pc \in {"checked", "added"} => x \notin Requests(d)
    BY <1>10, Zenon DEF SentInv, OnePlace
  <2>2. x[1] \in Conn /\ x[2] \in Nat
    BY Zenon
  <2>3. x[2] <= nextStreamID'[x[1]]
    BY <1>6, <1>8, <2>1, <2>2
  <2>4. x # <<cc, id>>
    <3> SUFFICES ASSUME x = <<cc, id>> PROVE FALSE
      BY Zenon
    <3>1. x[1] = cc /\ x[2] = nextStreamID[cc] + 1
      BY Zenon
    <3> QED
      BY <1>8, <2>1, <3>1
  <2>5. x \notin Requests(c)'
    BY <1>6, <2>1, <2>4, Zenon
  <2> HIDE DEF id
  <2> QED
    BY <1>6, <1>7, <2>1, <2>3, <2>5, ZenonT(40)
<1> QED
  BY <1>6, <1>9, <1>10, SentKept, Zenon

\* Returning empties the channels of the call and leaves every other answer where it is.
LEMMA SentAfterReturn ==
    ASSUME SentInv, Types, NEW c \in Caller, Return(c)
    PROVE  SentInv'
<1>1. /\ call'[c] = Idle
      /\ \A d \in Caller : d # c => call'[d] = call[d]
      /\ inCh' = [ch \in Chan |-> IF ch \in Range(call[c].chs) THEN <<>> ELSE inCh[ch]]
      /\ UNCHANGED <<nextStreamID, wire, proc>>
  BY Returns, Zenon DEF Returned
<1>2. \A k \in Chan : inCh'[k] = <<>> \/ inCh'[k] = inCh[k]
  BY <1>1, Zenon
<1>3. Idle.pc = "idle" /\ Range(Idle.res) = {}
  BY DEF Idle, Range
<1>4. ASSUME NEW x \in Conn \X Nat, Arrived(x)' PROVE Arrived(x)
  <2>1. \A d \in Caller : x \in Range(call'[d].res) => x \in Range(call[d].res)
    <3>1. Range(call'[c].res) = {}
      BY <1>1, <1>3, Zenon
    <3> QED
      BY <1>1, <3>1, Zenon
  <2> QED
    BY <1>2, <1>4, <2>1, ZenonT(40) DEF Arrived
<1>5. ASSUME NEW x \in Conn \X Nat, OnWire(x) \/ InHand(x) \/ Arrived(x)
      PROVE  /\ x[2] <= nextStreamID'[x[1]]
             /\ \A d \in Caller : call'[d].pc \in {"checked", "added"} => x \notin Requests(d)'
  <2>1. /\ x[2] <= nextStreamID[x[1]]
        /\ \A d \in Caller : call[d].pc \in {"checked", "added"} => x \notin Requests(d)
    BY <1>5, Zenon DEF SentInv, OnePlace
  <2>2. call'[c].pc \notin {"checked", "added"}
    BY <1>1, <1>3, Zenon
  <2>3. \A d \in Caller : d # c => Requests(d)' = Requests(d)
    BY <1>1, Zenon DEF Requests, Request
  <2> QED
    BY <1>1, <2>1, <2>2, <2>3, ZenonT(40)
<1> QED
  BY <1>1, <1>4, <1>5, SentKept, Zenon

\* Where each answer is, after any step.
LEMMA SentStep ==
    ASSUME BaseInv, IdsInv, BufsInv, SentInv, [Next]_vars
    PROVE  SentInv'
<1>1. Types
  BY Zenon DEF BaseInv
<1>2. ASSUME NEW c \in Caller, InBetween(c) \/ Register(c) \/ Return(c) PROVE SentInv'
  BY <1>1, <1>2, SentAfterBetween, SentAfterRegister, SentAfterReturn, ZenonT(40)
<1>3. ASSUME NEW cc \in Conn,
             \/ Load(cc) \/ Send(cc) \/ ReadFails(cc) \/ Close(cc)
             \/ \E w \in Worker : SweepLoad(cc, w) \/ SweepSend(cc, w)
             \/ Drop(cc)
      PROVE  SentInv'
  <2>1. UNCHANGED <<call, nextStreamID>>
    BY <1>1, <1>3, WorkerStreams, Zenon
  <2>2. Loads(cc) \/ Sends(cc) \/ Fails
    BY <1>1, <1>3, LoadMoves, SendMoves, FailMoves, Zenon
  <2>3. wire \in [Conn -> Seq(Frame)]
    BY <1>1, Zenon DEF Types
  <2> QED
    BY <2>1, <2>2, <2>3, SentAfterWorker, Zenon
<1>4. ASSUME UNCHANGED vars PROVE SentInv'
  <2>1. UNCHANGED <<call, inCh, wire, proc, nextStreamID>>
    BY <1>4, Zenon DEF vars, pools, net
  <2>2. \A x \in Conn \X Nat : Arrived(x)' => Arrived(x)
    BY <2>1, Zenon DEF Arrived
  <2>3. \A d \in Caller : Requests(d)' = Requests(d)
    BY <2>1, Zenon DEF Requests, Request
  <2>4. OnePlace
    BY Zenon DEF SentInv
  <2> QED
    BY <2>1, <2>2, <2>3, <2>4, SentKept, ZenonT(40) DEF OnePlace
<1> QED
  BY <1>2, <1>3, <1>4, Steps, ZenonT(40)

-----------------------------------------------------------------------------
(* Whose answers they are. *)

\* A step in which d keeps the streams it has, and may get another.
KeepsStreams(d) ==
    \A i \in DOMAIN call[d].ids :
        /\ i \in DOMAIN call'[d].ids /\ call'[d].chs[i] = call[d].chs[i]
        /\ Request(call'[d], i) = Request(call[d], i)

\* A call whose streams are the same keeps its streams.
LEMMA SameKept ==
    ASSUME NEW d \in Caller, SameStreams(d)
    PROVE  KeepsStreams(d)
<1> SUFFICES ASSUME NEW i \in DOMAIN call[d].ids
             PROVE  /\ i \in DOMAIN call'[d].ids /\ call'[d].chs[i] = call[d].chs[i]
                    /\ Request(call'[d], i) = Request(call[d], i)
  BY Zenon DEF KeepsStreams
<1>1. call[d].ids # <<>>
  OBVIOUS
<1> QED
  BY <1>1, Zenon DEF SameStreams, Request

\* What may be in ch after a step.
NowRightful(x, ch) ==
    \/ x = Failed \/ x \in gaveUp'
    \/ \E c \in Caller : \E i \in DOMAIN call'[c].ids : call'[c].chs[i] = ch /\ x = Request(call'[c], i)

\* What was rightful in a channel stays so while calls keep their streams.
LEMMA StillRightful ==
    ASSUME NEW x, NEW ch, Rightful(x, ch), \A d \in Caller : KeepsStreams(d), gaveUp \subseteq gaveUp'
    PROVE  NowRightful(x, ch)
<1>1. CASE x = Failed \/ x \in gaveUp
  BY <1>1, Zenon DEF NowRightful
<1>2. ASSUME NEW d \in Caller, NEW i \in DOMAIN call[d].ids, call[d].chs[i] = ch, x = Request(call[d], i)
      PROVE  NowRightful(x, ch)
  <2>1. i \in DOMAIN call'[d].ids /\ call'[d].chs[i] = ch /\ x = Request(call'[d], i)
    BY <1>2, Zenon DEF KeepsStreams
  <2> QED
    BY <2>1, Zenon DEF NowRightful
<1> QED
  BY <1>1, <1>2, Zenon DEF Rightful

\* The places where an answer is after a step.
LEMMA Delivered ==
    ASSUME \A ch \in Chan : inCh'[ch] # <<>> => NowRightful(Head(inCh'[ch]), ch),
           \A cc \in Conn : proc'[cc]["reader"].at = "send" =>
               NowRightful(proc'[cc]["reader"].msg, proc'[cc]["reader"].ch),
           \A c \in Caller : \A i \in DOMAIN call'[c].res :
               call'[c].res[i] \in {Request(call'[c], i), Failed} \cup gaveUp'
    PROVE  DeliveryInv'
<1>1. \A ch \in Chan : (inCh[ch] # <<>> => Rightful(Head(inCh[ch]), ch))'
  BY Zenon DEF NowRightful, Rightful, Request, Failed
<1>2. \A cc \in Conn : (proc[cc]["reader"].at = "send" =>
                             Rightful(proc[cc]["reader"].msg, proc[cc]["reader"].ch))'
  BY Zenon DEF NowRightful, Rightful, Request, Failed
<1> QED
  BY <1>1, <1>2, Zenon DEF DeliveryInv, Request, Failed

\* Steps of callers other than Return.
LEMMA DeliveryKept ==
    ASSUME Types, Shape, DeliveryInv, \A d \in Caller : KeepsStreams(d), UNCHANGED <<proc, gaveUp>>,
           \A k \in Chan : inCh'[k] = inCh[k] \/ inCh'[k] = <<>>,
           \A d \in Caller : \A i \in DOMAIN call'[d].res :
               \/ i \in DOMAIN call[d].res /\ call'[d].res[i] = call[d].res[i]
               \/ call'[d].res[i] \in {Request(call'[d], i), Failed} \cup gaveUp
    PROVE  DeliveryInv'
<1>1. ASSUME NEW ch \in Chan, inCh'[ch] # <<>> PROVE NowRightful(Head(inCh'[ch]), ch)
  <2> DEFINE y == Head(inCh'[ch])
  <2>1. inCh'[ch] = inCh[ch]
    BY <1>1, Zenon
  <2>2. Rightful(y, ch)
    BY <1>1, <2>1, Zenon DEF DeliveryInv
  <2> HIDE DEF y
  <2>3. NowRightful(y, ch)
    BY <2>2, StillRightful, Zenon
  <2> QED
    BY <2>3, Zenon DEF y
<1>2. ASSUME NEW cc \in Conn, proc'[cc]["reader"].at = "send"
      PROVE  NowRightful(proc'[cc]["reader"].msg, proc'[cc]["reader"].ch)
  <2> DEFINE y == proc[cc]["reader"].msg
             k == proc[cc]["reader"].ch
  <2>1. Rightful(y, k)
    BY <1>2, Zenon DEF DeliveryInv
  <2> HIDE DEF y, k
  <2>2. NowRightful(y, k)
    BY <2>1, StillRightful, Zenon
  <2> QED
    BY <2>2, Zenon DEF y, k
<1>3. ASSUME NEW d \in Caller, NEW i \in DOMAIN call'[d].res
      PROVE  call'[d].res[i] \in {Request(call'[d], i), Failed} \cup gaveUp'
  <2>1. CASE i \in DOMAIN call[d].res /\ call'[d].res[i] = call[d].res[i]
    <3>1. call[d].res[i] \in {Request(call[d], i), Failed} \cup gaveUp
      BY <2>1, Zenon DEF DeliveryInv
    <3>2. i \in DOMAIN call[d].ids
      <4>1. call[d].res \in Seq(Message) /\ call[d].ids \in Seq(Nat) /\ Len(call[d].res) <= Len(call[d].ids)
        BY Held3, Zenon DEF Shape
      <4> QED
        BY <2>1, <4>1
    <3>3. Request(call'[d], i) = Request(call[d], i)
      BY <3>2, Zenon DEF KeepsStreams
    <3> QED
      BY <2>1, <3>1, <3>3, Zenon
  <2>2. CASE call'[d].res[i] \in {Request(call'[d], i), Failed} \cup gaveUp
    BY <2>2, Zenon
  <2> QED
    BY <2>1, <2>2, Zenon
<1> QED
  BY <1>1, <1>2, <1>3, Delivered, Zenon

\* A channel belongs to one stream of one call.
LEMMA OneStream ==
    ASSUME Types, Shape, OwnInv, NEW c \in Caller, NEW d \in Caller, NEW i \in DOMAIN call[c].ids,
           NEW j \in DOMAIN call[d].ids, call[c].chs[i] = call[d].chs[j]
    PROVE  c = d /\ i = j
<1>1. i \in DOMAIN call[c].chs /\ j \in DOMAIN call[d].chs
  BY Held3, Zenon
<1>2. call[c].chs[i] \in Range(call[c].chs) \cap Range(call[d].chs)
  BY <1>1, Zenon DEF Range
<1>3. c = d
  BY <1>2, ZenonT(40) DEF OwnInv, ChannelsOwned
<1> QED
  BY <1>1, <1>3, ZenonT(40) DEF OwnInv, IsInjective

\* The steps of a call between registering and returning deliver only what is rightful.
LEMMA DeliveryAfterBetween ==
    ASSUME BaseInv, DeliveryInv, NEW c \in Caller, InBetween(c)
    PROVE  DeliveryInv'
<1>1. Types /\ Shape /\ OwnInv
  BY Zenon DEF BaseInv
<1>2. (\A d \in Caller : SameStreams(d)) /\ UNCHANGED gaveUp
  BY <1>1, BetweenStreams, Zenon DEF ghosts
<1>3. \A d \in Caller : KeepsStreams(d)
  BY <1>2, SameKept, ZenonT(40)
<1>4. CASE Receive(c)
  <2> DEFINE i  == Len(call[c].res) + 1
             ch == call[c].chs[i]
             x  == Head(inCh[ch])
  <2>1. Received(c) /\ \A d \in Caller : d # c => call'[d] = call[d]
    BY <1>1, <1>4, Receives, BetweenMoves, Zenon
  <2>2. /\ i \in DOMAIN call[c].ids /\ ch \in Chan /\ inCh[ch] # <<>> /\ inCh'[ch] = <<>>
        /\ \A k \in Chan : k # ch => inCh'[k] = inCh[k]
        /\ DOMAIN call'[c].res = DOMAIN call[c].res \cup {i}
        /\ \A j \in DOMAIN call[c].res : call'[c].res[j] = call[c].res[j]
        /\ call'[c].res[i] = x
        /\ UNCHANGED proc
    BY <2>1, Zenon DEF Received
  <2>3. Rightful(x, ch)
    BY <2>2, Zenon DEF DeliveryInv
  <2>4. x \in {Request(call[c], i), Failed} \cup gaveUp
    <3>1. CASE x = Failed \/ x \in gaveUp
      BY <3>1, Zenon
    <3>2. ASSUME NEW d \in Caller, NEW j \in DOMAIN call[d].ids, call[d].chs[j] = ch, x = Request(call[d], j)
          PROVE  x = Request(call[c], i)
      <4>1. PICK n : n = i
        BY Zenon
      <4>2. n \in DOMAIN call[c].ids /\ call[c].chs[n] = call[d].chs[j]
        BY <2>2, <3>2, <4>1, ZenonT(40)
      <4>3. c = d /\ n = j
        BY <1>1, <4>2, OneStream, Zenon
      <4> QED
        BY <3>2, <4>1, <4>3, ZenonT(40)
    <3> HIDE DEF x, ch, i
    <3> QED
      BY <2>3, <3>1, <3>2, Zenon, Zenon DEF Rightful
  <2> HIDE DEF x, ch, i
  <2>5. Request(call'[c], i) = Request(call[c], i)
    BY <1>3, <2>2, ZenonT(40) DEF KeepsStreams
  <2>6. ASSUME NEW d \in Caller, NEW j \in DOMAIN call'[d].res
        PROVE  \/ j \in DOMAIN call[d].res /\ call'[d].res[j] = call[d].res[j]
               \/ call'[d].res[j] \in {Request(call'[d], j), Failed} \cup gaveUp
    <3>1. CASE d # c
      BY <2>1, <3>1, Zenon
    <3>2. CASE d = c /\ j = i
      BY <2>2, <2>4, <2>5, <3>2, ZenonT(40)
    <3>3. CASE d = c /\ j # i
      BY <2>2, <3>3, Zenon
    <3> QED
      BY <3>1, <3>2, <3>3, Zenon
  <2>7. \A k \in Chan : inCh'[k] = inCh[k] \/ inCh'[k] = <<>>
    BY <2>2, ZenonT(40)
  <2> QED
    BY <1>1, <1>2, <1>3, <2>2, <2>6, <2>7, DeliveryKept, Zenon
<1>5. CASE ~Receive(c)
  <2>1. (\A d \in Caller : call'[d].res = call[d].res) /\ UNCHANGED <<inCh, proc>>
    BY <1>1, <1>5, BetweenResults, Zenon
  <2>2. \A d \in Caller : \A j \in DOMAIN call'[d].res :
            j \in DOMAIN call[d].res /\ call'[d].res[j] = call[d].res[j]
    BY <2>1, ZenonT(40)
  <2> QED
    BY <1>1, <1>2, <1>3, <2>1, <2>2, DeliveryKept, Zenon
<1> QED
  BY <1>4, <1>5, Zenon

\* A channel from the pool is empty, so the new stream finds nothing in it.
LEMMA DeliveryAfterRegister ==
    ASSUME BaseInv, DeliveryInv, NEW c \in Caller, Register(c)
    PROVE  DeliveryInv'
<1>1. Types /\ Shape /\ OwnInv
  BY Zenon DEF BaseInv
<1>2. PICK ch \in Chan, b \in GetBuf : Registered(c, ch, b)
  BY <1>1, Registers, Zenon
<1>3. b \in Buf
  BY <1>1, NewBuf, Zenon DEF BaseInv, Types
<1>4. StreamAdded(c, ch, b)
  BY <1>1, <1>2, <1>3, RegisteredStream, Zenon
<1>5. /\ \A d \in Caller : d # c => call'[d] = call[d]
      /\ call'[c].cc = call[c].cc /\ call'[c].res = call[c].res
      /\ UNCHANGED <<inCh, proc, gaveUp>>
  BY <1>2, Zenon DEF Registered
<1>6. \A i \in DOMAIN call[c].ids :
          /\ i \in DOMAIN call'[c].ids
          /\ call'[c].ids[i] = call[c].ids[i] /\ call'[c].chs[i] = call[c].chs[i]
  BY <1>4, Zenon DEF StreamAdded
<1>7. KeepsStreams(c)
  BY <1>5, <1>6, Zenon DEF KeepsStreams, Request
<1>8. \A d \in Caller : KeepsStreams(d)
  BY <1>5, <1>7, Zenon DEF KeepsStreams
<1>9. \A d \in Caller : \A j \in DOMAIN call'[d].res :
          j \in DOMAIN call[d].res /\ call'[d].res[j] = call[d].res[j]
  BY <1>5, Zenon
<1> QED
  BY <1>1, <1>5, <1>8, <1>9, DeliveryKept, Zenon

\* A caller that returns while the reader has its answer in hand has given up.
LEMMA DeliveryAfterReturn ==
    ASSUME BaseInv, SentInv, DeliveryInv, NEW c \in Caller, Return(c)
    PROVE  DeliveryInv'
<1>1. Types /\ Shape
  BY Zenon DEF BaseInv
<1>2. /\ call'[c] = Idle
      /\ \A d \in Caller : d # c => call'[d] = call[d]
      /\ inCh' = [ch \in Chan |-> IF ch \in Range(call[c].chs) THEN <<>> ELSE inCh[ch]]
      /\ gaveUp' = gaveUp \cup (Requests(c) \ Range(call[c].res))
      /\ UNCHANGED proc
  BY <1>1, Returns, Zenon DEF Returned, Requests
<1>3. ASSUME NEW x, NEW k, Rightful(x, k), ASSUME x \in Requests(c), k \in Range(call[c].chs) PROVE x \in gaveUp'
      PROVE  NowRightful(x, k)
  <2>1. CASE x = Failed \/ x \in gaveUp
    BY <1>2, <2>1, Zenon DEF NowRightful
  <2>2. ASSUME NEW d \in Caller, NEW i \in DOMAIN call[d].ids, call[d].chs[i] = k, x = Request(call[d], i)
        PROVE  NowRightful(x, k)
    <3>1. CASE d # c
      <4>1. call'[d] = call[d]
        BY <1>2, <3>1, Zenon
      <4> QED
        BY <2>2, <4>1, Zenon DEF NowRightful
    <3>2. CASE d = c
      <4>1. i \in DOMAIN call[c].chs
        BY <1>1, <2>2, <3>2, Held3, Zenon
      <4>2. k \in Range(call[c].chs) /\ x \in Requests(c)
        BY <2>2, <3>2, <4>1, ZenonT(40) DEF Range, Requests
      <4> QED
        BY <1>3, <4>2, ZenonT(40) DEF NowRightful
    <3> QED
      BY <3>1, <3>2, Zenon
  <2> QED
    BY <1>3, <2>1, <2>2, ZenonT(40) DEF Rightful
<1>4. ASSUME NEW ch \in Chan, inCh'[ch] # <<>> PROVE NowRightful(Head(inCh'[ch]), ch)
  <2> DEFINE y == Head(inCh'[ch])
  <2>1. ch \notin Range(call[c].chs) /\ inCh'[ch] = inCh[ch]
    BY <1>2, <1>4, Zenon
  <2>2. Rightful(y, ch)
    BY <1>4, <2>1, ZenonT(40) DEF DeliveryInv
  <2> HIDE DEF y
  <2>3. NowRightful(y, ch)
    BY <1>3, <2>1, <2>2, ZenonT(40)
  <2> QED
    BY <2>3, Zenon DEF y
<1>5. ASSUME NEW cc \in Conn, proc'[cc]["reader"].at = "send"
      PROVE  NowRightful(proc'[cc]["reader"].msg, proc'[cc]["reader"].ch)
  <2> DEFINE y == proc[cc]["reader"].msg
             k == proc[cc]["reader"].ch
  <2>1. proc[cc]["reader"].at = "send" /\ Rightful(y, k)
    BY <1>2, <1>5, Zenon DEF DeliveryInv
  <2>2. PICK id \in Nat : y = <<cc, id>>
    BY <2>1, Zenon DEF SentInv, HandInv
  <2>3. y \in Conn \X Nat /\ y[1] = cc
    BY <2>2
  <2>4. InHand(y)
    BY <2>1, <2>3, Zenon DEF InHand
  <2> HIDE DEF y, k
  <2>5. ~Arrived(y)
    BY <2>3, <2>4, Zenon DEF SentInv, OnePlace
  <2>6. y \notin Range(call[c].res)
    BY <2>5, Zenon DEF Arrived
  <2>7. y \in Requests(c) => y \in gaveUp'
    BY <1>2, <2>6, ZenonT(40)
  <2>8. NowRightful(y, k)
    BY <1>3, <2>1, <2>7, ZenonT(40)
  <2> QED
    BY <1>2, <2>8, Zenon DEF y, k
<1>6. ASSUME NEW d \in Caller, NEW i \in DOMAIN call'[d].res
      PROVE  call'[d].res[i] \in {Request(call'[d], i), Failed} \cup gaveUp'
  <2>1. CASE d = c
    <3>1. call'[d].res = Idle.res
      BY <1>2, <2>1, ZenonT(40)
    <3>2. Idle.res = <<>>
      BY Zenon DEF Idle
    <3>3. DOMAIN call'[d].res = {}
      BY <3>1, <3>2
    <3> QED
      BY <3>3, Zenon
  <2>2. CASE d # c
    <3>1. call'[d] = call[d]
      BY <1>2, <2>2, Zenon
    <3>2. call[d].res[i] \in {Request(call[d], i), Failed} \cup gaveUp
      BY <3>1, Zenon DEF DeliveryInv
    <3> QED
      BY <1>2, <3>1, <3>2, ZenonT(40)
  <2> QED
    BY <2>1, <2>2, Zenon
<1> QED
  BY <1>4, <1>5, <1>6, Delivered, Zenon

\* The reader sends an answer to the channel of the stream in its header.
LEMMA DeliveryAfterWorker ==
    ASSUME Types, OwnInv, SentInv, DeliveryInv, NEW cc \in Conn, Loads(cc) \/ Sends(cc) \/ Fails,
           UNCHANGED <<call, gaveUp>>
    PROVE  DeliveryInv'
<1>1. \A x, ch : Rightful(x, ch) => NowRightful(x, ch)
  BY Zenon DEF Rightful, NowRightful
<1>2. \A c \in Caller : \A i \in DOMAIN call'[c].res :
          call'[c].res[i] \in {Request(call'[c], i), Failed} \cup gaveUp'
  BY Zenon DEF DeliveryInv
<1>3. /\ \A ch \in Chan : inCh[ch] # <<>> => Rightful(Head(inCh[ch]), ch)
      /\ \A d \in Conn : proc[d]["reader"].at = "send" =>
             Rightful(proc[d]["reader"].msg, proc[d]["reader"].ch)
  BY ZenonT(40) DEF DeliveryInv
<1>4. CASE Loads(cc)
  <2> DEFINE f == wire[cc][1]
  <2>1. /\ 1 \in DOMAIN wire[cc]
        /\ proc'[cc]["reader"].at = "send" =>
               /\ f.id \in DOMAIN pending[cc]
               /\ proc'[cc]["reader"].ch = pending[cc][f.id]
               /\ proc'[cc]["reader"].msg = f.body
        /\ \A d \in Conn : d # cc => proc'[d]["reader"] = proc[d]["reader"]
        /\ UNCHANGED inCh
    BY <1>4, Zenon DEF Loads
  <2>2. f.body = <<cc, f.id>>
    BY <2>1, Zenon DEF SentInv, WireInv
  <2> HIDE DEF f
  <2>3. ASSUME proc'[cc]["reader"].at = "send"
        PROVE  NowRightful(proc'[cc]["reader"].msg, proc'[cc]["reader"].ch)
    <3>1. f.id \in DOMAIN pending[cc]
      BY <2>1, <2>3, ZenonT(40)
    <3>2. PICK c \in Caller : /\ call[c].cc = cc
                              /\ \E i \in DOMAIN call[c].ids :
                                     call[c].ids[i] = f.id /\ call[c].chs[i] = pending[cc][f.id]
      <4>1. \A d \in Conn : \A id \in DOMAIN pending[d] :
                \E c \in Caller : /\ call[c].cc = d
                                  /\ \E i \in DOMAIN call[c].ids :
                                         call[c].ids[i] = id /\ call[c].chs[i] = pending[d][id]
        BY Zenon DEF OwnInv, ChannelsOwned
      <4> QED
        BY <3>1, <4>1, Zenon
    <3>3. PICK i \in DOMAIN call[c].ids : call[c].ids[i] = f.id /\ call[c].chs[i] = pending[cc][f.id]
      BY <3>2, Zenon
    <3>4. f.body = Request(call[c], i)
      BY <2>2, <3>2, <3>3, ZenonT(40) DEF Request
    <3>5. Rightful(f.body, pending[cc][f.id])
      BY <3>3, <3>4, Zenon DEF Rightful
    <3> QED
      BY <1>1, <2>1, <2>3, <3>5, ZenonT(40)
  <2>4. \A d \in Conn : proc'[d]["reader"].at = "send" =>
            NowRightful(proc'[d]["reader"].msg, proc'[d]["reader"].ch)
    BY <1>1, <1>3, <2>1, <2>3, ZenonT(40)
  <2>5. \A ch \in Chan : inCh'[ch] # <<>> => NowRightful(Head(inCh'[ch]), ch)
    BY <1>1, <1>3, <2>1, ZenonT(40)
  <2> QED
    BY <1>2, <2>4, <2>5, Delivered, Zenon
<1>5. CASE Sends(cc)
  <2>1. /\ proc[cc]["reader"].at = "send" /\ proc'[cc]["reader"].at = "loop"
        /\ \A d \in Conn : d # cc => proc'[d]["reader"] = proc[d]["reader"]
        /\ \A k \in Chan : \/ inCh'[k] = inCh[k]
                           \/ /\ k = proc[cc]["reader"].ch
                              /\ inCh'[k] # <<>> /\ Head(inCh'[k]) = proc[cc]["reader"].msg
    BY <1>5, Zenon DEF Sends
  <2>2. proc'[cc]["reader"].at # "send"
    BY <2>1, Zenon
  <2>3. \A d \in Conn : proc'[d]["reader"].at = "send" =>
            NowRightful(proc'[d]["reader"].msg, proc'[d]["reader"].ch)
    BY <1>1, <1>3, <2>1, <2>2, ZenonT(40)
  <2>4. \A ch \in Chan : inCh'[ch] # <<>> => NowRightful(Head(inCh'[ch]), ch)
    BY <1>1, <1>3, <2>1, ZenonT(40)
  <2> QED
    BY <1>2, <2>3, <2>4, Delivered, Zenon
<1>6. CASE Fails
  <2>1. \A d \in Conn : proc'[d]["reader"].at = "send" =>
            NowRightful(proc'[d]["reader"].msg, proc'[d]["reader"].ch)
    BY <1>1, <1>3, <1>6, ZenonT(40) DEF Fails
  <2>2. \A ch : NowRightful(Failed, ch)
    BY Zenon DEF NowRightful
  <2>3. \A ch \in Chan : inCh'[ch] # <<>> => NowRightful(Head(inCh'[ch]), ch)
    BY <1>1, <1>3, <1>6, <2>2, ZenonT(40) DEF Fails
  <2> QED
    BY <1>2, <2>1, <2>3, Delivered, Zenon
<1> QED
  BY <1>4, <1>5, <1>6, Zenon

-----------------------------------------------------------------------------
(* Together. *)

\* The buffers, the places and the owners hold as long as no pipeline has put
\* its buffers back twice, which nothing undoes.
LEMMA AnswerStep ==
    ASSUME BaseInv, IdsInv, AnswerInv, [Next]_vars
    PROVE  AnswerInv'
<1> SUFFICES ASSUME ~piped' PROVE BufsInv' /\ SentInv' /\ DeliveryInv'
  BY Zenon DEF AnswerInv
<1>1. Types /\ Shape /\ OwnInv
  BY Zenon DEF BaseInv
<1>2. ~piped
  <2>1. ASSUME NEW c \in Caller, InBetween(c) PROVE ~piped
    BY <1>1, <2>1, BetweenStreams, Zenon DEF ghosts
  <2>2. ASSUME NEW c \in Caller, Register(c) \/ Return(c) PROVE ~piped
    BY <2>2, ZenonT(40) DEF Register, Return, ghosts
  <2>3. ASSUME NEW cc \in Conn,
               \/ Load(cc) \/ Send(cc) \/ ReadFails(cc) \/ Close(cc)
               \/ \E w \in Worker : SweepLoad(cc, w) \/ SweepSend(cc, w)
               \/ Drop(cc)
        PROVE  ~piped
    BY <1>1, <2>3, WorkerStreams, Zenon DEF ghosts
  <2>4. ASSUME UNCHANGED vars PROVE ~piped
    BY <2>4, Zenon DEF vars, ghosts
  <2> QED
    BY <2>1, <2>2, <2>3, <2>4, Steps, ZenonT(40)
<1>3. BufsInv /\ SentInv /\ DeliveryInv
  BY <1>2, Zenon DEF AnswerInv
<1>4. BufsInv' /\ SentInv'
  BY <1>3, BufsStep, SentStep, Zenon
<1>5. DeliveryInv'
  <2>1. ASSUME NEW c \in Caller, InBetween(c) \/ Register(c) \/ Return(c) PROVE DeliveryInv'
    BY <1>3, <2>1, DeliveryAfterBetween, DeliveryAfterRegister, DeliveryAfterReturn, ZenonT(40)
  <2>2. ASSUME NEW cc \in Conn,
               \/ Load(cc) \/ Send(cc) \/ ReadFails(cc) \/ Close(cc)
               \/ \E w \in Worker : SweepLoad(cc, w) \/ SweepSend(cc, w)
               \/ Drop(cc)
        PROVE  DeliveryInv'
    <3>1. UNCHANGED <<call, gaveUp>>
      BY <1>1, <2>2, WorkerStreams, Zenon DEF ghosts
    <3>2. Loads(cc) \/ Sends(cc) \/ Fails
      BY <1>1, <2>2, LoadMoves, SendMoves, FailMoves, ZenonT(40)
    <3> QED
      BY <1>1, <1>3, <3>1, <3>2, DeliveryAfterWorker, Zenon
  <2>3. ASSUME UNCHANGED vars PROVE DeliveryInv'
    <3>1. UNCHANGED <<call, inCh, proc, gaveUp>>
      BY <2>3, Zenon DEF vars, pools, ghosts
    <3>2. \A d \in Caller : KeepsStreams(d)
      BY <3>1, Zenon DEF KeepsStreams
    <3>3. \A d \in Caller : \A j \in DOMAIN call'[d].res :
              j \in DOMAIN call[d].res /\ call'[d].res[j] = call[d].res[j]
      BY <3>1, Zenon
    <3> QED
      BY <1>1, <1>3, <3>1, <3>2, <3>3, DeliveryKept, Zenon
  <2> QED
    BY <2>1, <2>2, <2>3, Steps, ZenonT(40)
<1> QED
  BY <1>4, <1>5, Zenon

\* A new client has no streams, no frames and nothing in a channel.
LEMMA InitAnswer == Init => IdsInv /\ AnswerInv
<1> SUFFICES ASSUME Init PROVE IdsInv /\ BufsInv /\ SentInv /\ DeliveryInv
  BY Zenon DEF AnswerInv
<1>1. /\ call = [c \in Caller |-> Idle] /\ inCh = [ch \in Chan |-> <<>>]
      /\ bufPool = [b \in Buf |-> 0] /\ wire = [cc \in Conn |-> <<>>]
      /\ proc = [cc \in Conn |-> [w \in Worker |->
                   [at |-> IF w = "reader" THEN "loop" ELSE "off",
                    ch |-> NoChan, msg |-> Failed, id |-> 0, todo |-> {}]]]
  BY Zenon DEF Init
<1>2. Idle.ids = <<>> /\ Idle.res = <<>> /\ Idle.pc = "idle"
  BY Zenon DEF Idle
<1>3. \A c \in Caller : call[c].ids = <<>> /\ call[c].res = <<>> /\ call[c].pc = "idle"
  <2>1. \A c \in Caller : call[c] = Idle
    BY <1>1, ZenonT(40)
  <2> QED
    BY <1>2, <2>1, Zenon
<1>4. \A cc \in Conn : proc[cc]["reader"].at = "loop"
  BY <1>1, Zenon DEF Worker
<1>5. IdsInv
  <2>1. \A c \in Caller : Requests(c) = {} /\ DOMAIN call[c].ids = {}
    BY <1>3 DEF Requests
  <2> QED
    BY <2>1, Zenon DEF IdsInv, IsInjective
<1>6. BufsInv
  <2>1. \A c \in Caller : ~Encoding(c)
    BY <1>3, Zenon DEF Encoding
  <2>2. \A b \in Buf : bufPool[b] <= 1
    BY <1>1
  <2> QED
    BY <2>1, <2>2, ZenonT(40) DEF BufsInv
<1>7. SentInv
  <2>1. \A cc \in Conn : DOMAIN wire[cc] = {}
    BY <1>1
  <2>2. \A cc \in Conn : WireInv(cc) /\ HandInv(cc)
    BY <1>4, <2>1, Zenon DEF WireInv, HandInv
  <2>3. ASSUME NEW x \in Conn \X Nat PROVE ~OnWire(x) /\ ~InHand(x) /\ ~Arrived(x)
    <3>1. x[1] \in Conn
      BY Zenon
    <3>2. ~OnWire(x)
      BY <2>1, <3>1, Zenon DEF OnWire
    <3>3. ~InHand(x)
      BY <1>4, <3>1, Zenon DEF InHand
    <3>4. ~Arrived(x)
      <4>1. \A c \in Caller : Range(call[c].res) = {}
        BY <1>3 DEF Range
      <4>2. \A ch \in Chan : inCh[ch] = <<>>
        BY <1>1, Zenon
      <4> QED
        BY <4>1, <4>2, ZenonT(40) DEF Arrived
    <3> QED
      BY <3>2, <3>3, <3>4, Zenon
  <2> QED
    BY <2>2, <2>3, ZenonT(40) DEF SentInv, OnePlace
<1>8. DeliveryInv
  <2>1. \A ch \in Chan : inCh[ch] = <<>>
    BY <1>1, Zenon
  <2>2. \A c \in Caller : DOMAIN call[c].res = {}
    BY <1>3
  <2>3. \A cc \in Conn : proc[cc]["reader"].at # "send"
    BY <1>4, Zenon
  <2> QED
    BY <2>1, <2>2, <2>3, ZenonT(40) DEF DeliveryInv
<1> QED
  BY <1>5, <1>6, <1>7, <1>8, Zenon

-----------------------------------------------------------------------------
INSTANCE FiniteSetTheorems

\* LeastOf chooses in its argument.
LEMMA LeastIn ==
    ASSUME NEW S \in SUBSET Nat
    PROVE  LeastOf(S) \subseteq S
<1>1. CASE S = {}
  BY <1>1, Zenon DEF LeastOf
<1>2. CASE S # {}
  <2>1. PICK x \in S : \A y \in S : <<y, x>> \notin OpToRel(<, Nat)
    BY <1>2, NatLessThanWellFounded, WFMin, Zenon
  <2>2. ASSUME NEW y \in S PROVE x <= y
    <3>1. ~(y < x)
      BY <2>1, Zenon DEF OpToRel
    <3> QED
      BY <3>1
  <2>3. (CHOOSE z \in S : \A y \in S : z <= y) \in S
    BY <2>2, Zenon
  <2> QED
    BY <1>2, <2>3, Zenon DEF LeastOf
<1> QED
  BY <1>1, <1>2, Zenon

\* A sequence has finitely many places.
LEMMA CountedFact == Counted
<1>1. Cardinality({}) = 0 /\ \A i : Cardinality({i}) = 1
  BY FS_EmptySet, FS_Singleton, Zenon
<1>2. ASSUME NEW s \in Seq(Buf), NEW b \in Buf PROVE Cardinality(Places(s, b)) \in Nat
  <2>1. DOMAIN s = 1 .. Len(s) /\ Len(s) \in Int
    OBVIOUS
  <2>2. IsFiniteSet(DOMAIN s)
    BY <2>1, FS_Interval
  <2>3. Places(s, b) \subseteq DOMAIN s
    BY Zenon DEF Places
  <2> QED
    BY <2>2, <2>3, FS_Subset, FS_CardinalityType, Zenon
<1> QED
  BY <1>1, <1>2, LeastIn, Zenon DEF Counted

\* BaseInv is an invariant.
LEMMA BaseSound == Spec => []BaseInv
BY CountedFact, InitBase, BaseStep, PTL DEF Spec

(* For any number of goroutines, connections and channels: no channel is in   *)
(* respChPool while a stream of a pendingMap names it, and no two goroutines   *)
(* wait on one.                                                                *)
THEOREM ChannelsHaveOneOwner == Spec => []ChannelsOwned
<1>1. BaseInv => ChannelsOwned
  BY Zenon DEF BaseInv, OwnInv
<1> QED
  BY <1>1, BaseSound, PTL

(* For any number of goroutines, connections, channels, buffers and streams:  *)
(* what do and ReadResponses return for a request is its own answer, an error *)
(* of the connection, or the answer to a request whose caller had stopped     *)
(* waiting, as long as no pipeline has put its buffers back twice.            *)
THEOREM StraysExplained == Spec => []StrayOnlyAfterGivingUp
<1> DEFINE I == BaseInv /\ IdsInv /\ AnswerInv
<1>1. Init => I
  BY CountedFact, InitBase, InitAnswer, Zenon
<1>2. I /\ [Next]_vars => I'
  BY BaseStep, IdsStep, AnswerStep, Zenon
<1>3. I => StrayOnlyAfterGivingUp
  <2> SUFFICES ASSUME I, ~piped, NEW c \in Caller, NEW i \in DOMAIN call[c].res
               PROVE  call[c].res[i] \in {Request(call[c], i), Failed} \cup gaveUp
    BY Zenon DEF StrayOnlyAfterGivingUp
  <2> QED
    BY Zenon DEF AnswerInv, DeliveryInv
<1> QED
  BY <1>1, <1>2, <1>3, PTL DEF Spec
=============================================================================
