------------------------------- MODULE Remote -------------------------------
(***************************************************************************)
(* A command from end to end: the client's encoding of a call, the         *)
(* server's decoding and dispatch, the cache, or the Raft log and then the *)
(* cache, the encoding of the answer, and what the client makes of it.     *)
(* Processing is one step here, since handleConn answers one request at a  *)
(* time and the cache's locks make every command atomic; but an entry of   *)
(* the Raft log may be applied after its proposer gave up.  Connections,   *)
(* streams and timeouts are in Rpc, the Raft log is in Raft.               *)
(*                                                                         *)
(* Errors are compared by their text.  ErrNotLeader is the error value     *)
(* that a caller tests for, NotLeader the text a server sends.             *)
(***************************************************************************)
EXTENDS Codec

CONSTANTS
    Calls,       \* the calls that clients make, a function of their kind
    Slow,        \* those whose entry may be applied after raftPropose gave up on it
    Embedded,    \* the calls that the server's own process makes on its cache
    Keys,        \* the keys of those calls
    Values,      \* bound on the values of hashes
    MaxItems,    \* bound on the elements of one key
    MaxNow       \* bound on the clock, for each kind of calls

VARIABLES
    ks,          \* the keyspace of the server's cache
    mode,        \* "direct" without Raft, else the server's role, "leader" or "follower"
    kind,        \* which calls clients make, an index of Calls
    late,        \* the entries of a leader that raftPropose no longer waits for
    wire         \* the response on its way, with its call and what was before it

vars == <<ks, mode, kind, late, wire>>

Silent == [call |-> <<>>]

NotLeader      == <<205>>
ErrNotLeader   == <<206>>
ErrBadResponse == <<207>>
ProposeFailed  == <<208>>
ApplyTimeout   == <<209>>

IsOk(ans) == "ok" \in DOMAIN ans

-----------------------------------------------------------------------------
(* The same call on the cache itself. *)

\* A blocking pop calls the pop that does not block.
PopOf(cmd) == CASE cmd = "BLPop" -> "LPop" [] cmd = "BRPop" -> "RPop" [] OTHER -> cmd

Local(s, c) ==
    CASE c.cmd \in DOMAIN KVCmd   -> CacheKV(s, c)
      [] c.cmd \in DOMAIN KeyCmd  -> CacheKeys(s, c)
      [] c.cmd \in DOMAIN SetCmd  -> CacheSets(s, c)
      [] c.cmd \in DOMAIN HashCmd -> CacheHashes(s, c)
      [] OTHER                    -> CacheLists(s, [c EXCEPT !.cmd = PopOf(@)])

-----------------------------------------------------------------------------
(* The Raft log of the commands that isRaftWriteOp names. *)

\* HSetNX, which mostly reads, is left out.
Mut_isRaftWriteOp(cmd) ==
    cmd \in {"Set", "Del", "Cleanup",
             "SAdd", "SRem", "SPop",
             "HSet", "HDel", "HMSet", "HIncrBy", "HIncrByFloat",
             "LPush", "RPush", "LPop", "RPop", "LSet", "LRem", "LTrim", "LInsert"}

isRaftWriteOp(cmd) ==
    cmd \in {"Set", "Del", "Cleanup",
             "SAdd", "SRem", "SPop",
             "HSet", "HSetNX", "HDel", "HMSet", "HIncrBy", "HIncrByFloat",
             "LPush", "RPush", "LPop", "RPop", "LSet", "LRem", "LTrim", "LInsert"}

\* json.Marshal replaces every byte of a string that is not UTF-8.  Bytes from
\* 128 stand for those; the calls have no well-formed longer sequences.
Utf8(t) == FlattenSeq([i \in DOMAIN t |-> IF t[i] >= 128 THEN <<239, 191, 189>> ELSE <<t[i]>>])

\* RaftCommand through JSON: Value is []byte, kept as it is but nil when empty.
RaftCommand(r) ==
    [f \in DOMAIN r |->
        CASE f \in {"key", "field", "pivot"}        -> Utf8(r[f])
          [] f \in {"elems", "fields", "fvPairs"} -> [i \in DOMAIN r[f] |-> Utf8(r[f][i])]
          [] OTHER                                  -> r[f]]

\* A committed command, on every server.
onRaftApply(s, c) == Local(s, RaftCommand(c))

\* The outcomes of a command on a server of mode m, with the entries it leaves
\* to be applied: a write goes through the log of the leader, behind the entries
\* before it, another role refuses it, and everything else goes to the cache.
\* raftPropose fails when the proposal is refused, or was not applied in time.
Executed(s, l, m, c) ==
    IF m = "direct" \/ ~isRaftWriteOp(c.cmd) THEN {Local(s, c) @@ [late |-> l]}
    ELSE IF m = "follower" THEN {Reads(s, Err(NotLeader)) @@ [late |-> l]}
    ELSE {Reads(s, Err(ProposeFailed)) @@ [late |-> l],
          Reads(s, Err(ApplyTimeout)) @@ [late |-> Append(l, c)]}
         \cup (IF l = <<>> THEN {onRaftApply(s, c) @@ [late |-> l]} ELSE {})

-----------------------------------------------------------------------------
(* Server: the string and key commands. *)

\* Response.Value of an answer x.
KVValue(cmd, x) ==
    CASE cmd \in {"Len", "Cleanup", "TTL", "PTTL"} -> Put_(x % Base^8, 8)
      [] cmd = "Type"            -> <<x>>
      [] cmd = "Keys"            -> Tail(Write(0, <<List(4, "res", <<2>>)>>, [res |-> x]))
      [] cmd \in {"Get", "Set", "Del"} -> x
      [] OTHER                   -> <<IF x THEN 1 ELSE 0>>

\* The arguments that process hands to the cache.
KVArgs(cmd, r) ==
    [cmd |-> cmd, key |-> r.key, value |-> r.value,
     ttl |-> CASE cmd = "Set"                    -> Max({r.ttl, 0}) * Milli
               [] cmd \in {"Expire", "ExpireAt"} -> r.ttl \div Second
               [] OTHER                          -> r.ttl]

\* The errors of raftPropose on a leader.
RaftFailed(ans) == ~IsOk(ans) /\ ans.err \in {ProposeFailed, ApplyTimeout}

\* Under Raft the answer says whether the entry was applied; what applying it
\* returned is dropped.
process(m, cmd, ans) ==
    LET resp == [status |-> StatusOK, value |-> <<>>, msg |-> <<>>]
    IN  IF m = "leader" /\ isRaftWriteOp(cmd) /\ ~RaftFailed(ans) THEN resp
        ELSE IF IsOk(ans) THEN [resp EXCEPT !.value = KVValue(cmd, ans.ok)]
        ELSE IF cmd = "Get" /\ ans.err = ErrKeyNotFound
        THEN [resp EXCEPT !.status = StatusNotFound]
        ELSE [resp EXCEPT !.status = StatusErr, !.msg = ans.err]

-----------------------------------------------------------------------------
(* Server: the typed commands. *)

\* The response for an answer; mayMiss holds the commands for which the server
\* looks for ErrKeyNotFound.
Respond(mayMiss, cmd, ans) ==
    IF IsOk(ans) THEN [status |-> StatusOK, res |-> ans.ok]
    ELSE IF cmd \in mayMiss /\ ans.err = ErrKeyNotFound THEN [status |-> StatusNotFound]
    ELSE [status |-> StatusErr, msg |-> ans.err]

processSet(cmd, ans) == Respond({"SPop"}, cmd, ans)

\* The fields and values of a hash, one after the other.
Flat(h) == LET fs == HKeys(h) IN FlattenSeq([i \in DOMAIN fs |-> <<fs[i], h[fs[i]]>>])

processHash(cmd, ans) ==
    Respond({"HGet", "HGetAll", "HKeys", "HVals"}, cmd,
            IF cmd = "HGetAll" /\ IsOk(ans) THEN Ok(Flat(ans.ok)) ELSE ans)

\* A blocking pop polls until an element comes or the deadline passes, so
\* that with a timeout every error ends as "not found".
bPop(ttl, ans) == IF ttl > 0 /\ ~IsOk(ans) THEN Err(ErrKeyNotFound) ELSE ans

processList(c, ans) ==
    Respond({"LPop", "RPop", "LRange", "LIndex", "LSet", "BLPop", "BRPop"}, c.cmd,
            CASE c.cmd = "LSet" /\ IsOk(ans)    -> Ok(TRUE)
              [] c.cmd \in {"BLPop", "BRPop"} -> bPop(c.ttl, ans)
              [] OTHER                         -> ans)

-----------------------------------------------------------------------------
(* Server: a request. *)

Typed(cmd) == cmd \notin DOMAIN KVCmd \cup DOMAIN KeyCmd

\* The call that a payload asks for.  draw is the random number of the commands
\* that use one.
Requested(p, draw) ==
    IF IsSetCmd(p[1]) \/ IsHashCmd(p[1]) \/ IsListCmd(p[1])
    THEN [cmd |-> NameOf(p[1]), draw |-> draw] @@ DecodeTyped(p)
    ELSE KVArgs(NameOf(p[1]), DecodeRequest(p))

\* The payload of the response to a call c.
Response(m, c, ans) ==
    IF Typed(c.cmd)
    THEN <<Cmd[c.cmd]>> \o EncodeTypedResponse(c.cmd,
             CASE c.cmd \in DOMAIN SetCmd  -> processSet(c.cmd, ans)
               [] c.cmd \in DOMAIN HashCmd -> processHash(c.cmd, ans)
               [] OTHER                    -> processList(c, ans))
    ELSE EncodeResponse(process(m, c.cmd, ans))

-----------------------------------------------------------------------------
(* Client. *)

\* Seconds travel as seconds.
Mut_KVRequest(c) == [c EXCEPT !.ttl = IF c.cmd = "Set" THEN Max({@, 0}) \div Milli ELSE @]

\* The request of a call: a ttl travels in whole milliseconds, and none as 0.
KVRequest(c) ==
    [c EXCEPT !.ttl = CASE c.cmd = "Set"                    -> Max({c.ttl, 0}) \div Milli
                        [] c.cmd \in {"Expire", "ExpireAt"} -> c.ttl * Second
                        [] OTHER                            -> c.ttl]

serverError(msg) == Err(IF msg = NotLeader THEN ErrNotLeader ELSE msg)

\* The helpers of the string commands.
StringAnswer(cmd, resp) ==
    LET v == resp.value
    IN  IF resp.status # StatusOK
        THEN IF cmd = "Get" /\ resp.status = StatusNotFound THEN Err(ErrKeyNotFound)
             ELSE serverError(resp.msg)
        ELSE CASE cmd = "Get"            -> Ok(v)
               [] cmd \in {"Set", "Del"} -> Done
               [] OTHER -> IF Len(v) < 8 THEN Err(ErrBadResponse) ELSE Ok(Signed(Get_(v), 8))

\* The helpers of the key commands do not look for "not leader".
KeyAnswer(cmd, resp) ==
    LET v == resp.value
    IN  IF resp.status # StatusOK THEN Err(resp.msg)
        ELSE CASE cmd \in {"TTL", "PTTL"} -> Ok(IF Len(v) >= 8 THEN Signed(Get_(v), 8) ELSE 0)
               [] cmd = "Type" -> Ok(v[1])
               [] cmd = "Keys" -> Ok(Read(<<List(4, "res", <<2>>)>>, <<0>> \o v).res)
               [] OTHER        -> Ok(v[1] = 1)

SetAnswer(cmd, resp) ==
    CASE resp.status = StatusOK       -> Ok(resp.res)
      [] resp.status = StatusNotFound -> Err(ErrKeyNotFound)
      [] OTHER                        -> serverError(resp.msg)

\* Nor do the helpers of hashes and lists, and some do not tell a missing key
\* from an error without a text.
HashAnswer(cmd, resp) ==
    CASE resp.status = StatusOK ->
            Ok(IF cmd = "HGetAll" THEN HMSet(<<>>, resp.res) ELSE resp.res)
      [] resp.status = StatusNotFound /\ cmd \in {"HGet", "HGetAll"} -> Err(ErrKeyNotFound)
      [] OTHER -> Err(resp.msg)

ListAnswer(cmd, resp) ==
    CASE resp.status = StatusOK -> IF cmd = "LSet" THEN Done ELSE Ok(resp.res)
      [] resp.status = StatusNotFound /\ cmd # "LRange" -> Err(ErrKeyNotFound)
      [] OTHER -> Err(resp.msg)

\* readLoop and the helpers: the answer in a response's payload.
Answer(cmd, p) ==
    LET Plain(resp) ==
            IF cmd \in DOMAIN KVCmd THEN StringAnswer(cmd, resp) ELSE KeyAnswer(cmd, resp)
        OfType(resp) ==
            CASE cmd \in DOMAIN SetCmd  -> SetAnswer(cmd, resp)
              [] cmd \in DOMAIN HashCmd -> HashAnswer(cmd, resp)
              [] OTHER                  -> ListAnswer(cmd, resp)
    IN  IF Typed(cmd) THEN OfType(DecodeTypedResponse(cmd, Tail(p)))
        ELSE Plain(DecodeResponse(p))

\* The payload of a call's request.
Request(c) == IF Typed(c.cmd) THEN EncodeTyped(c) ELSE EncodeRequest(KVRequest(c))

-----------------------------------------------------------------------------
(* The specification: calls, time and Close, on a keyspace of bounded size. *)

Bounded(s) ==
    /\ \A k \in DOMAIN s.lists : Len(s.lists[k]) <= MaxItems
    /\ \A k \in DOMAIN s.hashes : Range(s.hashes[k]) \subseteq Values

Init ==
    /\ ks = [str |-> <<>>, sets |-> <<>>, hashes |-> <<>>, lists |-> <<>>,
             now |-> 4 * Milli, closed |-> FALSE]
    /\ mode \in {"direct", "leader", "follower"}
    /\ kind \in DOMAIN Calls
    /\ late = <<>>
    /\ wire = Silent

\* handleConn with a request for the call c, up to the response.
Handled(c, made, res) ==
    /\ ks' = res.ks
    /\ late' = res.late
    /\ wire' = [call |-> c, before |-> ks, late |-> late, outcome |-> res.ans,
                p |-> Response(mode, made, res.ans)]

Call(c) ==
    /\ wire = Silent /\ Bounded(ks)
    /\ \E made \in {Requested(Request(c), c.draw)} :
         \E res \in Executed(ks, late, mode, made) :
            /\ res.late = late \/ (late = <<>> /\ c \in Slow[kind])
            /\ Handled(c, made, res)
    /\ UNCHANGED <<mode, kind>>

\* The client has made Answer(call.cmd, p) of the response.
Return ==
    /\ wire # Silent
    /\ wire' = Silent
    /\ UNCHANGED <<ks, mode, kind, late>>

\* onRaftApply on a follower, for a command that the leader replicated.
Applied(c) ==
    /\ mode = "follower" /\ wire = Silent /\ Bounded(ks)
    /\ isRaftWriteOp(c.cmd)
    /\ ks' = onRaftApply(ks, Requested(Request(c), c.draw)).ks
    /\ UNCHANGED <<mode, kind, late, wire>>

\* onRaftApply on the leader, for an entry that nobody waits for any more.
AppliedLate ==
    /\ late # <<>> /\ wire = Silent /\ Bounded(ks)
    /\ ks' = onRaftApply(ks, Head(late)).ks
    /\ late' = Tail(late)
    /\ UNCHANGED <<mode, kind, wire>>

\* Such entries may never be committed.
NeverApplied ==
    /\ late # <<>> /\ wire = Silent
    /\ \E n \in 0 .. Len(late) - 1 : late' = SubSeq(late, 1, n)
    /\ UNCHANGED <<ks, mode, kind, wire>>

Embed(c) ==
    /\ wire = Silent /\ Bounded(ks)
    /\ ks' = Local(ks, c).ks
    /\ UNCHANGED <<mode, kind, late, wire>>

Tick ==
    /\ wire = Silent /\ ks.now < MaxNow[kind]
    /\ ks' = [ks EXCEPT !.now = @ + 1]
    /\ UNCHANGED <<mode, kind, late, wire>>

Close ==
    /\ wire = Silent
    /\ ks' = CacheClose(ks)
    /\ UNCHANGED <<mode, kind, late, wire>>

Next ==
    \/ \E c \in Calls[kind] : Call(c)
    \/ Return
    \/ \E c \in Calls[kind] : Applied(c)
    \/ AppliedLate
    \/ NeverApplied
    \/ \E c \in Embedded[kind] : Embed(c)
    \/ Tick
    \/ Close

Spec == Init /\ [][Next]_vars

-----------------------------------------------------------------------------
(* Properties. *)

\* The same outcome, where an empty byte slice arrives as nil.
Agrees(local, remote) ==
    IF IsOk(local)
    THEN remote = local \/ (local = Ok(<<>>) /\ remote = Ok(Nil))
    ELSE ~IsOk(remote)

\* A ttl under a millisecond, which travels as no ttl.
Short(c) == c.cmd = "Set" /\ c.ttl \in 1 .. Milli - 1

\* The same effect, where an entry may expire less than a millisecond early, or
\* never if its ttl is short.
SameEffect(c, here) ==
    \/ ks = here
    \/ Short(c) /\ ks = [here EXCEPT !.str[c.key].exp = 0]
    \/ /\ c.cmd = "Set" /\ c.ttl > Milli
       /\ \E e \in 1 .. Milli - 1 : ks = [here EXCEPT !.str[c.key].exp = @ - e]

\* A remote command does to the cache, and answers, what the method of Cache
\* of the same name does: client.go and client_ext.go, the codecs and the
\* server's dispatch together are a faithful carrier of every command, for
\* arguments whose lengths fit their fields and whose strings are UTF-8.  The
\* exceptions are those of the code: an empty value is not stored, a ttl under a
\* millisecond is lost, under Raft the answer to a string write tells nothing of
\* its outcome, and raftPropose may fail.
RemoteAsLocal ==
    LET c     == wire.call
        write == mode # "direct" /\ isRaftWriteOp(c.cmd)
        Alike(here, ans) ==
            IF write /\ (mode = "follower" \/ RaftFailed(wire.outcome))
            THEN ks = wire.before /\ ~IsOk(ans)
            ELSE IF c.cmd = "Set" /\ c.value = <<>> THEN ks = wire.before
            ELSE /\ SameEffect(c, here.ks)
                 /\ (write /\ c.cmd \in DOMAIN KVCmd) \/ Agrees(here.ans, ans)
    IN  (wire # Silent /\ (write => RaftCommand(c) = c))
            => Alike(Local(wire.before, c), Answer(c.cmd, wire.p))

\* What commands can see of the keyspace.
Visible(s) == [s EXCEPT !.str = Without(@, Expired(s))]

\* A command that the client reports as failed has changed nothing that any
\* command can see, and leaves nothing that will, but for "raft apply timeout":
\* no error path of the cache, of raftPropose, of the dispatch or of the codecs
\* comes after a change.
FailedCallChangesNothing ==
    (wire # Silent /\ ~IsOk(Answer(wire.call.cmd, wire.p))) =>
        /\ Visible(ks) = Visible(wire.before)
        /\ late = wire.late \/ wire.outcome = Err(ApplyTimeout)

\* EXISTS, TYPE and KEYS read four maps under four locks, each with its own test
\* for expiry: for every key they agree on whether it exists.  GET and TTL, which
\* read the map of the strings only, agree with TYPE on which keys are strings.
KeyViewsAgree ==
    wire = Silent => \A k \in Keys \ {<<>>} :
        /\ keyExists(ks, k) <=> keyType(ks, k) # 0
        /\ keyExists(ks, k) <=> k \in ToSet(matchKeys(ks, <<42>>))
        /\ keyType(ks, k) = 1 <=> IsOk(get(ks, k).ans)
        /\ keyType(ks, k) = 1 <=> ttlMillis(ks, k) # -2

\* HINCRBY with a delta and then with its negation restores the value of a
\* field that holds a number, across the wrap-around of int64.
IncrementUndone ==
    \A c \in Calls[kind] :
        (wire = Silent /\ c.cmd = "HIncrBy") =>
            \A k \in DOMAIN ks.hashes : \A f \in DOMAIN ks.hashes[k] :
                LET once == HIncrBy(ks.hashes[k], f, c.delta)
                    back == HIncrBy(once.v, f, -c.delta)
                IN  once.r # ParseError =>
                        ParseInt(back.v[f]) = ParseInt(ks.hashes[k][f])

\* After LTRIM the list is what LRANGE gave for the same range before, for
\* ranges that are negative, reversed or past either end.
TrimKeepsRange ==
    wire = Silent => \A k \in DOMAIN ks.lists : \A i, j \in -(MaxItems + 1) .. MaxItems + 1 :
        LTrim(ks.lists[k], i, j) = LRange(ks.lists[k], i, j)

\* With Raft a node that is not the leader refuses every write that isRaftWriteOp
\* is meant to name: no client's command changes what commands see there, but
\* for the ones that set a key's expiry and the blocking pops, which the server
\* runs on its own cache.
FollowerRefusesWrites ==
    (mode = "follower" /\ wire # Silent
     /\ wire.call.cmd \notin {"Expire", "PExpire", "ExpireAt", "PExpireAt", "Persist",
                             "BLPop", "BRPop"})
        => Visible(ks) = Visible(wire.before)

-----------------------------------------------------------------------------
(* What comments and docs say, and the code does not do. *)

\* The comments of Cache.Set and Request.TTL: a ttl of 0 is the default one.
ZeroIsDefault ==
    LET c == wire.call
    IN  (wire # Silent /\ c.cmd = "Set" /\ c.ttl = 0 /\ IsOk(Answer(c.cmd, wire.p))
         /\ c.key \in DOMAIN ks.str)
            => ks.str[c.key].exp = newEntry(ks, c.value, DefaultTTL).exp

\* docs/core-cache.md: a positive ttl is the one that is used, so that the entry
\* is gone when it is over.
TTLIsUsed ==
    LET c == wire.call
    IN  (wire # Silent /\ c.cmd = "Set" /\ c.ttl > 0 /\ IsOk(Answer(c.cmd, wire.p))
         /\ c.key \in DOMAIN ks.str)
            => ks.str[c.key].exp # 0

\* The comment of Cache.TTL: -2 is the answer for a key that does not exist.
TTLKnowsKeys ==
    \A k \in Keys \ {<<>>} : keyExists(ks, k) => ttlSeconds(ks, k) # -2
=============================================================================
