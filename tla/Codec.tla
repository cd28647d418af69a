------------------------------- MODULE Codec -------------------------------
(***************************************************************************)
(* The wire formats of net/protocol.go and net/protocol_ext.go.            *)
(*                                                                         *)
(* A payload is a sequence of cells, the bytes of the code.  A number of w *)
(* bytes is w cells in base Base, 256 in the code, so that with a small    *)
(* Base lengths and counts wrap where the code's uint16, uint32 and uint64 *)
(* conversions do.                                                         *)
(*                                                                         *)
(* Every format has the same shape: a leading cell, a header of fixed      *)
(* width, the texts whose lengths the header gives, and the items of the   *)
(* one list it counts.  A format is a sequence of the fields below, one    *)
(* for each place of the header.  The encoders and the decoders have       *)
(* tables of their own, since they are functions of their own in the code. *)
(***************************************************************************)
EXTENDS Keyspace

CONSTANT Base

ASSUME CodecAssumption == Base \in Nat /\ Base % 2 = 0 /\ Base > 0 /\ Half * 2 = Base^8

Text(w, f) == [kind |-> "text", w |-> w, f |-> f]             \* len(r.f) in w bytes
Num(w, f)  == [kind |-> "num", w |-> w, f |-> f]              \* r.f, signed
Bool(f)    == [kind |-> "bool", w |-> 1, f |-> f]
Float(f)   == [kind |-> "float", w |-> 8, f |-> f]            \* the bits of r.f
List(w, f, ws) == [kind |-> "list", w |-> w, f |-> f, ws |-> ws]
    \* the items of r.f counted in groups of Len(ws), with lengths in ws[i] bytes
Opts(w, f) == [kind |-> "opts", w |-> w, f |-> f]             \* texts or nil
Nums(w, f) == [kind |-> "nums", w |-> w, f |-> f]             \* 8-byte numbers

Malformed == [malformed |-> TRUE]

-----------------------------------------------------------------------------
(* encoding/binary *)

Put_(n, w) == [i \in 1 .. w |-> (n \div Base^(w - i)) % Base]
Get_(cells) == FoldLeft(LAMBDA acc, x : acc * Base + x, 0, cells)

\* intN(x) of an unsigned x of w bytes.
Signed(x, w) == IF 2 * x >= Base^w THEN x - Base^w ELSE x

\* math.Float64bits, of which all that matters is that it can be undone.
FloatBits(x) == <<x, 0, 0, 0, 0, 0, 0, 0>>
FloatFromBits(cells) == cells[1]

Concat(n, Part(_)) == FlattenSeq([i \in 1 .. n |-> Part(i)])

-----------------------------------------------------------------------------
(* Writing the fields of a record. *)

HeaderOf(fd, r) ==
    CASE fd.kind = "text" -> Put_(Len(r[fd.f]), fd.w)
      [] fd.kind = "num"  -> Put_(r[fd.f] % Base^fd.w, fd.w)
      [] fd.kind = "bool" -> <<IF r[fd.f] THEN 1 ELSE 0>>
      [] fd.kind = "float" -> FloatBits(r[fd.f])
      [] fd.kind = "list" -> Put_(Len(r[fd.f]) \div Len(fd.ws), fd.w)
      [] OTHER            -> Put_(Len(r[fd.f]), fd.w)

TextOf(fd, r) == IF fd.kind = "text" THEN r[fd.f] ELSE <<>>

\* The width of the length of the i-th item of a list.
ItemWidth(ws, i) == ws[((i - 1) % Len(ws)) + 1]

ItemsOf(fd, r) ==
    LET Item(i) ==
            LET x == r[fd.f][i]
            IN  CASE fd.kind = "list" -> Put_(Len(x), ItemWidth(fd.ws, i)) \o x
                  [] fd.kind = "opts" -> IF x = Absent THEN <<0>> ELSE <<1>> \o Put_(Len(x), 4) \o x
                  [] fd.kind = "nums" -> Put_(x % Base^8, 8)
        n == CASE fd.kind = "list" -> Len(fd.ws) * (Len(r[fd.f]) \div Len(fd.ws))
               [] fd.kind \in {"opts", "nums"} -> Len(r[fd.f])
               [] OTHER -> 0
    IN  Concat(n, Item)

Write(lead, format, r) ==
    <<lead>> \o Concat(Len(format), LAMBDA i : HeaderOf(format[i], r))
             \o Concat(Len(format), LAMBDA i : TextOf(format[i], r))
             \o Concat(Len(format), LAMBDA i : ItemsOf(format[i], r))

-----------------------------------------------------------------------------
(* Reading them back.  A text or an item that does not fit in the payload  *)
(* makes a request malformed; in a response the rest is left out.          *)

SumOf(n, W(_)) == FoldLeft(LAMBDA acc, i : acc + W(i), 0, [i \in 1 .. n |-> i])

\* One more item of a list: acc holds the items so far and the next offset.
ReadText(acc, p, w) ==
    LET len == Get_(SubSeq(p, acc.off, acc.off + w - 1))
        end == acc.off + w + len
    IN  IF acc.bad \/ acc.off + w - 1 > Len(p) \/ end - 1 > Len(p)
        THEN [acc EXCEPT !.bad = TRUE]
        ELSE [acc EXCEPT !.items = Append(@, SubSeq(p, acc.off + w, end - 1)), !.off = end]

ReadItem(acc, p, fd, i) ==
    CASE fd.kind = "list" -> ReadText(acc, p, ItemWidth(fd.ws, i))
      [] fd.kind = "opts" ->
            IF p[acc.off] = 0
            THEN [acc EXCEPT !.items = Append(@, Absent), !.off = @ + 1]
            ELSE ReadText([acc EXCEPT !.off = @ + 1], p, 4)
      [] fd.kind = "nums" ->
            [acc EXCEPT !.items = Append(@, Signed(Get_(SubSeq(p, acc.off, acc.off + 7)), 8)),
                        !.off = @ + 8]

ReadItems(p, fd, count, off) ==
    LET n == IF fd.kind = "list" THEN count * Len(fd.ws) ELSE count
    IN  FoldLeft(LAMBDA acc, i : ReadItem(acc, p, fd, i),
                 [items |-> <<>>, off |-> off, bad |-> FALSE], [i \in 1 .. n |-> i])

\* The record of a payload, with the fields that the format names.
Read(format, p) ==
    LET n        == Len(format)
        Width(i) == format[i].w
        At_(i)   == 2 + SumOf(i - 1, Width)
        nums     == [i \in 1 .. n |-> Get_(SubSeq(p, At_(i), At_(i) + Width(i) - 1))]
        TextLen(i) == IF format[i].kind = "text" THEN nums[i] ELSE 0
        Start(i) == At_(n + 1) + SumOf(i - 1, TextLen)
        items    == [i \in 1 .. n |->
                        IF format[i].kind \in {"list", "opts", "nums"}
                        THEN ReadItems(p, format[i], nums[i], Start(n + 1))
                        ELSE [items |-> <<>>, bad |-> FALSE]]
        Value(i) ==
            CASE format[i].kind = "text" -> SubSeq(p, Start(i), Start(i) + nums[i] - 1)
              [] format[i].kind = "num"  -> Signed(nums[i], Width(i))
              [] format[i].kind = "bool" -> nums[i] # 0
              [] format[i].kind = "float" -> FloatFromBits(SubSeq(p, At_(i), At_(i) + 7))
              [] OTHER -> items[i].items
        bad      == \/ At_(n + 1) - 1 > Len(p)
                    \/ Start(n + 1) - 1 > Len(p)
                    \/ \E i \in 1 .. n : items[i].bad
    IN  IF bad
        THEN Malformed
        ELSE [f \in {format[i].f : i \in 1 .. n} |->
                  Value(CHOOSE i \in 1 .. n : format[i].f = f)]

-----------------------------------------------------------------------------
(* The command codes and the four families. *)

SetCmd == [SAdd |-> 10, SRem |-> 11, SIsMember |-> 12, SMembers |-> 13, SCard |-> 14,
           SPop |-> 15, SRandMember |-> 16, SUnion |-> 17, SInter |-> 18, SDiff |-> 19]

HashCmd == [HSet |-> 32, HGet |-> 33, HDel |-> 34, HExists |-> 35, HGetAll |-> 36,
            HKeys |-> 37, HVals |-> 38, HLen |-> 39, HStrLen |-> 40, HIncrBy |-> 41,
            HIncrByFloat |-> 42, HMGet |-> 43, HMSet |-> 44, HSetNX |-> 45]

ListCmd == [LPush |-> 48, RPush |-> 49, LPop |-> 50, RPop |-> 51, LLen |-> 52,
            LRange |-> 53, LIndex |-> 54, LSet |-> 55, LRem |-> 56, LTrim |-> 57,
            LInsert |-> 58, BLPop |-> 59, BRPop |-> 60, LPos |-> 61]

KeyCmd == [Exists |-> 64, Type |-> 65, Expire |-> 66, ExpireAt |-> 67, PExpire |-> 68,
           PExpireAt |-> 69, TTL |-> 70, PTTL |-> 71, Persist |-> 72, Keys |-> 73]

KVCmd == [Get |-> 1, Set |-> 2, Del |-> 3, Len |-> 4, Cleanup |-> 5]

Cmd == SetCmd @@ HashCmd @@ ListCmd @@ KeyCmd @@ KVCmd

NameOf(code) == CHOOSE name \in DOMAIN Cmd : Cmd[name] = code

IsSetCmd(code)  == code \in 10 .. 19
IsHashCmd(code) == code \in 32 .. 45
IsListCmd(code) == code \in 48 .. 61

StatusOK       == 0
StatusErr      == 1
StatusNotFound == 2

-----------------------------------------------------------------------------
(* The string and key commands: Request and Response. *)

EncodeRequest(c) ==
    Write(Cmd[c.cmd], <<Text(2, "key"), Text(4, "value"), Num(8, "ttl")>>, c)

\* An empty value is nil.
DecodeRequest(p) ==
    LET NilIfEmpty(r) == IF r # Malformed /\ r.value = <<>> THEN [r EXCEPT !.value = Nil] ELSE r
    IN  NilIfEmpty(Read(<<Text(2, "key"), Text(4, "value"), Num(8, "ttl")>>, p))

EncodeResponse(resp) == Write(resp.status, <<Text(4, "value"), Text(2, "msg")>>, resp)

DecodeResponse(p) ==
    LET Response(r) ==
            [status |-> p[1], value |-> IF r.value = <<>> THEN Nil ELSE r.value, msg |-> r.msg]
    IN  Response(Read(<<Text(4, "value"), Text(2, "msg")>>, p))

-----------------------------------------------------------------------------
(* Sets: SetRequest and SetResponse.  Each function of the code is a table *)
(* of the formats it writes or reads.                                      *)

EncodeSetRequest(cmd) ==
    CASE cmd \in {"SMembers", "SCard", "SPop"}   -> <<Text(2, "key")>>
      [] cmd \in {"SAdd", "SRem"}                -> <<Text(2, "key"), List(4, "elems", <<4>>)>>
      [] cmd = "SIsMember"                       -> <<Text(2, "key"), Text(4, "elem")>>
      [] cmd = "SRandMember"                     -> <<Text(2, "key"), Num(4, "count")>>
      [] cmd \in {"SUnion", "SInter", "SDiff"}   -> <<List(2, "keys", <<2>>)>>

DecodeSetRequest(cmd) ==
    CASE cmd \in {"SMembers", "SCard", "SPop"}   -> <<Text(2, "key")>>
      [] cmd \in {"SAdd", "SRem"}                -> <<Text(2, "key"), List(4, "elems", <<4>>)>>
      [] cmd = "SIsMember"                       -> <<Text(2, "key"), Text(4, "elem")>>
      [] cmd = "SRandMember"                     -> <<Text(2, "key"), Num(4, "count")>>
      [] cmd \in {"SUnion", "SInter", "SDiff"}   -> <<List(2, "keys", <<2>>)>>

EncodeSetResponse(cmd) ==
    CASE cmd \in {"SAdd", "SRem", "SCard"} -> <<Num(8, "res")>>
      [] cmd = "SIsMember"                 -> <<Bool("res")>>
      [] cmd = "SPop"                      -> <<Text(2, "res")>>
      [] OTHER                             -> <<List(4, "res", <<2>>)>>

\* The error branch takes the rest of the payload for the message, whatever
\* the encoder wrote there.
DecodeSetResponse(cmd) ==
    CASE cmd \in {"SAdd", "SRem", "SCard"} -> <<Num(8, "res")>>
      [] cmd = "SIsMember"                 -> <<Bool("res")>>
      [] cmd = "SPop"                      -> <<Text(2, "res")>>
      [] OTHER                             -> <<List(4, "res", <<2>>)>>

-----------------------------------------------------------------------------
(* Hashes: HashRequest and HashResponse. *)

EncodeHashRequest(cmd) ==
    CASE cmd \in {"HGetAll", "HKeys", "HVals", "HLen"} -> <<Text(2, "key")>>
      [] cmd \in {"HGet", "HExists", "HStrLen"} -> <<Text(2, "key"), Text(2, "field")>>
      [] cmd \in {"HSet", "HSetNX"} -> <<Text(2, "key"), Text(2, "field"), Text(4, "value")>>
      [] cmd \in {"HDel", "HMGet"} -> <<Text(2, "key"), List(2, "fields", <<2>>)>>
      [] cmd = "HIncrBy" -> <<Text(2, "key"), Text(2, "field"), Num(8, "delta")>>
      [] cmd = "HIncrByFloat" -> <<Text(2, "key"), Text(2, "field"), Float("delta")>>
      [] cmd = "HMSet" -> <<Text(2, "key"), List(2, "fvPairs", <<2, 2>>)>>

DecodeHashRequest(cmd) ==
    CASE cmd \in {"HGetAll", "HKeys", "HVals", "HLen"} -> <<Text(2, "key")>>
      [] cmd \in {"HGet", "HExists", "HStrLen"} -> <<Text(2, "key"), Text(2, "field")>>
      [] cmd \in {"HSet", "HSetNX"} -> <<Text(2, "key"), Text(2, "field"), Text(4, "value")>>
      [] cmd \in {"HDel", "HMGet"} -> <<Text(2, "key"), List(2, "fields", <<2>>)>>
      [] cmd = "HIncrBy" -> <<Text(2, "key"), Text(2, "field"), Num(8, "delta")>>
      [] cmd = "HIncrByFloat" -> <<Text(2, "key"), Text(2, "field"), Float("delta")>>
      [] cmd = "HMSet" -> <<Text(2, "key"), List(2, "fvPairs", <<2, 2>>)>>

\* HGetAll writes its map as a list of fields and values.
EncodeHashResponse(cmd) ==
    CASE cmd \in {"HSet", "HDel", "HLen", "HStrLen", "HIncrBy"} -> <<Num(8, "res")>>
      [] cmd = "HIncrByFloat"          -> <<Float("res")>>
      [] cmd \in {"HExists", "HSetNX"} -> <<Bool("res")>>
      [] cmd = "HGet"                  -> <<Text(4, "res")>>
      [] cmd = "HGetAll"               -> <<List(4, "res", <<2, 4>>)>>
      [] cmd \in {"HKeys", "HVals"}    -> <<List(4, "res", <<2>>)>>
      [] cmd = "HMGet"                 -> <<Opts(4, "res")>>
      [] cmd = "HMSet"                 -> <<>>

DecodeHashResponse(cmd) ==
    CASE cmd \in {"HSet", "HDel", "HLen", "HStrLen", "HIncrBy"} -> <<Num(8, "res")>>
      [] cmd = "HIncrByFloat"          -> <<Float("res")>>
      [] cmd \in {"HExists", "HSetNX"} -> <<Bool("res")>>
      [] cmd = "HGet"                  -> <<Text(4, "res")>>
      [] cmd = "HGetAll"               -> <<List(4, "res", <<2, 4>>)>>
      [] cmd \in {"HKeys", "HVals"}    -> <<List(4, "res", <<2>>)>>
      [] cmd = "HMGet"                 -> <<Opts(4, "res")>>
      [] cmd = "HMSet"                 -> <<>>

-----------------------------------------------------------------------------
(* Lists: ListRequest and ListResponse.  The timeout of a blocking pop is  *)
(* the ttl of the call.                                                    *)

EncodeListRequest(cmd) ==
    CASE cmd \in {"LPop", "RPop", "LLen"} -> <<Text(2, "key")>>
      [] cmd \in {"LPush", "RPush"} -> <<Text(2, "key"), List(4, "elems", <<2>>)>>
      [] cmd \in {"LRange", "LTrim"} -> <<Text(2, "key"), Num(8, "start"), Num(8, "stop")>>
      [] cmd = "LIndex"  -> <<Text(2, "key"), Num(8, "index")>>
      [] cmd = "LSet"    -> <<Text(2, "key"), Num(8, "index"), Text(4, "value")>>
      [] cmd = "LRem"    -> <<Text(2, "key"), Num(8, "count"), Text(4, "value")>>
      [] cmd = "LInsert" -> <<Text(2, "key"), Bool("before"), Text(2, "pivot"), Text(4, "value")>>
      [] cmd \in {"BLPop", "BRPop"} -> <<Text(2, "key"), Num(8, "ttl")>>
      [] cmd = "LPos"    -> <<Text(2, "key"), Num(8, "rank"), Num(8, "count"), Num(8, "maxLen"),
                              Text(4, "value")>>

DecodeListRequest(cmd) ==
    CASE cmd \in {"LPop", "RPop", "LLen"} -> <<Text(2, "key")>>
      [] cmd \in {"LPush", "RPush"} -> <<Text(2, "key"), List(4, "elems", <<2>>)>>
      [] cmd \in {"LRange", "LTrim"} -> <<Text(2, "key"), Num(8, "start"), Num(8, "stop")>>
      [] cmd = "LIndex"  -> <<Text(2, "key"), Num(8, "index")>>
      [] cmd = "LSet"    -> <<Text(2, "key"), Num(8, "index"), Text(4, "value")>>
      [] cmd = "LRem"    -> <<Text(2, "key"), Num(8, "count"), Text(4, "value")>>
      [] cmd = "LInsert" -> <<Text(2, "key"), Bool("before"), Text(2, "pivot"), Text(4, "value")>>
      [] cmd \in {"BLPop", "BRPop"} -> <<Text(2, "key"), Num(8, "ttl")>>
      [] cmd = "LPos"    -> <<Text(2, "key"), Num(8, "rank"), Num(8, "count"), Num(8, "maxLen"),
                              Text(4, "value")>>

EncodeListResponse(cmd) ==
    CASE cmd \in {"LPush", "RPush", "LLen", "LRem", "LInsert"}     -> <<Num(8, "res")>>
      [] cmd \in {"LPop", "RPop", "BLPop", "BRPop", "LIndex"}      -> <<Text(4, "res")>>
      [] cmd = "LRange" -> <<List(4, "res", <<2>>)>>
      [] cmd = "LSet"   -> <<Bool("res")>>
      [] cmd = "LTrim"  -> <<>>
      [] cmd = "LPos"   -> <<Nums(4, "res")>>

DecodeListResponse(cmd) ==
    CASE cmd \in {"LPush", "RPush", "LLen", "LRem", "LInsert"}     -> <<Num(8, "res")>>
      [] cmd \in {"LPop", "RPop", "BLPop", "BRPop", "LIndex"}      -> <<Text(4, "res")>>
      [] cmd = "LRange" -> <<List(4, "res", <<2>>)>>
      [] cmd = "LSet"   -> <<Bool("res")>>
      [] cmd = "LTrim"  -> <<>>
      [] cmd = "LPos"   -> <<Nums(4, "res")>>

-----------------------------------------------------------------------------
(* The payloads of the typed families. *)

RequestFormat(cmd) ==
    IF cmd \in DOMAIN SetCmd THEN EncodeSetRequest(cmd)
    ELSE IF cmd \in DOMAIN HashCmd THEN EncodeHashRequest(cmd) ELSE EncodeListRequest(cmd)

EncodeTyped(c) == Write(Cmd[c.cmd], RequestFormat(c.cmd), c)

\* The decoder of the family that handleConn picks from the leading cell.
DecodeTyped(p) ==
    LET cmd == NameOf(p[1])
    IN  Read(IF IsSetCmd(p[1]) THEN DecodeSetRequest(cmd)
             ELSE IF IsHashCmd(p[1]) THEN DecodeHashRequest(cmd) ELSE DecodeListRequest(cmd), p)

\* The zero value of the only field of a response.
ZeroOf(format) ==
    IF format = <<>> THEN <<>>
    ELSE CASE format[1].kind \in {"num", "float"} -> 0 [] format[1].kind = "bool" -> FALSE [] OTHER -> <<>>

\* An error of a hash or list command is its message; one of a set command
\* has the format of the command, with the fields at zero.
EncodeTypedResponse(cmd, resp) ==
    IF cmd \in DOMAIN SetCmd
    THEN LET f == EncodeSetResponse(cmd)
         IN  Write(resp.status, f,
                   IF resp.status = StatusOK THEN resp ELSE [res |-> ZeroOf(f)])
    ELSE IF resp.status = StatusErr THEN Write(StatusErr, <<Text(2, "msg")>>, resp)
    ELSE LET f == IF cmd \in DOMAIN HashCmd THEN EncodeHashResponse(cmd) ELSE EncodeListResponse(cmd)
         IN  Write(resp.status, f,
                   IF resp.status = StatusOK THEN resp ELSE [res |-> ZeroOf(f)])

DecodeTypedResponse(cmd, p) ==
    IF p[1] = StatusErr
    THEN [status |-> StatusErr,
          msg    |-> IF cmd \in DOMAIN SetCmd THEN Tail(p) ELSE Read(<<Text(2, "msg")>>, p).msg]
    ELSE LET f == IF cmd \in DOMAIN SetCmd THEN DecodeSetResponse(cmd)
                  ELSE IF cmd \in DOMAIN HashCmd THEN DecodeHashResponse(cmd)
                  ELSE DecodeListResponse(cmd)
         IN  [status |-> p[1], msg |-> <<>>, res |-> IF f = <<>> THEN <<>> ELSE Read(f, p).res]
=============================================================================
