------------------------------ MODULE MCRemote ------------------------------
(***************************************************************************)
(* Remote with two keys and the empty key, short texts, and indices and    *)
(* counts around the ends of a list of two.  Numbers have eight cells in   *)
(* base 4, so that int64 is -32768 .. 32767.                              *)
(***************************************************************************)
EXTENDS Remote

A == <<97>>
B == <<98>>
X == <<120>>
MaxInt == <<51, 50, 55, 54, 55>>       \* "32767"

MCKeys == {<<>>, A, B}
MCValues == {<<>>, X, <<48>>, <<49>>, MaxInt, <<45, 51, 50, 55, 54, 56>>}

Blank == [cmd |-> "", key |-> A, field |-> X, value |-> <<>>, elems |-> <<X>>, elem |-> X,
          keys |-> <<>>, fields |-> <<>>, fvPairs |-> <<X, X>>, delta |-> 0, count |-> 0,
          draw |-> X, start |-> 0, stop |-> 0, index |-> 0, before |-> FALSE,
          pivot |-> X, rank |-> 0, maxLen |-> 0, ttl |-> 0]

On(cmds, keys) == {[Blank EXCEPT !.cmd = m, !.key = k] : m \in cmds, k \in keys}

StringCalls ==
    On({"Get", "Del", "Exists", "Type", "TTL", "PTTL", "Persist"}, MCKeys)
    \cup On({"Len", "Cleanup"}, {<<>>})
    \cup {[Blank EXCEPT !.cmd = "Set", !.key = k, !.value = v, !.ttl = t] :
              k \in {<<>>, A}, v \in {<<>>, X}, t \in {0, 1, 3}}
    \cup {[Blank EXCEPT !.cmd = m, !.ttl = t] :
              m \in {"Expire", "PExpire"}, t \in {-1, 0, 1}}
    \cup {[Blank EXCEPT !.cmd = m, !.ttl = t] :
              m \in {"ExpireAt", "PExpireAt"}, t \in {2, 3, 5}}
    \cup {[Blank EXCEPT !.cmd = "Keys", !.key = p] : p \in {<<42>>, B}}

\* Keys of every type, and of several at once.
MixedCalls ==
    On({"Get", "Del", "Exists", "Type", "TTL", "SAdd", "SRem", "HSet", "HGetAll", "LPush", "LPop"},
       {A})
    \cup On({"Get", "Exists", "Type", "SAdd", "SRem"}, {B})
    \cup {[Blank EXCEPT !.cmd = "Set", !.key = k, !.value = X, !.ttl = 2] : k \in {A, B}}
    \cup On({"Keys"}, {<<42>>, B}) \cup On({"Len", "Cleanup"}, {<<>>})

Elems == {<<>>, <<X>>, <<X, <<>>>>, <<A, A>>}

\* Two elements of a list are told apart by their place.
Pushed == {<<>>, <<X>>, <<X, <<>>>>, <<A, X>>}

SetCalls ==
    On({"SMembers", "SCard"}, MCKeys) \cup On({"Del"}, {A})
    \cup {[Blank EXCEPT !.cmd = m, !.key = k, !.elems = es] :
              m \in {"SAdd", "SRem"}, k \in MCKeys, es \in Elems}
    \cup {[Blank EXCEPT !.cmd = "SIsMember", !.key = k, !.elem = e] : k \in MCKeys, e \in {<<>>, X}}
    \cup {[Blank EXCEPT !.cmd = "SPop", !.key = k, !.draw = e] : k \in MCKeys, e \in {<<>>, X}}
    \cup {[Blank EXCEPT !.cmd = "SRandMember", !.key = k, !.count = n, !.draw = X] :
              k \in {<<>>, A}, n \in {-2, 0, 1, 9}}
    \cup {[Blank EXCEPT !.cmd = m, !.keys = s] :
              m \in {"SUnion", "SInter", "SDiff"}, s \in {<<>>, <<A, B>>, <<B, A, A>>}}

HashCalls ==
    On({"HGetAll", "HKeys", "HVals", "HLen"}, MCKeys)
    \cup {[Blank EXCEPT !.cmd = m, !.field = f] :
              m \in {"HGet", "HExists", "HStrLen"}, f \in {<<>>, X}}
    \cup {[Blank EXCEPT !.cmd = m, !.key = k, !.value = v] :
              m \in {"HSet", "HSetNX"}, k \in {<<>>, A}, v \in {X, MaxInt}}
    \cup {[Blank EXCEPT !.cmd = m, !.fields = fs] :
              m \in {"HDel", "HMGet"}, fs \in {<<>>, <<X>>, <<X, B, X>>, <<<<200>>>>}}
    \cup {[Blank EXCEPT !.cmd = m, !.key = k, !.delta = d] :
              m \in {"HIncrBy", "HIncrByFloat"}, k \in {A, B}, d \in {1, -1, -32768}}
    \cup {[Blank EXCEPT !.cmd = "HMSet", !.fvPairs = ps] : ps \in {<<>>, <<X>>, <<B, <<>>, X, <<48>>>>}}

ListCalls ==
    On({"LPop", "RPop", "LLen"}, MCKeys) \cup On({"LPush"}, {<<>>})
    \cup {[Blank EXCEPT !.cmd = m, !.elems = es] : m \in {"LPush", "RPush"}, es \in Pushed}
    \cup {[Blank EXCEPT !.cmd = m, !.start = i, !.stop = j] :
              m \in {"LRange", "LTrim"}, i \in {-3, -1, 0, 1}, j \in {-2, 0, 5}}
    \cup {[Blank EXCEPT !.cmd = m, !.index = i, !.value = A] : m \in {"LIndex", "LSet"}, i \in -3 .. 2}
    \cup {[Blank EXCEPT !.cmd = "LRem", !.count = n, !.value = v] : n \in -1 .. 1, v \in {A, X}}
    \cup {[Blank EXCEPT !.cmd = "LInsert", !.before = b, !.value = <<>>] : b \in BOOLEAN}
    \cup {[Blank EXCEPT !.cmd = m, !.ttl = t] : m \in {"BLPop", "BRPop"}, t \in {0, 1}}
    \cup {[Blank EXCEPT !.cmd = "LPos", !.value = X, !.rank = r, !.count = n, !.maxLen = l] :
              r \in {0, 2}, n \in {-1, 0, 1}, l \in {0, 1}}

MCCalls == [string |-> StringCalls, mixed |-> MixedCalls, set |-> SetCalls, hash |-> HashCalls, list |-> ListCalls]

\* Only the string commands depend on the clock.
MCMaxNow == [string |-> 11, mixed |-> 10, set |-> 8, hash |-> 8, list |-> 8]

\* One write of each kind.
MCSlow ==
    [string |-> {[Blank EXCEPT !.cmd = "Set", !.value = X, !.ttl = 3]},
     mixed  |-> {[Blank EXCEPT !.cmd = "Set", !.value = X, !.ttl = 2]},
     set    |-> {[Blank EXCEPT !.cmd = "SAdd"]},
     hash   |-> {[Blank EXCEPT !.cmd = "HIncrBy", !.delta = 1]},
     list   |-> {[Blank EXCEPT !.cmd = "LPop"]}]

\* The server's own process may leave the ttl out and may store empty values.
MCEmbedded ==
    [string |-> {[Blank EXCEPT !.cmd = "Set", !.key = B, !.ttl = NoTTL]},
     mixed |-> {}, set |-> {}, hash |-> {}, list |-> {}]
=============================================================================
