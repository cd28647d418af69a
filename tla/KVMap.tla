------------------------------- MODULE KVMap -------------------------------
(***************************************************************************)
(* What the string operations of the cache promise to their callers when   *)
(* there is no eviction and no expiry: a map from keys to values on which  *)
(* each call takes effect in one step between its invocation and its       *)
(* return.  Shard tables, resizing and migration are not visible.          *)
(***************************************************************************)
CONSTANTS Goroutine, Key, Value, None

VARIABLES
    map,     \* the value of each key, None when it has none
    request  \* the call each goroutine is in

NoRequest == [call |-> "none", key |-> None, val |-> None, done |-> FALSE]

Init ==
    /\ map \in [Key -> Value \cup {None}]
    /\ request = [g \in Goroutine |-> NoRequest]

Invoke(g, call, key, val) ==
    /\ request[g] = NoRequest
    /\ request' = [request EXCEPT ![g] = [call |-> call, key |-> key, val |-> val, done |-> FALSE]]
    /\ UNCHANGED map

Pending(g, call) == request[g].call = call /\ ~request[g].done

\* A Set writes its value, a Del writes none.
Write(g) ==
    /\ Pending(g, "set") \/ Pending(g, "del")
    /\ map' = [map EXCEPT ![request[g].key] = request[g].val]
    /\ request' = [request EXCEPT ![g].done = TRUE]

\* A Get answers what the map holds.
Read(g) ==
    /\ Pending(g, "get")
    /\ request' = [request EXCEPT ![g].done = TRUE, ![g].val = map[request[g].key]]
    /\ UNCHANGED map

Return(g) ==
    /\ request[g].done
    /\ request' = [request EXCEPT ![g] = NoRequest]
    /\ UNCHANGED map

Next ==
    \E g \in Goroutine :
        \/ \E key \in Key, val \in Value : Invoke(g, "set", key, val)
        \/ \E key \in Key : Invoke(g, "get", key, None) \/ Invoke(g, "del", key, None)
        \/ Write(g) \/ Read(g) \/ Return(g)

Spec == Init /\ [][Next]_<<map, request>>
=============================================================================
