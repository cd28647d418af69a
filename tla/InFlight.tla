------------------------------ MODULE InFlight ------------------------------
(***************************************************************************)
(* The calls that goroutines have under way: how many of each message,     *)
(* equal ones included.  (Bags without the standard module, which the      *)
(* prover cannot load next to its theorems on finite sets.)                *)
(***************************************************************************)
LOCAL INSTANCE Integers
LOCAL INSTANCE Functions

NoCalls == [m \in {} |-> 0]

IsCalls(calls, S) ==
    /\ DOMAIN calls \subseteq S
    /\ calls \in [DOMAIN calls -> Nat \ {0}]

Copies(calls, m) == IF m \in DOMAIN calls THEN calls[m] ELSE 0

\* One more of each message in S.
Start(calls, S) ==
    [m \in DOMAIN calls \cup S |-> Copies(calls, m) + (IF m \in S THEN 1 ELSE 0)]

\* One of the messages m is handled.
Finish(calls, m) ==
    [n \in {d \in DOMAIN calls : d # m \/ calls[d] > 1} |->
        IF n = m THEN calls[n] - 1 ELSE calls[n]]

CallCount(calls) == SumFunction(calls)
=============================================================================
