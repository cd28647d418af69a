----------------------------- MODULE DataTypes -----------------------------
(***************************************************************************)
(* The three containers under ds/ as pure operators.  A set is a set, a    *)
(* hash a function from fields to values, a list a sequence.  An operator  *)
(* that models a mutating method returns the new container in v and the    *)
(* method's result in r.                                                   *)
(*                                                                         *)
(* A Go string is the sequence of its bytes, so that the decimal texts     *)
(* that HIncrBy reads and writes are the real ones.  An int64 is an        *)
(* integer in -Half .. Half - 1.  A string result with a found flag is     *)
(* Absent when the flag is false; a result with an error is [ok |-> x] or  *)
(* [err |-> text].                                                         *)
(***************************************************************************)
EXTENDS Integers, SequencesExt

CONSTANT
    Half    \* 2^63 in the code: int64 arithmetic wraps here

ASSUME HalfAssumption == Half \in Nat \ {0}

Absent == <<-1>>

\* The text of an error is one cell that stands for its wording.
ParseError == [err |-> <<200>>]

Put(m, k, v) == (k :> v) @@ m
Without(m, S) == Restrict(m, DOMAIN m \ S)

\* int64 addition.
Wrap(n) == ((n + Half) % (2 * Half)) - Half

-----------------------------------------------------------------------------
(* strconv: decimal texts. *)

Digit(c) == c \in 48 .. 57

Digits[n \in Nat] == IF n < 10 THEN <<48 + n>> ELSE Append(Digits[n \div 10], 48 + (n % 10))

FormatInt(n) == IF n < 0 THEN <<45>> \o Digits[-n] ELSE Digits[n]

\* The value of a text that is an optionally signed run of digits.
Magnitude(t) == FoldLeft(LAMBDA acc, c : 10 * acc + (c - 48), 0, t)

ParseDecimal(t) ==
    LET signed == t # <<>> /\ t[1] \in {43, 45}
        body   == IF signed THEN Tail(t) ELSE t
    IN  IF body = <<>> \/ \E i \in DOMAIN body : ~Digit(body[i])
        THEN ParseError
        ELSE [ok |-> IF signed /\ t[1] = 45 THEN -Magnitude(body) ELSE Magnitude(body)]

Mut_ParseInt(t) ==
    LET p == ParseDecimal(t)
    IN  IF p # ParseError /\ p.ok \notin -Half + 1 .. Half - 1 THEN ParseError ELSE p

ParseInt(t) ==
    LET p == ParseDecimal(t)
    IN  IF p # ParseError /\ p.ok \notin -Half .. Half - 1 THEN ParseError ELSE p

-----------------------------------------------------------------------------
(* ds/set: Set. *)

Add(s, elems) ==
    [v |-> s \cup ToSet(elems), r |-> Cardinality(ToSet(elems) \ s)]

Rem(s, elems) ==
    [v |-> s \ ToSet(elems), r |-> Cardinality(s \cap ToSet(elems))]

\* Pop removes an element at random; draw is the one the generator prefers.
Pop(s, draw) ==
    LET e == IF draw \in s THEN draw ELSE CHOOSE x \in s : TRUE
    IN  IF s = {} THEN [v |-> s, r |-> Absent] ELSE [v |-> s \ {e}, r |-> e]

\* Up to count distinct elements or, for a negative count, -count draws.
RandMember(s, count, draw) ==
    LET elems == IF draw \in s
                 THEN <<draw>> \o SetToSeq(s \ {draw})
                 ELSE SetToSeq(s)
    IN  IF s = {}        THEN <<>>
        ELSE IF count < 0 THEN [i \in 1 .. -count |-> elems[1]]
        ELSE SubSeq(elems, 1, Min({count, Len(elems)}))

-----------------------------------------------------------------------------
(* ds/set: the operations on several sets. *)

Union(sets) == UNION Range(sets)

Inter(sets) ==
    IF sets = <<>>
    THEN {}
    ELSE LET smallest == CHOOSE i \in DOMAIN sets :
                             \A j \in DOMAIN sets :
                                 \/ Cardinality(sets[i]) < Cardinality(sets[j])
                                 \/ Cardinality(sets[i]) = Cardinality(sets[j]) /\ i <= j
         IN  {e \in sets[smallest] : \A j \in DOMAIN sets \ {smallest} : e \in sets[j]}

Diff(sets) ==
    IF sets = <<>> THEN {} ELSE {e \in Head(sets) : \A j \in 2 .. Len(sets) : e \notin sets[j]}

-----------------------------------------------------------------------------
(* ds/hash: Hash. *)

HSet(h, field, value) ==
    [v |-> Put(h, field, value), r |-> IF field \in DOMAIN h THEN 0 ELSE 1]

HSetNX(h, field, value) ==
    IF field \in DOMAIN h
    THEN [v |-> h, r |-> FALSE]
    ELSE [v |-> Put(h, field, value), r |-> TRUE]

HGet(h, field) == IF field \in DOMAIN h THEN h[field] ELSE Absent

HDel(h, fields) ==
    [v |-> Without(h, ToSet(fields)), r |-> Cardinality(DOMAIN h \cap ToSet(fields))]

HExists(h, field) == field \in DOMAIN h

\* The order of a map iteration is not part of any answer.
HKeys(h) == SetToSeq(DOMAIN h)
HVals(h) == LET fs == HKeys(h) IN [i \in DOMAIN fs |-> h[fs[i]]]

HLen(h) == Cardinality(DOMAIN h)

HStrLen(h, field) == IF field \in DOMAIN h THEN Len(h[field]) ELSE 0

Mut_HIncrBy(h, field, delta) ==
    LET p == IF field \in DOMAIN h THEN ParseInt(h[field]) ELSE [ok |-> 0]
    IN  IF p = ParseError
        THEN [v |-> Put(h, field, FormatInt(delta)), r |-> ParseError]
        ELSE [v |-> Put(h, field, FormatInt(Wrap(p.ok + delta))),
              r |-> [ok |-> Wrap(p.ok + delta)]]

HIncrBy(h, field, delta) ==
    LET p == IF field \in DOMAIN h THEN ParseInt(h[field]) ELSE [ok |-> 0]
    IN  IF p = ParseError
        THEN [v |-> h, r |-> ParseError]
        ELSE [v |-> Put(h, field, FormatInt(Wrap(p.ok + delta))),
              r |-> [ok |-> Wrap(p.ok + delta)]]

\* Floats are those with an integer value, which FormatFloat prints like
\* FormatInt; they do not wrap.
HIncrByFloat(h, field, delta) ==
    LET p == IF field \in DOMAIN h THEN ParseDecimal(h[field]) ELSE [ok |-> 0]
    IN  IF p = ParseError
        THEN [v |-> h, r |-> ParseError]
        ELSE [v |-> Put(h, field, FormatInt(p.ok + delta)), r |-> [ok |-> p.ok + delta]]

HMGet(h, fields) == [i \in DOMAIN fields |-> HGet(h, fields[i])]

\* fvPairs alternates fields and values; an odd last field is dropped.
HMSet(h, fvPairs) ==
    FoldLeft(LAMBDA acc, i : Put(acc, fvPairs[2 * i - 1], fvPairs[2 * i]),
             h, [i \in 1 .. Len(fvPairs) \div 2 |-> i])

-----------------------------------------------------------------------------
(* ds/list: List.  Indices are those of the code, from 0. *)

LPush(l, elems) == LET v == Reverse(elems) \o l IN [v |-> v, r |-> Len(v)]
RPush(l, elems) == LET v == l \o elems IN [v |-> v, r |-> Len(v)]

LPop(l) == IF l = <<>> THEN [v |-> l, r |-> Absent] ELSE [v |-> Tail(l), r |-> Head(l)]
RPop(l) == IF l = <<>> THEN [v |-> l, r |-> Absent] ELSE [v |-> Front(l), r |-> Last(l)]

FromEnd(i, n) == IF i < 0 THEN n + i ELSE i

normalizeRange(start, stop, n) ==
    <<Max({FromEnd(start, n), 0}), Min({FromEnd(stop, n), n - 1})>>

LRange(l, start, stop) ==
    LET rng == normalizeRange(start, stop, Len(l))
    IN  IF l = <<>> \/ rng[1] > rng[2] THEN <<>> ELSE SubSeq(l, rng[1] + 1, rng[2] + 1)

LIndex(l, index) ==
    LET i == FromEnd(index, Len(l))
    IN  IF i \in 0 .. Len(l) - 1 THEN l[i + 1] ELSE Absent

LSet(l, index, value) ==
    LET i == FromEnd(index, Len(l))
    IN  IF i \in 0 .. Len(l) - 1
        THEN [v |-> [l EXCEPT ![i + 1] = value], r |-> TRUE]
        ELSE [v |-> l, r |-> FALSE]

\* l without its first max occurrences of value.
DropFirst(l, max, value) ==
    LET Before(i) == Cardinality({j \in 1 .. i - 1 : l[j] = value})
        kept      == {i \in DOMAIN l : l[i] # value \/ Before(i) >= max}
        order     == SetToSortSeq(kept, <)
    IN  [k \in DOMAIN order |-> l[order[k]]]

LRem(l, count, value) ==
    LET v == IF count < 0
             THEN Reverse(DropFirst(Reverse(l), -count, value))
             ELSE DropFirst(l, IF count = 0 THEN Len(l) ELSE count, value)
    IN  [v |-> v, r |-> Len(l) - Len(v)]

Mut_LTrim(l, start, stop) ==
    LET n   == Len(l)
        rng == normalizeRange(start, stop, n)
    IN  IF n = 0             THEN l
        ELSE IF rng[1] > rng[2] THEN <<>>
        ELSE SubSeq(SubSeq(l, rng[1] + 1, n), 1, (n - rng[1]) - (n - rng[2]))

\* The removals from either end, on the range that normalizeRange gives.
LTrim(l, start, stop) ==
    LET n   == Len(l)
        rng == normalizeRange(start, stop, n)
    IN  IF n = 0             THEN l
        ELSE IF rng[1] > rng[2] THEN <<>>
        ELSE SubSeq(SubSeq(l, rng[1] + 1, n), 1, (n - rng[1]) - (n - (rng[2] + 1)))

LInsert(l, before, pivot, value) ==
    LET i == SelectInSeq(l, LAMBDA e : e = pivot)
        v == InsertAt(l, IF before THEN i ELSE i + 1, value)
    IN  IF i = 0 THEN [v |-> l, r |-> -1] ELSE [v |-> v, r |-> Len(v)]

LPos(l, value, rank, count, maxLen) ==
    LET n     == Len(l)
        scan  == IF maxLen = 0 \/ maxLen > n THEN n ELSE maxLen
        Nth(i) == Cardinality({j \in 1 .. i : l[j] = value})
        hits  == SetToSortSeq({i \in 1 .. scan : l[i] = value /\ Nth(i) >= rank}, <)
        limit == IF count < 0 THEN 1 ELSE IF count = 0 THEN n ELSE count
    IN  [k \in 1 .. Min({limit, Len(hits)}) |-> hits[k] - 1]
=============================================================================
