------------------------------- MODULE Paging -------------------------------
(* The pages of GET /api/v1/employees: how the handler reads limit and     *)
(* offset, and which sets of rows the ordered query may then return.       *)
EXTENDS Integers, FiniteSets

CONSTANTS
    Rank,                    \* position of a text in the collation ORDER BY uses
    DefaultLimit, MaxLimit,  \* 50 and 200
    MaxOffset,               \* 1<<30
    MaxInt32,                \* the range of strconv.ParseInt(_, 10, 32)
    Null,                    \* a parameter that is absent or empty
    Malformed                \* one that is no integer

ASSUME PagingAssumption ==
    /\ DefaultLimit \in Nat \ {0} /\ MaxLimit \in Nat \ {0}
    /\ MaxInt32 \in Nat /\ MaxOffset \in 0..MaxInt32
    /\ Null \notin Int /\ Malformed \notin Int

intParam(raw, fallback, min, max) ==
    IF raw \in {Null, Malformed} \/ raw \notin (-MaxInt32 - 1)..MaxInt32 THEN fallback
    ELSE IF raw < min THEN min ELSE IF raw > max THEN max ELSE raw

Limit(raw) == intParam(raw, DefaultLimit, 1, MaxLimit)
Offset(raw) == intParam(raw, 0, 0, MaxOffset)

Smaller(a, b) == IF a < b THEN a ELSE b

PageSize(count, limit, offset) ==
    IF offset >= count THEN 0 ELSE Smaller(limit, count - offset)

(* MUTANT: ORDER BY was forgotten. *)
PagesUnordered(rows, limit, offset) ==
    {page \in SUBSET rows : Cardinality(page) = PageSize(Cardinality(rows), limit, offset)}

(* What ORDER BY full_name LIMIT limit OFFSET offset may return: the order *)
(* among equal names is left open, so several pages may be.                *)
Pages(rows, limit, offset) ==
    {page \in SUBSET rows :
        /\ Cardinality(page) = PageSize(Cardinality(rows), limit, offset)
        /\ \E before \in SUBSET (rows \ page) :
             /\ Cardinality(before) = Smaller(offset, Cardinality(rows))
             /\ \A b \in before, p \in page : Rank[b.full_name] <= Rank[p.full_name]
             /\ \A x \in before \cup page, r \in rows \ (before \cup page) :
                    Rank[x.full_name] <= Rank[r.full_name]}
=============================================================================
