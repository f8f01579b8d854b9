---------------------------- MODULE QueryMeaning ----------------------------
(***************************************************************************)
(* What a query of QueryExecution means: the exact values of the           *)
(* aggregates over the joined and selected rows, computed as fractions and *)
(* independently of the machine.                                           *)
(***************************************************************************)
EXTENDS QueryExecution

(* The meaning of an expression: a fraction of a power of ten, exact but   *)
(* for a quotient, which is cut to the digits of its type                  *)

Fraction(v) == [n |-> v.raw, d |-> powerOfTen[v.type.precision]]

RECURSIVE Exact(_, _)
Exact(exp, row) ==
    CASE exp.op = "identifier" -> Fraction(row[exp.args[1]])
      [] exp.op = "constant"   -> Fraction(exp.args[1])
      [] exp.op = "cast"       -> Exact(exp.args[1], row)
      [] exp.op \in {"add", "sub", "mul", "div"} ->
             LET a == Exact(exp.args[1], row)
                 b == Exact(exp.args[2], row)
             IN  CASE exp.op = "add" -> [n |-> a.n * b.d + b.n * a.d, d |-> a.d * b.d]
                   [] exp.op = "sub" -> [n |-> a.n * b.d - b.n * a.d, d |-> a.d * b.d]
                   [] exp.op = "mul" -> [n |-> a.n * b.n, d |-> a.d * b.d]
                   [] exp.op = "div" ->
                          LET p == powerOfTen[exp.type.precision]
                          IN  [n |-> SDiv(a.n * b.d * p, b.n * a.d), d |-> p]

(* the tuples of the join, by the positions of their rows *)
JoinedRows ==
    {p \in (DOMAIN rows.left) \X (DOMAIN rows.right) :
        /\ rows.left[p[1]].key = rows.right[p[2]].key
        /\ LET a == Exact(Predicate.args[1], rows.left[p[1]])
               b == Exact(Predicate.args[2], rows.left[p[1]])
           IN  a.n * b.d > b.n * a.d}

Tuple(p) == rows.left[p[1]] @@ rows.right[p[2]]

SumOf(exp, pairs) ==
    FoldSet(LAMBDA p, sum : LET e == Exact(exp, Tuple(p)) IN [n |-> sum.n + e.n, d |-> e.d],
            [n |-> 0, d |-> 1], pairs)

IsValueOf(agg, v, pairs) ==
    LET sum == SumOf(agg.exp, pairs)
        p == powerOfTen[v.type.precision]
    IN  CASE agg.kind = "keep"  -> \A q \in pairs : v = Tuple(q)[agg.exp.args[1]]
          [] agg.kind = "sum"   -> v.raw * sum.d = sum.n * p
          [] agg.kind = "avg"   -> v.raw = SDiv(sum.n * (p \div sum.d), Cardinality(pairs))
          [] agg.kind = "count" -> v.raw = Cardinality(pairs)
          [] agg.kind = "min"   ->
                 /\ \A q \in pairs : v.raw * sum.d <= Exact(agg.exp, Tuple(q)).n * p
                 /\ \E q \in pairs : v.raw * sum.d = Exact(agg.exp, Tuple(q)).n * p

(* the groups of the join, as sets of its tuples *)
Groups ==
    IF keepMode
    THEN LET iu == aggregations[Min(keepSet)].exp.args[1]
         IN  {{q \in JoinedRows : Tuple(q)[iu] = Tuple(p)[iu]} : p \in JoinedRows}
    ELSE {JoinedRows} \ {{}}

(***************************************************************************)
(* No evaluation fails an assertion on the type of its value, and the      *)
(* query answers what its operators mean: one result for every group of    *)
(* selected and joined rows, with the exact sum, minimum and count and the *)
(* truncated average, unless an overflow was reported (HashJoin, GroupBy,  *)
(* and the values and operators they compute with).                        *)
(***************************************************************************)
QueryAnswersItsMeaning ==
    /\ ended \notin {"assert", "throw", "unreachable"}
    /\ phase = "done" /\ ~overflowed =>
           /\ Len(results) = Cardinality(Groups)
           /\ \A g \in Groups : \E r \in Range(results) :
                  \A i \in DOMAIN aggregations :
                      r[i].tag = "value" /\ IsValueOf(aggregations[i], r[i].v, g)
=============================================================================
