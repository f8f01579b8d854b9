---------------------------- MODULE GeneratedCode ---------------------------
(***************************************************************************)
(* What the code generated by the calls of CodeGen does when it is         *)
(* executed, by its blocks and by the meaning of the calls.                *)
(***************************************************************************)
EXTENDS QueryPipeline

(***************************************************************************)
(* Executing the function.  Conditions take their values from bits, and an *)
(* execution ends when there is none left.  The trace holds the            *)
(* instructions, the conditions with their values and the results of the   *)
(* variables.                                                              *)
(***************************************************************************)
phiValue(incoming, from) ==
    LET entries == {k \in DOMAIN incoming : incoming[k].block = from}
    IN  IF entries = {} THEN <<"undefined">> ELSE <<"value", incoming[CHOOSE k \in entries : TRUE].value>>

effect(instruction, from) ==
    IF instruction.op = "ins" THEN <<"ins", instruction.n>> ELSE phiValue(instruction.incoming, from)

RECURSIVE Execute(_, _, _)
Execute(block, from, bits) ==
    LET b == blocks[block]
    IN  [k \in DOMAIN b.code |-> effect(b.code[k], from)]
        \o CASE ~b.inFunction \/ b.terminator = None -> <<<<"invalid">>>>
             [] b.inFunction /\ b.terminator = Ret -> <<<<"ret">>>>
             [] b.inFunction /\ b.terminator # None /\ b.terminator[1] = "br" ->
                    Execute(b.terminator[2], block, bits)
             [] b.inFunction /\ b.terminator # None /\ b.terminator[1] = "condbr" ->
                    IF bits = <<>> THEN <<>>
                    ELSE <<<<"cond", b.terminator[2], Head(bits)>>>>
                         \o Execute(b.terminator[IF Head(bits) THEN 3 ELSE 4], block, Tail(bits))

(***************************************************************************)
(* What the calls mean: the branch whose condition holds is executed, a    *)
(* break or continue leaves the loop or its round at once, and the         *)
(* variable of an if has the value set in the branch that was executed, or *)
(* its initial one.                                                        *)
(***************************************************************************)
After(p, ops) ==
    LET later == {q \in DOMAIN calls : q > p /\ calls[q].id = calls[p].id /\ calls[q].op \in ops}
    IN  CHOOSE q \in later : \A r \in later : q <= r

RECURSIVE Meaning(_, _, _)
Test(p, bits, vars, yes, no) ==
    IF bits = <<>> THEN <<>>
    ELSE <<<<"cond", p, Head(bits)>>>>
         \o IF Head(bits) THEN <<<<"ins", yes>>>> \o Meaning(yes + 1, Tail(bits), vars)
            ELSE <<<<"ins", no>>>> \o Meaning(no + 1, Tail(bits), vars)

\* The condition of the if or else-if at call p.
RECURSIVE Branch(_, _, _)
Branch(p, bits, vars) ==
    LET next == After(p, {"elseif", "else", "endif"})
    IN  CASE bits = <<>> -> <<>>
          [] bits # <<>> /\ Head(bits) ->
                 <<<<"cond", p, TRUE>>, <<"ins", p>>>> \o Meaning(p + 1, Tail(bits), vars)
          [] bits # <<>> /\ ~Head(bits) ->
                 <<<<"cond", p, FALSE>>>>
                 \o CASE calls[next].op = "elseif" -> Branch(next, Tail(bits), vars)
                      [] calls[next].op = "else" -> <<<<"ins", next>>>> \o Meaning(next + 1, Tail(bits), vars)
                      [] calls[next].op = "endif" -> Meaning(next, Tail(bits), vars)

Meaning(p, bits, vars) ==
    IF p > Len(calls) THEN <<<<"ret">>>>
    ELSE LET c == calls[p]
             ins == <<<<"ins", p>>>>
         IN  CASE c.op = "if" -> Branch(p, bits, [vars EXCEPT ![p] = 0])
               [] c.op \in {"elseif", "else"} -> Meaning(After(p, {"endif"}), bits, vars)
               [] c.op = "endif" ->
                      (IF c.vars THEN <<<<"value", vars[c.id]>>>> ELSE <<>>) \o ins \o Meaning(p + 1, bits, vars)
               [] c.op = "set" -> ins \o Meaning(p + 1, bits, [vars EXCEPT ![c.id] = p])
               [] c.op \in {"loop", "bodyend"} -> ins \o Meaning(p + 1, bits, vars)
               [] c.op = "while" -> Test(p, bits, vars, p, After(p, {"done"}))
               [] c.op = "done" -> Test(p, bits, vars, c.id, p)
               [] c.op = "break" ->
                      <<<<"ins", After(p, {"done"})>>>> \o Meaning(After(p, {"done"}) + 1, bits, vars)
               [] c.op = "continue" -> Meaning(After(p, {"bodyend"}), bits, vars)

-----------------------------------------------------------------------------
(* Properties *)

(***************************************************************************)
(* Uses of the generators that IfGen does not support: an else-if without  *)
(* an else (as in sqlAnd and sqlOr), and a variable that is not set in     *)
(* every branch of an if with an else.                                     *)
(***************************************************************************)
Calls(id, op) == {p \in DOMAIN calls : calls[p].op = op /\ calls[p].id = id}

Misused ==
    \/ \E p \in DOMAIN calls : calls[p].op = "elseif" /\ Calls(calls[p].id, "else") = {}
    \/ \E p \in DOMAIN calls :
          /\ calls[p].op = "endif" /\ calls[p].vars /\ Calls(calls[p].id, "else") # {}
          /\ Cardinality(Calls(calls[p].id, "set")) # 2 + Cardinality(Calls(calls[p].id, "elseif"))

InFunction == {b \in DOMAIN blocks : blocks[b].inFunction}
Predecessors(b) ==
    {a \in InFunction : \/ blocks[a].terminator = Br(b)
                        \/ blocks[a].terminator[1] = "condbr" /\ b \in {blocks[a].terminator[3], blocks[a].terminator[4]}}

PhisMatchPredecessors(b) ==
    \A k \in DOMAIN blocks[b].code :
        blocks[b].code[k].op = "phi" =>
            {blocks[b].code[k].incoming[n].block : n \in DOMAIN blocks[b].code[k].incoming} = Predecessors(b)

(***************************************************************************)
(* A function generated by nested ifs and loops, in any order of the calls *)
(* and with jumps out of them, executes as the calls say, its blocks all   *)
(* have a terminator, and the PHI node of a variable has a value for       *)
(* exactly the blocks control comes from (CodeGen.cpp, IfGen and LoopGen). *)
(***************************************************************************)
GeneratedCodeDoesWhatTheCallsSay ==
    stage = "run" /\ ~Misused =>
        /\ \A b \in InFunction : blocks[b].terminator # None /\ PhisMatchPredecessors(b)
        /\ \A bits \in [1..4 -> BOOLEAN] :
               Execute(1, 0, bits) = Meaning(1, bits, [p \in DOMAIN calls |-> 0])
=============================================================================
