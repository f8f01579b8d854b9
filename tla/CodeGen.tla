------------------------------- MODULE CodeGen ------------------------------
(***************************************************************************)
(* The generation of control flow (src/codegen/CodeGen.cpp): IfGen and     *)
(* LoopGen append basic blocks to the function under construction while    *)
(* the code generator of a query calls them, and a pending break or        *)
(* continue is kept in the thread-local vector nextBBVec until the         *)
(* current block is left.                                                  *)
(*                                                                         *)
(* A basic block is a record of the sequence blocks.  Every call is        *)
(* followed by one instruction, the number of the call, in the block that  *)
(* is then current: it stands for the code generated there.  LLVM itself   *)
(* (blocks, branches, PHI nodes and what they do when they are executed)   *)
(* is external.                                                            *)
(***************************************************************************)
EXTENDS Integers, Sequences, FiniteSets, SequencesExt

VARIABLES
    moduleGens,     \* CodeGen::moduleGens: the depth of the stack
    functionGens,   \* CodeGen::functionGens: the depth of the stack
    nextBBVec,      \* CodeGen::nextBBVec
    blocks,         \* the basic blocks: [inFunction, code, terminator]
    insertBlock,    \* where the builder appends
    gens,           \* the open IfGens and LoopGens, the innermost last
    calls,          \* the calls the query has made so far
    maxCalls        \* bounds the calls of the query

codeGenVars == <<moduleGens, functionGens, nextBBVec, blocks, insertBlock, gens, calls, maxCalls>>

-----------------------------------------------------------------------------
(* LLVM: blocks, instructions and terminators *)

None == <<>>

Br(target)             == <<"br", target>>
CondBr(cond, yes, no)  == <<"condbr", cond, yes, no>>
Ret                    == <<"ret">>

BasicBlock(inFunction) == [inFunction |-> inFunction, code |-> <<>>, terminator |-> None]

Ins(n) == [op |-> "ins", n |-> n]
Phi(incoming) == [op |-> "phi", incoming |-> incoming]

\* g is the part of the state generation changes: blocks, at and next.
Create(g, inFunction) == [g EXCEPT !.blocks = Append(@, BasicBlock(inFunction))]
Terminate(g, terminator) == [g EXCEPT !.blocks[g.at].terminator = terminator]
PushBack(g, block) == [g EXCEPT !.blocks[block].inFunction = TRUE]
SetInsertPoint(g, block) == [g EXCEPT !.at = block]
Emit(g, instruction) == [g EXCEPT !.blocks[g.at].code = Append(@, instruction)]

Generated == [blocks |-> blocks, at |-> insertBlock, next |-> nextBBVec]

-----------------------------------------------------------------------------
(* CodeGen *)

setNextBlock(g, nextBB) == [g EXCEPT !.next = Append(@, nextBB)]

leaveBlockKeepsNext(g, afterBB) ==
    Terminate(g, Br(IF g.next = <<>> THEN afterBB ELSE Last(g.next)))

leaveBlock(g, afterBB) ==
    IF g.next = <<>> THEN Terminate(g, Br(afterBB))
    ELSE Terminate([g EXCEPT !.next = Front(@)], Br(Last(g.next)))

-----------------------------------------------------------------------------
(***************************************************************************)
(* The generators: [kind |-> "if", state, nextBB, prevBB, mergeBB, in] and *)
(* [kind |-> "loop", loopBB, loopContBB, afterBB, state].  id is the       *)
(* number of the call that constructed the object, nextBB is blocks.back() *)
(* and in the incoming values of the variable of an IfGen that has one.    *)
(***************************************************************************)
N == Len(calls) + 1

\* A call yields the state and the innermost generator after it.
Step(g, gen) == [g |-> g, gen |-> gen]

IfGenConstructor(g, id, initialValues) ==
    LET n == Len(g.blocks)
        branched == Terminate(Create(Create(g, TRUE), FALSE), CondBr(id, n + 1, n + 2))
    IN  Step(SetInsertPoint(branched, n + 1),
             [kind |-> "if", id |-> id, state |-> "Then", nextBB |-> n + 2, prevBB |-> g.at, mergeBB |-> 0,
              in |-> IF initialValues THEN <<[value |-> 0, block |-> g.at]>> ELSE <<>>,
              vars |-> initialValues])

\* mergeBB is created by the first ElseIf or Else.
withMerge(g, gen) ==
    IF gen.mergeBB # 0 THEN Step(g, gen)
    ELSE Step(Create(g, FALSE), [gen EXCEPT !.mergeBB = Len(g.blocks) + 1])

ElseIf(g, gen, id) ==
    LET s == withMerge(g, gen)
        n == Len(s.g.blocks)
        test == SetInsertPoint(PushBack(Terminate(s.g, Br(s.gen.mergeBB)), s.gen.nextBB), s.gen.nextBB)
        branched == Terminate(Create(Create(test, TRUE), FALSE), CondBr(id, n + 1, n + 2))
    IN  Step(SetInsertPoint(branched, n + 1), [s.gen EXCEPT !.state = "ElseIf", !.nextBB = n + 2])

Else(g, gen) ==
    LET s == withMerge(g, gen)
        left == PushBack(leaveBlock(s.g, s.gen.mergeBB), s.gen.nextBB)
    IN  Step(SetInsertPoint(left, s.gen.nextBB), [s.gen EXCEPT !.state = "Else"])

EndIf(g, gen) ==
    LET merge == IF gen.mergeBB = 0 THEN gen.nextBB ELSE gen.mergeBB
    IN  Step(SetInsertPoint(PushBack(leaveBlock(g, merge), merge), merge),
             [gen EXCEPT !.mergeBB = merge, !.state = "Done"])

setVarKeepsDefault(g, gen, value) ==
    [gen EXCEPT !.in = Append(@, [value |-> value, block |-> g.at])]

setVar(g, gen, value) ==
    [gen EXCEPT !.in = Append(IF gen.state = "Else" THEN Tail(@) ELSE @, [value |-> value, block |-> g.at])]

\* The PHI node of a variable; a variable nobody set makes it throw.
getResult(g, gen) == Emit(g, Phi(gen.in))

LoopGenConstructor(g, id) ==
    LET n == Len(g.blocks)
    IN  Step(SetInsertPoint(Terminate(Create(Create(Create(g, TRUE), FALSE), FALSE), Br(n + 1)), n + 1),
             [kind |-> "loop", id |-> id, state |-> "Body",
              loopBB |-> n + 1, loopContBB |-> n + 2, afterBB |-> n + 3])

\* The constructor with a condition: the loop has a header.
LoopGenWithCondition(g, id) ==
    LET n == Len(g.blocks)
        created == Create(Create(Create(Create(g, TRUE), TRUE), FALSE), FALSE)
        header == SetInsertPoint(Terminate(created, Br(n + 1)), n + 1)
    IN  Step(SetInsertPoint(Terminate(header, CondBr(id, n + 2, n + 4)), n + 2),
             [kind |-> "loop", id |-> id, state |-> "Body",
              loopBB |-> n + 2, loopContBB |-> n + 3, afterBB |-> n + 4])

\* loopBodyEnd, called by the destructor of LoopBodyGen.
loopBodyEnd(g, gen) ==
    Step(SetInsertPoint(leaveBlock(g, gen.loopContBB), gen.loopContBB), [gen EXCEPT !.state = "Cont"])

loopDone(g, gen, id) ==
    LET appended == SetInsertPoint(PushBack(PushBack(g, gen.loopContBB), gen.afterBB), gen.loopContBB)
    IN  Step(SetInsertPoint(Terminate(appended, CondBr(id, gen.loopBB, gen.afterBB)), gen.afterBB),
             [gen EXCEPT !.state = "Done"])

loopBreak(g, gen)    == setNextBlock(g, gen.afterBB)
loopContinue(g, gen) == setNextBlock(g, gen.loopContBB)

-----------------------------------------------------------------------------
(* FunctionGen and ModuleGen *)

CodeGenInit ==
    /\ moduleGens = 0 /\ functionGens = 0
    /\ nextBBVec = <<>>
    /\ blocks = <<>> /\ insertBlock = 0
    /\ gens = <<>> /\ calls = <<>> /\ maxCalls = 0

\* ModuleGen and FunctionGen assert that there is no other one: see
\* GeneratorsAreGone.
ModuleGenConstructor == moduleGens' = moduleGens + 1

FunctionGenConstructor(bound) ==
    /\ functionGens' = functionGens + 1
    /\ blocks' = <<BasicBlock(TRUE)>> /\ insertBlock' = 1
    /\ maxCalls' = bound
    /\ UNCHANGED <<moduleGens, nextBBVec, gens, calls>>

\* The destructor of FunctionGen returns from the block that is current.
FunctionGenDestructor ==
    /\ functionGens' = functionGens - 1
    /\ blocks' = Terminate(Generated, Ret).blocks
    /\ UNCHANGED <<moduleGens, nextBBVec, insertBlock, gens, calls, maxCalls>>

\* The destructor of ModuleGen; the module is gone with the execution engine.
ModuleGenDestructor ==
    /\ moduleGens' = moduleGens - 1
    /\ blocks' = <<>> /\ insertBlock' = 0
    /\ gens' = <<>> /\ calls' = <<>> /\ maxCalls' = 0

(***************************************************************************)
(* An exception that leaves compileQuery while the function is generated   *)
(* destroys the generators: an IfGen ends its branch, and the LoopBodyGen  *)
(* of a loop its body.  Each of them leaves a block and so takes the last  *)
(* pending jump with it (leaveBlock); the blocks go with the module.       *)
(***************************************************************************)
LeavesBlock(gen) == gen.kind = "if" \/ gen.state = "Body"

Unwind ==
    /\ nextBBVec' = SubSeq(nextBBVec, 1, Len(nextBBVec)
                              - Cardinality({k \in DOMAIN gens : LeavesBlock(gens[k])}))
    /\ functionGens' = functionGens - 1
    /\ ModuleGenDestructor

-----------------------------------------------------------------------------
(* The calls of a query function *)

Gen == Last(gens)
Inner(kind, states) == gens # <<>> /\ Gen.kind = kind /\ Gen.state \in states
\* Room for the calls that close what is open.
Closing == FoldLeft(LAMBDA n, gen : n + IF gen.kind = "loop" /\ gen.state = "Body" THEN 2 ELSE 1, 0, gens)

\* After a jump or a setVar the code of the branch is complete.
BranchComplete == calls # <<>> /\ Last(calls).op \in {"break", "continue", "set"}
Room(n) == Len(calls) + Closing + n <= maxCalls

Becomes(g) ==
    blocks' = g.blocks /\ insertBlock' = g.at /\ nextBBVec' = g.next

Call(op, id, g, newGens) ==
    /\ functionGens = 1
    /\ calls' = Append(calls, [op |-> op, id |-> id, vars |-> op = "endif" /\ Gen.vars])
    /\ gens' = newGens
    /\ Becomes(g)
    /\ UNCHANGED <<moduleGens, functionGens, maxCalls>>

\* The call, followed by an instruction; s is the state after it.
Open(op, s) == Call(op, N, Emit(s.g, Ins(N)), Append(gens, s.gen))
Continue(op, s) == Call(op, s.gen.id, Emit(s.g, Ins(N)), Append(Front(gens), s.gen))
Close(op, s) == Call(op, s.gen.id, Emit(s.g, Ins(N)), Front(gens))

callIf(vars) ==
    /\ ~BranchComplete /\ ~Inner("loop", {"Cont"}) /\ Room(2)
    /\ Open("if", IfGenConstructor(Generated, N, vars))

\* No caller of ElseIf ends the branch before it with a jump: ElseIf leaves
\* its block without a look at the pending jumps, and the jump would stay.
callElseIf ==
    /\ Inner("if", {"Then", "ElseIf"}) /\ Room(1) /\ Last(calls).op \notin {"break", "continue"}
    /\ Continue("elseif", ElseIf(Generated, Gen, N))

callElse ==
    /\ Inner("if", {"Then", "ElseIf"}) /\ Room(1)
    /\ Continue("else", Else(Generated, Gen))

\* EndIf and, for an IfGen with a variable, getResult.
callEndIf ==
    /\ Inner("if", {"Then", "ElseIf", "Else"})
    /\ Gen.vars => Len(Gen.in) > 1
    /\ \E s \in {EndIf(Generated, Gen)} :
          Close("endif", IF Gen.vars THEN [s EXCEPT !.g = getResult(@, Gen)] ELSE s)

\* setVar is the last call of a branch.
callSetVar ==
    /\ Inner("if", {"Then", "ElseIf", "Else"}) /\ Gen.vars
    /\ ~BranchComplete /\ Room(1)
    /\ Call("set", Gen.id, Emit(Generated, Ins(N)), Append(Front(gens), setVar(Generated, Gen, N)))

callLoop ==
    /\ ~BranchComplete /\ ~Inner("loop", {"Cont"}) /\ Room(3)
    /\ \/ Open("loop", LoopGenConstructor(Generated, N))
       \/ Open("while", LoopGenWithCondition(Generated, N))

callBodyEnd ==
    /\ Inner("loop", {"Body"})
    /\ Continue("bodyend", loopBodyEnd(Generated, Gen))

callLoopDone ==
    /\ Inner("loop", {"Cont"})
    /\ Close("done", loopDone(Generated, Gen, N))

\* break and continue address any open loop and end the block they are in.
callJump(k) ==
    /\ ~BranchComplete /\ Room(1)
    /\ gens[k].kind = "loop" /\ gens[k].state = "Body"
    /\ Gen.state # "Cont"
    /\ \/ Call("break", gens[k].id, loopBreak(Generated, gens[k]), gens)
       \/ Call("continue", gens[k].id, loopContinue(Generated, gens[k]), gens)

GenerateCall ==
    \/ \E vars \in BOOLEAN : callIf(vars)
    \/ callElseIf \/ callElse \/ callEndIf \/ callSetVar
    \/ callLoop \/ callBodyEnd \/ callLoopDone
    \/ \E k \in DOMAIN gens : callJump(k)
=============================================================================
