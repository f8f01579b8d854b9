------------------------- MODULE QueryPipelineProofs ------------------------
(***************************************************************************)
(* Proofs about the server and the generation of code: for any statements, *)
(* any number of requests and generators nested to any depth, databases    *)
(* stay apart, a query leaves nothing in the thread-local code generator,  *)
(* and a response is about the last statement of its request.              *)
(***************************************************************************)
EXTENDS QueryPipeline, Lemmas, FiniteSetTheorems, TLAPS

vars == <<serverVars, codeGenVars>>

-----------------------------------------------------------------------------
(* Databases *)

\* PUT requests are answered with 1, 2, 3 and so on; the request in progress
\* uses the database it names or the standard one.
DatabaseInv ==
    /\ dbcounter \in Nat
    /\ handedOut = [k \in 1 .. dbcounter |-> k]
    /\ dbs = [i \in DOMAIN dbs |-> dbs[i]]
    /\ DOMAIN dbs \subseteq 0 .. dbcounter
    /\ {0, dbindex} \subseteq DOMAIN dbs
    /\ at = 0 => dbindex = 0
    /\ dbindex # 0 => dbindex = sentTo
    /\ \A i \in DOMAIN dbs \ {0} : dbs[i] \in Seq({i})

\* A change goes to the database of the request.
LEMMA ChangeDatabase ==
    ASSUME DatabaseInv, dbs' = [dbs EXCEPT ![dbindex] = Append(@, sentTo)],
           at' # 0, Requested
    PROVE  DatabaseInv'
<1>1. UNCHANGED <<dbcounter, handedOut, dbindex, sentTo>>
  BY DEF Requested
<1>2. /\ DOMAIN dbs' = DOMAIN dbs /\ dbs' = [i \in DOMAIN dbs' |-> dbs'[i]]
      /\ \A i \in DOMAIN dbs \ {dbindex} : dbs'[i] = dbs[i]
      /\ dbs'[dbindex] = Append(dbs[dbindex], sentTo)
  BY DEF DatabaseInv
<1>3. dbindex # 0 => dbs'[dbindex] \in Seq({dbindex})
  <2>1. dbindex # 0 => dbs[dbindex] \in Seq({dbindex}) /\ sentTo = dbindex
    BY DEF DatabaseInv
  <2> QED
    BY <1>2, <2>1
<1>4. \A i \in DOMAIN dbs' \ {0} : dbs'[i] \in Seq({i})
  BY <1>2, <1>3 DEF DatabaseInv
<1> QED
  BY <1>1, <1>2, <1>4 DEF DatabaseInv

\* A new database has an index no database ever had.
LEMMA PutDatabase ==
    ASSUME DatabaseInv, put
    PROVE  DatabaseInv'
<1>1. PICK n \in Nat : n = dbcounter
  BY DEF DatabaseInv
<1>2. /\ dbcounter' = n + 1 /\ handedOut' = Append(handedOut, n + 1)
      /\ UNCHANGED <<at, sentTo, dbindex>>
  BY <1>1 DEF put, nextIndex, Answered
<1>3. n + 1 \notin DOMAIN dbs /\ DOMAIN dbs \subseteq 0 .. n
  BY <1>1 DEF DatabaseInv
<1>4. dbs' = [i \in DOMAIN dbs \cup {n + 1} |-> IF i \in DOMAIN dbs THEN dbs[i] ELSE <<>>]
  BY <1>1 DEF put, nextIndex
<1>5. /\ DOMAIN dbs' = DOMAIN dbs \cup {n + 1} /\ dbs' = [i \in DOMAIN dbs' |-> dbs'[i]]
      /\ \A i \in DOMAIN dbs : dbs'[i] = dbs[i]
      /\ dbs'[n + 1] = <<>>
  BY <1>3, <1>4
<1>6. handedOut' = [k \in 1 .. n + 1 |-> k]
  <2>1. handedOut = [k \in 1 .. n |-> k] /\ handedOut \in Seq(Nat) /\ Len(handedOut) = n
    BY <1>1 DEF DatabaseInv
  <2>2. /\ handedOut' \in Seq(Nat) /\ Len(handedOut') = n + 1
        /\ \A k \in 1 .. n + 1 : handedOut'[k] = k
    BY <1>2, <2>1
  <2> QED
    BY <2>2
<1>7. \A i \in DOMAIN dbs' \ {0} : dbs'[i] \in Seq({i})
  <2>1. ASSUME NEW i \in DOMAIN dbs \ {0} PROVE dbs'[i] \in Seq({i})
    BY <1>5 DEF DatabaseInv
  <2>2. dbs'[n + 1] \in Seq({n + 1})
    BY <1>5
  <2> QED
    BY <1>5, <2>1, <2>2
<1>8. DOMAIN dbs' \subseteq 0 .. n + 1
  BY <1>3, <1>5
<1> QED
  BY <1>1, <1>2, <1>5, <1>6, <1>7, <1>8 DEF DatabaseInv

\* The standard database is never deleted.
LEMMA DeleteDatabase ==
    ASSUME DatabaseInv, NEW index, delete(index)
    PROVE  DatabaseInv'
<1>1. /\ UNCHANGED <<dbcounter, handedOut, at, sentTo, dbindex>> /\ at = 0
      /\ dbs' = IF resolve(index) > 0 THEN Restrict(dbs, DOMAIN dbs \ {resolve(index)}) ELSE dbs
  BY DEF delete, Answered, Idle
<1>2. dbindex = 0 /\ 0 \in DOMAIN dbs
  BY <1>1 DEF DatabaseInv
<1>3. PICK gone : gone \subseteq DOMAIN dbs /\ 0 \notin gone
                  /\ dbs' = [i \in DOMAIN dbs \ gone |-> dbs[i]]
  <2>1. CASE resolve(index) > 0
    <3>1. 0 \notin {resolve(index)} /\ resolve(index) \in DOMAIN dbs
      BY <1>2, <2>1 DEF resolve
    <3> QED
      BY <1>1, <2>1, <3>1 DEF Restrict
  <2>2. CASE ~ (resolve(index) > 0)
    <3>1. dbs' = [i \in DOMAIN dbs \ {} |-> dbs[i]]
      BY <1>1, <2>2 DEF DatabaseInv
    <3> QED
      BY <3>1
  <2> QED
    BY <2>1, <2>2
<1>4. /\ DOMAIN dbs' \subseteq DOMAIN dbs /\ dbs' = [i \in DOMAIN dbs' |-> dbs'[i]]
      /\ 0 \in DOMAIN dbs' /\ \A i \in DOMAIN dbs' : dbs'[i] = dbs[i]
  BY <1>2, <1>3
<1> QED
  BY <1>1, <1>2, <1>4 DEF DatabaseInv

\* A request uses the database it names, or the standard one.
LEMMA PostDatabase ==
    ASSUME DatabaseInv, NEW index, NEW statements, post(index, statements)
    PROVE  DatabaseInv'
<1>1. /\ UNCHANGED <<dbs, dbcounter, handedOut>> /\ at' = 1
      /\ sentTo' = index /\ dbindex' = resolve(index)
  BY DEF post
<1>2. resolve(index) \in DOMAIN dbs /\ (resolve(index) # 0 => resolve(index) = index)
  BY DEF resolve, DatabaseInv
<1> QED
  BY <1>1, <1>2 DEF DatabaseInv

\* Every step keeps the databases apart.
LEMMA NextDatabases == DatabaseInv /\ at \in Nat /\ [Next]_vars => DatabaseInv'
<1> SUFFICES ASSUME DatabaseInv, at \in Nat, [Next]_vars PROVE DatabaseInv'
  OBVIOUS
<1>1. ASSUME dbs' = dbs, Requested, at' = 0 => at = 0 PROVE DatabaseInv'
  BY <1>1 DEF DatabaseInv, Requested
<1>2. ASSUME skipEmpty PROVE DatabaseInv'
  BY <1>1, <1>2 DEF skipEmpty
<1>3. ASSUME analyse PROVE DatabaseInv'
  <2>1. Requested /\ at # 0
    BY <1>3 DEF analyse
  <2>2. CASE dbs' = dbs /\ at' \in {at, at + 1}
    BY <1>1, <2>1, <2>2
  <2>3. CASE dbs' = [dbs EXCEPT ![dbindex] = Append(@, sentTo)] /\ at' = at + 1
    BY <2>1, <2>3, ChangeDatabase
  <2> QED
    BY <1>3, <2>2, <2>3 DEF analyse, Report
<1>4. ASSUME beginFunction \/ generate \/ endFunction PROVE DatabaseInv'
  BY <1>1, <1>4 DEF beginFunction, generate, endFunction, Unchanged
<1>5. ASSUME throwInGeneration PROVE DatabaseInv'
  BY <1>1, <1>5 DEF throwInGeneration, Report
<1>6. ASSUME stream PROVE DatabaseInv'
  BY <1>1, <1>6 DEF stream
<1>7. ASSUME finishStatement PROVE DatabaseInv'
  BY <1>1, <1>7, ChangeDatabase DEF finishStatement
<1>8. ASSUME respond PROVE DatabaseInv'
  BY <1>8 DEF respond, DatabaseInv
<1>9. ASSUME UNCHANGED vars PROVE DatabaseInv'
  BY <1>9 DEF vars, serverVars, DatabaseInv
<1> QED
  BY <1>2, <1>3, <1>4, <1>5, <1>6, <1>7, <1>8, <1>9, PutDatabase, DeleteDatabase, PostDatabase
     DEF Next

-----------------------------------------------------------------------------
(* What a call does to the pending jumps *)

\* The part of the state that generation changes, and the objects of IfGen
\* and LoopGen that are not done, by their fields.
IsState(g) == g = [blocks |-> g.blocks, at |-> g.at, next |-> g.next]
IsIf(gen) ==
    gen = [kind |-> "if", id |-> gen.id, state |-> gen.state, nextBB |-> gen.nextBB,
           prevBB |-> gen.prevBB, mergeBB |-> gen.mergeBB, in |-> gen.in, vars |-> gen.vars]
IsLoop(gen) ==
    /\ gen = [kind |-> "loop", id |-> gen.id, state |-> gen.state,
              loopBB |-> gen.loopBB, loopContBB |-> gen.loopContBB, afterBB |-> gen.afterBB]
    /\ gen.state \in {"Body", "Cont"}

\* LLVM's part leaves the pending jumps alone.
LEMMA BlocksKeepNext ==
    ASSUME NEW g, IsState(g), NEW x
    PROVE  /\ IsState(Create(g, x)) /\ Create(g, x).next = g.next
           /\ IsState(Terminate(g, x)) /\ Terminate(g, x).next = g.next
           /\ IsState(PushBack(g, x)) /\ PushBack(g, x).next = g.next
           /\ IsState(SetInsertPoint(g, x)) /\ SetInsertPoint(g, x).next = g.next
           /\ IsState(Emit(g, x)) /\ Emit(g, x).next = g.next
<1>1. ASSUME NEW b
      PROVE  /\ IsState([g EXCEPT !.blocks = b]) /\ [g EXCEPT !.blocks = b].next = g.next
             /\ IsState([g EXCEPT !.at = b]) /\ [g EXCEPT !.at = b].next = g.next
  BY DEF IsState
<1>2. IsState(Create(g, x)) /\ Create(g, x).next = g.next
  BY <1>1 DEF Create
<1>3. IsState(Terminate(g, x)) /\ Terminate(g, x).next = g.next
  BY <1>1 DEF Terminate
<1>4. IsState(PushBack(g, x)) /\ PushBack(g, x).next = g.next
  BY <1>1 DEF PushBack
<1>5. IsState(SetInsertPoint(g, x)) /\ SetInsertPoint(g, x).next = g.next
  BY <1>1 DEF SetInsertPoint
<1>6. IsState(Emit(g, x)) /\ Emit(g, x).next = g.next
  BY <1>1 DEF Emit
<1> QED
  BY <1>2, <1>3, <1>4, <1>5, <1>6

\* So does the creation of a block, with or without a function.
LEMMA CreateKeepsNext ==
    ASSUME NEW g, IsState(g)
    PROVE  /\ IsState(Create(g, TRUE)) /\ Create(g, TRUE).next = g.next
           /\ IsState(Create(g, FALSE)) /\ Create(g, FALSE).next = g.next
BY BlocksKeepNext, Zenon

AtMostOne(v) == v = <<>> \/ \E block : v = <<block>>

\* A block that is left takes the pending jump with it.
LEMMA LeaveTakesJump ==
    ASSUME NEW g, IsState(g), AtMostOne(g.next), NEW block
    PROVE  IsState(leaveBlock(g, block)) /\ leaveBlock(g, block).next = <<>>
<1>1. CASE g.next = <<>>
  BY <1>1, BlocksKeepNext DEF leaveBlock
<1>2. CASE g.next # <<>>
  <2>1. PICK b : g.next = <<b>>
    BY <1>2 DEF AtMostOne
  <2>2. Front(g.next) = <<>>
    BY <2>1 DEF Front
  <2>3. PICK h : h = [g EXCEPT !.next = Front(@)]
    OBVIOUS
  <2>4. IsState(h) /\ h.next = <<>>
    BY <2>2, <2>3 DEF IsState
  <2>5. leaveBlock(g, block) = Terminate(h, Br(Last(g.next)))
    BY <1>2, <2>3 DEF leaveBlock
  <2> QED
    BY <2>4, <2>5, BlocksKeepNext
<1> QED
  BY <1>1, <1>2

\* The constructors of IfGen and LoopGen branch to new blocks and keep what
\* is pending.
LEMMA ConstructorsKeepNext ==
    ASSUME NEW g, IsState(g), NEW id, NEW v
    PROVE  /\ IsState(IfGenConstructor(g, id, v).g)
           /\ IfGenConstructor(g, id, v).g.next = g.next
           /\ IsIf(IfGenConstructor(g, id, v).gen)
           /\ \A s \in {LoopGenConstructor(g, id), LoopGenWithCondition(g, id)} :
                 IsState(s.g) /\ s.g.next = g.next /\ IsLoop(s.gen)
<1>1. /\ IsState(IfGenConstructor(g, id, v).g) /\ IfGenConstructor(g, id, v).g.next = g.next
      /\ IsIf(IfGenConstructor(g, id, v).gen)
  <2>1. PICK n : n = Len(g.blocks)
    OBVIOUS
  <2>2. PICK a, b : a = Create(g, TRUE) /\ b = Create(a, FALSE)
    OBVIOUS
  <2>3. PICK c : c = Terminate(b, CondBr(id, n + 1, n + 2))
    OBVIOUS
  <2>4. IsState(c) /\ c.next = g.next
    <3>1. IsState(a) /\ a.next = g.next
      BY <2>2, CreateKeepsNext, Zenon
    <3>2. IsState(b) /\ b.next = g.next
      BY <2>2, <3>1, CreateKeepsNext, Zenon
    <3> QED
      BY <2>3, <3>2, BlocksKeepNext
  <2>5. IfGenConstructor(g, id, v).g = SetInsertPoint(c, n + 1)
    BY <2>1, <2>2, <2>3 DEF IfGenConstructor, Step
  <2>6. IsIf(IfGenConstructor(g, id, v).gen)
    BY DEF IfGenConstructor, Step, IsIf
  <2> QED
    BY <2>4, <2>5, <2>6, BlocksKeepNext
<1>2. /\ IsState(LoopGenConstructor(g, id).g) /\ LoopGenConstructor(g, id).g.next = g.next
      /\ IsLoop(LoopGenConstructor(g, id).gen)
  <2>1. PICK n : n = Len(g.blocks)
    OBVIOUS
  <2>2. PICK a, b, c : a = Create(g, TRUE) /\ b = Create(a, FALSE) /\ c = Create(b, FALSE)
    OBVIOUS
  <2>3. PICK d : d = Terminate(c, Br(n + 1))
    OBVIOUS
  <2>4. IsState(d) /\ d.next = g.next
    <3>1. IsState(a) /\ a.next = g.next
      BY <2>2, CreateKeepsNext, Zenon
    <3>2. IsState(b) /\ b.next = g.next
      BY <2>2, <3>1, CreateKeepsNext, Zenon
    <3>3. IsState(c) /\ c.next = g.next
      BY <2>2, <3>2, CreateKeepsNext, Zenon
    <3> QED
      BY <2>3, <3>3, BlocksKeepNext
  <2>5. LoopGenConstructor(g, id).g = SetInsertPoint(d, n + 1)
    BY <2>1, <2>2, <2>3 DEF LoopGenConstructor, Step
  <2>6. IsLoop(LoopGenConstructor(g, id).gen)
    BY DEF LoopGenConstructor, Step, IsLoop
  <2> QED
    BY <2>4, <2>5, <2>6, BlocksKeepNext
<1>3. /\ IsState(LoopGenWithCondition(g, id).g) /\ LoopGenWithCondition(g, id).g.next = g.next
      /\ IsLoop(LoopGenWithCondition(g, id).gen)
  <2>1. PICK n : n = Len(g.blocks)
    OBVIOUS
  <2>2. PICK a, b, c, d : /\ a = Create(g, TRUE) /\ b = Create(a, TRUE)
                          /\ c = Create(b, FALSE) /\ d = Create(c, FALSE)
    OBVIOUS
  <2>3. IsState(d) /\ d.next = g.next
    <3>1. IsState(a) /\ a.next = g.next
      BY <2>2, CreateKeepsNext, Zenon
    <3>2. IsState(b) /\ b.next = g.next
      BY <2>2, <3>1, CreateKeepsNext, Zenon
    <3>3. IsState(c) /\ c.next = g.next
      BY <2>2, <3>2, CreateKeepsNext, Zenon
    <3> QED
      BY <2>2, <3>3, CreateKeepsNext, Zenon
  <2>4. PICK e, f, h : /\ e = Terminate(d, Br(n + 1)) /\ f = SetInsertPoint(e, n + 1)
                       /\ h = Terminate(f, CondBr(id, n + 2, n + 4))
    OBVIOUS
  <2>5. IsState(h) /\ h.next = g.next
    BY <2>3, <2>4, BlocksKeepNext
  <2>6. LoopGenWithCondition(g, id).g = SetInsertPoint(h, n + 2)
    BY <2>1, <2>2, <2>4 DEF LoopGenWithCondition, Step
  <2>7. IsLoop(LoopGenWithCondition(g, id).gen)
    BY DEF LoopGenWithCondition, Step, IsLoop
  <2> QED
    BY <2>5, <2>6, <2>7, BlocksKeepNext
<1> QED
  BY <1>1, <1>2, <1>3

\* Else, EndIf and the end of a loop body leave a block; ElseIf does not, and
\* loopDone has none to leave.
LEMMA BranchesTakeJump ==
    ASSUME NEW g, IsState(g), AtMostOne(g.next), NEW gen, IsIf(gen), NEW id
    PROVE  /\ IsState(ElseIf(g, gen, id).g) /\ ElseIf(g, gen, id).g.next = g.next
           /\ IsIf(ElseIf(g, gen, id).gen)
           /\ IsState(Else(g, gen).g) /\ Else(g, gen).g.next = <<>> /\ IsIf(Else(g, gen).gen)
           /\ IsState(EndIf(g, gen).g) /\ EndIf(g, gen).g.next = <<>>
           /\ IsIf(setVar(g, gen, id))
<1>1. PICK s : s = withMerge(g, gen)
  OBVIOUS
<1>2. IsState(s.g) /\ s.g.next = g.next /\ IsIf(s.gen)
  <2>1. CASE gen.mergeBB # 0
    BY <1>1, <2>1 DEF withMerge, Step
  <2>2. CASE gen.mergeBB = 0
    <3>1. s.g = Create(g, FALSE) /\ s.gen = [gen EXCEPT !.mergeBB = Len(g.blocks) + 1]
      BY <1>1, <2>2 DEF withMerge, Step
    <3>2. IsIf([gen EXCEPT !.mergeBB = Len(g.blocks) + 1])
      BY DEF IsIf
    <3> QED
      BY <3>1, <3>2, CreateKeepsNext, Zenon
  <2> QED
    BY <2>1, <2>2
<1>3. IsState(ElseIf(g, gen, id).g) /\ ElseIf(g, gen, id).g.next = g.next
  <2>1. PICK n : n = Len(s.g.blocks)
    OBVIOUS
  <2>2. PICK a, b, c : /\ a = Terminate(s.g, Br(s.gen.mergeBB))
                       /\ b = PushBack(a, s.gen.nextBB) /\ c = SetInsertPoint(b, s.gen.nextBB)
    OBVIOUS
  <2>3. IsState(c) /\ c.next = g.next
    BY <1>2, <2>2, BlocksKeepNext
  <2>4. PICK d, e, f : /\ d = Create(c, TRUE) /\ e = Create(d, FALSE)
                       /\ f = Terminate(e, CondBr(id, n + 1, n + 2))
    OBVIOUS
  <2>5. IsState(f) /\ f.next = g.next
    <3>1. IsState(d) /\ d.next = g.next
      BY <2>3, <2>4, CreateKeepsNext, Zenon
    <3>2. IsState(e) /\ e.next = g.next
      BY <2>4, <3>1, CreateKeepsNext, Zenon
    <3>3. PICK x : x = CondBr(id, n + 1, n + 2) /\ f = Terminate(e, x)
      BY <2>4
    <3> QED
      BY <3>2, <3>3, BlocksKeepNext, Zenon
  <2>6. ElseIf(g, gen, id).g = SetInsertPoint(f, n + 1)
    BY <1>1, <2>1, <2>2, <2>4 DEF ElseIf, Step
  <2> QED
    BY <2>5, <2>6, BlocksKeepNext
<1>4. IsIf(ElseIf(g, gen, id).gen)
  <2>1. PICK n : n = Len(s.g.blocks) + 2
    OBVIOUS
  <2>2. PICK h : h = [s.gen EXCEPT !.state = "ElseIf"]
    OBVIOUS
  <2>3. ElseIf(g, gen, id).gen = [h EXCEPT !.nextBB = n]
    BY <1>1, <2>1, <2>2 DEF ElseIf, Step
  <2>4. IsIf(h)
    BY <1>2, <2>2 DEF IsIf
  <2>5. IsIf([h EXCEPT !.nextBB = n])
    BY <2>4 DEF IsIf
  <2> QED
    BY <2>3, <2>5, Zenon
<1>5. IsState(Else(g, gen).g) /\ Else(g, gen).g.next = <<>> /\ IsIf(Else(g, gen).gen)
  <2>1. PICK a, b : a = leaveBlock(s.g, s.gen.mergeBB) /\ b = PushBack(a, s.gen.nextBB)
    OBVIOUS
  <2>2. IsState(b) /\ b.next = <<>>
    BY <1>2, <2>1, LeaveTakesJump, BlocksKeepNext
  <2>3. /\ Else(g, gen).g = SetInsertPoint(b, s.gen.nextBB)
        /\ Else(g, gen).gen = [s.gen EXCEPT !.state = "Else"]
    BY <1>1, <2>1 DEF Else, Step
  <2>4. IsIf([s.gen EXCEPT !.state = "Else"])
    BY <1>2 DEF IsIf
  <2> QED
    BY <2>2, <2>3, <2>4, BlocksKeepNext
<1>6. IsState(EndIf(g, gen).g) /\ EndIf(g, gen).g.next = <<>>
  <2>1. PICK merge : merge = IF gen.mergeBB = 0 THEN gen.nextBB ELSE gen.mergeBB
    OBVIOUS
  <2>2. PICK a, b : a = leaveBlock(g, merge) /\ b = PushBack(a, merge)
    OBVIOUS
  <2>3. IsState(b) /\ b.next = <<>>
    BY <2>2, LeaveTakesJump, BlocksKeepNext
  <2>4. EndIf(g, gen).g = SetInsertPoint(b, merge)
    BY <2>1, <2>2 DEF EndIf, Step
  <2> QED
    BY <2>3, <2>4, BlocksKeepNext
<1>7. IsIf(setVar(g, gen, id))
  <2>1. PICK x : setVar(g, gen, id) = [gen EXCEPT !.in = x]
    BY DEF setVar
  <2> QED
    BY <2>1 DEF IsIf
<1> QED
  BY <1>3, <1>4, <1>5, <1>6, <1>7

\* The same for loops.
LEMMA LoopsTakeJump ==
    ASSUME NEW g, IsState(g), AtMostOne(g.next), NEW gen, IsLoop(gen), NEW id
    PROVE  /\ IsState(loopBodyEnd(g, gen).g) /\ loopBodyEnd(g, gen).g.next = <<>>
           /\ IsLoop(loopBodyEnd(g, gen).gen)
           /\ IsState(loopDone(g, gen, id).g) /\ loopDone(g, gen, id).g.next = g.next
<1>1. IsState(loopBodyEnd(g, gen).g) /\ loopBodyEnd(g, gen).g.next = <<>>
  <2>1. PICK a : a = leaveBlock(g, gen.loopContBB)
    OBVIOUS
  <2>2. IsState(a) /\ a.next = <<>>
    BY <2>1, LeaveTakesJump
  <2>3. loopBodyEnd(g, gen).g = SetInsertPoint(a, gen.loopContBB)
    BY <2>1 DEF loopBodyEnd, Step
  <2> QED
    BY <2>2, <2>3, BlocksKeepNext
<1>2. IsLoop(loopBodyEnd(g, gen).gen)
  <2>1. loopBodyEnd(g, gen).gen = [gen EXCEPT !.state = "Cont"]
    BY DEF loopBodyEnd, Step
  <2> QED
    BY <2>1 DEF IsLoop
<1>3. IsState(loopDone(g, gen, id).g) /\ loopDone(g, gen, id).g.next = g.next
  <2>1. PICK a, b, c, d : /\ a = PushBack(g, gen.loopContBB) /\ b = PushBack(a, gen.afterBB)
                          /\ c = SetInsertPoint(b, gen.loopContBB)
                          /\ d = Terminate(c, CondBr(id, gen.loopBB, gen.afterBB))
    OBVIOUS
  <2>2. IsState(d) /\ d.next = g.next
    BY <2>1, BlocksKeepNext
  <2>3. loopDone(g, gen, id).g = SetInsertPoint(d, gen.afterBB)
    BY <2>1 DEF loopDone, Step
  <2> QED
    BY <2>2, <2>3, BlocksKeepNext
<1> QED
  BY <1>1, <1>2, <1>3

-----------------------------------------------------------------------------
(* The calls of a query *)

Sequence(s) == \E S : s \in Seq(S)

Jumps == {"break", "continue"}

Objects(s) == Sequence(s) /\ \A k \in DOMAIN s : IsIf(s[k]) \/ IsLoop(s[k])

\* At most one jump is pending: that of the last call, when the innermost
\* object is one that leaves its block.
Pending ==
    \/ nextBBVec = <<>>
    \/ /\ \E block : nextBBVec = <<block>>
       /\ calls # <<>> /\ Last(calls).op \in Jumps
       /\ gens # <<>> /\ LeavesBlock(Gen)

CallsInv == Sequence(calls) /\ Objects(gens) /\ Pending

\* The objects after one was constructed or destroyed.
LEMMA ObjectsAfter ==
    ASSUME NEW s, Objects(s)
    PROVE  /\ \A gen : IsIf(gen) \/ IsLoop(gen) => Objects(Append(s, gen))
           /\ s # <<>> => /\ Objects(Front(s)) /\ Len(s) \in DOMAIN s
                          /\ IsIf(Last(s)) \/ IsLoop(Last(s))
                          /\ \A gen : IsIf(gen) \/ IsLoop(gen) => Objects(Append(Front(s), gen))
<1>1. PICK S : s \in Seq(S)
  BY DEF Objects, Sequence
<1>2. ASSUME NEW t, Objects(t), NEW gen, IsIf(gen) \/ IsLoop(gen) PROVE Objects(Append(t, gen))
  <2>1. PICK T : t \in Seq(T)
    BY <1>2 DEF Objects, Sequence
  <2>2. t \in Seq(T \cup {gen})
    BY <2>1
  <2>3. /\ Append(t, gen) \in Seq(T \cup {gen})
        /\ DOMAIN Append(t, gen) = DOMAIN t \cup {Len(t) + 1}
        /\ Append(t, gen)[Len(t) + 1] = gen
        /\ \A k \in DOMAIN t : Append(t, gen)[k] = t[k]
    BY <2>2
  <2>4. \A k \in DOMAIN Append(t, gen) : IsIf(Append(t, gen)[k]) \/ IsLoop(Append(t, gen)[k])
    BY <1>2, <2>3 DEF Objects
  <2> QED
    BY <2>3, <2>4 DEF Objects, Sequence
<1>3. ASSUME s # <<>>
      PROVE  Objects(Front(s)) /\ Len(s) \in DOMAIN s /\ (IsIf(Last(s)) \/ IsLoop(Last(s)))
  <2>1. PICK n \in Nat : n = Len(s) /\ n # 0 /\ DOMAIN s = 1 .. n
    BY <1>1, <1>3
  <2>2. /\ Front(s) \in Seq(S) /\ DOMAIN Front(s) = 1 .. n - 1
        /\ \A k \in 1 .. n - 1 : Front(s)[k] = s[k]
    BY <1>1, <2>1 DEF Front
  <2>3. \A k \in DOMAIN Front(s) : IsIf(Front(s)[k]) \/ IsLoop(Front(s)[k])
    BY <2>1, <2>2 DEF Objects
  <2>4. n \in DOMAIN s
    BY <2>1
  <2> QED
    BY <2>1, <2>2, <2>3, <2>4 DEF Objects, Sequence, Last
<1> QED
  BY <1>2, <1>3

\* What every call records.
LEMMA CallRecorded ==
    ASSUME CallsInv, NEW op, NEW id, NEW g, NEW newGens, Call(op, id, g, newGens)
    PROVE  /\ Sequence(calls)' /\ calls' # <<>> /\ Last(calls').op = op
           /\ gens' = newGens /\ nextBBVec' = g.next
           /\ UNCHANGED <<moduleGens, functionGens>>
<1>1. PICK S : calls \in Seq(S)
  BY DEF CallsInv, Sequence
<1>2. PICK c : c = [op |-> op, id |-> id, vars |-> op = "endif" /\ Gen.vars]
  OBVIOUS
<1>3. c.op = op /\ calls' = Append(calls, c)
  BY <1>2 DEF Call
<1>4. calls' \in Seq(S \cup {c}) /\ calls' # <<>> /\ Last(calls') = c
  <2>1. calls \in Seq(S \cup {c})
    BY <1>1
  <2> QED
    BY <1>3, <2>1 DEF Last
<1> QED
  BY <1>3, <1>4 DEF Call, Becomes, Sequence

\* A call after which no jump is pending.
LEMMA CallWithoutJump ==
    ASSUME CallsInv, NEW op, NEW id, NEW g, NEW newGens, Call(op, id, g, newGens),
           g.next = <<>>, Objects(newGens)
    PROVE  CallsInv' /\ UNCHANGED <<moduleGens, functionGens>>
BY CallRecorded DEF CallsInv, Pending, Objects, Sequence

\* The state the generators work on.
LEMMA GeneratedState == IsState(Generated) /\ Generated.next = nextBBVec
BY DEF IsState, Generated

\* The calls keep at most one jump pending.
LEMMA GenerateCallInv ==
    ASSUME CallsInv, GenerateCall
    PROVE  CallsInv' /\ UNCHANGED <<moduleGens, functionGens>>
<1>1. /\ IsState(Generated) /\ Generated.next = nextBBVec /\ AtMostOne(Generated.next)
      /\ Objects(gens)
  BY GeneratedState DEF CallsInv, Pending, AtMostOne
<1>2. ~BranchComplete => nextBBVec = <<>>
  BY DEF CallsInv, Pending, BranchComplete, Jumps
<1>3. ASSUME NEW kind, NEW states, Inner(kind, states)
      PROVE  /\ gens # <<>> /\ (IsIf(Gen) \/ IsLoop(Gen))
             /\ Gen.kind = kind /\ Gen.state \in states
  BY <1>1, <1>3, ObjectsAfter DEF Inner, Gen
<1>4. ASSUME NEW kind, NEW states, Inner(kind, states)
      PROVE  (kind = "if" => IsIf(Gen)) /\ (kind = "loop" => IsLoop(Gen))
  BY <1>3, <1>4 DEF IsIf, IsLoop
<1>5. ASSUME NEW v \in BOOLEAN, callIf(v)
      PROVE  CallsInv' /\ UNCHANGED <<moduleGens, functionGens>>
  <2>1. PICK s : s = IfGenConstructor(Generated, N, v)
    OBVIOUS
  <2>2. IsState(s.g) /\ s.g.next = <<>> /\ (IsIf(s.gen) \/ IsLoop(s.gen))
    <3>1. IsState(s.g) /\ s.g.next = Generated.next /\ IsIf(s.gen)
      BY <1>1, <2>1, ConstructorsKeepNext
    <3>2. nextBBVec = <<>>
      BY <1>2, <1>5 DEF callIf
    <3> QED
      BY <1>1, <3>1, <3>2
  <2>3. Call("if", N, Emit(s.g, Ins(N)), Append(gens, s.gen))
    BY <1>5, <2>1 DEF callIf, Open
  <2>4. Emit(s.g, Ins(N)).next = <<>>
    BY <2>2, BlocksKeepNext
  <2>5. Objects(Append(gens, s.gen))
    BY <1>1, <2>2, ObjectsAfter
  <2> QED
    BY <2>3, <2>4, <2>5, CallWithoutJump
<1>6. ASSUME callLoop PROVE CallsInv' /\ UNCHANGED <<moduleGens, functionGens>>
  <2>1. PICK s, op : /\ s \in {LoopGenConstructor(Generated, N), LoopGenWithCondition(Generated, N)}
                     /\ Call(op, N, Emit(s.g, Ins(N)), Append(gens, s.gen))
    BY <1>6 DEF callLoop, Open
  <2>2. IsState(s.g) /\ s.g.next = <<>> /\ (IsIf(s.gen) \/ IsLoop(s.gen))
    <3>1. nextBBVec = <<>>
      BY <1>2, <1>6 DEF callLoop
    <3>2. IsState(s.g) /\ s.g.next = Generated.next /\ IsLoop(s.gen)
      BY <1>1, <2>1, ConstructorsKeepNext
    <3> QED
      BY <1>1, <3>1, <3>2
  <2>3. Emit(s.g, Ins(N)).next = <<>>
    BY <2>2, BlocksKeepNext
  <2>4. Objects(Append(gens, s.gen))
    BY <1>1, <2>2, ObjectsAfter
  <2> QED
    BY <2>1, <2>3, <2>4, CallWithoutJump
<1>7. ASSUME callElseIf PROVE CallsInv' /\ UNCHANGED <<moduleGens, functionGens>>
  <2>1. gens # <<>> /\ IsIf(Gen)
    BY <1>3, <1>4, <1>7 DEF callElseIf
  <2>2. nextBBVec = <<>>
    BY <1>7 DEF callElseIf, CallsInv, Pending, Jumps
  <2>3. PICK s : s = ElseIf(Generated, Gen, N)
    OBVIOUS
  <2>4. IsState(s.g) /\ s.g.next = <<>> /\ IsIf(s.gen)
    BY <1>1, <2>1, <2>2, <2>3, BranchesTakeJump
  <2>5. Call("elseif", s.gen.id, Emit(s.g, Ins(N)), Append(Front(gens), s.gen))
    BY <1>7, <2>3 DEF callElseIf, Continue
  <2> QED
    BY <1>1, <2>1, <2>4, <2>5, BlocksKeepNext, ObjectsAfter, CallWithoutJump
<1>8. ASSUME callElse PROVE CallsInv' /\ UNCHANGED <<moduleGens, functionGens>>
  <2>1. gens # <<>> /\ IsIf(Gen)
    BY <1>3, <1>4, <1>8 DEF callElse
  <2>2. PICK s : s = Else(Generated, Gen)
    OBVIOUS
  <2>3. IsState(s.g) /\ s.g.next = <<>> /\ IsIf(s.gen)
    BY <1>1, <2>1, <2>2, BranchesTakeJump
  <2>4. Call("else", s.gen.id, Emit(s.g, Ins(N)), Append(Front(gens), s.gen))
    BY <1>8, <2>2 DEF callElse, Continue
  <2> QED
    BY <1>1, <2>1, <2>3, <2>4, BlocksKeepNext, ObjectsAfter, CallWithoutJump
<1>9. ASSUME callEndIf PROVE CallsInv' /\ UNCHANGED <<moduleGens, functionGens>>
  <2>1. gens # <<>> /\ IsIf(Gen)
    BY <1>3, <1>4, <1>9 DEF callEndIf
  <2>2. PICK s : s = EndIf(Generated, Gen)
    OBVIOUS
  <2>3. IsState(s.g) /\ s.g.next = <<>>
    BY <1>1, <2>1, <2>2, BranchesTakeJump
  <2>4. \E h, id : /\ IsState(h) /\ h.next = <<>>
                   /\ Call("endif", id, Emit(h, Ins(N)), Front(gens))
    <3>1. PICK q : q = IF Gen.vars THEN [s EXCEPT !.g = getResult(@, Gen)] ELSE s
      OBVIOUS
    <3>2. Call("endif", q.gen.id, Emit(q.g, Ins(N)), Front(gens))
      BY <1>9, <2>2, <3>1 DEF callEndIf, Close
    <3>3. IsState(q.g) /\ q.g.next = <<>>
      <4>1. CASE Gen.vars
        <5>1. s = [g |-> s.g, gen |-> s.gen]
          BY <2>2 DEF EndIf, Step
        <5>2. q = [s EXCEPT !.g = Emit(s.g, Phi(Gen.in))]
          BY <3>1, <4>1 DEF getResult
        <5>3. q.g = Emit(s.g, Phi(Gen.in))
          BY <5>1, <5>2
        <5> QED
          BY <2>3, <5>3, BlocksKeepNext
      <4>2. CASE ~ Gen.vars
        BY <2>3, <3>1, <4>2
      <4> QED
        BY <4>1, <4>2
    <3> QED
      BY <3>2, <3>3
  <2>5. PICK h, id : /\ IsState(h) /\ h.next = <<>>
                     /\ Call("endif", id, Emit(h, Ins(N)), Front(gens))
    BY <2>4
  <2> QED
    BY <1>1, <2>1, <2>5, BlocksKeepNext, ObjectsAfter, CallWithoutJump
<1>10. ASSUME callSetVar PROVE CallsInv' /\ UNCHANGED <<moduleGens, functionGens>>
  <2>1. gens # <<>> /\ IsIf(Gen) /\ nextBBVec = <<>>
    BY <1>2, <1>3, <1>4, <1>10 DEF callSetVar
  <2>2. IsIf(setVar(Generated, Gen, N))
    BY <1>1, <2>1, BranchesTakeJump
  <2>3. Call("set", Gen.id, Emit(Generated, Ins(N)), Append(Front(gens), setVar(Generated, Gen, N)))
    BY <1>10 DEF callSetVar
  <2> QED
    BY <1>1, <2>1, <2>2, <2>3, BlocksKeepNext, ObjectsAfter, CallWithoutJump
<1>11. ASSUME callBodyEnd PROVE CallsInv' /\ UNCHANGED <<moduleGens, functionGens>>
  <2>1. gens # <<>> /\ IsLoop(Gen)
    BY <1>3, <1>4, <1>11 DEF callBodyEnd
  <2>2. PICK s : s = loopBodyEnd(Generated, Gen)
    OBVIOUS
  <2>3. IsState(s.g) /\ s.g.next = <<>> /\ IsLoop(s.gen)
    BY <1>1, <2>1, <2>2, LoopsTakeJump
  <2>4. Call("bodyend", s.gen.id, Emit(s.g, Ins(N)), Append(Front(gens), s.gen))
    BY <1>11, <2>2 DEF callBodyEnd, Continue
  <2> QED
    BY <1>1, <2>1, <2>3, <2>4, BlocksKeepNext, ObjectsAfter, CallWithoutJump
<1>12. ASSUME callLoopDone PROVE CallsInv' /\ UNCHANGED <<moduleGens, functionGens>>
  <2>1. gens # <<>> /\ IsLoop(Gen) /\ Gen.kind = "loop" /\ Gen.state = "Cont"
    BY <1>3, <1>4, <1>12 DEF callLoopDone
  <2>2. nextBBVec = <<>>
    BY <2>1 DEF CallsInv, Pending, LeavesBlock
  <2>3. PICK s : s = loopDone(Generated, Gen, N)
    OBVIOUS
  <2>4. IsState(s.g) /\ s.g.next = <<>>
    BY <1>1, <2>1, <2>2, <2>3, LoopsTakeJump
  <2>5. Call("done", s.gen.id, Emit(s.g, Ins(N)), Front(gens))
    BY <1>12, <2>3 DEF callLoopDone, Close
  <2> QED
    BY <1>1, <2>1, <2>4, <2>5, BlocksKeepNext, ObjectsAfter, CallWithoutJump
<1>13. ASSUME NEW k \in DOMAIN gens, callJump(k)
       PROVE  CallsInv' /\ UNCHANGED <<moduleGens, functionGens>>
  <2>1. nextBBVec = <<>> /\ Gen.state # "Cont"
    BY <1>2, <1>13 DEF callJump
  <2>2. gens # <<>> /\ LeavesBlock(Gen)
    <3>1. gens # <<>>
      OBVIOUS
    <3>2. IsIf(Gen) \/ IsLoop(Gen)
      BY <1>1, <3>1, ObjectsAfter DEF Gen
    <3> QED
      BY <2>1, <3>1, <3>2 DEF IsIf, IsLoop, LeavesBlock
  <2>3. PICK op, block : op \in Jumps /\ Call(op, gens[k].id, setNextBlock(Generated, block), gens)
    BY <1>13 DEF callJump, loopBreak, loopContinue, Jumps
  <2>4. setNextBlock(Generated, block).next = <<block>>
    <3>1. setNextBlock(Generated, block) = [Generated EXCEPT !.next = Append(nextBBVec, block)]
      BY <1>1 DEF setNextBlock
    <3>2. Append(nextBBVec, block) = <<block>>
      BY <2>1
    <3> QED
      BY <1>1, <3>1, <3>2 DEF IsState
  <2>5. Pending'
    BY <2>2, <2>3, <2>4, CallRecorded DEF Pending, Gen
  <2> QED
    BY <1>1, <2>3, <2>5, CallRecorded DEF CallsInv, Objects, Sequence
<1> QED
  BY <1>5, <1>6, <1>7, <1>8, <1>9, <1>10, <1>11, <1>12, <1>13 DEF GenerateCall

-----------------------------------------------------------------------------
(* The statement in progress *)

ProgressInv ==
    /\ inputs \in Seq(Statements \cup {NoInput})
    /\ at \in Nat
    /\ stage # "next" => at \in DOMAIN inputs

\* Every step has a statement of the request to work on.
LEMMA NextProgress == ProgressInv /\ [Next]_vars => ProgressInv'
<1> SUFFICES ASSUME ProgressInv, [Next]_vars PROVE ProgressInv'
  OBVIOUS
<1>1. ASSUME UNCHANGED inputs, at' \in {at, at + 1},
             stage' = "next" \/ (at' = at /\ at \in DOMAIN inputs)
      PROVE  ProgressInv'
  BY <1>1 DEF ProgressInv
<1>2. at > 0 /\ ~Finished => at \in DOMAIN inputs
  BY DEF ProgressInv, Finished
<1>3. ASSUME UNCHANGED <<inputs, at, stage>> PROVE ProgressInv'
  BY <1>3 DEF ProgressInv
<1>4. ASSUME put \/ stream \/ generate \/ beginFunction PROVE ProgressInv'
  BY <1>3, <1>4 DEF put, Answered, stream, generate, beginFunction, Unchanged, Requested
<1>5. ASSUME NEW index, delete(index) PROVE ProgressInv'
  BY <1>3, <1>5 DEF delete, Answered
<1>6. ASSUME NEW index, NEW statements \in SeqOf(Statements, MaxInputs),
             post(index, Append(statements, NoInput))
      PROVE  ProgressInv'
  <2>1. PICK m \in 0 .. MaxInputs : statements \in [1 .. m -> Statements]
    BY DEF SeqOf
  <2>2. statements \in Seq(Statements \cup {NoInput})
    BY <2>1
  <2> QED
    BY <1>6, <2>2 DEF post, ProgressInv
<1>7. ASSUME skipEmpty \/ analyse PROVE ProgressInv'
  BY <1>1, <1>2, <1>7 DEF skipEmpty, analyse, Report, Requested
<1>8. ASSUME endFunction \/ throwInGeneration \/ finishStatement PROVE ProgressInv'
  <2>1. at \in DOMAIN inputs
    BY <1>8 DEF ProgressInv, endFunction, throwInGeneration, finishStatement
  <2> QED
    BY <1>1, <1>8, <2>1
       DEF endFunction, throwInGeneration, finishStatement, Report, Unchanged, Requested
<1>9. ASSUME respond PROVE ProgressInv'
  BY <1>9 DEF respond, ProgressInv
<1>10. ASSUME UNCHANGED vars PROVE ProgressInv'
  BY <1>3, <1>10 DEF vars, serverVars
<1> QED
  BY <1>4, <1>5, <1>6, <1>7, <1>8, <1>9, <1>10 DEF Next

-----------------------------------------------------------------------------
(* The generators of a query *)

Empty == gens = <<>> /\ calls = <<>> /\ nextBBVec = <<>>

GeneratorInv ==
    /\ stage \in {"next", "generate", "run"}
    /\ moduleGens = IF stage = "next" THEN 0 ELSE 1
    /\ functionGens \in {0, 1}
    /\ functionGens = 1 => stage = "generate" /\ CallsInv
    /\ functionGens = 0 => nextBBVec = <<>>
    /\ functionGens = 0 /\ stage # "run" => Empty

\* An exception finds at most one pending jump, and then an object whose
\* destructor takes it.
LEMMA UnwindInv ==
    ASSUME CallsInv, Unwind
    PROVE  nextBBVec' = <<>>
<1> DEFINE S == {k \in DOMAIN gens : LeavesBlock(gens[k])}
<1>1. nextBBVec' = SubSeq(nextBBVec, 1, Len(nextBBVec) - Cardinality(S))
  BY DEF Unwind
<1>2. PICK n \in Nat : n = Len(gens) /\ DOMAIN gens = 1 .. n
  BY DEF CallsInv, Objects, Sequence
<1>3. S \subseteq 1 .. n
  BY <1>2
<1> HIDE DEF S
<1>4. IsFiniteSet(S) /\ Cardinality(S) \in Nat
  <2>1. IsFiniteSet(1 .. n)
    BY FS_Interval
  <2>2. IsFiniteSet(S)
    BY <1>3, <2>1, FS_Subset
  <2> QED
    BY <2>2, FS_CardinalityType
<1>5. CASE nextBBVec = <<>>
  BY <1>1, <1>4, <1>5
<1>6. CASE nextBBVec # <<>>
  <2>1. PICK block : nextBBVec = <<block>>
    BY <1>6 DEF CallsInv, Pending
  <2>2. Len(gens) \in S
    BY <1>6, ObjectsAfter DEF CallsInv, Pending, Gen, Last, S
  <2>3. Cardinality(S) # 0
    BY <1>4, <2>2, FS_EmptySet
  <2>4. Len(nextBBVec) - Cardinality(S) \in Int /\ Len(nextBBVec) - Cardinality(S) < 1
    BY <1>4, <2>1, <2>3
  <2> QED
    BY <1>1, <2>1, <2>4
<1> QED
  BY <1>5, <1>6

\* Every step leaves the generators as its stage says.
LEMMA NextGenerators == ProgressInv /\ GeneratorInv /\ [Next]_vars => GeneratorInv'
<1> SUFFICES ASSUME ProgressInv, GeneratorInv, [Next]_vars PROVE GeneratorInv'
  OBVIOUS
<1>1. ASSUME UNCHANGED codeGenVars, stage' = stage PROVE GeneratorInv'
  <2>1. CallsInv => CallsInv'
    BY <1>1 DEF codeGenVars, CallsInv, Pending, Objects, Sequence, Gen
  <2> QED
    BY <1>1, <2>1 DEF codeGenVars, GeneratorInv, Empty
<1>2. ASSUME moduleGens' = moduleGens - 1, functionGens' = 0, nextBBVec' = <<>>,
             gens' = <<>>, calls' = <<>>, stage # "next", stage' = "next"
      PROVE  GeneratorInv'
  BY <1>2 DEF GeneratorInv, Empty
<1>3. ASSUME put \/ skipEmpty \/ stream PROVE GeneratorInv'
  BY <1>1, <1>3 DEF put, Answered, skipEmpty, stream
<1>4. ASSUME NEW index, delete(index) PROVE GeneratorInv'
  BY <1>1, <1>4 DEF delete, Answered
<1>5. ASSUME NEW index, NEW statements, post(index, statements) PROVE GeneratorInv'
  <2>1. stage = "next" /\ stage' = "next" /\ UNCHANGED codeGenVars
    BY <1>5 DEF post, Idle, ProgressInv
  <2> QED
    BY <1>1, <2>1
<1>6. ASSUME respond PROVE GeneratorInv'
  <2>1. stage = "next" /\ stage' = "next" /\ UNCHANGED codeGenVars
    BY <1>6 DEF respond, Finished, ProgressInv
  <2> QED
    BY <1>1, <2>1
<1>7. ASSUME analyse PROVE GeneratorInv'
  <2>1. CASE UNCHANGED codeGenVars /\ stage' = "next"
    BY <1>1, <1>7, <2>1 DEF analyse
  <2>2. CASE /\ stage' = "generate" /\ moduleGens' = moduleGens + 1
             /\ UNCHANGED <<functionGens, nextBBVec, gens, calls>>
    BY <1>7, <2>2 DEF analyse, GeneratorInv, Empty
  <2> QED
    BY <1>7, <2>1, <2>2 DEF analyse, Report, ModuleGenConstructor
<1>8. ASSUME beginFunction PROVE GeneratorInv'
  <2>1. /\ stage = "generate" /\ stage' = "generate" /\ functionGens = 0 /\ functionGens' = 1
        /\ UNCHANGED <<moduleGens, nextBBVec, gens, calls>>
    BY <1>8 DEF beginFunction, FunctionGenConstructor
  <2>2. CallsInv'
    <3>1. gens' = <<>> /\ calls' = <<>> /\ nextBBVec' = <<>>
      BY <2>1 DEF GeneratorInv, Empty
    <3>2. <<>> \in Seq({})
      OBVIOUS
    <3> QED
      BY <3>1, <3>2 DEF CallsInv, Pending, Objects, Sequence
  <2> QED
    BY <2>1, <2>2 DEF GeneratorInv
<1>9. ASSUME generate PROVE GeneratorInv'
  <2>1. stage = "generate" /\ stage' = "generate" /\ functionGens = 1 /\ GenerateCall /\ CallsInv
    BY <1>9 DEF generate, GeneratorInv
  <2> QED
    BY <2>1, GenerateCallInv DEF GeneratorInv
<1>10. ASSUME endFunction PROVE GeneratorInv'
  <2>1. /\ stage' = "run" /\ functionGens = 1 /\ functionGens' = functionGens - 1
        /\ gens = <<>> /\ UNCHANGED <<moduleGens, nextBBVec>>
    BY <1>10 DEF endFunction, FunctionGenDestructor
  <2>2. nextBBVec = <<>>
    BY <2>1 DEF GeneratorInv, CallsInv, Pending
  <2> QED
    BY <1>10, <2>1, <2>2 DEF GeneratorInv, endFunction
<1>11. ASSUME throwInGeneration PROVE GeneratorInv'
  <2>1. stage = "generate" /\ stage' = "next" /\ functionGens = 1 /\ Unwind /\ CallsInv
    BY <1>11 DEF throwInGeneration, Report, GeneratorInv
  <2>2. nextBBVec' = <<>>
    BY <2>1, UnwindInv
  <2> QED
    BY <1>2, <2>1, <2>2 DEF Unwind, ModuleGenDestructor
<1>12. ASSUME finishStatement PROVE GeneratorInv'
  <2>1. /\ stage = "run" /\ stage' = "next" /\ UNCHANGED <<functionGens, nextBBVec>>
        /\ moduleGens' = moduleGens - 1 /\ gens' = <<>> /\ calls' = <<>>
    BY <1>12 DEF finishStatement, ModuleGenDestructor
  <2>2. functionGens = 0 /\ nextBBVec = <<>>
    BY <2>1 DEF GeneratorInv
  <2> QED
    BY <1>2, <2>1, <2>2
<1>13. ASSUME UNCHANGED vars PROVE GeneratorInv'
  BY <1>1, <1>13 DEF vars, serverVars
<1> QED
  BY <1>3, <1>4, <1>5, <1>6, <1>7, <1>8, <1>9, <1>10, <1>11, <1>12, <1>13 DEF Next

\* No request is in progress at the start, and nothing was generated.
LEMMA InitPipeline == Init => ProgressInv /\ GeneratorInv /\ DatabaseInv
<1> SUFFICES ASSUME Init PROVE ProgressInv /\ GeneratorInv /\ DatabaseInv
  OBVIOUS
<1>1. ProgressInv
  BY DEF Init, ProgressInv
<1>2. GeneratorInv
  BY DEF Init, CodeGenInit, GeneratorInv, Empty
<1>3. DatabaseInv
  <2>1. /\ DOMAIN dbs = {0} /\ dbs = [i \in DOMAIN dbs |-> dbs[i]]
        /\ dbcounter = 0 /\ dbindex = 0
    BY DEF Init
  <2>2. handedOut = [k \in 1 .. dbcounter |-> k]
    <3>1. handedOut = <<>> /\ 1 .. dbcounter = {}
      BY <2>1 DEF Init
    <3> QED
      BY <3>1
  <2> QED
    BY <2>1, <2>2 DEF DatabaseInv
<1> QED
  BY <1>1, <1>2, <1>3

(***************************************************************************)
(* Whichever call of whichever query throws, and however deep IfGen and    *)
(* LoopGen objects are nested then, the next statement finds the           *)
(* thread-local CodeGen without a module, a function or a pending jump.    *)
(***************************************************************************)
THEOREM GeneratorsLeaveNothing == Spec => []GeneratorsAreGone
<1>1. ProgressInv /\ GeneratorInv => GeneratorsAreGone
  BY DEF GeneratorInv, GeneratorsAreGone, Empty
<1> QED
  BY <1>1, InitPipeline, NextProgress, NextGenerators, PTL DEF Spec, vars

(***************************************************************************)
(* PUT requests are never answered with the same index twice, and only     *)
(* requests that name a database other than the standard one change it,    *)
(* for any number of clients, requests and deleted databases (server.cpp,  *)
(* onRequest).                                                             *)
(***************************************************************************)
THEOREM DatabasesStaySeparate == Spec => []DatabasesAreSeparate
<1>1. DatabaseInv => DatabasesAreSeparate
  <2> SUFFICES ASSUME DatabaseInv PROVE DatabasesAreSeparate
    OBVIOUS
  <2>1. IsInjective(handedOut)
    BY DEF DatabaseInv, IsInjective
  <2>2. ASSUME NEW i \in DOMAIN dbs \ {0}, NEW k \in DOMAIN dbs[i] PROVE dbs[i][k] = i
    <3>1. dbs[i] \in Seq({i})
      BY DEF DatabaseInv
    <3>2. dbs[i][k] \in {i}
      BY <3>1
    <3> QED
      BY <3>2
  <2> QED
    BY <2>1, <2>2 DEF DatabasesAreSeparate
<1>2. ProgressInv => at \in Nat
  BY DEF ProgressInv
<1> QED
  BY <1>1, <1>2, InitPipeline, NextProgress, NextDatabases, PTL DEF Spec, vars

-----------------------------------------------------------------------------
(* The response *)

\* p is the last statement before the n-th input.
LastBefore(p, n) ==
    /\ p \in DOMAIN inputs /\ p < n /\ inputs[p] # NoInput
    /\ \A j \in DOMAIN inputs : j < n /\ inputs[j] # NoInput => j <= p

LengthOf(rows) == 2 * rows - (IF rows = 0 THEN 0 ELSE 1)

\* Only tuples of statement p were printed, as a list.
Listed(p) == \A k \in DOMAIN ss : ss[k] = IF k % 2 = 1 THEN <<requests, p>> ELSE Comma

ResponseOf(p) ==
    /\ Listed(p)
    /\ p \notin error => Len(ss) = LengthOf(inputs[p].rows)
    /\ error = {} => columns \in {p, Unspecified}

\* m tuples were printed since the printers were reset, and they count m.
Printed(m) ==
    /\ Len(ss) = LengthOf(m)
    /\ Streamed = m
    /\ (m = 0 /\ first = TRUE) \/ (m # 0 /\ first = FALSE)

ResponseInv ==
    /\ Sequence(ss)
    /\ stage # "next" => inputs[at] # NoInput
    /\ stage = "next" => \A p \in DOMAIN inputs : LastBefore(p, at) => ResponseOf(p)
    /\ stage = "generate" => ss = <<>> /\ first = TRUE
    /\ stage = "run" => Listed(at) /\ \E m \in Nat : Printed(m)

\* What changes neither the statement in progress nor its tuples keeps the
\* invariant.
LEMMA ResponseKept ==
    ASSUME ResponseInv, UNCHANGED <<requests, inputs, at, stage, ss, first, columns, error>>
    PROVE  ResponseInv'
<1>1. \A p : LastBefore(p, at)' <=> LastBefore(p, at)
  BY DEF LastBefore
<1>2. \A p : ResponseOf(p)' <=> ResponseOf(p)
  BY DEF ResponseOf, Listed
<1>3. Listed(at)' <=> Listed(at)
  BY DEF Listed
<1>4. \A m : Printed(m)' <=> Printed(m)
  BY DEF Printed, Streamed, Tuple
<1> QED
  BY <1>1, <1>2, <1>3, <1>4 DEF ResponseInv

\* When the statement in progress is done, the response is about it.
LEMMA ResponseDone ==
    ASSUME ProgressInv, Sequence(ss)', at \in DOMAIN inputs, inputs[at] # NoInput,
           UNCHANGED <<requests, inputs>>, at' = at + 1, stage' = "next",
           \A k \in DOMAIN ss' : ss'[k] = IF k % 2 = 1 THEN <<requests, at>> ELSE Comma,
           at \notin error' => Len(ss') = LengthOf(inputs[at].rows),
           error' = {} => columns' \in {at, Unspecified}
    PROVE  ResponseInv'
<1>1. ASSUME NEW p \in DOMAIN inputs, LastBefore(p, at)' PROVE p = at
  <2>1. at \in Nat /\ p \in Nat
    BY DEF ProgressInv
  <2>2. p < at + 1 /\ at <= p
    BY <1>1, <2>1 DEF LastBefore
  <2> QED
    BY <2>1, <2>2
<1>2. \A p \in DOMAIN inputs' : p = at =>
         /\ \A k \in DOMAIN ss' : ss'[k] = IF k % 2 = 1 THEN <<requests', p>> ELSE Comma
         /\ p \notin error' => Len(ss') = LengthOf(inputs'[p].rows)
         /\ error' = {} => columns' \in {p, Unspecified}
  OBVIOUS
<1>3. ASSUME NEW p \in DOMAIN inputs', LastBefore(p, at)' PROVE ResponseOf(p)'
  BY <1>1, <1>2, <1>3 DEF ResponseOf, Listed
<1> QED
  BY <1>3 DEF ResponseInv

\* A tuple is appended after a comma, unless it is the first one.
LEMMA StreamPrints ==
    ASSUME NEW m \in Nat, Sequence(ss), Listed(at), Printed(m),
           ss' = printed(ss), first' = FALSE, UNCHANGED <<requests, at>>
    PROVE  Sequence(ss)' /\ Listed(at)' /\ Printed(m + 1)'
<1>1. PICK t, comma, n : /\ t = Tuple /\ comma = Comma /\ t # comma
                         /\ n \in Nat /\ n = Len(ss) /\ DOMAIN ss = 1 .. n
  <2>1. Tuple # Comma
    BY DEF Tuple, Comma
  <2>2. Len(ss) \in Nat /\ DOMAIN ss = 1 .. Len(ss)
    BY DEF Sequence
  <2> QED
    BY <2>1, <2>2
<1>2. n = LengthOf(m) /\ (first <=> m = 0)
  BY <1>1 DEF Printed
<1>3. PICK S : ss \in Seq(S)
  BY DEF Sequence
<1>4. PICK l \in Nat : /\ l = 2 * m + 1 /\ l = LengthOf(m + 1) /\ n < l
                       /\ ss' \in Seq(S \cup {t, comma}) /\ Len(ss') = l
                       /\ \A k \in 1 .. n : ss'[k] = ss[k]
                       /\ \A k \in n + 1 .. l - 1 : ss'[k] = comma /\ k = 2 * m
                       /\ ss'[l] = t
  <2>1. CASE m = 0
    <3>1. n = 0 /\ ss' = ss \o <<t>> /\ LengthOf(1) = 1
      BY <1>1, <1>2, <2>1 DEF LengthOf, printed
    <3>2. ss' \in Seq(S \cup {t, comma}) /\ Len(ss') = 1 /\ ss'[1] = t
      BY <1>1, <1>3, <3>1
    <3> QED
      BY <2>1, <3>1, <3>2
  <2>2. CASE m # 0
    <3>1. n = 2 * m - 1 /\ LengthOf(m + 1) = 2 * m + 1
      BY <1>2, <2>2 DEF LengthOf
    <3>2. ss' = Append(ss, comma) \o <<t>>
      BY <1>1, <1>2, <2>2 DEF printed
    <3>3. /\ ss' \in Seq(S \cup {t, comma}) /\ Len(ss') = n + 2
          /\ \A k \in 1 .. n : ss'[k] = ss[k]
          /\ ss'[n + 1] = comma /\ ss'[n + 2] = t
      <4>1. PICK u : u = Append(ss, comma)
        OBVIOUS
      <4>2. /\ u \in Seq(S \cup {t, comma}) /\ Len(u) = n + 1
            /\ \A k \in 1 .. n : u[k] = ss[k]
            /\ u[n + 1] = comma
        BY <1>1, <1>3, <4>1
      <4>3. ss' = u \o <<t>>
        BY <3>2, <4>1
      <4> QED
        BY <1>1, <4>2, <4>3
    <3> QED
      BY <3>1, <3>3
  <2> QED
    BY <2>1, <2>2
<1>5. DOMAIN ss' = 1 .. l /\ Sequence(ss)'
  BY <1>4 DEF Sequence
<1>6. Listed(at)'
  <2>1. ASSUME NEW k \in 1 .. l PROVE ss'[k] = IF k % 2 = 1 THEN t ELSE comma
    <3>1. CASE k \in 1 .. n
      BY <1>1, <1>4, <3>1 DEF Listed, Tuple
    <3>2. CASE k \in n + 1 .. l - 1
      <4>1. k % 2 = 0
        BY <1>4, <3>2
      <4> QED
        BY <1>4, <3>2, <4>1
    <3>3. CASE k = l
      <4>1. k % 2 = 1
        BY <1>4, <3>3
      <4> QED
        BY <1>4, <3>3, <4>1
    <3>4. k \in 1 .. n \/ k \in n + 1 .. l - 1 \/ k = l
      BY <1>1, <1>4
    <3> QED
      BY <3>1, <3>2, <3>3, <3>4
  <2>2. t = <<requests', at'>> /\ comma = Comma
    BY <1>1 DEF Tuple
  <2> QED
    BY <1>5, <2>1, <2>2 DEF Listed
<1>7. Streamed' = m + 1
  <2> DEFINE Old == {k \in DOMAIN ss : ss[k] = t}
  <2> DEFINE New == {k \in DOMAIN ss' : ss'[k] = t}
  <2>1. Streamed = Cardinality(Old)
    BY <1>1 DEF Streamed
  <2>2. Tuple' = t
    BY <1>1 DEF Tuple
  <2>3. Streamed' = Cardinality(New)
    BY <2>2 DEF Streamed
  <2>4. New = Old \cup {l} /\ l \notin Old
    BY <1>1, <1>4, <1>5
  <2>5. IsFiniteSet(Old)
    <3>1. Old \subseteq 1 .. n /\ IsFiniteSet(1 .. n)
      BY <1>1, FS_Interval
    <3> QED
      BY <3>1, FS_Subset
  <2>6. Cardinality(Old) = m
    BY <2>1 DEF Printed
  <2> HIDE DEF Old, New
  <2>7. Cardinality(New) = Cardinality(Old) + 1
    BY <2>4, <2>5, FS_AddElement
  <2> QED
    BY <2>3, <2>6, <2>7
<1>8. m + 1 # 0
  OBVIOUS
<1> QED
  BY <1>4, <1>5, <1>6, <1>7, <1>8 DEF Printed

\* Every step keeps the response about the last statement.
LEMMA NextResponse ==
    ProgressInv /\ ResponseInv /\ [Next]_vars => ResponseInv'
<1> SUFFICES ASSUME ProgressInv, ResponseInv, [Next]_vars PROVE ResponseInv'
  OBVIOUS
<1>1. /\ at \in Nat /\ (at > 0 /\ ~Finished => at \in DOMAIN inputs)
      /\ \A k \in DOMAIN inputs : k \in Nat /\ k > 0
      /\ stage # "next" => at \in DOMAIN inputs /\ inputs[at] # NoInput
  BY DEF ProgressInv, Finished, ResponseInv
<1>2. ASSUME at' \in {0, 1}, stage' = "next", UNCHANGED ss, inputs' \in Seq(Statements \cup {NoInput})
      PROVE  ResponseInv'
  <2>1. ASSUME NEW p \in DOMAIN inputs' PROVE ~ LastBefore(p, at)'
    BY <1>2 DEF LastBefore
  <2> QED
    BY <1>2, <2>1 DEF ResponseInv
<1>3. ASSUME at = 0, UNCHANGED <<inputs, at, stage, ss>> PROVE ResponseInv'
  BY <1>1, <1>2, <1>3 DEF ProgressInv
<1>4. ASSUME put PROVE ResponseInv'
  BY <1>3, <1>4 DEF put, Idle, Answered
<1>5. ASSUME NEW index, delete(index) PROVE ResponseInv'
  BY <1>3, <1>5 DEF delete, Idle, Answered
<1>6. ASSUME NEW index, NEW statements \in SeqOf(Statements, MaxInputs),
             post(index, Append(statements, NoInput))
      PROVE  ResponseInv'
  <2>1. PICK m \in 0 .. MaxInputs : statements \in [1 .. m -> Statements]
    BY DEF SeqOf
  <2>2. statements \in Seq(Statements \cup {NoInput})
    BY <2>1
  <2> QED
    BY <1>2, <1>6, <2>2 DEF post
<1>7. ASSUME skipEmpty PROVE ResponseInv'
  <2>1. /\ stage = "next" /\ inputs[at] = NoInput /\ at' = at + 1
        /\ UNCHANGED <<inputs, requests, stage, ss, first, columns, error>>
    BY <1>7 DEF skipEmpty, Statement, Requested
  <2>2. ASSUME NEW p \in DOMAIN inputs', LastBefore(p, at)' PROVE LastBefore(p, at)
    BY <1>1, <2>1, <2>2 DEF LastBefore
  <2>3. ASSUME NEW p \in DOMAIN inputs, ResponseOf(p) PROVE ResponseOf(p)'
    BY <2>1, <2>3 DEF ResponseOf, Listed
  <2>4. ASSUME NEW p \in DOMAIN inputs', LastBefore(p, at)' PROVE ResponseOf(p)'
    BY <2>1, <2>2, <2>3, <2>4 DEF ResponseInv
  <2> QED
    BY <2>1, <2>4 DEF ResponseInv, Sequence
<1>8. ASSUME analyse PROVE ResponseInv'
  <2>1. /\ at \in DOMAIN inputs /\ inputs[at] # NoInput /\ inputs[at] \in Statements
        /\ ss' = <<>> /\ first' = TRUE /\ UNCHANGED <<requests, inputs>>
    BY <1>1, <1>8 DEF analyse, Statement, resetPrinters, Requested, ProgressInv
  <2>2. Sequence(ss)'
    <3>1. <<>> \in Seq({})
      OBVIOUS
    <3> QED
      BY <2>1, <3>1 DEF Sequence
  <2>3. CASE Report
    BY <2>1, <2>2, <2>3, ResponseDone DEF Report
  <2>4. CASE inputs[at].kind = "create" /\ columns' = at /\ at' = at + 1 /\ stage' = "next"
    <3>1. inputs[at].rows = 0
      BY <2>1, <2>4, PipelineAssumption
    <3>2. Len(ss') = LengthOf(inputs[at].rows)
      BY <2>1, <3>1 DEF LengthOf
    <3> QED
      BY <2>1, <2>2, <2>4, <3>2, ResponseDone
  <2>5. CASE stage' = "generate" /\ UNCHANGED at
    BY <2>1, <2>2, <2>5 DEF ResponseInv
  <2> QED
    BY <1>8, <2>3, <2>4, <2>5 DEF analyse, Statement
<1>9. ASSUME beginFunction \/ generate PROVE ResponseInv'
  BY <1>9, ResponseKept DEF beginFunction, generate, Unchanged, Requested
<1>10. ASSUME endFunction PROVE ResponseInv'
  <2>1. /\ stage = "generate" /\ stage' = "run" /\ UNCHANGED <<requests, inputs, at, ss, first>>
    BY <1>10 DEF endFunction, Unchanged, Requested
  <2>2. ss = <<>> /\ first = TRUE
    BY <2>1 DEF ResponseInv
  <2>3. Listed(at)'
    BY <2>1, <2>2 DEF Listed
  <2>4. Printed(0)'
    <3>1. Streamed' = 0
      <4>1. {k \in DOMAIN ss' : ss'[k] = Tuple'} = {}
        BY <2>1, <2>2
      <4> QED
        BY <4>1, FS_EmptySet DEF Streamed
    <3> QED
      BY <2>1, <2>2, <3>1 DEF Printed, LengthOf
  <2> QED
    BY <2>1, <2>3, <2>4 DEF ResponseInv, Sequence
<1>11. ASSUME throwInGeneration PROVE ResponseInv'
  <2>1. /\ stage = "generate" /\ Report /\ UNCHANGED <<requests, inputs, ss>>
    BY <1>11 DEF throwInGeneration, Requested
  <2>2. ss' = <<>> /\ Sequence(ss)'
    BY <2>1 DEF ResponseInv, Sequence
  <2> QED
    BY <1>1, <2>1, <2>2, ResponseDone DEF Report
<1>12. ASSUME stream PROVE ResponseInv'
  <2>1. /\ stage = "run" /\ ss' = printed(ss) /\ first' = FALSE
        /\ UNCHANGED <<requests, inputs, at, stage>>
    BY <1>12 DEF stream, Requested
  <2>2. Sequence(ss) /\ Listed(at) /\ \E m \in Nat : Printed(m)
    BY <2>1 DEF ResponseInv
  <2>3. PICK m \in Nat : Printed(m)
    BY <2>2
  <2>4. Sequence(ss)' /\ Listed(at)' /\ Printed(m + 1)'
    BY <2>1, <2>2, <2>3, StreamPrints
  <2> QED
    BY <2>1, <2>4 DEF ResponseInv
<1>13. ASSUME finishStatement PROVE ResponseInv'
  <2>1. /\ stage = "run" /\ Streamed = inputs[at].rows /\ at' = at + 1 /\ stage' = "next"
        /\ columns' \in {at, Unspecified} /\ UNCHANGED <<requests, inputs, ss>>
    BY <1>13 DEF finishStatement, Statement, nameColumns, Requested
  <2>2. Sequence(ss)' /\ Listed(at) /\ \E m \in Nat : Printed(m)
    BY <2>1 DEF ResponseInv, Sequence
  <2>3. Len(ss') = LengthOf(inputs[at].rows)
    BY <2>1, <2>2 DEF Printed
  <2> QED
    BY <1>1, <2>1, <2>2, <2>3, ResponseDone DEF Listed
<1>14. ASSUME respond PROVE ResponseInv'
  BY <1>2, <1>14 DEF respond
<1>15. ASSUME UNCHANGED vars PROVE ResponseInv'
  BY <1>15, ResponseKept DEF vars, serverVars
<1> QED
  BY <1>4, <1>5, <1>6, <1>7, <1>8, <1>9, <1>10, <1>11, <1>12, <1>13, <1>14, <1>15 DEF Next

(***************************************************************************)
(* However many statements a request has and whichever of them stream      *)
(* tuples or throw, the tuples of its response are those of the last one,  *)
(* none missing unless it was reported as failed, and without a report so  *)
(* are the columns (server.cpp, onRequest).                                *)
(***************************************************************************)
THEOREM ResponseFollowsTheLastStatement == Spec => []ResponseIsOfTheLastStatement
<1>1. ProgressInv /\ ResponseInv => ResponseIsOfTheLastStatement
  <2> SUFFICES ASSUME ProgressInv, ResponseInv, at > 0, Finished, HasStatement
               PROVE  LastStatement \in DOMAIN inputs /\ ResponseOf(LastStatement)
    BY DEF ResponseIsOfTheLastStatement, ResponseOf, Listed, LengthOf
  <2>1. PICK n \in Nat : DOMAIN inputs = 1 .. n /\ at \in Nat /\ at > n
    BY DEF ProgressInv, Finished
  <2>2. PICK i \in 1 .. n : inputs[i] # NoInput
    BY <2>1 DEF HasStatement
  <2>3. \E k \in DOMAIN inputs :
           inputs[k] # NoInput /\ \A j \in DOMAIN inputs : inputs[j] # NoInput => j <= k
    <3> DEFINE S == {d \in 0 .. n - 1 : inputs[n - d] # NoInput}
    <3>1. S \in SUBSET Nat /\ n - i \in S
      BY <2>2
    <3>2. PICK d \in S : \A e \in S : d <= e
      <4> HIDE DEF S
      <4> QED
        BY <3>1, LeastNumber
    <3>3. ASSUME NEW j \in 1 .. n, inputs[j] # NoInput PROVE j <= n - d
      <4>1. n - j \in S
        <5>1. n - j \in 0 .. n - 1 /\ n - (n - j) = j
          OBVIOUS
        <5> QED
          BY <3>3, <5>1
      <4>2. d \in Nat /\ d <= n - j
        <5> HIDE DEF S
        <5> QED
          BY <3>1, <3>2, <4>1
      <4> QED
        BY <4>2
    <3> QED
      BY <2>1, <3>3
  <2>4. /\ LastStatement \in DOMAIN inputs /\ inputs[LastStatement] # NoInput
        /\ \A j \in DOMAIN inputs : inputs[j] # NoInput => j <= LastStatement
    BY <2>3 DEF LastStatement
  <2>5. LastBefore(LastStatement, at)
    BY <2>1, <2>4 DEF LastBefore
  <2>6. stage = "next"
    BY <2>1 DEF ProgressInv
  <2> QED
    BY <2>4, <2>5, <2>6 DEF ResponseInv
<1>2. Init => ResponseInv
  <2> SUFFICES ASSUME Init PROVE ResponseInv
    OBVIOUS
  <2>1. <<>> \in Seq({})
    OBVIOUS
  <2>2. ss = <<>> /\ inputs = <<>> /\ stage = "next" /\ DOMAIN inputs = {}
    BY DEF Init
  <2> QED
    BY <2>1, <2>2 DEF ResponseInv, Sequence
<1> QED
  BY <1>1, <1>2, InitPipeline, NextProgress, NextResponse, PTL DEF Spec, vars
=============================================================================
